-------------------------- MODULE Document_proofs --------------------------
(***************************************************************************)
(* What is proved of the life of documents, for any number of documents,   *)
(* texts, values of the flags, and calls to the system that fail.          *)
(***************************************************************************)
EXTENDS Document, FiniteSetTheorems, TLAPS

\* struct _root_id with any descriptor, and with no comparison functions yet.
Struct(fds, compares) ==
    [state : {"open"}, text : Texts, fd : fds, len : Nat,
     flags : SUBSET Modes, strncmp : compares,
     lcase : {"NULL", "tolower_l"}, node : BOOLEAN, info : BOOLEAN,
     locale : BOOLEAN, cd : BOOLEAN]
Compares == {"strncmp", "strncasecmp"}
Descriptors == {0, MMAP_ERROR, MMAP_FREE, MMAP_FD}

CaseOK(d) ==
    /\ CASE_SENS \in d.flags <=> d.strncmp = "strncmp"
    /\ CASE_SENS \in d.flags <=> d.lcase = "NULL"

\* What the properties say of one document.
Life(d, h, p) ==
    /\ d \in {Absent} \cup Record \cup Gone
    /\ h \in SUBSET Resources /\ p \in SUBSET Nat
    /\ d.state = "new" => h = {} /\ p = {}
    /\ d.state = "open" =>
          /\ h = Owned(d) /\ CaseOK(d)
          /\ p = IF d.fd = MMAP_FD THEN PageSpan(Size[d.text]) ELSE {}
          /\ d.len = Size[d.text] - Declaration[d.text]
    /\ d.state = "closed" =>
          /\ h = {}
          /\ p \in {{}, PageSpan(Size[d.text]) \ PageSpan(Size[d.text] - Declaration[d.text])}
    /\ d.state \in {"noroot", "nomapping"} => h = {"fd"} /\ p = {}
    /\ d.state = "notscanned" =>
          /\ h \in SUBSET {"locale"}
          /\ p \in {{}, PageSpan(Size[d.text]) \ PageSpan(ScanCode[d.text])}

IInv ==
    /\ docs \in [Ids -> {Absent} \cup Record \cup Gone]
    /\ held \in [Ids -> SUBSET Resources] /\ pages \in [Ids -> SUBSET Nat]
    /\ \A i \in Ids : Life(docs[i], held[i], pages[i])
    /\ twice = {}
    /\ failures \in 0 .. MaxFailures /\ crashed \in BOOLEAN

-----------------------------------------------------------------------------
(* Flags. *)

\* Of the case flags the sensitive one wins, and the modes stay modes.
LEMMA CaseFlag ==
    ASSUME NEW flags
    PROVE /\ CASE_SENS \in TurnedOn(flags) <=> XML_CASE_SENSITIVE \in flags
          /\ CASE_SENS \in TurnedOff(flags) <=>
                XML_CASE_INSENSITIVE \in flags /\ XML_CASE_SENSITIVE \notin flags
          /\ TurnedOn(flags) \subseteq Modes
<1> DEFINE casePair == [mode |-> CASE_SENS, on |-> XML_CASE_SENSITIVE,
                        off |-> XML_CASE_INSENSITIVE, first |-> TRUE]
<1>1. casePair \in Pairs
  BY DEF Pairs
<1>2. \A p \in Pairs : p.mode = CASE_SENS => p = casePair
  BY DEF Pairs, ONE, NONE_VALUE, CASE_SENS, COMMENT, VALIDATE, CACHED, LOCAL_TEXT
<1>3. \A p \in Pairs : p.mode \in Modes
  BY DEF Pairs, Modes, ONE, NONE_VALUE, CASE_SENS, COMMENT, VALIDATE, CACHED, LOCAL_TEXT
<1>4. CASE_SENS \in TurnedOn(flags) <=> XML_CASE_SENSITIVE \in flags
  BY <1>1, <1>2 DEF TurnedOn
<1>5. CASE_SENS \in TurnedOff(flags) <=>
        XML_CASE_INSENSITIVE \in flags /\ XML_CASE_SENSITIVE \notin flags
  BY <1>1, <1>2 DEF TurnedOff
<1>6. TurnedOn(flags) \subseteq Modes
  BY <1>3 DEF TurnedOn
<1>7. QED
  BY <1>4, <1>5, <1>6

\* Setting flags changes the modes and the comparison functions only, keeps them
\* together, and puts them together when the sensitive case is asked for.
LEMMA SettingFlags ==
    ASSUME NEW fds, NEW rid \in Struct(fds, Compares \cup {"NULL"}), NEW flags,
           \/ XML_CASE_SENSITIVE \in flags
           \/ CaseOK(rid) /\ rid.strncmp \in Compares
    PROVE /\ WithFlags(rid, flags) \in Struct(fds, Compares)
          /\ CaseOK(WithFlags(rid, flags))
          /\ \A r \in {"state", "text", "fd", "len", "node", "info", "locale", "cd"} :
                WithFlags(rid, flags)[r] = rid[r]
<1> DEFINE new == WithFlags(rid, flags)
<1>1. /\ new.flags = (rid.flags \ TurnedOff(flags)) \cup TurnedOn(flags)
      /\ new.strncmp = IF XML_CASE_SENSITIVE \in flags THEN "strncmp"
                       ELSE IF XML_CASE_INSENSITIVE \in flags THEN "strncasecmp"
                       ELSE rid.strncmp
      /\ new.lcase = IF XML_CASE_SENSITIVE \in flags THEN "NULL"
                     ELSE IF XML_CASE_INSENSITIVE \in flags THEN "tolower_l"
                     ELSE rid.lcase
  BY DEF WithFlags, Struct
<1>2. new.flags \in SUBSET Modes /\ new.strncmp \in Compares /\ new.lcase \in {"NULL", "tolower_l"}
  BY <1>1, CaseFlag DEF Struct, Compares
<1>3. new = [rid EXCEPT !.flags = new.flags, !.strncmp = new.strncmp, !.lcase = new.lcase]
  BY DEF WithFlags, Struct
<1>4. CaseOK(new)
  BY <1>1, CaseFlag DEF CaseOK
<1> HIDE DEF new
<1>5. new \in Struct(fds, Compares)
  BY <1>2, <1>3 DEF Struct
<1>6. \A r \in {"state", "text", "fd", "len", "node", "info", "locale", "cd"} : new[r] = rid[r]
  BY <1>3 DEF Struct
<1>7. QED
  BY <1>4, <1>5, <1>6 DEF new

\* What calloc and the two settings of an open leave.
LEMMA FreshOK ==
    ASSUME NEW text \in Texts, NEW flags
    PROVE /\ Fresh(text, flags) \in Struct({0}, Compares)
          /\ CaseOK(Fresh(text, flags))
          /\ Fresh(text, flags).text = text /\ Fresh(text, flags).info = FALSE
<1> DEFINE blank == [state |-> "open", text |-> text, fd |-> 0, len |-> 0,
                     flags |-> {}, strncmp |-> "NULL", lcase |-> "NULL",
                     node |-> FALSE, info |-> FALSE, locale |-> FALSE, cd |-> FALSE]
           default == WithFlags(blank, XML_DEFAULT_FLAGS)
           more == IF flags = XML_DEFAULT_FLAGS THEN {} ELSE flags
<1>1. XML_CASE_SENSITIVE \in XML_DEFAULT_FLAGS
  BY DEF XML_CASE_SENSITIVE, XML_DEFAULT_FLAGS
<1>2. blank \in Struct({0}, Compares \cup {"NULL"})
  BY DEF Struct
<1>3. blank.text = text /\ blank.info = FALSE
  OBVIOUS
<1>4. Fresh(text, flags) = WithFlags(default, more)
  BY Zenon DEF Fresh
<1> HIDE DEF blank
<1>5. /\ default \in Struct({0}, Compares) /\ CaseOK(default)
      /\ default.text = text /\ default.info = FALSE
  BY <1>1, <1>2, <1>3, SettingFlags
<1> HIDE DEF default, more
<1>6. default \in Struct({0}, Compares \cup {"NULL"}) /\ default.strncmp \in Compares
  BY <1>5 DEF Struct
<1>7. Fresh(text, flags) \in Struct({0}, Compares) /\ CaseOK(Fresh(text, flags))
  BY <1>4, <1>5, <1>6, SettingFlags
<1>8. \A r \in {"text", "info"} : Fresh(text, flags)[r] = default[r]
  BY <1>4, <1>5, <1>6, SettingFlags
<1>9. QED
  BY <1>5, <1>7, <1>8

-----------------------------------------------------------------------------
(* Failures and pages. *)

\* The calls that fail are counted with a number.
LEMMA FailedType ==
    ASSUME NEW luck \in Luck
    PROVE Failed(luck) \in Nat
<1>1. DOMAIN luck = {"name", "locale", "node", "info"}
  BY DEF Luck
<1>2. IsFiniteSet({"name", "locale", "node", "info"})
  <2>1. IsFiniteSet({} \cup {"name"})
    BY FS_EmptySet, FS_AddElement
  <2>2. IsFiniteSet(({} \cup {"name"}) \cup {"locale"})
    BY <2>1, FS_AddElement
  <2>3. IsFiniteSet((({} \cup {"name"}) \cup {"locale"}) \cup {"node"})
    BY <2>2, FS_AddElement
  <2>4. IsFiniteSet(((({} \cup {"name"}) \cup {"locale"}) \cup {"node"}) \cup {"info"})
    BY <2>3, FS_AddElement
  <2>5. {"name", "locale", "node", "info"}
           = ((({} \cup {"name"}) \cup {"locale"}) \cup {"node"}) \cup {"info"}
    OBVIOUS
  <2>6. QED
    BY <2>4, <2>5
<1>3. IsFiniteSet({c \in DOMAIN luck : ~luck[c]})
  BY <1>1, <1>2, FS_Subset
<1>4. QED
  BY <1>3, FS_CardinalityType DEF Failed

\* Mishaps keep the count within its bound.
LEMMA MishapsBounded ==
    ASSUME failures \in 0 .. MaxFailures, NEW n \in Nat, Mishaps(n)
    PROVE failures' \in 0 .. MaxFailures
BY DocumentAssumption DEF Mishaps

\* Pages are numbers, and no page is needed for nothing.
LEMMA PagesType ==
    ASSUME NEW bytes \in Nat
    PROVE PageSpan(bytes) \in SUBSET Nat
BY DEF PageSpan

\* A step changes one document, which is well afterwards, releases nothing that is
\* not held, and keeps the count of failures.
LEMMA OneChanges ==
    ASSUME IInv, NEW i \in Ids, NEW d, NEW h, NEW p,
           docs' = [docs EXCEPT ![i] = d],
           held' = [held EXCEPT ![i] = h],
           pages' = [pages EXCEPT ![i] = p],
           Life(d, h, p), twice' = {},
           failures' \in 0 .. MaxFailures, crashed' \in BOOLEAN
    PROVE IInv'
<1>1. /\ docs' \in [Ids -> {Absent} \cup Record \cup Gone]
      /\ held' \in [Ids -> SUBSET Resources] /\ pages' \in [Ids -> SUBSET Nat]
  BY DEF IInv, Life
<1>2. ASSUME NEW k \in Ids
      PROVE Life(docs'[k], held'[k], pages'[k])
  <2>1. CASE k = i
    BY <2>1 DEF IInv
  <2>2. CASE k # i
    BY <2>2 DEF IInv
  <2>3. QED
    BY <2>1, <2>2
<1>3. QED
  BY <1>1, <1>2 DEF IInv

\* A crash changes nothing but the process.
LEMMA CrashKeeps ==
    ASSUME IInv, Crash, failures' \in 0 .. MaxFailures
    PROVE IInv'
BY DEF IInv, Crash

-----------------------------------------------------------------------------
(* Opening. *)

\* A document that is not there yet holds nothing.
LEMMA ReadyHoldsNothing ==
    ASSUME IInv, NEW i \in Ids, Ready(i)
    PROVE held[i] = {} /\ pages[i] = {}
BY DEF IInv, Ready, Life

LEMMA OpenNoRootKeeps ==
    ASSUME IInv, NEW i \in Ids, NEW text \in Texts, OpenNoRoot(i, text)
    PROVE IInv'
<1> DEFINE gone == [state |-> "noroot", text |-> text]
<1>1. held[i] = {} /\ pages[i] = {}
  BY ReadyHoldsNothing DEF OpenNoRoot
<1>2. /\ docs' = [docs EXCEPT ![i] = gone]
      /\ pages' = [pages EXCEPT ![i] = {}]
  BY <1>1 DEF OpenNoRoot, GivenUp, IInv
<1>3. held' = [held EXCEPT ![i] = {"fd"}] /\ twice' = {}
  BY <1>1 DEF OpenNoRoot, Exchange, IInv
<1>4. failures' \in 0 .. MaxFailures /\ crashed' \in BOOLEAN
  BY MishapsBounded DEF OpenNoRoot, IInv
<1>5. Life(gone, {"fd"}, {})
  BY DEF Life, Gone, Resources
<1>6. QED
  BY <1>2, <1>3, <1>4, <1>5, OneChanges

LEMMA OpenNoMappingKeeps ==
    ASSUME IInv, NEW i \in Ids, NEW text \in Texts, OpenNoMapping(i, text)
    PROVE IInv'
<1> DEFINE gone == [state |-> "nomapping", text |-> text]
<1>1. held[i] = {} /\ pages[i] = {}
  BY ReadyHoldsNothing DEF OpenNoMapping
<1>2. /\ docs' = [docs EXCEPT ![i] = gone]
      /\ pages' = [pages EXCEPT ![i] = {}]
  BY <1>1 DEF OpenNoMapping, GivenUp, IInv
<1>3. held' = [held EXCEPT ![i] = {"fd"}] /\ twice' = {}
  BY <1>1 DEF OpenNoMapping, Exchange, IInv
<1>4. failures' \in 0 .. MaxFailures /\ crashed' \in BOOLEAN
  BY MishapsBounded DEF OpenNoMapping, IInv
<1>5. Life(gone, {"fd"}, {})
  BY DEF Life, Gone, Resources
<1>6. QED
  BY <1>2, <1>3, <1>4, <1>5, OneChanges

LEMMA OpenNotScannedKeeps ==
    ASSUME IInv, NEW i \in Ids, NEW text \in Texts, NEW flags, NEW luck \in Luck,
           OpenNotScanned(i, text, flags, luck)
    PROVE IInv'
<1> DEFINE rid == Fresh(text, flags)
           gone == [state |-> "notscanned", text |-> text]
           got == Acquired(luck, rid) \cup {"fd"}
                      \cup (IF luck.info THEN {"info"} ELSE {})
           dropped == ({"fd"} \cup DroppedOnError)
                          \ {r \in {"node", "info", "name"} : ~luck[r]}
           left == PageSpan(Size[text]) \ UnmappedOnError(text)
<1>1. held[i] = {}
  BY ReadyHoldsNothing DEF OpenNotScanned
<1>2. CACHED \in rid.flags
  BY DEF OpenNotScanned, Scans
<1>3. luck.name \in BOOLEAN /\ luck.node \in BOOLEAN /\ luck.info \in BOOLEAN
  BY DEF Luck
<1>4. Acquired(luck, rid) = {"rid"} \cup (IF luck.name THEN {"name"} ELSE {})
          \cup (IF luck.locale /\ luck.name THEN {"locale"} ELSE {})
          \cup (IF luck.node THEN {"node"} ELSE {})
  BY <1>2 DEF Acquired
<1>5. Exchange(i, got, dropped)
  BY DEF OpenNotScanned
<1>6. docs' = [docs EXCEPT ![i] = gone] /\ pages' = [pages EXCEPT ![i] = left]
  BY DEF OpenNotScanned, GivenUp
<1>7. failures' \in 0 .. MaxFailures /\ crashed' \in BOOLEAN
  BY FailedType, MishapsBounded DEF OpenNotScanned, IInv
<1> HIDE DEF rid
<1>8. dropped \subseteq got
  BY <1>3, <1>4 DEF DroppedOnError
<1>9. got \ dropped \in SUBSET {"locale"}
  BY <1>3, <1>4 DEF DroppedOnError
<1>10. /\ left \in SUBSET Nat
       /\ left = PageSpan(Size[text]) \ PageSpan(ScanCode[text])
  BY PagesType, DocumentAssumption DEF UnmappedOnError
<1> HIDE DEF got, dropped, left
<1>11. held' = [held EXCEPT ![i] = got \ dropped]
  BY <1>1, <1>5 DEF Exchange
<1>12. twice' = {}
  BY <1>1, <1>5, <1>8 DEF Exchange, IInv
<1>13. Life(gone, got \ dropped, left)
  BY <1>9, <1>10 DEF Life, Gone, Resources
<1>14. QED
  BY <1>6, <1>7, <1>11, <1>12, <1>13, OneChanges

LEMMA BufferNotScannedKeeps ==
    ASSUME IInv, NEW i \in Ids, NEW text \in Texts, NEW flags, NEW luck \in Luck,
           BufferNotScanned(i, text, flags, luck)
    PROVE IInv'
<1> DEFINE rid == Fresh(text, flags)
           gone == [state |-> "notscanned", text |-> text]
           got == Acquired(luck, rid) \cup (IF luck.info THEN {"info"} ELSE {})
           dropped == DroppedOnError \ {r \in {"node", "info", "name"} : ~luck[r]}
<1>1. held[i] = {} /\ pages[i] = {}
  BY ReadyHoldsNothing DEF BufferNotScanned
<1>2. CACHED \in rid.flags
  BY DEF BufferNotScanned, Scans
<1>3. luck.name \in BOOLEAN /\ luck.node \in BOOLEAN /\ luck.info \in BOOLEAN
  BY DEF Luck
<1>4. Acquired(luck, rid) = {"rid"} \cup (IF luck.name THEN {"name"} ELSE {})
          \cup (IF luck.locale /\ luck.name THEN {"locale"} ELSE {})
          \cup (IF luck.node THEN {"node"} ELSE {})
  BY <1>2 DEF Acquired
<1>5. Exchange(i, got, dropped)
  BY DEF BufferNotScanned
<1>6. docs' = [docs EXCEPT ![i] = gone] /\ pages' = [pages EXCEPT ![i] = {}]
  BY <1>1 DEF BufferNotScanned, GivenUp, IInv
<1>7. failures' \in 0 .. MaxFailures /\ crashed' \in BOOLEAN
  BY FailedType, MishapsBounded DEF BufferNotScanned, IInv
<1> HIDE DEF rid
<1>8. dropped \subseteq got
  BY <1>3, <1>4 DEF DroppedOnError
<1>9. got \ dropped \in SUBSET {"locale"}
  BY <1>3, <1>4 DEF DroppedOnError
<1> HIDE DEF got, dropped
<1>10. held' = [held EXCEPT ![i] = got \ dropped]
  BY <1>1, <1>5 DEF Exchange
<1>11. twice' = {}
  BY <1>1, <1>5, <1>8 DEF Exchange, IInv
<1>12. Life(gone, got \ dropped, {})
  BY <1>9 DEF Life, Gone, Resources
<1>13. QED
  BY <1>6, <1>7, <1>10, <1>11, <1>12, OneChanges

\* A document that is handed out holds what its struct points to.
LEMMA HandOutKeeps ==
    ASSUME IInv, NEW i \in Ids, NEW text \in Texts, NEW flags, NEW luck \in Luck,
           NEW fd \in {MMAP_ERROR, MMAP_FREE, MMAP_FD}, NEW got, NEW mapped,
           Ready(i), luck.name,
           got = IF fd = MMAP_FREE THEN {"text"} ELSE IF fd = MMAP_FD THEN {"fd"} ELSE {},
           mapped = IF fd = MMAP_FD THEN PageSpan(Size[text]) ELSE {},
           HandOut(i, Fresh(text, flags), luck, fd, got),
           pages' = [pages EXCEPT ![i] = mapped],
           failures' \in 0 .. MaxFailures, crashed' \in BOOLEAN
    PROVE IInv'
<1> DEFINE rid == Fresh(text, flags)
           New(cd) == [rid EXCEPT !.fd = fd, !.cd = cd,
                          !.len = Size[rid.text] - Declaration[rid.text],
                          !.node = luck.node /\ CACHED \in rid.flags,
                          !.locale = luck.locale]
           all(cd) == got \cup Acquired(luck, rid) \cup (IF cd THEN {"cd"} ELSE {})
<1>1. PICK cd \in BOOLEAN : docs' = [docs EXCEPT ![i] = New(cd)] /\ Exchange(i, all(cd), {"name"})
  BY DEF HandOut
<1> DEFINE new == New(cd)
<1>2. /\ rid \in Struct({0}, Compares) /\ CaseOK(rid) /\ rid.text = text /\ rid.info = FALSE
  BY FreshOK
<1>3. luck.node \in BOOLEAN /\ luck.locale \in BOOLEAN
  BY DEF Luck
<1> HIDE DEF rid
<1>4. Size[text] - Declaration[text] \in Nat
  BY DocumentAssumption
<1>5. /\ new \in Record /\ new.state = "open" /\ new.text = text /\ new.fd = fd
      /\ new.info = FALSE /\ new.cd = cd /\ new.locale = luck.locale
      /\ new.node = (luck.node /\ CACHED \in rid.flags)
      /\ new.len = Size[text] - Declaration[text]
  BY <1>2, <1>3, <1>4 DEF Record, Struct, Compares
<1>6. CaseOK(new)
  BY <1>2 DEF CaseOK, Struct
<1>7. held[i] = {}
  BY ReadyHoldsNothing
<1>8. mapped \in SUBSET Nat
  BY PagesType, DocumentAssumption
<1> HIDE DEF new
<1>9. all(cd) \ {"name"} = Owned(new)
  <2>1. (CASE new.fd = MMAP_FREE -> {"text"} [] new.fd = MMAP_FD -> {"fd"} [] OTHER -> {})
           = got
    BY <1>5 DEF MMAP_FREE, MMAP_FD, MMAP_ERROR
  <2>2. {r \in {"node", "info", "cd", "locale"} : new[r]}
           = (IF cd THEN {"cd"} ELSE {}) \cup (IF luck.locale THEN {"locale"} ELSE {})
                \cup (IF luck.node /\ CACHED \in rid.flags THEN {"node"} ELSE {})
    BY <1>3, <1>5
  <2>3. Owned(new) = {"rid"} \cup {r \in {"node", "info", "cd", "locale"} : new[r]} \cup got
    BY <2>1, Zenon DEF Owned
  <2>4. got \in SUBSET {"text", "fd"}
    OBVIOUS
  <2>5. Acquired(luck, rid) = {"rid", "name"}
           \cup (IF luck.locale THEN {"locale"} ELSE {})
           \cup (IF luck.node /\ CACHED \in rid.flags THEN {"node"} ELSE {})
    BY <1>3 DEF Acquired
  <2>6. QED
    BY <2>2, <2>3, <2>4, <2>5
<1>10. "name" \in all(cd)
  BY DEF Acquired
<1>11. Owned(new) \in SUBSET Resources
  BY <1>5 DEF Owned, Resources, MMAP_FREE, MMAP_FD, MMAP_ERROR
<1> HIDE DEF all
<1>12. held' = [held EXCEPT ![i] = Owned(new)] /\ twice' = {}
  BY <1>1, <1>7, <1>9, <1>10 DEF Exchange, IInv
<1>13. Life(new, Owned(new), mapped)
  BY <1>5, <1>6, <1>8, <1>11 DEF Life
<1>14. docs' = [docs EXCEPT ![i] = new]
  BY <1>1 DEF new
<1>15. QED
  BY <1>12, <1>13, <1>14, OneChanges

LEMMA OpenDoneKeeps ==
    ASSUME IInv, NEW i \in Ids, NEW text \in Texts, NEW flags, NEW luck \in Luck,
           OpenDone(i, text, flags, luck)
    PROVE IInv'
<1>1. Ready(i) /\ failures' \in 0 .. MaxFailures
  BY FailedType, MishapsBounded DEF OpenDone, IInv
<1>2. CASE luck.name
  <2>1. /\ HandOut(i, Fresh(text, flags), luck, MMAP_FD, {"fd"})
        /\ pages' = [pages EXCEPT ![i] = PageSpan(Size[text])] /\ UNCHANGED crashed
    BY <1>2 DEF OpenDone
  <2>2. MMAP_FD # MMAP_FREE
    BY DEF MMAP_FD, MMAP_FREE
  <2>3. QED
    BY <1>1, <1>2, <2>1, <2>2, HandOutKeeps DEF IInv
<1>3. CASE ~luck.name
  BY <1>1, <1>3, CrashKeeps DEF OpenDone
<1>4. QED
  BY <1>2, <1>3

LEMMA BufferDoneKeeps ==
    ASSUME IInv, NEW i \in Ids, NEW text \in Texts, NEW flags, NEW luck \in Luck,
           BufferDone(i, text, flags, luck)
    PROVE IInv'
<1>1. Ready(i) /\ failures' \in 0 .. MaxFailures
  BY FailedType, MishapsBounded DEF BufferDone, IInv
<1>2. CASE luck.name
  <2>1. HandOut(i, Fresh(text, flags), luck, MMAP_ERROR, {}) /\ UNCHANGED <<pages, crashed>>
    BY <1>2 DEF BufferDone
  <2>2. pages' = [pages EXCEPT ![i] = {}]
    BY <1>1, <2>1, ReadyHoldsNothing DEF IInv
  <2>3. MMAP_ERROR # MMAP_FREE /\ MMAP_ERROR # MMAP_FD
    BY DEF MMAP_FD, MMAP_FREE, MMAP_ERROR
  <2>4. QED
    BY <1>1, <1>2, <2>1, <2>2, <2>3, HandOutKeeps DEF IInv
<1>3. CASE ~luck.name
  BY <1>1, <1>3, CrashKeeps DEF BufferDone
<1>4. QED
  BY <1>2, <1>3

\* The copy is a document of its own: the one it is taken from is not touched.
LEMMA CopyDoneKeeps ==
    ASSUME IInv, NEW i \in Ids, NEW j \in Ids, NEW text \in Texts, NEW luck \in Luck,
           CopyDone(i, j, text, luck)
    PROVE IInv'
<1>1. /\ Ready(j) /\ luck.name /\ UNCHANGED <<pages, crashed>>
      /\ HandOut(j, Fresh(text, docs[i].flags), luck, MMAP_FREE, {"text"})
  BY DEF CopyDone, OwnText
<1>2. failures' \in 0 .. MaxFailures
  BY FailedType, MishapsBounded DEF CopyDone, IInv
<1>3. pages' = [pages EXCEPT ![j] = {}]
  BY <1>1, ReadyHoldsNothing DEF IInv
<1>4. MMAP_FREE # MMAP_FD
  BY DEF MMAP_FD, MMAP_FREE
<1>5. QED
  BY <1>1, <1>2, <1>3, <1>4, HandOutKeeps DEF IInv

-----------------------------------------------------------------------------
(* Using and closing. *)

\* What is known of a document that is open.
LEMMA OpenKnown ==
    ASSUME IInv, NEW i \in Ids, Open(i)
    PROVE /\ docs[i] \in Record /\ held[i] = Owned(docs[i]) /\ CaseOK(docs[i])
          /\ held[i] \in SUBSET Resources /\ pages[i] \in SUBSET Nat
          /\ pages[i] = IF docs[i].fd = MMAP_FD THEN PageSpan(Size[docs[i].text]) ELSE {}
          /\ docs[i].len = Size[docs[i].text] - Declaration[docs[i].text]
<1>1. docs[i] \in {Absent} \cup Record \cup Gone /\ docs[i].state = "open"
  BY DEF IInv, Open
<1>2. docs[i] \in Record
  BY <1>1 DEF Absent, Gone
<1>3. Life(docs[i], held[i], pages[i])
  BY DEF IInv
<1>4. QED
  BY <1>1, <1>2, <1>3 DEF Life

LEMMA SetFlagsKeeps ==
    ASSUME IInv, NEW i \in Ids, NEW flags, xmlSetFlags(i, flags)
    PROVE IInv'
<1> DEFINE new == WithFlags(docs[i], flags)
<1>1. Open(i)
  BY DEF xmlSetFlags
<1>2. docs[i] \in Record /\ CaseOK(docs[i])
  BY <1>1, OpenKnown
<1>3. docs[i] \in Struct({MMAP_ERROR, MMAP_FREE, MMAP_FD}, Compares \cup {"NULL"})
      /\ docs[i].strncmp \in Compares
  BY <1>2 DEF Record, Struct, Compares
<1>4. /\ new \in Struct({MMAP_ERROR, MMAP_FREE, MMAP_FD}, Compares) /\ CaseOK(new)
      /\ \A r \in {"state", "text", "fd", "len", "node", "info", "locale", "cd"} :
            new[r] = docs[i][r]
  BY <1>2, <1>3, SettingFlags
<1>5. docs' = [docs EXCEPT ![i] = new]
  BY DEF xmlSetFlags
<1> HIDE DEF new
<1>6. new \in Record /\ new.state = "open"
  BY <1>4 DEF Record, Struct, Compares
<1>7. Owned(new) = Owned(docs[i])
  BY <1>4, Zenon DEF Owned
<1>8. Life(new, held[i], pages[i])
  BY <1>1, <1>4, <1>6, <1>7, OpenKnown DEF Life
<1>9. held' = [held EXCEPT ![i] = held[i]] /\ pages' = [pages EXCEPT ![i] = pages[i]]
  BY DEF xmlSetFlags, IInv
<1>10. twice' = {} /\ failures' \in 0 .. MaxFailures /\ crashed' \in BOOLEAN
  BY DEF xmlSetFlags, IInv
<1>11. QED
  BY <1>5, <1>8, <1>9, <1>10, OneChanges

LEMMA MeetsErrorKeeps ==
    ASSUME IInv, NEW i \in Ids, MeetsError(i)
    PROVE IInv'
<1> DEFINE new == [docs[i] EXCEPT !.info = TRUE]
<1>1. Open(i)
  BY DEF MeetsError
<1>2. docs[i] \in Record /\ CaseOK(docs[i]) /\ held[i] = Owned(docs[i])
  BY <1>1, OpenKnown
<1>3. docs' = [docs EXCEPT ![i] = new]
  BY DEF MeetsError
<1>4. /\ new \in Record /\ new.state = "open" /\ new.info = TRUE
      /\ \A r \in {"text", "fd", "len", "node", "cd", "locale", "flags", "strncmp", "lcase"} :
            new[r] = docs[i][r]
  BY <1>2 DEF Record
<1> HIDE DEF new
<1>5. CaseOK(new)
  BY <1>2, <1>4 DEF CaseOK
<1>6. Owned(new) = Owned(docs[i]) \cup {"info"}
  BY <1>4 DEF Owned
<1>7. Owned(new) \in SUBSET Resources
  BY <1>1, <1>2, <1>6, OpenKnown DEF Resources
<1>8. Life(new, Owned(new), pages[i])
  BY <1>1, <1>4, <1>5, <1>7, OpenKnown DEF Life
<1>9. held' = [held EXCEPT ![i] = Owned(new)] /\ twice' = {}
  BY <1>2, <1>6 DEF MeetsError, Exchange, IInv
<1>10. /\ pages' = [pages EXCEPT ![i] = pages[i]]
       /\ failures' \in 0 .. MaxFailures /\ crashed' \in BOOLEAN
  BY DEF MeetsError, IInv
<1>11. QED
  BY <1>3, <1>8, <1>9, <1>10, OneChanges

\* xmlClose releases exactly what the document owns, and of a file every page that
\* the length without the XML declaration reaches.
LEMMA CloseKeeps ==
    ASSUME IInv, NEW i \in Ids, xmlClose(i)
    PROVE IInv'
<1> DEFINE d == docs[i]
           gone == [state |-> "closed", text |-> d.text]
           left == IF d.fd \notin {MMAP_FREE, MMAP_ERROR}
                   THEN pages[i] \ PageSpan(d.len) ELSE pages[i]
<1>1. Open(i) /\ Exchange(i, {}, ClosedWith(d))
  BY DEF xmlClose
<1>2. d \in Record /\ held[i] = Owned(d)
  BY <1>1, OpenKnown
<1>3. ClosedWith(d) = Owned(d)
  BY <1>2 DEF ClosedWith, Owned, Record, MMAP_FD, MMAP_FREE, MMAP_ERROR
<1>4. held' = [held EXCEPT ![i] = {}] /\ twice' = {}
  BY <1>1, <1>2, <1>3 DEF Exchange, IInv
<1>5. docs' = [docs EXCEPT ![i] = gone] /\ pages' = [pages EXCEPT ![i] = left]
  BY DEF xmlClose, GivenUp, IInv
<1>6. failures' \in 0 .. MaxFailures /\ crashed' \in BOOLEAN
  BY DEF xmlClose, IInv
<1>7. left \in SUBSET Nat
  BY <1>1, OpenKnown
<1>8. left \in {{}, PageSpan(Size[d.text]) \ PageSpan(Size[d.text] - Declaration[d.text])}
  <2>1. CASE d.fd = MMAP_FD
    <3>1. d.len = Size[d.text] - Declaration[d.text] /\ pages[i] = PageSpan(Size[d.text])
      BY <1>1, <2>1, OpenKnown
    <3>2. left = PageSpan(Size[d.text]) \ PageSpan(Size[d.text] - Declaration[d.text])
      BY <2>1, <3>1 DEF MMAP_FD, MMAP_FREE, MMAP_ERROR
    <3>3. QED
      BY <3>2
  <2>2. CASE d.fd # MMAP_FD
    <3>1. pages[i] = {}
      BY <1>1, <2>2, OpenKnown
    <3>2. QED
      BY <3>1
  <2>3. QED
    BY <2>1, <2>2
<1>9. Life(gone, {}, left)
  BY <1>2, <1>7, <1>8 DEF Life, Gone, Record, Resources
<1>10. QED
  BY <1>4, <1>5, <1>6, <1>9, OneChanges

-----------------------------------------------------------------------------
(* The invariant, and what it says. *)

THEOREM InitIInv == Init => IInv
<1>1. ASSUME NEW i \in Ids
      PROVE Life(Absent, {}, {})
  BY DEF Life, Absent
<1>2. ASSUME Init
      PROVE IInv
  <2>1. docs \in [Ids -> {Absent} \cup Record \cup Gone]
    BY <1>2 DEF Init
  <2>2. held \in [Ids -> SUBSET Resources] /\ pages \in [Ids -> SUBSET Nat]
    BY <1>2 DEF Init
  <2>3. \A i \in Ids : Life(docs[i], held[i], pages[i])
    BY <1>1, <1>2 DEF Init
  <2>4. twice = {} /\ failures \in 0 .. MaxFailures /\ crashed \in BOOLEAN
    <3>1. twice = {} /\ failures = 0 /\ crashed = FALSE
      BY <1>2, Zenon DEF Init
    <3>2. 0 \in 0 .. MaxFailures
      BY DocumentAssumption
    <3>3. QED
      BY <3>1, <3>2
  <2>5. QED
    BY <2>1, <2>2, <2>3, <2>4 DEF IInv
<1>3. QED
  BY <1>2

\* One step per operation of the library.
THEOREM NextIInv == IInv /\ [Next]_vars => IInv'
<1> SUFFICES ASSUME IInv, [Next]_vars
             PROVE IInv'
  OBVIOUS
<1>1. CASE UNCHANGED vars
  BY <1>1 DEF vars, IInv
<1>2. ASSUME NEW i \in Ids, OpenNoLocale(i)
      PROVE IInv'
  <2>1. failures' \in 0 .. MaxFailures
    BY <1>2, MishapsBounded DEF OpenNoLocale, IInv
  <2>2. QED
    BY <1>2, <2>1, CrashKeeps DEF OpenNoLocale
<1>3. ASSUME NEW i \in Ids, NEW text \in Texts, CopyNotScanned(i, text)
      PROVE IInv'
  BY <1>3, CrashKeeps DEF CopyNotScanned, IInv
<1>4. ASSUME NEW i \in Ids, CopyNoMemory(i)
      PROVE IInv'
  <2>1. failures' \in 0 .. MaxFailures
    BY <1>4, MishapsBounded DEF CopyNoMemory, IInv
  <2>2. QED
    BY <1>4, <2>1 DEF CopyNoMemory, IInv
<1>5. ASSUME NEW i \in Ids, CopyUnlucky(i)
      PROVE IInv'
  <2>1. failures' \in 0 .. MaxFailures
    BY <1>5, MishapsBounded DEF CopyUnlucky, IInv
  <2>2. QED
    BY <1>5, <2>1, CrashKeeps DEF CopyUnlucky
<1>6. ASSUME NEW i \in Ids, NEW text \in Texts, NEW luck \in Luck, NEW flags \in FlagSets,
             \/ OpenNotScanned(i, text, flags, luck) \/ OpenDone(i, text, flags, luck)
             \/ BufferNotScanned(i, text, flags, luck) \/ BufferDone(i, text, flags, luck)
      PROVE IInv'
  BY <1>6, OpenNotScannedKeeps, OpenDoneKeeps, BufferNotScannedKeeps, BufferDoneKeeps
<1>7. CASE Next
  BY <1>2, <1>3, <1>4, <1>5, <1>6, <1>7, OpenNoRootKeeps, OpenNoMappingKeeps,
     CopyDoneKeeps, SetFlagsKeeps, MeetsErrorKeeps, CloseKeeps DEF Next
<1>8. QED
  BY <1>1, <1>7

\* IInv is inductive: it holds in every state that is reached.
THEOREM DocumentInvariant == Spec => []IInv
<1>1. QED
  BY InitIInv, NextIInv, PTL DEF Spec

\* xmlOpenFlags, xmlInitBufferFlags, xmlNodeCopy and xmlClose keep struct _root_id
\* and what is accounted for it well formed, whatever fails.
THEOREM DocumentType == Spec => []TypeOK
<1>1. IInv => TypeOK
  BY DEF IInv, TypeOK
<1>2. QED
  BY <1>1, DocumentInvariant, PTL

\* Nothing is freed or closed that is not held, for any number of documents,
\* copies and calls that fail.
THEOREM NothingTwice == Spec => []NoneTwice
<1>1. IInv => NoneTwice
  BY DEF IInv, NoneTwice
<1>2. QED
  BY <1>1, DocumentInvariant, PTL

\* An open document holds what its struct points to, and all pages of its file.
THEOREM OpenDocumentOwns == Spec => []OpenOwns
<1>1. IInv => OpenOwns
  BY DEF IInv, Life, OpenOwns
<1>2. QED
  BY <1>1, DocumentInvariant, PTL

\* xmlClose gives everything back, but for the pages of a file that the length without
\* the XML declaration does not reach.
THEOREM CloseGivesBack == Spec => []ClosedGivesBack
<1>1. IInv => ClosedGivesBack
  BY DEF IInv, Life, ClosedGivesBack
<1>2. QED
  BY <1>1, DocumentInvariant, PTL

\* What an open that returns NULL costs, and what it does not: the descriptor when
\* it had no memory or no mapping, the locale object and the pages that the error
\* number does not reach when it could not scan the text.
THEOREM FailureCost == Spec => []FailureCosts
<1>1. IInv => FailureCosts
  BY DEF IInv, Life, FailureCosts
<1>2. QED
  BY <1>1, DocumentInvariant, PTL

\* However flags are set and copied, the comparison functions follow CASE_SENS.
THEOREM CaseFollowsFlags == Spec => []CaseAgrees
<1>1. IInv => CaseAgrees
  BY DEF IInv, Life, CaseOK, CaseAgrees
<1>2. QED
  BY <1>1, DocumentInvariant, PTL
=============================================================================
