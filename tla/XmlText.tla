------------------------------ MODULE XmlText ------------------------------
(***************************************************************************)
(* XML documents as the library reads them: sequences of tokens with their *)
(* widths in characters, and what XML says about them (well-formedness,    *)
(* parents, contents).  The second half is the reference the scanner and   *)
(* the lookups are compared with; it is not derived from their code.       *)
(*                                                                         *)
(* A token is [kind, name].  "cut" is an opening tag and "cutblock" a      *)
(* comment the text ends in: both stand last only.  A leading processing   *)
(* instruction is the XML declaration, which is skipped before the scan.   *)
(***************************************************************************)
EXTENDS Integers, Sequences, SequencesExt, FiniteSetsExt

Width(tok) ==
    CASE tok.kind = "open"   -> Len(tok.name) + 2   \* <a>
      [] tok.kind = "close"  -> Len(tok.name) + 3   \* </a>
      [] tok.kind = "self"   -> Len(tok.name) + 3   \* <a/>
      [] tok.kind = "cut"    -> Len(tok.name) + 2   \* <a_
      [] tok.kind \in {"comment", "cutblock"} -> 8  \* <!--c-->, <!--cccc
      [] tok.kind = "cdata"  -> 13                  \* <![CDATA[c]]>
      [] tok.kind = "pi"     -> 10                  \* <?target?>
      [] OTHER               -> 2                   \* text

\* The offset of token i of document d, and the length of d.
Off(d, i) == FoldLeft(LAMBDA n, tok : n + Width(tok), 0, SubSeq(d, 1, i - 1))
Size(d) == Off(d, Len(d) + 1)

ElementKinds == {"open", "self"}
BlockKinds == {"comment", "cdata", "pi"}
Kinds == ElementKinds \cup BlockKinds \cup {"close", "cut", "cutblock", "text"}

-----------------------------------------------------------------------------
(* The reference. *)

\* The elements that are open behind token i, outermost first; ok says that no
\* closing tag was without its opening tag.
OpenAfter(d, i) ==
    FoldLeft(LAMBDA st, j :
                CASE d[j].kind = "open"  -> [st EXCEPT !.open = Append(@, j)]
                  [] d[j].kind = "close" ->
                        IF st.open # <<>> /\ d[Last(st.open)].name = d[j].name
                        THEN [st EXCEPT !.open = Front(@)]
                        ELSE [st EXCEPT !.ok = FALSE]
                  [] OTHER               -> st,
             [open |-> <<>>, ok |-> TRUE],
             [j \in 1 .. i |-> j])

Elements(d) == {i \in DOMAIN d : d[i].kind \in ElementKinds}

\* Every element is closed by its own name and nothing is cut off.
Balanced(d) ==
    /\ OpenAfter(d, Len(d)) = [open |-> <<>>, ok |-> TRUE]
    /\ \A i \in DOMAIN d : d[i].kind \notin {"cut", "cutblock"}

\* A document has an element, and text only inside of elements.
WellFormed(d) ==
    /\ Balanced(d) /\ Elements(d) # {}
    /\ \A i \in DOMAIN d :
          d[i].kind \in {"text", "cdata"} => OpenAfter(d, i).open # <<>>

\* The element token i is in, 0 at the top.
Parent(d, i) ==
    LET open == OpenAfter(d, i - 1).open
    IN IF open = <<>> THEN 0 ELSE Last(open)

CloseOf(d, i) ==
    Min({j \in DOMAIN d : j > i /\ d[j].kind = "close" /\ Parent(d, j) = i})

\* The tokens of a kind directly inside element p, in document order.
Inside(d, p, kinds) ==
    SetToSortSeq({i \in DOMAIN d : d[i].kind \in kinds /\ Parent(d, i) = p}, <)

\* A name of a path: "*" stands for every name, "?" for any one character.
NameIs(pattern, name) ==
    \/ pattern = <<"*">>
    \/ \E holes \in SUBSET DOMAIN name :
          pattern = [i \in DOMAIN name |-> IF i \in holes THEN "?" ELSE name[i]]

\* The text of an element between its tags; an empty element has none.
ContentLen(d, i) ==
    IF d[i].kind = "self" THEN 0 ELSE Off(d, CloseOf(d, i)) - Off(d, i + 1)
=============================================================================
