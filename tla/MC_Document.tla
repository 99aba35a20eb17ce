---------------------------- MODULE MC_Document ----------------------------
(* Two documents, a page of 8 bytes. *)
EXTENDS Document, TLC

\* "tree" is a file of two pages with an XML declaration, so that what is behind
\* the declaration is on one page less; its nodes have text and elements.
MCTexts == {"tree", "inner", "leaf", "empty", "broken"}
MCSize == [t \in MCTexts |-> CASE t = "tree" -> 18 [] t = "inner" -> 8
                               [] t = "leaf" -> 3 [] t = "empty" -> 0
                               [] OTHER -> 17]
MCDeclaration == [t \in MCTexts |-> IF t = "tree" THEN 4 ELSE 0]
MCScanCode == [t \in MCTexts |-> 9]    \* XML_ELEMENT_NO_CLOSING_TAG
MCParts == [t \in MCTexts |-> CASE t = "tree" -> {"inner", "leaf"}
                                [] t = "inner" -> {"leaf"} [] OTHER -> {}]

\* The default has both flags of every pair; the modes of the other are ones that
\* xmlNodeCopy takes for other flags.
MCFlagSets == {XML_DEFAULT_FLAGS, {XML_SCAN_NODES, XML_CASE_INSENSITIVE}}
\* No document is told from another.
Interchangeable == Permutations(Ids)
=============================================================================
