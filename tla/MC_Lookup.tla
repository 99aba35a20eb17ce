----------------------------- MODULE MC_Lookup -----------------------------
(* Small documents and paths for the lookups. *)
EXTENDS Lookup, MC_Scanner

\* Well-formed documents with comments and CDATA, at every place, two levels below
\* the root or between siblings.
CommentDocs ==
    {d \in Strings({tok("open", a), tok("close", a), tok("self", b)} \cup Blocks, 5) :
        /\ WellFormed(d)
        /\ Cardinality({i \in DOMAIN d : d[i] \in Blocks})
              \in 1 .. (IF Len(d) = 5 THEN 1 ELSE 2)}

\* Well-formed documents: two levels below the root, or siblings, with text.
PlainDocs ==
    {d \in Strings({tok("open", a), tok("close", a), tok("self", b), Text}, 5)
           \cup Strings({tok("open", a), tok("close", a), tok("open", aa),
                         tok("close", aa)}, 6) : WellFormed(d)}

Component == [name : {a, aa, b, AnyName}, index : {NoIndex, 0, 1, 2}]
             \cup {[name |-> <<"?">>, index |-> NoIndex]}
Plainly == [name : {a, aa, AnyName}, index : {NoIndex, 2}]
LookupPaths == {<<c>> : c \in Component}
               \cup {p \in Plainly \X Plainly : NoIndex \in {p[1].index, p[2].index}}
               \cup {<<[name |-> a, index |-> NoIndex], [name |-> a, index |-> NoIndex],
                       [name |-> AnyName, index |-> n]>> : n \in {NoIndex, 1, 2}}

\* Whether comments are nodes matters in the cache only.
ShortCommentDocs == {d \in CommentDocs : Len(d) < 5}
LookupCases ==
    Opens(PlainDocs \cup CommentDocs)
    \cup [doc : PlainDocs \cup ShortCommentDocs, req : {OpenRequest},
           mode : {[cached |-> FALSE, comments |-> TRUE]}]
    \cup [doc : ShortCommentDocs, req : {OpenRequest},
           mode : {[cached |-> TRUE, comments |-> FALSE]}]
CachedCases == Opens(PlainDocs)
=============================================================================
