---------------------------- MODULE MCContextPack ----------------------------
(* A small instance of ContextPack: what a .cfg cannot write.              *)
EXTENDS ContextPack

\* A short file, whose head is all of it, a long one, and a test.
Lengths == <<4, 20, 4>>
Excerpts == <<2, 5, 2>>
Trimmed == [x \in BOOLEAN |-> IF x THEN 2 ELSE 1]

\* A request names at most two paths, in one order: the candidates are sorted.
NamedLists == {<<>>, <<1>>, <<1, 2>>}

\* Around answers of 100 and of 1000 tokens, where the counts do and do not settle,
\* and where they end two tokens off.
AnswerSizes == (340..350) \cup (3980..3990) \cup (4410..4416)
=============================================================================
