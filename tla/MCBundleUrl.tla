------------------------------ MODULE MCBundleUrl ------------------------------
\* A source of two files whose URL an operator changes, for the claim that a
\* successful synchronisation resumes serving.
EXTENDS KnowledgeBundle

MCTree == [c \in Commits |-> IF c = 1 THEN {"a", "b"} ELSE {"b"}]
MCScope == [s \in Scopes |-> IF s = 1 THEN {"a", "b"} ELSE {"a"}]
===============================================================================
