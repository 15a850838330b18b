-------------------------- MODULE MCKnowledgeSync --------------------------
(* Symmetry and bounds for the safety run of KnowledgeSync.                 *)
EXTENDS KnowledgeSync, TLC

\* Replicas, rows, revisions and configurations are interchangeable: nothing
\* in the specification orders them or singles one of them out.
Symmetry == Permutations(Worker) \union Permutations(Run) \union Permutations(Version)
               \union Permutations(Commit) \union Permutations(Config)

\* Bound: only the hybrid source changes its scope.  An extraction keys its
\* bundle by revision and scope alike, so two revisions are enough for it.
GraphKeepsConfig ==
    source.kind = "code_graph" /\ edit # None => edit.config = source.config
=============================================================================
