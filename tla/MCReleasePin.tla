----------------------------- MODULE MCReleasePin -----------------------------
\* One synchronisation and one task in a repository with a default branch and a
\* tag, for the claim that a pinned reference overrides the configured one.
EXTENDS WorkflowRelease

CONSTANTS main, tag
MCRefs == {main, tag}
MCOrigin == [r \in MCRefs |-> IF r = tag THEN 2 ELSE 1]
===============================================================================
