-------------------------- MODULE MCSessionBatches --------------------------
\* A session whose posts all arrive, for the claim that all of it is captured.
EXTENDS Transcript
=============================================================================
