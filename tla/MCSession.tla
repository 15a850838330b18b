------------------------------ MODULE MCSession ------------------------------
\* A session, in three parts: the loop over the CLI's messages, the reporting of the
\* conversation, and the tree that a reader builds from what was reported.  They share
\* no state that a property of any is about, so each behaviour runs one of them and the
\* others stay put.
EXTENDS RuntimeSession

CONSTANTS BatchSize, MaxMessages, MaxLost, c1, c2,       \* Transcript
          Agents, Messages, Others, Texts, Prefix, MaxEvents   \* TraceTree

VARIABLES part,
          conversation, flushed, batchAge, lock, flush, phase, ending, collected,
          terminal, marker, lost, overtaken, cutOff,
          nodes, unanswered, message, subagent, byTask, active, results, stats,
          said, displaced, read, built

T == INSTANCE Transcript WITH pending <- batchAge, outcome <- ending
R == INSTANCE TraceTree WITH pending <- unanswered

ASSUME Assumptions == T!TranscriptAssumption /\ R!TraceAssumption

tvars == <<conversation, flushed, batchAge, lock, flush, phase, ending, collected, terminal,
           marker, lost, overtaken, cutOff>>
rvars == <<nodes, unanswered, message, subagent, byTask, active, results, stats, said,
           displaced, read, built>>
MCAskers == {Coordinator, c1}
MCTexts == {<<1>>, <<1, 1, 1>>, <<1, 1, 2>>, <<2, 1>>}

mcvars == <<part, vars, tvars, rvars>>
MCInit == part \in {"loop", "transcript", "trace"} /\ Init /\ T!Init /\ R!Init
MCNext ==
    /\ UNCHANGED part
    /\ \/ part = "loop" /\ Next /\ UNCHANGED <<tvars, rvars>>
       \/ part = "transcript" /\ T!Next /\ UNCHANGED <<vars, rvars>>
       \/ part = "trace" /\ R!Next /\ UNCHANGED <<vars, tvars>>
MCSpec == MCInit /\ [][MCNext]_mcvars /\ (part = "loop" => Fairness)

\* The properties of Transcript and TraceTree, and the liveness of the loop.
InOrderOnce == T!InOrderOnce
OnlyOvertakenMissing == T!OnlyOvertakenMissing
TerminalIsLast == T!TerminalIsLast
NothingHidden == R!NothingHidden
LoopEnds == part = "loop" => SessionEnds
=============================================================================
