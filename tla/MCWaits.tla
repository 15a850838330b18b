------------------------------- MODULE MCWaits --------------------------------
(* Waiting for humans, in two parts that share no state: the clocks of a     *)
(* task, where request a has a budget of 2 and request b of 3; and messages: *)
(* a thread in which a task asks two questions and one person replies, an    *)
(* alert with a dedupe key, and a button.  A behaviour runs one part and the *)
(* other stays put.                                                          *)
EXTENDS WaitClock, TLC

CONSTANTS
    a, b, alert, reply, press, None,
    Providers, Posts, Sender, InThread, Routes, Key, Questions, Skew, BotAccount,
    MaxFaults, MaxOps

MCBudget == [q \in Reqs |-> IF q = a THEN 2 ELSE 3]
MCSender == alert :> "bot" @@ reply :> "human" @@ press :> "press"
MCRoutes == {[name |-> "alerts", priority |-> 1, bots |-> TRUE],
             [name |-> "chat", priority |-> 0, bots |-> FALSE]}
MCKey    == alert :> "k" @@ reply :> None @@ press :> None

VARIABLES part, provider, listener, identity, aliased, paused, op, unwritten, wire,
          unacked, hand, made, past, absorbed, decided, replies, row,
          question, ackLost, faults, ops

I == INSTANCE MessageIngress WITH ask <- question

ASSUME Assumptions == I!IngressAssumption

ingress == <<provider, listener, identity, aliased, paused, op, unwritten, wire,
             unacked, hand, made, past, absorbed, decided, replies, row, question,
             ackLost, faults, ops>>
mcvars == <<part, vars, ingress>>

\* While the clocks run, the task that asks questions has ended.
TaskOver ==
  /\ provider = "slack" /\ listener = "dead" /\ identity = FALSE /\ aliased = FALSE
  /\ paused = FALSE /\ op = None /\ unwritten = {} /\ wire = <<>> /\ unacked = {}
  /\ hand = I!Idle /\ made = <<>> /\ past = {} /\ absorbed = {} /\ decided = {}
  /\ replies = <<>>
  /\ row = "over" /\ question = [at |-> "done", q |-> 1, started |-> 0, answers |-> <<>>]
  /\ ackLost = {} /\ faults = 0 /\ ops = 0

MCInit == Init /\ ((part = "clock" /\ TaskOver) \/ (part = "messages" /\ I!Init))

MCNext ==
  \/ part = "clock" /\ Next /\ UNCHANGED <<part, ingress>>
  \/ part = "messages" /\ I!Next /\ UNCHANGED <<part, vars>>

MCSpec == MCInit /\ [][MCNext]_mcvars /\ I!Fairness

-----------------------------------------------------------------------------
\* Messages: one effect each, genuine answers, a pause that holds, and a question
\* that ends.
HandledOnce    == I!HandledOnce
AnswersGenuine == I!AnswersGenuine
PauseHolds     == I!PauseHolds
AskEnds        == I!AskEnds
===============================================================================
