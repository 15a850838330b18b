----------------------------- MODULE WaitsProofs -----------------------------
(***************************************************************************)
(* Proofs about waiting for humans, in the two parts of MCWaits.             *)
(*                                                                           *)
(* The clock, for every set of requests, every budget and every ceiling: the *)
(* runtime sweep charges a session with no time in which a human is asked,   *)
(* except what the answer to an overlapping request uncovers, and it ends    *)
(* every first attempt at its ceiling.                                       *)
(*                                                                           *)
(* The messages, for all posts, routes, keys and numbers of questions and    *)
(* faults: a message takes effect at most once, a paused connector is        *)
(* silent, and answers are what people replied.                              *)
(***************************************************************************)
EXTENDS MCWaits, SequenceTheorems, FiniteSetTheorems, WellFoundedInduction, TLAPS

-----------------------------------------------------------------------------
(* The clock.                                                              *)

\* Every variable keeps its type.
THEOREM TypeCorrect == Spec => [](TypeOK /\ wait_started <= now)
<1> DEFINE TInv == TypeOK /\ wait_started <= now
<1> USE ClockAssumption DEF TypeOK, Null, Live, LiveStatuses, Ended, columns, runtime, history
<1>1. Init => TInv
  BY DEF Init
<1>2. TInv /\ [Next]_vars => TInv'
  <2> SUFFICES ASSUME TInv, [Next]_vars PROVE TInv'
    OBVIOUS
  <2>1. CASE Start
    BY <2>1 DEF Start, wait_finished_updates
  <2>2. CASE Resume
    BY <2>2 DEF Resume, wait_finished_updates
  <2>3. CASE End \/ RuntimeSweep \/ WaitingSweep \/ Rerun
    BY <2>3 DEF End, RuntimeSweep, WaitingSweep, Rerun
  <2>4. CASE Tick
    BY <2>4 DEF Tick
  <2>5. ASSUME NEW q \in Reqs, Request(q) \/ Retry(q) PROVE TInv'
    BY <2>5 DEF Request, Retry, wait_started_updates
  <2>6. ASSUME NEW q \in Reqs, Resolve(q) PROVE TInv'
    BY <2>6 DEF Resolve, wait_finished_updates
  <2>7. ASSUME NEW q \in Reqs, Admitted(q) \/ GiveUp(q) PROVE TInv'
    BY <2>7 DEF Admitted, GiveUp
  <2>8. CASE UNCHANGED vars
    BY <2>8 DEF vars
  <2>9. QED
    BY <2>1, <2>2, <2>3, <2>4, <2>5, <2>6, <2>7, <2>8 DEF Next
<1>3. QED
  BY <1>1, <1>2, PTL DEF Spec

\* What the sweep charges is at most the charged time, or nothing.
LEMMA ChargedIsComputed ==
    ASSUME TypeOK, wait_started <= now
    PROVE  active_runtime_sec = IF Charged < 0 THEN 0 ELSE Charged
BY DEF TypeOK, active_runtime_sec, Charged, Null

\* Closing a wait charges what was charged while it was open.
LEMMA FinishKeepsCharge ==
    ASSUME TypeOK, TypeOK', wait_finished_updates, UNCHANGED <<now, started>>
    PROVE  Charged' = Charged /\ wait_started' = Null
<1>1. CASE wait_started = Null
  BY <1>1 DEF wait_finished_updates, Charged
<1>2. CASE wait_started # Null
  <2>1. wait_started \in Int /\ waited_sec \in Int /\ now \in Int /\ started \in Int
    BY ClockAssumption DEF TypeOK, Null
  <2>2. waited_sec' = waited_sec + (now - wait_started) /\ wait_started' = Null
    BY <1>2 DEF wait_finished_updates
  <2>3. Charged' = now - started - (waited_sec + (now - wait_started))
    BY <2>2 DEF Charged
  <2>4. QED
    BY <1>2, <2>1, <2>2, <2>3 DEF Charged
<1>3. QED
  BY <1>1, <1>2

\* The time charged to a session is at most the time in which no request was open,
\* in every attempt and however requests overlap, but for the time in which one is
\* open whose wait the answer to another one has closed.
THEOREM SweepIsFair == Spec => []NotCutShort
<1> DEFINE CInv == TypeOK /\ ChargeInv
<1> USE ClockAssumption DEF TypeOK, Null, Live, LiveStatuses, Ended, columns, runtime, history, ChargeInv
<1>1. Init => CInv
  BY DEF Init, Charged
<1>2. CInv /\ TypeOK' /\ [Next]_vars => CInv'
  <2> SUFFICES ASSUME CInv, TypeOK', [Next]_vars PROVE ChargeInv'
    OBVIOUS
  <2>1. CASE Start
    BY <2>1 DEF Start, wait_finished_updates, Charged
  <2>2. CASE Resume
    <3>1. Charged' = Charged /\ wait_started' = Null
      BY <2>2, FinishKeepsCharge DEF Resume
    <3>2. QED
      BY <2>2, <3>1 DEF Resume
  <2>3. CASE End \/ RuntimeSweep \/ WaitingSweep \/ Rerun
    <3>1. CASE End
      BY <3>1 DEF End, Charged
    <3>2. CASE RuntimeSweep
      BY <3>2 DEF RuntimeSweep, Charged
    <3>3. CASE WaitingSweep
      BY <3>3 DEF WaitingSweep, Charged
    <3>4. CASE Rerun
      BY <3>4 DEF Rerun, Charged
    <3>5. QED
      BY <2>3, <3>1, <3>2, <3>3, <3>4
  <2>4. CASE Tick
    <3>1. CASE \E q \in Reqs : ask[q] = "open"
      <4>1. CASE shadowed = {}
        BY <2>4, <3>1, <4>1 DEF Tick, Charged
      <4>2. CASE shadowed # {}
        BY <2>4, <4>2 DEF Tick, Charged
      <4> QED BY <4>1, <4>2
    <3>2. CASE \A q \in Reqs : ask[q] # "open"
      BY <2>4, <3>2 DEF Tick, Charged
    <3>3. QED
      BY <3>1, <3>2
  <2>5. ASSUME NEW q \in Reqs, Request(q) \/ Retry(q) PROVE ChargeInv'
    <3>1. CASE Request(q)
      BY <3>1 DEF Request, wait_started_updates, Charged
    <3>2. CASE Retry(q)
      BY <3>2 DEF Retry, wait_started_updates, Charged
    <3>3. QED
      BY <2>5, <3>1, <3>2
  <2>6. ASSUME NEW q \in Reqs, Resolve(q) PROVE ChargeInv'
    <3>1. Charged' = Charged /\ wait_started' = Null
      BY <2>6, FinishKeepsCharge DEF Resolve
    <3>2. QED
      BY <2>6, <3>1 DEF Resolve
  <2>7. ASSUME NEW q \in Reqs, Admitted(q) \/ GiveUp(q) PROVE ChargeInv'
    BY <2>7 DEF Admitted, GiveUp, Charged
  <2>8. CASE UNCHANGED vars
    BY <2>8 DEF vars, Charged
  <2>9. QED
    BY <2>1, <2>2, <2>3, <2>4, <2>5, <2>6, <2>7, <2>8 DEF Next
<1>3. CInv => NotCutShort
  BY ChargedIsComputed DEF NotCutShort
<1>4. QED
  BY <1>1, <1>2, <1>3, TypeCorrect, PTL DEF Spec

\* The first attempt of a task does not outlive its ceiling, whatever requests
\* it makes, in parallel or not.
THEOREM CeilingHolds == Spec => []CeilingEnforced
<1> DEFINE WInv == TypeOK /\ wait_started <= now /\ WorkInv
<1> USE ClockAssumption DEF TypeOK, Null, Live, LiveStatuses, Ended, columns, runtime, history, WorkInv
<1>1. Init => WInv
  BY DEF Init, Charged
<1>2. WInv /\ (TypeOK /\ wait_started <= now)' /\ [Next]_vars => WInv'
  <2> SUFFICES ASSUME WInv, TypeOK', [Next]_vars PROVE WorkInv'
    OBVIOUS
  <2>1. CASE Start
    BY <2>1 DEF Start, wait_finished_updates, Charged
  <2>2. CASE Resume
    <3>1. Charged' = Charged /\ wait_started' = Null
      BY <2>2, FinishKeepsCharge DEF Resume
    <3>2. QED
      BY <2>2, <3>1 DEF Resume
  <2>3. CASE End \/ RuntimeSweep \/ WaitingSweep \/ Rerun
    <3>1. CASE End
      BY <3>1 DEF End, Charged
    <3>2. CASE RuntimeSweep
      BY <3>2 DEF RuntimeSweep, Charged
    <3>3. CASE WaitingSweep
      BY <3>3 DEF WaitingSweep, Charged
    <3>4. CASE Rerun
      BY <3>4 DEF Rerun
    <3>5. QED
      BY <2>3, <3>1, <3>2, <3>3, <3>4
  <2>4. CASE Tick
    BY <2>4, ChargedIsComputed DEF Tick, RuntimeTimedOut, Charged
  <2>5. ASSUME NEW q \in Reqs, Request(q) \/ Retry(q) PROVE WorkInv'
    BY <2>5 DEF Request, Retry, wait_started_updates, Charged
  <2>6. ASSUME NEW q \in Reqs, Resolve(q) PROVE WorkInv'
    <3>1. Charged' = Charged /\ wait_started' = Null
      BY <2>6, FinishKeepsCharge DEF Resolve
    <3>2. QED
      BY <2>6, <3>1 DEF Resolve
  <2>7. ASSUME NEW q \in Reqs, Admitted(q) \/ GiveUp(q) PROVE WorkInv'
    BY <2>7 DEF Admitted, GiveUp, Charged
  <2>8. CASE UNCHANGED vars
    BY <2>8 DEF vars, Charged
  <2>9. QED
    BY <2>1, <2>2, <2>3, <2>4, <2>5, <2>6, <2>7, <2>8 DEF Next
<1>3. WInv => CeilingEnforced
  BY DEF CeilingEnforced
<1>4. QED
  BY <1>1, <1>2, <1>3, TypeCorrect, PTL DEF Spec

-----------------------------------------------------------------------------
(* Sequences of events.                                                    *)

LEMMA InEmpty ==
    ASSUME NEW e
    PROVE  ~I!In(e, <<>>) /\ I!Once(e, <<>>)
BY DEF I!In, I!Once

LEMMA AppendEntries ==
    ASSUME NEW T, NEW s \in Seq(T), NEW x \in T
    PROVE  /\ Append(s, x) \in Seq(T) /\ Len(Append(s, x)) = Len(s) + 1 /\ Len(s) \in Nat
           /\ Append(s, x)[Len(s) + 1] = x
           /\ \A i \in 1..Len(s) : Append(s, x)[i] = s[i]
OBVIOUS

LEMMA InAppend ==
    ASSUME NEW T, NEW s \in Seq(T), NEW x \in T, NEW e
    PROVE  I!In(e, Append(s, x)) <=> I!In(e, s) \/ e = x
<1>1. ASSUME NEW i \in 1..(Len(s) + 1) PROVE i \in 1..Len(s) \/ i = Len(s) + 1
  BY <1>1, AppendEntries
<1>2. I!In(e, Append(s, x)) => I!In(e, s) \/ e = x
  BY <1>1, AppendEntries DEF I!In
<1>3. I!In(e, s) => I!In(e, Append(s, x))
  BY AppendEntries DEF I!In
<1>4. I!In(x, Append(s, x))
  BY AppendEntries DEF I!In
<1> QED BY <1>2, <1>3, <1>4

LEMMA OnceAppend ==
    ASSUME NEW T, NEW s \in Seq(T), NEW x \in T, NEW e, I!Once(e, s), e = x => ~I!In(e, s)
    PROVE  I!Once(e, Append(s, x))
<1>1. ASSUME NEW i \in 1..(Len(s) + 1) PROVE i \in 1..Len(s) \/ i = Len(s) + 1
  BY <1>1, AppendEntries
<1>2. ASSUME NEW i \in 1..(Len(s) + 1), NEW j \in 1..(Len(s) + 1),
             Append(s, x)[i] = e, Append(s, x)[j] = e
      PROVE  i = j
  <2>1. CASE i \in 1..Len(s) /\ j \in 1..Len(s)
    BY <1>2, <2>1, AppendEntries DEF I!Once
  <2>2. CASE i \in 1..Len(s) /\ j = Len(s) + 1
    BY <1>2, <2>2, AppendEntries DEF I!In
  <2>3. CASE i = Len(s) + 1 /\ j \in 1..Len(s)
    BY <1>2, <2>3, AppendEntries DEF I!In
  <2> QED BY <1>1, <2>1, <2>2, <2>3
<1> QED BY <1>2, AppendEntries DEF I!Once

LEMMA TailEntries ==
    ASSUME NEW T, NEW s \in Seq(T), s # <<>>
    PROVE  /\ Tail(s) \in Seq(T) /\ Len(Tail(s)) = Len(s) - 1 /\ Len(s) \in Nat \ {0}
           /\ Head(s) \in T /\ Head(s) = s[1]
           /\ \A i \in 1..Len(Tail(s)) : Tail(s)[i] = s[i + 1] /\ i + 1 \in 1..Len(s)
OBVIOUS

LEMMA InTail ==
    ASSUME NEW T, NEW s \in Seq(T), s # <<>>, NEW e
    PROVE  /\ I!In(e, Tail(s)) => I!In(e, s)
           /\ I!In(Head(s), s)
           /\ I!Once(e, s) => I!Once(e, Tail(s))
           /\ I!Once(Head(s), s) => ~I!In(Head(s), Tail(s))
<1>1. \A i \in 1..Len(Tail(s)) : Tail(s)[i] = s[i + 1] /\ i + 1 \in 1..Len(s) /\ i + 1 # 1
  BY TailEntries
<1>2. I!In(e, Tail(s)) => I!In(e, s)
  BY <1>1 DEF I!In
<1>3. Head(s) = s[1] /\ 1 \in 1..Len(s)
  BY TailEntries
<1>4. I!Once(e, s) => I!Once(e, Tail(s))
  <2> SUFFICES ASSUME I!Once(e, s), NEW i \in 1..Len(Tail(s)), NEW j \in 1..Len(Tail(s)),
                      Tail(s)[i] = e, Tail(s)[j] = e
               PROVE  i = j
    BY DEF I!Once
  <2>1. i + 1 = j + 1
    BY <1>1 DEF I!Once
  <2> QED BY <2>1
<1>5. I!Once(Head(s), s) => ~I!In(Head(s), Tail(s))
  BY <1>1, <1>3 DEF I!Once, I!In
<1> QED BY <1>2, <1>3, <1>4, <1>5 DEF I!In

-----------------------------------------------------------------------------
(* Types.                                                                  *)

\* The event in hand.
LEMMA InHand ==
    ASSUME I!IngressType, hand.at # "idle"
    PROVE  hand # I!Idle /\ hand.event \in I!Events /\ hand = [event |-> hand.event, at |-> hand.at]
BY DEF I!IngressType, I!Idle

LEMMA HandMoves ==
    ASSUME I!IngressType, hand.at # "idle",
           NEW stage \in {"check", "hydrate", "submit", "notify"},
           hand' = [hand EXCEPT !.at = stage]
    PROVE  /\ hand'.event = hand.event /\ hand'.at = stage /\ hand'.event \in I!Events
           /\ hand' \in [event : I!Events \cup {None},
                         at : {"idle", "ack", "check", "hydrate", "submit", "notify"}]
BY InHand DEF I!IngressType

LEMMA IdleHand ==
    /\ I!Idle.at = "idle" /\ I!Idle.event = None
    /\ I!Idle \in [event : I!Events \cup {None},
                   at : {"idle", "ack", "check", "hydrate", "submit", "notify"}]
BY DEF I!Idle

LEMMA TypeInit == I!Init => I!IngressType
<1> SUFFICES ASSUME I!Init PROVE I!IngressType
  OBVIOUS
<1>1. question \in [at : {"work", "mark", "post", "poll", "resolve", "resume", "answered",
                          "denied", "done"},
                    q : 1..Questions, started : Int, answers : Seq(Nat)]
  BY Assumptions DEF I!Init, I!IngressAssumption
<1> QED BY <1>1, IdleHand DEF I!Init, I!IngressType

\* The gateway's steps leave the rows and the runtime alone, and the socket and the
\* hand as they are or empty.
LEMMA GatewayFrame ==
    ASSUME I!Gateway
    PROVE  /\ UNCHANGED <<provider, unwritten, unacked, made, past, absorbed, decided, replies,
                          row, question, ackLost>>
           /\ \/ UNCHANGED <<wire, hand>>
              \/ wire' = <<>> /\ hand' = I!Idle
<1> USE DEF I!bus, I!rows, I!DropSocket
<1>1. CASE I!GatewayStarts
  BY <1>1 DEF I!GatewayStarts
<1>2. CASE I!GatewayDies \/ I!Connect \/ I!Disconnect
  BY <1>2 DEF I!GatewayDies, I!Connect, I!Disconnect
<1>3. CASE I!OpBegins
  BY <1>3 DEF I!OpBegins
<1>4. CASE I!OpCommits \/ I!OpFails
  BY <1>4 DEF I!OpCommits, I!OpFails
<1> QED BY <1>1, <1>2, <1>3, <1>4 DEF I!Gateway

\* What a step of the runtime leaves alone; it posts at most its current prompt.
LEMMA RuntimeFrame ==
    ASSUME I!Runtime \/ I!Admit \/ I!WaitingTimeout
    PROVE  /\ UNCHANGED <<I!gate, unwritten, hand, I!rows, ackLost, ops>>
           /\ \/ UNCHANGED I!bus /\ ~I!PostQuestion
              \/ I!PostQuestion
<1> USE DEF I!bus, I!rows, I!gate
<1>1. CASE I!ReportRequested \/ I!Mark \/ I!PostFails \/ I!PollReply
  BY <1>1 DEF I!ReportRequested, I!Mark, I!PostFails, I!PollReply, I!AskAt, I!AskGoto
<1>2. CASE I!GiveUp \/ I!ReportResolved \/ I!Resume \/ I!DenyCall
  BY <1>2 DEF I!GiveUp, I!ReportResolved, I!Resume, I!DenyCall, I!AskAt, I!AskGoto
<1>3. CASE I!SessionCompletes \/ I!Admit \/ I!WaitingTimeout
  BY <1>3 DEF I!SessionCompletes, I!Admit, I!WaitingTimeout, I!AskAt, I!AskGoto
<1>4. CASE I!PostQuestion
  BY <1>4 DEF I!PostQuestion
<1> QED BY <1>1, <1>2, <1>3, <1>4 DEF I!Runtime

\* Time passes for a task, and nothing else happens.
LEMMA LapseFrame ==
    ASSUME NEW i \in 1..Len(made), I!Lapse(i)
    PROVE  /\ UNCHANGED <<provider, listener, identity, aliased, paused, op, unwritten, wire,
                          unacked, hand, made, absorbed, decided, replies, row, question,
                          ackLost, faults, ops>>
           /\ past' = past \cup {i}
BY DEF I!Lapse, I!gate, I!bus

LEMMA HasSmallest ==
    ASSUME NEW H, H \subseteq Nat, H # {}
    PROVE  \E m \in H : \A j \in H : m <= j
<1> DEFINE R == OpToRel(<, Nat)
<1>1. PICK m \in H : \A j \in H : ~(<<j, m>> \in R)
  <2>1. IsWellFoundedOn(R, Nat)
    BY NatLessThanWellFounded
  <2> HIDE DEF R
  <2> QED BY <2>1, WFMin
<1>2. \A j \in H : <<j, m>> \in R <=> j < m
  BY DEF OpToRel
<1> HIDE DEF R
<1>3. \A j \in H : ~(j < m)
  BY <1>1, <1>2
<1>4. \A j \in H : j \in Nat /\ m \in Nat
  BY <1>1
<1> QED BY <1>1, <1>3, <1>4

Asking == {"work", "mark", "post", "poll", "resolve", "resume", "answered", "denied", "done"}
Unposted == {"work", "mark", "post"}
AskType == [at : Asking, q : 1..Questions, started : Int, answers : Seq(Nat)]

LEMMA AskIs ==
    ASSUME I!IngressType
    PROVE  /\ question \in AskType
           /\ question = [at |-> question.at, q |-> question.q, started |-> question.started,
                          answers |-> question.answers]
           /\ question.at \in Asking /\ question.q \in 1..Questions /\ question.started \in Int
           /\ question.answers \in Seq(Nat) /\ Questions \in Nat
BY Assumptions DEF I!IngressType, AskType, Asking, I!IngressAssumption

\* The runtime keeps the type of its state, and a prompt that it has posted stays
\* posted.
LEMMA AskMoves ==
    ASSUME I!IngressType, I!Runtime \/ I!Admit \/ I!WaitingTimeout
    PROVE  /\ question' \in AskType
           /\ \/ question'.q = question.q
                 /\ (question'.at \in Unposted => question.at \in Unposted)
                 /\ (I!PostQuestion => question'.at = "poll")
              \/ question'.q = question.q + 1 /\ ~I!PostQuestion
<1> USE DEF I!AskAt, I!AskGoto, Unposted
<1>1. ASSUME NEW p \in Asking, question' = [question EXCEPT !.at = p],
             p \in Unposted => question.at \in Unposted, I!PostQuestion => p = "poll"
      PROVE  /\ question' \in AskType /\ question'.q = question.q
             /\ (question'.at \in Unposted => question.at \in Unposted)
             /\ (I!PostQuestion => question'.at = "poll")
  <2>1. question' = [at |-> p, q |-> question.q, started |-> question.started,
                     answers |-> question.answers]
    BY <1>1, AskIs
  <2>2. question' \in AskType
    BY <2>1, AskIs DEF AskType
  <2> QED BY <1>1, <2>1, <2>2
<1>2. CASE I!ReportRequested
  BY <1>1, <1>2 DEF I!ReportRequested, I!PostQuestion, Asking
<1>3. CASE I!PostQuestion
  BY <1>1, <1>3 DEF I!PostQuestion, Asking
<1>4. CASE I!PostFails \/ I!GiveUp \/ I!ReportResolved \/ I!DenyCall
  <2>1. \E p \in {"denied", "resume", "done"} : question' = [question EXCEPT !.at = p]
    BY <1>4 DEF I!PostFails, I!GiveUp, I!ReportResolved, I!DenyCall
  <2>2. ~I!PostQuestion
    BY <2>1, AskIs DEF I!PostQuestion
  <2> QED BY <1>1, <2>1, <2>2 DEF Asking
<1>5. CASE I!Resume \/ I!WaitingTimeout
  <2>1. \E p \in {"answered", "done"} : question' = [question EXCEPT !.at = p]
    BY <1>5 DEF I!Resume, I!WaitingTimeout
  <2>2. ~I!PostQuestion
    BY <2>1, AskIs DEF I!PostQuestion
  <2> QED BY <1>1, <2>1, <2>2 DEF Asking
<1>6. CASE I!SessionCompletes \/ I!Admit
  <2>1. question' = question
    BY <1>6 DEF I!SessionCompletes, I!Admit
  <2>2. ~I!PostQuestion
    BY <2>1, AskIs DEF I!PostQuestion
  <2> QED BY <2>1, <2>2, AskIs
<1>7. CASE I!Mark
  <2>1. question' = [question EXCEPT !.at = "post", !.started = Len(replies) - Skew]
        /\ question.at = "mark"
    BY <1>7 DEF I!Mark
  <2>2. Len(replies) - Skew \in Int
    BY Assumptions DEF I!IngressType, I!IngressAssumption
  <2>3. question' = [at |-> "post", q |-> question.q, started |-> Len(replies) - Skew,
                     answers |-> question.answers]
    BY <2>1, AskIs
  <2>4. question' \in AskType
    BY <2>2, <2>3, AskIs DEF AskType, Asking
  <2>5. ~I!PostQuestion
    BY <2>1 DEF I!PostQuestion
  <2> QED BY <2>1, <2>3, <2>4, <2>5
<1>8. CASE I!PollReply
  <2> DEFINE i == CHOOSE i \in I!Heard : \A j \in I!Heard : i <= j
  <2>1. i \in Nat
    <3>1. I!Heard \subseteq Nat
      BY DEF I!Heard
    <3>2. I!Heard # {}
      BY <1>8 DEF I!PollReply
    <3>3. \E m \in I!Heard : \A j \in I!Heard : m <= j
      BY <3>1, <3>2, HasSmallest
    <3> QED BY <3>1, <3>3
  <2> HIDE DEF i
  <2>2. question' = [question EXCEPT !.answers = Append(@, i),
                                     !.q = IF @ < Questions THEN @ + 1 ELSE @,
                                     !.at = IF question.q < Questions THEN "work" ELSE "resolve"]
        /\ question.at = "poll"
    BY <1>8 DEF I!PollReply, i
  <2>3. question' = [at |-> IF question.q < Questions THEN "work" ELSE "resolve",
                     q |-> IF question.q < Questions THEN question.q + 1 ELSE question.q,
                     started |-> question.started, answers |-> Append(question.answers, i)]
    BY <2>2, AskIs
  <2>4. Append(question.answers, i) \in Seq(Nat)
    BY <2>1, AskIs
  <2>5. (IF question.q < Questions THEN question.q + 1 ELSE question.q) \in 1..Questions
    BY AskIs
  <2>6. question' \in AskType
    BY <2>3, <2>4, <2>5, AskIs DEF AskType, Asking
  <2>7. ~I!PostQuestion
    BY <2>2 DEF I!PostQuestion
  <2> QED BY <2>3, <2>6, <2>7
<1> QED BY <1>2, <1>3, <1>4, <1>5, <1>6, <1>7, <1>8 DEF I!Runtime

LEMMA ArrivesType ==
    ASSUME I!IngressType, NEW e \in I!Events, I!Arrives(e)
    PROVE  wire' \in Seq(I!Events) /\ unacked' \subseteq I!Events
<1>1. Append(wire, e) \in Seq(I!Events)
  BY AppendEntries DEF I!IngressType
<1> QED BY <1>1 DEF I!Arrives, I!IngressType

LEMMA PromptIsEvent ==
    ASSUME I!IngressType
    PROVE  <<"prompt", question.q>> \in I!Events
BY AskIs DEF I!Events, I!Prompts

\* The listener's handler works on what it has in hand, and leaves the gateway and
\* the runtime alone.
LEMMA HandlerFrame ==
    ASSUME I!Handler
    PROVE  /\ UNCHANGED <<provider, listener, identity, aliased, paused, op, unwritten, past, row,
                          question, ops>>
           /\ I!Receive \/ hand.at # "idle"
<1> USE DEF I!gate, I!bus, I!rows, I!At
<1>1. CASE I!Receive \/ I!Ack \/ I!Ignore \/ I!HandlePress \/ I!RecordQuestionReply
  BY <1>1 DEF I!Receive, I!Ack, I!Ignore, I!HandlePress, I!RecordQuestionReply
<1>2. CASE I!Match \/ I!Hydrate \/ I!Submit \/ I!Notify
  BY <1>2 DEF I!Match, I!Hydrate, I!Submit, I!Notify
<1> QED BY <1>1, <1>2 DEF I!Handler

\* What each step of the handler does to the hand and the rows.
LEMMA HandlerMoves ==
    ASSUME I!Handler, I!IngressType, ~I!Receive
    PROVE  /\ hand.at # "idle" /\ wire' = wire
           /\ \/ /\ hand' = I!Idle /\ UNCHANGED <<unacked, made, replies, ackLost>>
              \/ /\ hand.at = "check" /\ hand' = I!Idle /\ replies' = Append(replies, hand.event)
                 /\ I!AnswersWait(hand.event)
                 /\ UNCHANGED <<unacked, made, ackLost>>
              \/ /\ \E stage \in {"hydrate", "submit"} : hand' = [hand EXCEPT !.at = stage]
                 /\ hand.at \in {"check", "hydrate"}
                 /\ UNCHANGED <<unacked, made, replies, ackLost>>
              \/ /\ hand.at = "submit" /\ hand' = [hand EXCEPT !.at = "notify"]
                 /\ \/ made' = made
                    \/ I!Twins(hand.event) = {} /\ made' = Append(made, hand.event)
                 /\ UNCHANGED <<unacked, replies, ackLost>>
              \/ /\ hand.at = "ack" /\ hand' = [hand EXCEPT !.at = "check"]
                 /\ \/ unacked' = unacked \ {hand.event} /\ ackLost' = ackLost
                    \/ ackLost' = ackLost \cup {hand.event} /\ unacked' = unacked
                 /\ UNCHANGED <<made, replies>>
<1> USE DEF I!gate, I!bus, I!rows, I!At, I!Step
<1>0. hand.at # "idle"
  BY HandlerFrame
<1>1. CASE I!Ack
  BY <1>1 DEF I!Ack
<1>2. CASE I!Ignore \/ I!HandlePress \/ I!Notify
  BY <1>0, <1>2 DEF I!Ignore, I!HandlePress, I!Notify
<1>3. CASE I!RecordQuestionReply
  BY <1>3 DEF I!RecordQuestionReply
<1>4. CASE I!Match
  <2>1. \/ hand' = I!Idle
        \/ \E stage \in {"hydrate", "submit"} : hand' = [hand EXCEPT !.at = stage]
    BY <1>4 DEF I!Match
  <2>2. hand.at = "check" /\ UNCHANGED <<wire, unacked, made, replies, ackLost>>
    BY <1>4 DEF I!Match
  <2> QED BY <1>0, <2>1, <2>2
<1>5. CASE I!Hydrate
  BY <1>0, <1>5 DEF I!Hydrate
<1>6. CASE I!Submit
  BY <1>6 DEF I!Submit
<1> QED BY <1>1, <1>2, <1>3, <1>4, <1>5, <1>6 DEF I!Handler

\* Receiving takes the first event of the socket.
LEMMA ReceiveMoves ==
    ASSUME I!Receive, I!IngressType
    PROVE  /\ UNCHANGED <<unacked, made, replies, ackLost>> /\ listener = "up"
           /\ hand = I!Idle /\ wire # <<>> /\ wire' = Tail(wire)
           /\ hand'.event = Head(wire) /\ hand'.at = (IF provider = "slack" THEN "ack" ELSE "check")
           /\ hand' \in [event : I!Events, at : {"ack", "check"}]
<1>1. wire # <<>> /\ hand' = [event |-> Head(wire), at |-> IF provider = "slack" THEN "ack" ELSE "check"]
  BY DEF I!Receive
<1>2. Head(wire) \in I!Events
  BY <1>1, TailEntries DEF I!IngressType
<1> QED BY <1>1, <1>2 DEF I!Receive, I!Busy, I!rows

LEMMA TypeStep == I!IngressType /\ I!Next => I!IngressType'
<1> SUFFICES ASSUME I!IngressType, I!Next PROVE I!IngressType'
  OBVIOUS
<1>n. made \in Seq(I!Events) /\ Len(made) \in Nat /\ past \subseteq 1..Len(made)
  BY DEF I!IngressType
<1>0. question' = question => question' \in AskType
  BY AskIs
<1>1. CASE I!Gateway
  <2>0. <<>> \in Seq(I!Events) /\ wire \in Seq(I!Events)
    BY DEF I!IngressType
  <2>1. wire' \in Seq(I!Events)
    <3>1. wire' = wire \/ wire' = <<>>
      BY <1>1, GatewayFrame
    <3> QED BY <2>0, <3>1
  <2>2. /\ hand' \in [event : I!Events \cup {None},
                      at : {"idle", "ack", "check", "hydrate", "submit", "notify"}]
        /\ hand' = I!Idle \/ (hand'.event \in I!Events /\ hand'.at # "idle")
    BY <1>1, GatewayFrame, IdleHand DEF I!IngressType
  <2> QED BY <1>1, <2>1, <2>2, GatewayFrame DEF I!IngressType
<1>2. CASE I!Runtime \/ I!Admit \/ I!WaitingTimeout
  <2>1. question' \in AskType
    BY <1>2, AskMoves
  <2>2. wire' \in Seq(I!Events) /\ unacked' \subseteq I!Events
    <3>1. CASE UNCHANGED I!bus
      BY <3>1 DEF I!bus, I!IngressType
    <3>2. CASE I!PostQuestion
      BY <3>2, ArrivesType, PromptIsEvent DEF I!PostQuestion
    <3> QED BY <1>2, <3>1, <3>2, RuntimeFrame
  <2>3. UNCHANGED <<provider, unwritten, hand, made, past, replies>>
    BY <1>2, RuntimeFrame DEF I!gate, I!rows
  <2> QED BY <2>1, <2>2, <2>3 DEF I!IngressType, AskType, Asking
<1>3. ASSUME NEW e \in Posts, I!Write(e) PROVE I!IngressType'
  <2>1. e \in I!Events
    BY DEF I!Events
  <2> QED BY <1>3, <2>1, ArrivesType DEF I!Write, I!IngressType, I!gate, I!rows
<1>4. ASSUME NEW e \in I!Events, I!Deliver(e) PROVE I!IngressType'
  <2>1. Append(wire, e) \in Seq(I!Events)
    BY AppendEntries DEF I!IngressType
  <2> QED BY <1>4, <2>1 DEF I!Deliver, I!IngressType, I!gate, I!rows
<1>5. CASE I!Receive
  <2>0. wire \in Seq(I!Events) /\ wire # <<>> /\ wire' = Tail(wire)
    BY <1>5, ReceiveMoves DEF I!IngressType
  <2>1. wire' \in Seq(I!Events)
    BY <2>0, TailEntries
  <2>2. UNCHANGED <<provider, unwritten, question, past>>
    BY <1>5, HandlerFrame DEF I!Handler
  <2> QED BY <1>5, <2>1, <2>2, ReceiveMoves DEF I!IngressType
<1>6. CASE I!Handler /\ ~I!Receive
  <2>1. UNCHANGED <<provider, unwritten, question, wire, past>> /\ hand.event \in I!Events
    BY <1>6, HandlerFrame, HandlerMoves, InHand
  <2>2. unacked' \subseteq I!Events
    BY <1>6, HandlerMoves DEF I!IngressType
  <2>3. made' \in Seq(I!Events) /\ replies' \in Seq(I!Events) /\ past' \subseteq 1..Len(made')
    <3>1. Append(made, hand.event) \in Seq(I!Events) /\ Append(replies, hand.event) \in Seq(I!Events)
          /\ Len(Append(made, hand.event)) = Len(made) + 1
      BY <2>1, AppendEntries DEF I!IngressType
    <3>2. made' = made \/ made' = Append(made, hand.event)
      BY <1>6, HandlerMoves
    <3>3. past \subseteq 1..Len(made')
      BY <1>n, <3>1, <3>2
    <3> QED BY <1>6, <2>1, <3>1, <3>3, HandlerMoves DEF I!IngressType
  <2>4. \/ hand' = I!Idle
        \/ \E stage \in {"check", "hydrate", "submit", "notify"} : hand' = [hand EXCEPT !.at = stage]
    BY <1>6, HandlerMoves
  <2>5. /\ hand' \in [event : I!Events \cup {None},
                      at : {"idle", "ack", "check", "hydrate", "submit", "notify"}]
        /\ hand' = I!Idle \/ (hand'.event \in I!Events /\ hand'.at # "idle")
    <3>1. CASE hand' = I!Idle
      BY <3>1, IdleHand
    <3>2. ASSUME NEW stage \in {"check", "hydrate", "submit", "notify"},
                 hand' = [hand EXCEPT !.at = stage]
          PROVE  /\ hand' \in [event : I!Events \cup {None},
                               at : {"idle", "ack", "check", "hydrate", "submit", "notify"}]
                 /\ hand' = I!Idle \/ (hand'.event \in I!Events /\ hand'.at # "idle")
      BY <1>6, <3>2, HandMoves, HandlerMoves
    <3> QED BY <2>4, <3>1, <3>2
  <2> QED BY <2>1, <2>2, <2>3, <2>5 DEF I!IngressType
<1>7. ASSUME NEW i \in 1..Len(made), I!Lapse(i) PROVE I!IngressType'
  BY <1>7, LapseFrame DEF I!IngressType
<1> QED BY <1>1, <1>2, <1>3, <1>4, <1>5, <1>6, <1>7 DEF I!Next

-----------------------------------------------------------------------------
(* The listener.                                                           *)

LEMMA ListenerInit == I!Init => I!ListenerInv
BY DEF I!Init, I!ListenerInv

LEMMA ListenerStep == I!IngressType /\ I!ListenerInv /\ I!Next => I!ListenerInv'
<1> SUFFICES ASSUME I!IngressType, I!ListenerInv, I!Next PROVE I!ListenerInv'
  OBVIOUS
<1> USE DEF I!DropSocket, I!gate, I!bus, I!rows
<1>0. ASSUME UNCHANGED <<listener, paused, op>>, listener # "up" => UNCHANGED hand
      PROVE  I!ListenerInv'
  BY <1>0 DEF I!ListenerInv
<1>1. CASE I!GatewayStarts
  BY <1>1 DEF I!GatewayStarts, I!StartListener, I!ListenerInv
<1>2. CASE I!GatewayDies \/ I!Connect
  BY <1>2 DEF I!GatewayDies, I!Connect, I!ListenerInv
<1>3. CASE I!Disconnect
  BY <1>3 DEF I!Disconnect, I!ListenerInv
<1>4. CASE I!OpBegins
  <2>1. PICK want \in BOOLEAN :
          /\ op' = [want |-> want, was |-> paused]
          /\ \/ want /\ listener' = "off" /\ hand' = I!Idle
             \/ ~want /\ listener = "off" /\ listener' = "wait" /\ UNCHANGED hand
             \/ ~want /\ UNCHANGED <<listener, hand>>
    BY <1>4 DEF I!OpBegins, I!StartListener
  <2>2. op = None /\ listener # "dead" /\ paused' = paused
    BY <1>4 DEF I!OpBegins
  <2>3. op' \in [want : BOOLEAN, was : BOOLEAN] /\ op'.was = paused /\ op'.want = want /\ op' # None
    BY <2>1, Assumptions DEF I!ListenerInv, I!IngressAssumption
  <2> QED BY <2>1, <2>2, <2>3 DEF I!ListenerInv
<1>5. CASE I!OpCommits
  BY <1>5 DEF I!OpCommits, I!ListenerInv
<1>6. CASE I!OpFails
  BY <1>6 DEF I!OpFails, I!ListenerInv
<1>7. CASE I!Runtime \/ I!Admit \/ I!WaitingTimeout
  BY <1>0, <1>7, RuntimeFrame
<1>8. CASE I!Handler
  <2>1. UNCHANGED <<listener, paused, op>> /\ (I!Receive \/ hand.at # "idle")
    BY <1>8, HandlerFrame
  <2>2. listener = "up"
    BY <2>1, ReceiveMoves, IdleHand DEF I!ListenerInv
  <2> QED BY <1>0, <2>1, <2>2
<1>9. CASE (\E e \in Posts : I!Write(e)) \/ (\E e \in I!Events : I!Deliver(e))
  BY <1>0, <1>9 DEF I!Write, I!Deliver
<1>10. ASSUME NEW i \in 1..Len(made), I!Lapse(i) PROVE I!ListenerInv'
  BY <1>0, <1>10, LapseFrame
<1> QED BY <1>1, <1>2, <1>3, <1>4, <1>5, <1>6, <1>7, <1>8, <1>9, <1>10 DEF I!Next, I!Gateway

-----------------------------------------------------------------------------
(* Where an event is.                                                      *)

LEMMA ProviderIs == I!IngressType => provider = "slack" \/ provider = "mattermost"
BY Assumptions DEF I!IngressType, I!IngressAssumption

LEMMA NoneIsNoEvent == None \notin I!Events
BY Assumptions DEF I!IngressAssumption, I!Events, I!Prompts

LEMMA DeliveryInit == I!Init => I!DeliveryInv
BY InEmpty, IdleHand, NoneIsNoEvent DEF I!Init, I!DeliveryInv, I!Coming

\* Nobody unwrites an event: what is fresh after a step was fresh before it.
LEMMA FreshShrinks ==
    ASSUME I!IngressType, NEW e, I!Fresh(e)', unwritten' \subseteq unwritten,
           question' = question \/ I!Runtime \/ I!Admit \/ I!WaitingTimeout
    PROVE  I!Fresh(e)
<1>1. CASE e \in unwritten'
  BY <1>1 DEF I!Fresh
<1>2. ASSUME NEW k \in 1..Questions, e = <<"prompt", k>>,
             k > question'.q \/ (k = question'.q /\ question'.at \in Unposted)
      PROVE  I!Fresh(e)
  <2>1. \/ question'.q = question.q /\ (question'.at \in Unposted => question.at \in Unposted)
        \/ question'.q = question.q + 1
    BY AskMoves
  <2>2. k > question.q \/ (k = question.q /\ question.at \in Unposted)
    BY <1>2, <2>1, AskIs
  <2> QED BY <1>2, <2>2 DEF I!Fresh, Unposted
<1> QED BY <1>1, <1>2 DEF I!Fresh, Unposted

\* Steps that move no event, or that lose the one in hand or all of the socket.
LEMMA QuietDelivery ==
    ASSUME I!IngressType, I!DeliveryInv,
           UNCHANGED <<provider, unacked, made, replies, ackLost>>,
           UNCHANGED <<wire, hand>> \/ (wire' \in {wire, <<>>} /\ hand' = I!Idle),
           \A e : I!Fresh(e)' => I!Fresh(e)
    PROVE  I!DeliveryInv'
<1>1. CASE UNCHANGED <<wire, hand>>
  BY <1>1 DEF I!DeliveryInv, I!Coming
<1>2. CASE wire' \in {wire, <<>>} /\ hand' = I!Idle
  <2>0. hand'.at = "idle" /\ hand'.event = None
    BY <1>2, IdleHand
  <2>1. \A e : (I!In(e, wire') => I!In(e, wire)) /\ (I!Once(e, wire) => I!Once(e, wire'))
    BY <1>2, InEmpty
  <2>2. \A e : I!Coming(e)' => I!Coming(e)
    BY <2>0, <2>1 DEF I!Coming
  <2>3. provider = "slack" => \A i \in 1..Len(wire') : wire'[i] \in unacked
    <3>1. CASE wire' = wire
      BY <3>1 DEF I!DeliveryInv
    <3>2. CASE wire' = <<>>
      <4>1. 1..Len(wire') = {}
        BY <3>2
      <4> QED BY <4>1
    <3> QED BY <1>2, <3>1, <3>2
  <2>4. \A e \in I!Events : I!Fresh(e)' =>
            ~I!Coming(e)' /\ hand'.event # e /\ ~I!In(e, made') /\ ~I!In(e, replies')
    BY <2>0, <2>2, NoneIsNoEvent DEF I!DeliveryInv
  <2>5. \A e \in I!Events \ ackLost' :
          /\ I!Coming(e)' => ~I!In(e, made') /\ ~I!In(e, replies')
          /\ hand'.event = e /\ hand'.at # "ack" => e \notin unacked'
          /\ I!Once(e, made') /\ I!Once(e, replies') /\ ~(I!In(e, made') /\ I!In(e, replies'))
    BY <2>0, <2>2, NoneIsNoEvent DEF I!DeliveryInv
  <2> QED BY <1>2, <2>0, <2>1, <2>3, <2>4, <2>5 DEF I!DeliveryInv
<1> QED BY <1>1, <1>2

\* A new event: it is written once, so it is nowhere yet.
LEMMA ArrivesDelivery ==
    ASSUME I!IngressType, I!DeliveryInv, NEW e \in I!Events, I!Arrives(e),
           I!Fresh(e), ~I!Fresh(e)', \A f : I!Fresh(f)' => I!Fresh(f),
           UNCHANGED <<provider, hand, made, replies, ackLost>>
    PROVE  I!DeliveryInv'
<1>0. /\ ~I!Coming(e) /\ hand.event # e /\ ~I!In(e, made) /\ ~I!In(e, replies)
      /\ e \notin unacked /\ ~I!In(e, wire) /\ wire \in Seq(I!Events)
  BY DEF I!DeliveryInv, I!Coming, I!IngressType
<1>1. CASE provider = "slack"
  <2>1. unacked' = unacked \cup {e} /\ wire' = wire
    BY <1>1 DEF I!Arrives
  <2>2. \A f : I!Coming(f)' <=> I!Coming(f) \/ f = e
    BY <2>1 DEF I!Coming
  <2>3. \A f \in I!Events : I!Fresh(f)' =>
            ~I!Coming(f)' /\ hand'.event # f /\ ~I!In(f, made') /\ ~I!In(f, replies')
    BY <2>2 DEF I!DeliveryInv
  <2>4. \A f \in I!Events \ ackLost' :
          /\ I!Coming(f)' => ~I!In(f, made') /\ ~I!In(f, replies')
          /\ hand'.event = f /\ hand'.at # "ack" => f \notin unacked'
          /\ I!Once(f, made') /\ I!Once(f, replies') /\ ~(I!In(f, made') /\ I!In(f, replies'))
    BY <1>0, <2>1, <2>2 DEF I!DeliveryInv
  <2> QED BY <1>1, <2>1, <2>3, <2>4 DEF I!DeliveryInv
<1>2. CASE provider = "mattermost"
  <2>1. unacked' = unacked /\ (wire' = wire \/ wire' = Append(wire, e))
    BY <1>2 DEF I!Arrives
  <2>2. \A f : I!In(f, wire') => I!In(f, wire) \/ f = e
    <3>1. \A f : I!In(f, Append(wire, e)) => I!In(f, wire) \/ f = e
      BY <1>0, InAppend
    <3> QED BY <2>1, <3>1
  <2>3. \A f \in I!Events : I!Once(f, wire')
    <3>1. \A f \in I!Events : I!Once(f, wire) /\ (f = e => ~I!In(f, wire))
      BY <1>0 DEF I!DeliveryInv
    <3>2. \A f \in I!Events : I!Once(f, Append(wire, e))
      BY <1>0, <3>1, OnceAppend
    <3> QED BY <2>1, <3>1, <3>2
  <2>4. \A f : I!Coming(f)' => I!Coming(f) \/ f = e
    BY <2>1, <2>2 DEF I!Coming
  <2>5. \A f \in I!Events : I!Fresh(f)' =>
            ~I!Coming(f)' /\ hand'.event # f /\ ~I!In(f, made') /\ ~I!In(f, replies')
    BY <2>4 DEF I!DeliveryInv
  <2>6. \A f \in I!Events \ ackLost' :
          /\ I!Coming(f)' => ~I!In(f, made') /\ ~I!In(f, replies')
          /\ hand'.event = f /\ hand'.at # "ack" => f \notin unacked'
          /\ I!Once(f, made') /\ I!Once(f, replies') /\ ~(I!In(f, made') /\ I!In(f, replies'))
    BY <1>0, <2>1, <2>4 DEF I!DeliveryInv
  <2>7. hand' # I!Idle => ~I!In(hand'.event, wire')
    BY <1>0, <2>2 DEF I!DeliveryInv
  <2> QED BY <1>2, <2>1, <2>3, <2>5, <2>6, <2>7 DEF I!DeliveryInv
<1> QED BY <1>1, <1>2, ProviderIs

\* Slack sends an envelope (again).
LEMMA DeliverDelivery ==
    ASSUME I!IngressType, I!DeliveryInv, NEW e \in I!Events, I!Deliver(e)
    PROVE  I!DeliveryInv'
<1>0. /\ e \in unacked /\ ~I!In(e, wire) /\ hand.event # e /\ wire' = Append(wire, e)
      /\ UNCHANGED <<provider, unwritten, question, unacked, hand, made, replies, ackLost>>
  BY DEF I!Deliver, I!In, I!gate, I!rows
<1>1. wire \in Seq(I!Events)
  BY DEF I!IngressType
<1>2. \A f : I!In(f, wire') <=> I!In(f, wire) \/ f = e
  BY <1>0, <1>1, InAppend
<1>3. \A f \in I!Events : I!Once(f, wire')
  <2>1. \A f \in I!Events : I!Once(f, wire) /\ (f = e => ~I!In(f, wire))
    BY <1>0 DEF I!DeliveryInv
  <2> QED BY <1>0, <1>1, <2>1, OnceAppend
<1>4. \A f : I!Coming(f)' <=> I!Coming(f)
  BY <1>0, <1>2 DEF I!Coming
<1>5. \A f : I!Fresh(f)' <=> I!Fresh(f)
  BY <1>0 DEF I!Fresh
<1>6. provider = "slack" => \A i \in 1..Len(wire') : wire'[i] \in unacked
  <2>1. \A i \in 1..Len(wire') : I!In(wire'[i], wire')
    BY DEF I!In
  <2>2. \A f : I!In(f, wire) /\ provider = "slack" => f \in unacked
    BY DEF I!DeliveryInv, I!In
  <2> QED BY <1>0, <1>2, <2>1, <2>2
<1>7. hand # I!Idle => ~I!In(hand.event, wire')
  BY <1>0, <1>2 DEF I!DeliveryInv
<1>8. \A f \in I!Events : I!Fresh(f)' =>
          ~I!Coming(f)' /\ hand'.event # f /\ ~I!In(f, made') /\ ~I!In(f, replies')
  BY <1>0, <1>4, <1>5 DEF I!DeliveryInv
<1>9. \A f \in I!Events \ ackLost' :
        /\ I!Coming(f)' => ~I!In(f, made') /\ ~I!In(f, replies')
        /\ hand'.event = f /\ hand'.at # "ack" => f \notin unacked'
        /\ I!Once(f, made') /\ I!Once(f, replies') /\ ~(I!In(f, made') /\ I!In(f, replies'))
  BY <1>0, <1>4 DEF I!DeliveryInv
<1> QED BY <1>0, <1>3, <1>6, <1>7, <1>8, <1>9 DEF I!DeliveryInv

\* From the socket to the hand.
LEMMA ReceiveDelivery ==
    ASSUME I!IngressType, I!DeliveryInv, I!Receive
    PROVE  I!DeliveryInv'
<1> DEFINE h == Head(wire)
<1>0. /\ UNCHANGED <<provider, unwritten, question, unacked, made, replies, ackLost>>
      /\ wire # <<>> /\ wire \in Seq(I!Events) /\ wire' = Tail(wire) /\ h \in I!Events
      /\ hand'.event = h /\ hand'.at = (IF provider = "slack" THEN "ack" ELSE "check")
  BY ReceiveMoves, HandlerFrame, TailEntries DEF I!IngressType, I!Handler
<1>1. I!In(h, wire) /\ ~I!In(h, wire') /\ \A f : I!In(f, wire') => I!In(f, wire)
  BY <1>0, InTail DEF I!DeliveryInv
<1>2. \A f \in I!Events : I!Once(f, wire')
  BY <1>0, InTail DEF I!DeliveryInv
<1>3. provider = "slack" =>
        /\ \A i \in 1..Len(wire') : wire'[i] \in unacked
        /\ h \in unacked
  <2>1. \A i \in 1..Len(wire') : I!In(wire'[i], wire')
    BY DEF I!In
  <2>2. \A f : I!In(f, wire) /\ provider = "slack" => f \in unacked
    BY DEF I!DeliveryInv, I!In
  <2> QED BY <1>1, <2>1, <2>2
<1>4. \A f : I!Coming(f)' => I!Coming(f)
  BY <1>0, <1>1 DEF I!Coming
<1>5. I!Coming(h)
  BY <1>1 DEF I!Coming
<1>6. \A f : I!Fresh(f)' <=> I!Fresh(f)
  BY <1>0 DEF I!Fresh
<1>7. \A f \in I!Events : I!Fresh(f)' =>
          ~I!Coming(f)' /\ hand'.event # f /\ ~I!In(f, made') /\ ~I!In(f, replies')
  BY <1>0, <1>4, <1>5, <1>6 DEF I!DeliveryInv
<1>8. provider = "mattermost" => unacked = {}
  BY DEF I!DeliveryInv
<1>9. \A f \in I!Events \ ackLost' :
        /\ I!Coming(f)' => ~I!In(f, made') /\ ~I!In(f, replies')
        /\ hand'.event = f /\ hand'.at # "ack" => f \notin unacked'
        /\ I!Once(f, made') /\ I!Once(f, replies') /\ ~(I!In(f, made') /\ I!In(f, replies'))
  BY <1>0, <1>4, <1>8, ProviderIs DEF I!DeliveryInv
<1>10. provider' = "mattermost" => unacked' = {} /\ hand'.at # "ack"
  BY <1>0, <1>8
<1> QED BY <1>0, <1>1, <1>2, <1>3, <1>7, <1>9, <1>10 DEF I!DeliveryInv

\* The steps of the handler, except the acknowledgement: the event in hand goes
\* from hand to a row, or to nobody, or to the handler's next stage.
LEMMA HandlingDelivery ==
    ASSUME I!IngressType, I!DeliveryInv, hand.at \in {"check", "hydrate", "submit"},
           UNCHANGED <<provider, unwritten, question, unacked, wire, ackLost>>,
           \/ hand' = I!Idle
           \/ hand'.event = hand.event /\ hand'.at \in {"hydrate", "submit", "notify"},
           \/ UNCHANGED <<made, replies>>
           \/ /\ hand'.at \in {"idle", "notify"}
              /\ \/ made' = Append(made, hand.event) /\ replies' = replies
                 \/ replies' = Append(replies, hand.event) /\ made' = made
    PROVE  I!DeliveryInv'
<1> DEFINE h == hand.event
<1>0. /\ hand # I!Idle /\ h \in I!Events /\ h # None
      /\ made \in Seq(I!Events) /\ replies \in Seq(I!Events)
  BY InHand, NoneIsNoEvent DEF I!IngressType
<1>b. hand'.at # "ack" /\ (hand'.event = h \/ hand'.event = None)
  BY IdleHand
<1>c. ~I!In(h, wire) /\ (h \notin ackLost => h \notin unacked)
  BY <1>0 DEF I!DeliveryInv
<1>1. \A f \in I!Events : I!Coming(f)' => I!Coming(f)
  <2>1. ASSUME NEW f \in I!Events, hand'.event = f, hand'.at \in {"ack", "check", "hydrate", "submit"}
        PROVE  hand.event = f /\ hand.at \in {"ack", "check", "hydrate", "submit"}
    <3>1. f = h
      BY <2>1, <1>b, NoneIsNoEvent
    <3> QED BY <3>1
  <2> QED BY <2>1 DEF I!Coming
<1>2. \A f : I!Fresh(f)' <=> I!Fresh(f)
  BY DEF I!Fresh
<1>3. \A f \in I!Events : f # h =>
        (I!In(f, made') <=> I!In(f, made)) /\ (I!In(f, replies') <=> I!In(f, replies))
  <2>1. \A f \in I!Events : f # h =>
          (I!In(f, Append(made, h)) <=> I!In(f, made)) /\ (I!In(f, Append(replies, h)) <=> I!In(f, replies))
    BY <1>0, InAppend
  <2> QED BY <2>1
<1>4. \A f \in I!Events : f # h =>
        (I!Once(f, made) => I!Once(f, made')) /\ (I!Once(f, replies) => I!Once(f, replies'))
  BY <1>0, OnceAppend
<1>5. ~I!Fresh(h)
  BY <1>0 DEF I!DeliveryInv
<1>6. \A f \in I!Events : I!Fresh(f)' =>
          ~I!Coming(f)' /\ hand'.event # f /\ ~I!In(f, made') /\ ~I!In(f, replies')
  <2> SUFFICES ASSUME NEW f \in I!Events, I!Fresh(f)
               PROVE  ~I!Coming(f)' /\ hand'.event # f /\ ~I!In(f, made') /\ ~I!In(f, replies')
    BY <1>2
  <2>1. f # h /\ f # None
    BY <1>5, NoneIsNoEvent
  <2> QED BY <2>1, <1>1, <1>3, <1>b DEF I!DeliveryInv
<1>7. ASSUME NEW f \in I!Events \ ackLost
      PROVE  /\ I!Coming(f)' => ~I!In(f, made') /\ ~I!In(f, replies')
             /\ hand'.event = f /\ hand'.at # "ack" => f \notin unacked'
             /\ I!Once(f, made') /\ I!Once(f, replies') /\ ~(I!In(f, made') /\ I!In(f, replies'))
  <2>1. CASE f # h
    <3>1. hand'.event # f
      BY <2>1, <1>b, NoneIsNoEvent
    <3> QED BY <2>1, <3>1, <1>1, <1>3, <1>4 DEF I!DeliveryInv
  <2>2. CASE f = h /\ UNCHANGED <<made, replies>>
    BY <2>2, <1>1, <1>c DEF I!DeliveryInv
  <2>3. CASE f = h /\ hand'.at \in {"idle", "notify"}
             /\ \/ made' = Append(made, hand.event) /\ replies' = replies
                \/ replies' = Append(replies, hand.event) /\ made' = made
    <3>1. ~I!In(f, made) /\ ~I!In(f, replies)
      BY <2>3 DEF I!DeliveryInv, I!Coming
    <3>2. ~I!Coming(f)'
      BY <2>3, <1>c DEF I!Coming
    <3>3. I!Once(f, made) /\ I!Once(f, replies)
      BY DEF I!DeliveryInv
    <3>4. I!Once(f, made') /\ I!Once(f, replies')
      BY <2>3, <3>1, <3>3, <1>0, OnceAppend
    <3> QED BY <2>3, <3>1, <3>2, <3>4, <1>c
  <2> QED BY <2>1, <2>2, <2>3
<1>8. hand' # I!Idle => ~I!In(hand'.event, wire')
  BY <1>c
<1>9. \A f \in I!Events : I!Once(f, wire')
  BY DEF I!DeliveryInv
<1>10. provider' = "slack" => \A i \in 1..Len(wire') : wire'[i] \in unacked'
  BY DEF I!DeliveryInv
<1>11. provider' = "mattermost" => unacked' = {} /\ hand'.at # "ack"
  BY <1>b DEF I!DeliveryInv
<1> QED BY <1>6, <1>7, <1>8, <1>9, <1>10, <1>11, <1>b DEF I!DeliveryInv

\* The acknowledgement reaches Slack, which forgets the event, or is lost.
LEMMA AckDelivery ==
    ASSUME I!IngressType, I!DeliveryInv, hand.at = "ack",
           UNCHANGED <<provider, unwritten, question, wire, made, replies>>,
           hand'.event = hand.event, hand'.at = "check",
           \/ unacked' = unacked \ {hand.event} /\ ackLost' = ackLost
           \/ ackLost' = ackLost \cup {hand.event} /\ unacked' = unacked
    PROVE  I!DeliveryInv'
<1> DEFINE h == hand.event
<1>0. hand # I!Idle /\ h \in I!Events /\ ~I!In(h, wire) /\ I!Coming(h)
  BY InHand DEF I!DeliveryInv, I!Coming
<1>1. \A f : I!Coming(f)' => I!Coming(f)
  BY DEF I!Coming
<1>2. \A f : I!Fresh(f)' <=> I!Fresh(f)
  BY DEF I!Fresh
<1>3. provider = "slack" /\ \A i \in 1..Len(wire) : wire[i] # h
  BY <1>0, ProviderIs DEF I!DeliveryInv, I!In
<1>4. provider' = "slack" => \A i \in 1..Len(wire') : wire'[i] \in unacked'
  BY <1>3 DEF I!DeliveryInv
<1>5. \A f \in I!Events : I!Fresh(f)' =>
          ~I!Coming(f)' /\ hand'.event # f /\ ~I!In(f, made') /\ ~I!In(f, replies')
  BY <1>1, <1>2 DEF I!DeliveryInv
<1>6. \A f \in I!Events \ ackLost' :
        /\ I!Coming(f)' => ~I!In(f, made') /\ ~I!In(f, replies')
        /\ hand'.event = f /\ hand'.at # "ack" => f \notin unacked'
        /\ I!Once(f, made') /\ I!Once(f, replies') /\ ~(I!In(f, made') /\ I!In(f, replies'))
  <2>1. \A f \in I!Events \ ackLost' : f \in I!Events \ ackLost /\ (f = h => f \notin unacked')
    OBVIOUS
  <2> QED BY <2>1, <1>1 DEF I!DeliveryInv
<1>7. \A f \in I!Events : I!Once(f, wire')
  BY DEF I!DeliveryInv
<1> QED BY <1>0, <1>3, <1>4, <1>5, <1>6, <1>7 DEF I!DeliveryInv

LEMMA DeliveryStep == I!IngressType /\ I!DeliveryInv /\ I!Next => I!DeliveryInv'
<1> SUFFICES ASSUME I!IngressType, I!DeliveryInv, I!Next PROVE I!DeliveryInv'
  OBVIOUS
<1>1. CASE I!Gateway
  <2>1. \A e : I!Fresh(e)' <=> I!Fresh(e)
    BY <1>1, GatewayFrame DEF I!Fresh
  <2> QED BY <1>1, <2>1, GatewayFrame, QuietDelivery
<1>2. CASE I!Runtime \/ I!Admit \/ I!WaitingTimeout
  <2>1. UNCHANGED <<provider, unwritten, hand, made, replies, ackLost>>
    BY <1>2, RuntimeFrame DEF I!gate, I!rows
  <2>2. \A e : I!Fresh(e)' => I!Fresh(e)
    BY <1>2, <2>1, FreshShrinks
  <2>3. CASE UNCHANGED I!bus
    BY <2>1, <2>2, <2>3, QuietDelivery DEF I!bus
  <2>4. CASE I!PostQuestion
    <3>e. PICK e \in I!Events : e = <<"prompt", question.q>>
      BY PromptIsEvent
    <3>0. e \in I!Events /\ e \notin Posts /\ question.q \in 1..Questions
      BY <3>e, AskIs, Assumptions DEF I!IngressAssumption
    <3>1. question'.q = question.q /\ question'.at = "poll" /\ question.at = "post" /\ I!Arrives(e)
      BY <1>2, <2>4, <3>e, AskMoves, AskIs DEF I!PostQuestion, I!AskAt
    <3>2. I!Fresh(e)
      BY <3>e, <3>0, <3>1 DEF I!Fresh
    <3>3. ~I!Fresh(e)'
      <4>1. e \notin unwritten'
        BY <2>1, <3>0 DEF I!IngressType
      <4>2. \A k \in 1..Questions : e = <<"prompt", k>> => k = question'.q
        BY <3>e, <3>1
      <4> QED BY <3>0, <3>1, <4>1, <4>2 DEF I!Fresh
    <3> QED BY <2>1, <2>2, <3>0, <3>1, <3>2, <3>3, ArrivesDelivery
  <2> QED BY <1>2, <2>3, <2>4, RuntimeFrame
<1>3. ASSUME NEW e \in Posts, I!Write(e) PROVE I!DeliveryInv'
  <2>1. /\ e \in unwritten /\ unwritten' = unwritten \ {e} /\ I!Arrives(e)
        /\ UNCHANGED <<provider, hand, made, replies, ackLost, question>>
    BY <1>3 DEF I!Write, I!gate, I!rows
  <2>2. e \in I!Events /\ I!Fresh(e) /\ \A k \in 1..Questions : e # <<"prompt", k>>
    BY <2>1, Assumptions DEF I!Events, I!Fresh, I!IngressAssumption
  <2>3. ~I!Fresh(e)'
    BY <2>1, <2>2 DEF I!Fresh
  <2>4. \A f : I!Fresh(f)' => I!Fresh(f)
    BY <2>1, FreshShrinks
  <2> QED BY <2>1, <2>2, <2>3, <2>4, ArrivesDelivery
<1>4. ASSUME NEW e \in I!Events, I!Deliver(e) PROVE I!DeliveryInv'
  BY <1>4, DeliverDelivery
<1>5. CASE I!Receive
  BY <1>5, ReceiveDelivery
<1>6. CASE I!Handler /\ ~I!Receive
  <2>0. UNCHANGED <<provider, unwritten, question, wire>> /\ hand.at # "idle"
    BY <1>6, HandlerFrame, HandlerMoves
  <2>1. hand.at \in {"ack", "check", "hydrate", "submit", "notify"}
    BY <2>0 DEF I!IngressType
  <2>2. \A e : I!Fresh(e)' <=> I!Fresh(e)
    BY <2>0 DEF I!Fresh
  <2>3. CASE hand.at = "ack" /\ hand' = [hand EXCEPT !.at = "check"]
             /\ \/ unacked' = unacked \ {hand.event} /\ ackLost' = ackLost
                \/ ackLost' = ackLost \cup {hand.event} /\ unacked' = unacked
             /\ UNCHANGED <<made, replies>>
    <3>1. hand'.event = hand.event /\ hand'.at = "check"
      BY <2>0, <2>3, HandMoves
    <3> QED BY <2>0, <2>3, <3>1, AckDelivery
  <2>4. CASE hand' = I!Idle /\ UNCHANGED <<unacked, made, replies, ackLost>>
    BY <2>0, <2>2, <2>4, QuietDelivery
  <2>5. CASE hand.at = "check" /\ hand' = I!Idle /\ replies' = Append(replies, hand.event)
             /\ UNCHANGED <<unacked, made, ackLost>>
    <3>1. hand'.at = "idle"
      BY <2>5, IdleHand
    <3> QED BY <2>0, <2>5, <3>1, HandlingDelivery
  <2>6. ASSUME NEW stage \in {"hydrate", "submit"}, hand' = [hand EXCEPT !.at = stage],
               hand.at \in {"check", "hydrate"}, UNCHANGED <<unacked, made, replies, ackLost>>
        PROVE  I!DeliveryInv'
    <3>1. hand'.event = hand.event /\ hand'.at = stage
      BY <2>0, <2>6, HandMoves
    <3> QED BY <2>0, <2>6, <3>1, HandlingDelivery
  <2>7. CASE hand.at = "submit" /\ hand' = [hand EXCEPT !.at = "notify"]
             /\ (made' = made \/ made' = Append(made, hand.event))
             /\ UNCHANGED <<unacked, replies, ackLost>>
    <3>1. hand'.event = hand.event /\ hand'.at = "notify"
      BY <2>0, <2>7, HandMoves
    <3> QED BY <2>0, <2>7, <3>1, HandlingDelivery
  <2> QED BY <1>6, <2>3, <2>4, <2>5, <2>6, <2>7, HandlerMoves
<1>7. ASSUME NEW i \in 1..Len(made), I!Lapse(i) PROVE I!DeliveryInv'
  <2>1. \A e : I!Fresh(e)' <=> I!Fresh(e)
    BY <1>7, LapseFrame DEF I!Fresh
  <2> QED BY <1>7, <2>1, LapseFrame, QuietDelivery
<1> QED BY <1>1, <1>2, <1>3, <1>4, <1>5, <1>6, <1>7 DEF I!Next

-----------------------------------------------------------------------------
(* Dedupe keys and answers.                                                *)

\* Where tasks and replies come from: the handler alone.
LEMMA RowsFrame ==
    ASSUME I!IngressType, I!Next, ~(I!Handler /\ ~I!Receive)
    PROVE  UNCHANGED <<made, replies>> /\ past \subseteq past'
<1>1. CASE I!Gateway
  BY <1>1, GatewayFrame
<1>2. CASE I!Runtime \/ I!Admit \/ I!WaitingTimeout
  BY <1>2, RuntimeFrame DEF I!rows
<1>3. CASE (\E e \in Posts : I!Write(e)) \/ (\E e \in I!Events : I!Deliver(e))
  BY <1>3 DEF I!Write, I!Deliver, I!rows
<1>4. CASE I!Receive
  BY <1>4, ReceiveMoves, HandlerFrame DEF I!Handler
<1>5. CASE \E i \in 1..Len(made) : I!Lapse(i)
  BY <1>5, LapseFrame
<1> QED BY <1>1, <1>2, <1>3, <1>4, <1>5 DEF I!Next

LEMMA RowsMove ==
    ASSUME I!IngressType, I!Next
    PROVE  /\ \/ made' = made
              \/ /\ hand.event \in I!Events /\ I!Twins(hand.event) = {}
                 /\ made' = Append(made, hand.event)
           /\ past \subseteq past'
           /\ \/ replies' = replies
              \/ /\ hand.event \in I!Events /\ I!AnswersWait(hand.event)
                 /\ replies' = Append(replies, hand.event) /\ question' = question
<1>1. CASE I!Handler /\ ~I!Receive
  BY <1>1, HandlerMoves, HandlerFrame, InHand
<1> QED BY <1>1, RowsFrame

\* A task that the look-up finds keeps its key; a task is made when the look-up finds
\* none of its key.
LEMMA KeysStep == I!IngressType /\ I!KeysOnce /\ I!Next => I!KeysOnce'
<1> SUFFICES ASSUME I!IngressType, I!KeysOnce, I!Next PROVE I!KeysOnce'
  OBVIOUS
<1>0. made \in Seq(I!Events) /\ past \subseteq past'
  BY RowsMove DEF I!IngressType
<1>1. CASE made' = made
  BY <1>0, <1>1 DEF I!KeysOnce, I!Keyed
<1>2. CASE hand.event \in I!Events /\ I!Twins(hand.event) = {} /\ made' = Append(made, hand.event)
  <2> DEFINE h == hand.event
             found == 1..Len(made) \ past
  <2>1. /\ Len(made') = Len(made) + 1 /\ Len(made) \in Nat /\ made'[Len(made) + 1] = h
        /\ \A i \in 1..Len(made) : made'[i] = made[i]
    BY <1>0, <1>2, AppendEntries
  <2>2. ASSUME NEW i \in found, ~I!IsOwn(made[i]), ~I!IsOwn(h), Key[h] # None
        PROVE  Key[made[i]] # Key[h]
    BY <1>2, <2>2 DEF I!Twins
  <2>3. ASSUME NEW i \in 1..Len(made') \ past', NEW j \in 1..Len(made') \ past',
               ~I!IsOwn(made'[i]), ~I!IsOwn(made'[j]), Key[made'[i]] # None,
               Key[made'[i]] = Key[made'[j]]
        PROVE  i = j
    <3> HIDE DEF h
    <3>1. CASE i \in found /\ j \in found
      BY <2>1, <2>3, <3>1 DEF I!KeysOnce, I!Keyed
    <3>2. CASE i \in found /\ j = Len(made) + 1
      BY <2>1, <2>2, <2>3, <3>2
    <3>3. CASE i = Len(made) + 1 /\ j \in found
      BY <2>1, <2>2, <2>3, <3>3
    <3>4. \A k \in 1..Len(made') \ past' : k \in found \/ k = Len(made) + 1
      BY <1>0, <2>1
    <3> QED BY <2>3, <3>1, <3>2, <3>3, <3>4
  <2> QED BY <2>3 DEF I!KeysOnce, I!Keyed
<1> QED BY <1>1, <1>2, RowsMove

\* The watermark of a question is past what was answered before: it is taken from the
\* replies recorded so far, as long as the runtime's clock does not lag.
LEMMA AnswersStep ==
    ASSUME I!IngressType, I!AnswersInv, I!Next, BotAccount, Skew <= 0
    PROVE  I!AnswersInv'
<1>0. replies \in Seq(I!Events) /\ question.answers \in Seq(Nat) /\ Len(replies) \in Nat
  BY AskIs DEF I!IngressType
<1>1. Len(replies) <= Len(replies') /\ Len(replies') \in Nat
  BY <1>0, RowsMove, AppendEntries
<1>2. \A i \in 1..Len(replies') : ~I!IsOwn(replies'[i]) /\ replies'[i] \in InThread
  <2>1. CASE replies' = replies
    BY <2>1 DEF I!AnswersInv
  <2>2. CASE hand.event \in I!Events /\ I!AnswersWait(hand.event)
             /\ replies' = Append(replies, hand.event)
    <3>1. ~I!IsOwn(hand.event) /\ hand.event \in InThread
      BY <2>2 DEF I!AnswersWait, I!IsBot, I!ThreadOf
    <3>2. Len(replies') = Len(replies) + 1 /\ replies'[Len(replies) + 1] = hand.event
          /\ \A i \in 1..Len(replies) : replies'[i] = replies[i]
      BY <1>0, <2>2, AppendEntries
    <3> QED BY <1>0, <3>1, <3>2 DEF I!AnswersInv
  <2> QED BY <2>1, <2>2, RowsMove
<1>3. ASSUME question'.answers = question.answers,
             question'.at \in {"post", "poll"} =>
                \/ question'.started = question.started /\ question.at \in {"post", "poll"}
                \/ question'.started >= Len(replies) /\ question'.started \in Int
      PROVE  I!AnswersInv'
  <2>1. ASSUME NEW i \in 1..Len(question.answers)
        PROVE  /\ question.answers[i] \in 1..Len(replies')
               /\ i > 1 => question.answers[i] > question.answers[i - 1]
               /\ question'.at \in {"post", "poll"} => question.answers[i] <= question'.started
    <3>1. /\ question.answers[i] \in 1..Len(replies)
          /\ i > 1 => question.answers[i] > question.answers[i - 1]
          /\ question.at \in {"post", "poll"} => question.answers[i] <= question.started
      BY DEF I!AnswersInv
    <3> QED BY <1>0, <1>1, <1>3, <3>1
  <2> QED BY <1>2, <1>3, <2>1 DEF I!AnswersInv
<1>4. CASE question' = question
  BY <1>3, <1>4
<1>5. CASE I!Mark
  <2>1. question' = [question EXCEPT !.at = "post", !.started = Len(replies) - Skew]
    BY <1>5 DEF I!Mark
  <2>2. question'.answers = question.answers /\ question'.started = Len(replies) - Skew
    BY <2>1, AskIs
  <2>3. Len(replies) - Skew \in Int /\ Len(replies) - Skew >= Len(replies)
    BY <1>0, Assumptions DEF I!IngressAssumption
  <2> QED BY <1>3, <2>2, <2>3
<1>6. CASE I!PollReply
  <2> DEFINE m == CHOOSE i \in I!Heard : \A j \in I!Heard : i <= j
             n == Len(question.answers)
  <2>1. m \in 1..Len(replies) /\ m > question.started
    <3>1. I!Heard \subseteq Nat /\ I!Heard # {}
      BY <1>6 DEF I!PollReply, I!Heard
    <3>2. \E i \in I!Heard : \A j \in I!Heard : i <= j
      BY <3>1, HasSmallest
    <3>3. m \in I!Heard
      BY <3>2
    <3> HIDE DEF m
    <3> QED BY <3>3 DEF I!Heard
  <2> HIDE DEF m
  <2>2. question' = [question EXCEPT !.answers = Append(@, m),
                                     !.q = IF @ < Questions THEN @ + 1 ELSE @,
                                     !.at = IF question.q < Questions THEN "work" ELSE "resolve"]
        /\ question.at = "poll"
    BY <1>6 DEF I!PollReply, m, I!AskAt
  <2>3. question'.answers = Append(question.answers, m) /\ question'.at \notin {"post", "poll"}
    BY <2>2, AskIs
  <2>4. /\ Append(question.answers, m)[n + 1] = m /\ Len(question'.answers) = n + 1 /\ n \in Nat
        /\ \A i \in 1..n : question'.answers[i] = question.answers[i]
    BY <1>0, <2>1, <2>3, AppendEntries
  <2> HIDE DEF n
  <2>5. \A i \in 1..n : /\ question.answers[i] \in 1..Len(replies) /\ question.answers[i] <= question.started
                        /\ i > 1 => question.answers[i] > question.answers[i - 1]
    BY <2>2 DEF I!AnswersInv, n
  <2>6. ASSUME NEW i \in 1..(n + 1)
        PROVE  /\ question'.answers[i] \in 1..Len(replies')
               /\ i > 1 => question'.answers[i] > question'.answers[i - 1]
    <3>1. CASE i \in 1..n
      <4>1. i > 1 => i - 1 \in 1..n
        BY <2>4, <3>1
      <4>2. question'.answers[i] = question.answers[i]
            /\ (i > 1 => question'.answers[i - 1] = question.answers[i - 1])
        BY <2>4, <3>1, <4>1
      <4>3. question.answers[i] \in 1..Len(replies) /\ (i > 1 => question.answers[i] > question.answers[i - 1])
        BY <2>5, <3>1
      <4>4. question'.answers[i] \in 1..Len(replies')
        BY <1>0, <1>1, <4>2, <4>3
      <4> QED BY <4>2, <4>3, <4>4
    <3>2. CASE i = n + 1
      <4>1. question'.answers[i] = m
        BY <2>3, <2>4, <3>2
      <4>2. i > 1 => i - 1 \in 1..n /\ i - 1 = n
        BY <2>4, <3>2
      <4>3. m \in 1..Len(replies')
        BY <1>0, <1>1, <2>1
      <4>4. ASSUME i > 1 PROVE m > question'.answers[i - 1]
        <5>1. question'.answers[i - 1] = question.answers[i - 1]
              /\ question.answers[i - 1] \in 1..Len(replies) /\ question.answers[i - 1] <= question.started
          BY <2>4, <2>5, <4>2, <4>4
        <5> QED BY <1>0, <2>1, <5>1, AskIs
      <4> QED BY <4>1, <4>3, <4>4
    <3> QED BY <2>4, <3>1, <3>2
  <2> QED BY <1>2, <2>3, <2>4, <2>6 DEF I!AnswersInv
<1>7. ASSUME NEW p \in Asking, question' = [question EXCEPT !.at = p], p # "post",
             p = "poll" => question.at = "post"
      PROVE  I!AnswersInv'
  <2>1. question'.answers = question.answers /\ question'.started = question.started
        /\ question'.at = p
    BY <1>7, AskIs
  <2> QED BY <1>3, <1>7, <2>1
<1>8. CASE I!ReportRequested \/ I!PostQuestion \/ I!PostFails \/ I!GiveUp
  <2>1. \E p \in Asking : /\ question' = [question EXCEPT !.at = p] /\ p # "post"
                          /\ p = "poll" => question.at = "post"
    BY <1>8 DEF I!ReportRequested, I!PostQuestion, I!PostFails, I!GiveUp, I!AskAt, I!AskGoto, Asking
  <2> QED BY <1>7, <2>1
<1>9. CASE I!ReportResolved \/ I!Resume \/ I!DenyCall \/ I!WaitingTimeout
  <2>1. \E p \in Asking : /\ question' = [question EXCEPT !.at = p] /\ p # "post" /\ p # "poll"
    BY <1>9 DEF I!ReportResolved, I!Resume, I!DenyCall, I!WaitingTimeout, I!AskAt, I!AskGoto, Asking
  <2> QED BY <1>7, <2>1
<1>10. CASE I!SessionCompletes \/ I!Admit
  BY <1>4, <1>10 DEF I!SessionCompletes, I!Admit
<1>11. CASE I!Gateway \/ I!Handler
  BY <1>4, <1>11, GatewayFrame, HandlerFrame
<1>12. CASE (\E e \in Posts : I!Write(e)) \/ (\E e \in I!Events : I!Deliver(e))
  BY <1>4, <1>12 DEF I!Write, I!Deliver
<1>13. CASE \E i \in 1..Len(made) : I!Lapse(i)
  BY <1>4, <1>13, LapseFrame
<1> QED BY <1>5, <1>6, <1>8, <1>9, <1>10, <1>11, <1>12, <1>13 DEF I!Next, I!Runtime

-----------------------------------------------------------------------------
(* The two parts together: while the clocks run, nothing is written.       *)

\* Counting is FiniteSets' own, also inside the instance.
LEMMA CountsAlike == \A S : I!Cardinality(S) = Cardinality(S)
BY DEF I!Cardinality, Cardinality

LEMMA TimesBound ==
    ASSUME NEW T, NEW s \in Seq(T), NEW e, I!Once(e, s)
    PROVE  I!Times(e, s) \in {0, 1} /\ (I!Times(e, s) = 1 => I!In(e, s))
<1> DEFINE S == {i \in 1..Len(s) : s[i] = e}
<1>1. CASE S = {}
  <2>1. Cardinality(S) = 0
    BY <1>1, FS_EmptySet
  <2>2. I!Times(e, s) = 0
    BY <2>1, CountsAlike DEF I!Times
  <2> QED BY <2>2
<1>2. CASE S # {}
  <2>1. PICK i \in 1..Len(s) : s[i] = e
    BY <1>2
  <2>2. S = {i}
    BY <2>1 DEF I!Once
  <2>3. Cardinality(S) = 1
    BY <2>2, FS_Singleton
  <2> QED BY <2>1, <2>3, CountsAlike DEF I!Times, I!In
<1> QED BY <1>1, <1>2

MessagesInv == part = "messages" /\ I!IngressInv

LEMMA OverStays == part = "clock" /\ TaskOver /\ [MCNext]_mcvars => (part = "clock" /\ TaskOver)'
BY DEF MCNext, mcvars, ingress, TaskOver, I!Idle

LEMMA IngressInit == I!Init => I!IngressInv
<1>1. I!Init => I!KeysOnce
  BY DEF I!Init, I!KeysOnce
<1> QED BY <1>1, TypeInit, ListenerInit, DeliveryInit DEF I!IngressInv

LEMMA IngressStays == I!IngressInv /\ ingress' = ingress => I!IngressInv'
BY DEF ingress, I!IngressInv, I!IngressType, I!ListenerInv, I!DeliveryInv, I!KeysOnce, I!Keyed, I!Coming, I!Fresh

LEMMA MessagesStep == MessagesInv /\ [MCNext]_mcvars => MessagesInv'
<1> SUFFICES ASSUME MessagesInv, [MCNext]_mcvars PROVE MessagesInv'
  OBVIOUS
<1>1. CASE I!Next /\ part' = part
  BY <1>1, TypeStep, ListenerStep, DeliveryStep, KeysStep DEF MessagesInv, I!IngressInv
<1>2. CASE UNCHANGED mcvars
  BY <1>2, IngressStays DEF mcvars, MessagesInv
<1> QED BY <1>1, <1>2 DEF MCNext, MessagesInv

LEMMA MCInvariant == MCSpec => []((part = "clock" /\ TaskOver) \/ MessagesInv)
<1>1. MCInit => (part = "clock" /\ TaskOver) \/ MessagesInv
  BY IngressInit DEF MCInit, MessagesInv
<1>2. ((part = "clock" /\ TaskOver) \/ MessagesInv) /\ [MCNext]_mcvars
        => ((part = "clock" /\ TaskOver) \/ MessagesInv)'
  BY OverStays, MessagesStep
<1> QED BY <1>1, <1>2, PTL DEF MCSpec

\* A message becomes at most one task or one reply, whatever crash, reconnection,
\* redelivery or pause happens, unless the provider missed its acknowledgement; and
\* none becomes a task as long as the look-up of its dedupe key's policy finds one,
\* for every way in which tasks end or grow too old for that look-up.
THEOREM MessagesHandledOnce == MCSpec => []HandledOnce
<1>1. ASSUME TaskOver PROVE HandledOnce
  <2>1. made = <<>> /\ replies = <<>> /\ Len(made) = 0
    BY <1>1 DEF TaskOver
  <2>2. \A e : {i \in 1..Len(made) : made[i] = e} = {} /\ {i \in 1..Len(replies) : replies[i] = e} = {}
    BY <2>1
  <2>3. \A e : I!Times(e, made) = 0 /\ I!Times(e, replies) = 0
    BY <2>2, FS_EmptySet, CountsAlike DEF I!Times
  <2> QED BY <2>1, <2>3 DEF HandledOnce, I!HandledOnce, I!KeysOnce
<1>2. ASSUME I!IngressInv PROVE HandledOnce
  <2>1. ASSUME NEW e \in I!Events \ ackLost PROVE I!Times(e, made) + I!Times(e, replies) <= 1
    <3>1. /\ I!Once(e, made) /\ I!Once(e, replies) /\ ~(I!In(e, made) /\ I!In(e, replies))
          /\ made \in Seq(I!Events) /\ replies \in Seq(I!Events)
      BY <1>2 DEF I!IngressInv, I!IngressType, I!DeliveryInv
    <3>2. /\ I!Times(e, made) \in {0, 1} /\ (I!Times(e, made) = 1 => I!In(e, made))
          /\ I!Times(e, replies) \in {0, 1} /\ (I!Times(e, replies) = 1 => I!In(e, replies))
      BY <3>1, TimesBound
    <3> QED BY <3>1, <3>2
  <2> QED BY <1>2, <2>1 DEF I!IngressInv, HandledOnce, I!HandledOnce
<1> QED BY <1>1, <1>2, MCInvariant, PTL DEF MessagesInv

\* A connector whose saved state is paused has no listener and no event in hand, between
\* two pause or resume requests: also after one that failed half-way and after a restart.
THEOREM PausedIsSilent == MCSpec => []PauseHolds
<1>1. TaskOver => PauseHolds
  BY DEF TaskOver, PauseHolds, I!PauseHolds
<1>2. I!IngressInv => PauseHolds
  BY DEF I!IngressInv, I!ListenerInv, PauseHolds, I!PauseHolds
<1> QED BY <1>1, <1>2, MCInvariant, PTL DEF MessagesInv

\* Every answer a runtime takes is a human's reply in the task's thread, and no reply
\* answers two questions.  The hypotheses are where the code relies on its surroundings:
\* on Mattermost the account the gateway posts with has to be flagged as a bot, because
\* the gateway may not know its own identity; and the runtime's clock, which sets the
\* watermark, may not lag behind the clock that stamps the replies.
THEOREM AnswersAreGenuine ==
    ASSUME BotAccount, Skew <= 0
    PROVE  MCSpec => []AnswersGenuine
<1> DEFINE AInv == (part = "clock" /\ TaskOver) \/ (MessagesInv /\ I!AnswersInv)
<1>1. MCInit => AInv
  <2>1. I!Init => I!AnswersInv
    BY DEF I!Init, I!AnswersInv
  <2> QED BY <2>1, IngressInit DEF MCInit, MessagesInv
<1>2. AInv /\ [MCNext]_mcvars => AInv'
  <2>1. CASE part = "clock" /\ TaskOver
    BY <2>1, OverStays
  <2>2. CASE MessagesInv /\ I!AnswersInv
    <3> SUFFICES ASSUME [MCNext]_mcvars PROVE MessagesInv' /\ I!AnswersInv'
      OBVIOUS
    <3>1. ASSUME I!Next PROVE I!AnswersInv'
      BY <2>2, <3>1, AnswersStep DEF MessagesInv, I!IngressInv
    <3>2. ASSUME UNCHANGED mcvars PROVE I!AnswersInv'
      BY <2>2, <3>2 DEF mcvars, ingress, I!AnswersInv
    <3> QED BY <2>2, <3>1, <3>2, MessagesStep DEF MCNext, MessagesInv
  <2> QED BY <2>1, <2>2
<1>3. AInv => AnswersGenuine
  <2>1. TaskOver => AnswersGenuine
    BY DEF TaskOver, AnswersGenuine, I!AnswersGenuine
  <2>2. I!AnswersInv => AnswersGenuine
    BY DEF I!AnswersInv, AnswersGenuine, I!AnswersGenuine
  <2> QED BY <2>1, <2>2
<1> QED BY <1>1, <1>2, <1>3, PTL DEF MCSpec
=============================================================================
