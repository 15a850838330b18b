--------------------------- MODULE ApprovalsProofs ---------------------------
(***************************************************************************)
(* For any number of requests, rows and overlapping presses: a tool has at   *)
(* most one open approval; a decision is final but for the presses that had  *)
(* found the row open before; no press lets two calls run; and until two     *)
(* presses of one row overlap a call is allowed only by a decision on its    *)
(* own prompt.                                                               *)
(***************************************************************************)
EXTENDS Approvals, FiniteSetTheorems, TLAPS

\* Every variable of the approval protocol keeps its type.
THEOREM TypeCorrect == Spec => []TypeOK
<1>1. Init => TypeOK
  <2>1. NoPress \in [row : Rows \cup {None}, request : Requests \cup {None}, decision : Decisions]
    BY DEF NoPress, Decisions
  <2>2. Init => press \in [Handlers -> [row : Rows \cup {None}, request : Requests \cup {None}, decision : Decisions]]
    BY <2>1 DEF Init
  <2>3. Init => presses \in 0..MaxPresses /\ faults \in 0..MaxFaults /\ approvals \in Nat
    BY ApprovalsAssumption DEF Init
  <2>4. Init => contended \in BOOLEAN
    BY DEF Init
  <2> QED BY <2>2, <2>3, <2>4 DEF Init, TypeOK
<1>2. TypeOK /\ [Next]_vars => TypeOK'
  <2> USE ApprovalsAssumption DEF TypeOK, table, handlers, pressed, Decisions, NoPress
  <2> SUFFICES ASSUME TypeOK, [Next]_vars PROVE TypeOK'
    OBVIOUS
  <2>1. ASSUME NEW r \in Requests, Callback(r) PROVE TypeOK'
    BY <2>1 DEF Callback, Fault
  <2>2. ASSUME NEW r \in Requests, Request(r) PROVE TypeOK'
    <3>1. CASE \E a \in Rows : /\ EventRow(a) /\ PostPrompt(a, r)
                               /\ status' = [status EXCEPT ![a] = "pending"]
                               /\ request' = [request EXCEPT ![a] = r]
      <4>1. PICK a \in Rows : /\ PostPrompt(a, r)
                              /\ status' = [status EXCEPT ![a] = "pending"]
                              /\ request' = [request EXCEPT ![a] = r]
        BY <3>1
      <4>2. posted' \in [Rows -> BOOLEAN]
        BY <4>1 DEF PostPrompt
      <4>3. prompts' \in SUBSET [row : Rows, request : Requests]
        BY <4>1 DEF PostPrompt
      <4>4. faults' \in 0..MaxFaults
        BY <4>1 DEF PostPrompt, Fault
      <4>5. displaced' \in SUBSET Requests
        <5>1. \A c \in Rows : request[c] \in Requests \cup {None}
          OBVIOUS
        <5>2. \/ displaced' = displaced
              \/ \E b \in Rows : displaced' = displaced \cup ({request[b]} \ {None})
          BY <2>2 DEF Request
        <5> QED BY <5>1, <5>2
      <4> QED BY <2>2, <4>1, <4>2, <4>3, <4>4, <4>5 DEF Request
    <3>2. CASE Fault /\ UNCHANGED table
      BY <2>2, <3>2 DEF Request, Fault
    <3> QED BY <2>2, <3>1, <3>2 DEF Request
  <2>3. ASSUME NEW r \in Requests, Poll(r) PROVE TypeOK'
    BY <2>3 DEF Poll
  <2>4. ASSUME NEW r \in Requests, TimesOut(r) PROVE TypeOK'
    BY <2>4 DEF TimesOut, Fault
  <2>5. ASSUME NEW h \in Handlers, NEW p \in prompts, NEW d \in Decisions, Press(h, p, d) PROVE TypeOK'
    BY <2>5 DEF Press, Counted
  <2>6. ASSUME NEW h \in Handlers, FindOpen(h) PROVE TypeOK'
    BY <2>6 DEF FindOpen, Open
  <2>7. ASSUME NEW h \in Handlers, Decide(h) PROVE TypeOK'
    BY <2>7 DEF Decide, Done
  <2>8. CASE UNCHANGED vars
    BY <2>8 DEF vars
  <2> QED
    BY <2>1, <2>2, <2>3, <2>4, <2>5, <2>6, <2>7, <2>8 DEF Next, Runtime, Handle, Operator
<1> QED BY <1>1, <1>2, PTL DEF Spec

\* An event opens a row only when none is open.
LEMMA EventKeepsOneOpen ==
    ASSUME TypeOK, OneOpen, NEW a \in Rows, EventRow(a),
           status' = [status EXCEPT ![a] = "pending"]
    PROVE  OneOpen'
BY DEF TypeOK, OneOpen, Open, EventRow, Fresh

\* However many presses overlap, a tool has at most one open approval.
THEOREM AtMostOneOpen == Spec => []OneOpen
<1>1. Init => OneOpen
  BY DEF Init, OneOpen, Open
<1>2. TypeOK /\ OneOpen /\ [Next]_vars => OneOpen'
  <2> SUFFICES ASSUME TypeOK, OneOpen, [Next]_vars PROVE OneOpen'
    OBVIOUS
  <2>1. ASSUME NEW r \in Requests, Callback(r) \/ Request(r) PROVE OneOpen'
    <3>1. CASE UNCHANGED status
      BY <3>1 DEF OneOpen, Open
    <3> QED BY <2>1, <3>1, EventKeepsOneOpen DEF Callback, Request, table
  <2>2. CASE UNCHANGED status
    BY <2>2 DEF OneOpen, Open
  <2>3. ASSUME NEW h \in Handlers, Decide(h) PROVE OneOpen'
    <3>1. press[h].decision # "pending"
      BY DEF TypeOK, Decisions
    <3> QED BY <2>3, <3>1 DEF Decide, TypeOK, OneOpen, Open
  <2> QED
    BY <2>1, <2>2, <2>3 DEF Next, Runtime, Handle, Operator, Poll, TimesOut, Press, FindOpen, vars, table
<1> QED BY <1>1, <1>2, TypeCorrect, PTL DEF Spec

-----------------------------------------------------------------------------
\* Until two presses of a row overlap, what a press has read holds until it is applied.
LEMMA PressInvStep ==
    ASSUME TypeOK, OneOpen, PressInv, [Next]_vars
    PROVE  PressInv'
<1> USE ApprovalsAssumption
<1> SUFFICES ASSUME ~contended'
             PROVE  /\ \A g, h \in Handlers : at'[g] # "idle" /\ at'[h] # "idle" => g = h
                    /\ \A a \in Rows : status'[a] = "approved" => request'[a] \in granted' \cup {None}
                    /\ \A h \in Handlers :
                         /\ at'[h] # "idle" => /\ press'[h].row \in Open'
                                               /\ press'[h].decision = "approved" => press'[h].request \in granted'
                         /\ at'[h] = "found" => target'[h] = press'[h].row /\ written'[h] = press'[h].request
  BY Zenon DEF PressInv
<1> DEFINE P == PressInv'
<1>0. ~contended
  BY DEF Next, Runtime, Handle, Operator, Callback, Request, Poll, TimesOut, Press, Counted, FindOpen, Decide, vars, pressed
<1>a. /\ \A g, h \in Handlers : at[g] # "idle" /\ at[h] # "idle" => g = h
      /\ \A a \in Rows : status[a] = "approved" => request[a] \in granted \cup {None}
      /\ \A h \in Handlers :
           /\ at[h] # "idle" => /\ press[h].row \in Open
                                /\ press[h].decision = "approved" => press[h].request \in granted
           /\ at[h] = "found" => target[h] = press[h].row /\ written[h] = press[h].request
  BY <1>0, Zenon DEF PressInv
<1>1. ASSUME NEW r \in Requests, NEW a \in Rows, EventRow(a),
             status' = [status EXCEPT ![a] = "pending"],
             UNCHANGED request \/ request' = [request EXCEPT ![a] = r],
             UNCHANGED <<handlers, granted>>
      PROVE  P
  BY <1>a, <1>1 DEF PressInv, TypeOK, Open, EventRow, Fresh, handlers
<1>2. ASSUME UNCHANGED <<status, request, handlers, granted>> PROVE P
  BY <1>a, <1>2 DEF PressInv, Open, handlers
<1>3. ASSUME NEW r \in Requests, Callback(r) \/ Request(r) PROVE P
  BY <1>1, <1>2, <1>3 DEF Callback, Request, table, pressed
<1>4. ASSUME NEW h \in Handlers, NEW p \in prompts, NEW d \in Decisions, Press(h, p, d) PROVE P
  <2>1. p.row \in Open /\ p.row \in Rows
    BY <1>4 DEF Press, Open, TypeOK
  <2>2. Open' = Open /\ granted \subseteq granted' /\ UNCHANGED <<status, request>>
    BY <1>4 DEF Press, Counted, Open, table
  <2>3. \A g \in Handlers : at[g] = "idle"
    <3>1. \A g \in Handlers : ~(at[g] # "idle" /\ press[g].row = p.row)
      BY <1>0, <1>4 DEF Press, Counted
    <3> QED BY <1>a, <2>1, <3>1 DEF OneOpen
  <2>4. \A a \in Rows : status'[a] = "approved" => request'[a] \in granted' \cup {None}
    BY <1>a, <2>2
  <2>5. ASSUME NEW g \in Handlers, at'[g] # "idle"
        PROVE  /\ g = h /\ at'[g] = "read" /\ press'[g].row \in Open'
               /\ press'[g].decision = "approved" => press'[g].request \in granted'
    BY <1>4, <2>1, <2>2, <2>3, <2>5 DEF Press, Counted, TypeOK
  <2> QED BY <2>4, <2>5 DEF PressInv
<1>5. ASSUME NEW h \in Handlers, FindOpen(h) PROVE P
  <2>1. press[h].row \in Open
    BY <1>a, <1>5 DEF FindOpen
  <2>2. target'[h] = press[h].row /\ written'[h] = press[h].request
    BY <1>5, <2>1 DEF FindOpen, TypeOK, OneOpen
  <2>3. Open' = Open /\ UNCHANGED <<status, request, press, granted>>
    BY <1>5 DEF FindOpen, Open, table, pressed
  <2>4. \A g \in Handlers : at'[g] # "idle" => at[g] # "idle" /\ g = h
    BY <1>a, <1>5 DEF FindOpen, TypeOK
  <2> QED BY <1>a, <2>1, <2>2, <2>3, <2>4 DEF PressInv
<1>6. ASSUME NEW h \in Handlers, Decide(h) PROVE P
  <2>1. /\ target[h] = press[h].row /\ written[h] = press[h].request
        /\ press[h].decision = "approved" => press[h].request \in granted
        /\ press[h].row \in Rows
    BY <1>a, <1>6 DEF Decide, Open
  <2>2. /\ status' = [status EXCEPT ![press[h].row] = press[h].decision]
        /\ request' = [request EXCEPT ![press[h].row] = press[h].request]
        /\ granted' = granted
    BY <1>6, <2>1 DEF Decide, pressed
  <2>3. \A a \in Rows : status'[a] = "approved" => request'[a] \in granted' \cup {None}
    BY <1>a, <2>1, <2>2 DEF TypeOK
  <2>4. \A g \in Handlers : at'[g] = "idle"
    BY <1>a, <1>6 DEF Decide, Done, TypeOK
  <2> QED BY <2>3, <2>4 DEF PressInv
<1>7. P
  BY <1>2, <1>3, <1>4, <1>5, <1>6
  DEF Next, Runtime, Handle, Operator, Poll, TimesOut, vars, table, handlers, pressed
<1> QED BY <1>7 DEF PressInv

LEMMA PressesAreCurrent == Spec => []PressInv
<1>1. Init => PressInv
  BY DEF Init, PressInv
<1> QED BY <1>1, PressInvStep, TypeCorrect, AtMostOneOpen, PTL DEF Spec

-----------------------------------------------------------------------------
\* The three sets that SpentInv counts are finite.
LEMMA Counts ==
    ASSUME TypeOK
    PROVE  /\ IsFiniteSet(Approving) /\ IsFiniteSet(Unused) /\ IsFiniteSet(Allowed)
           /\ Cardinality(Approving) \in Nat /\ Cardinality(Unused) \in Nat /\ Cardinality(Allowed) \in Nat
<1>1. Approving \subseteq Handlers /\ Unused \subseteq Rows /\ Allowed \subseteq Requests
  BY DEF Approving, Unused, Allowed
<1>2. IsFiniteSet(Approving) /\ IsFiniteSet(Unused) /\ IsFiniteSet(Allowed)
  BY <1>1, FS_Subset, ApprovalsAssumption
<1> QED BY <1>2, FS_CardinalityType

\* A set that has at most one element more, and one that has lost an element.
LEMMA OneMore ==
    ASSUME NEW S, NEW T, NEW x, IsFiniteSet(S), T \subseteq S \cup {x}
    PROVE  Cardinality(T) <= Cardinality(S) + 1
<1>1. IsFiniteSet(S \cup {x}) /\ Cardinality(S \cup {x}) <= Cardinality(S) + 1 /\ Cardinality(S) \in Nat
  BY FS_AddElement, FS_CardinalityType
<1>2. IsFiniteSet(T) /\ Cardinality(T) <= Cardinality(S \cup {x})
  BY <1>1, FS_Subset
<1> QED BY <1>1, <1>2, FS_CardinalityType

LEMMA OneLess ==
    ASSUME NEW S, NEW T, NEW x \in S, IsFiniteSet(S), T \subseteq S \ {x}
    PROVE  Cardinality(T) + 1 <= Cardinality(S)
<1>1. IsFiniteSet(S \ {x}) /\ Cardinality(S \ {x}) = Cardinality(S) - 1 /\ Cardinality(S) \in Nat
  BY FS_RemoveElement, FS_CardinalityType
<1>2. IsFiniteSet(T) /\ Cardinality(T) <= Cardinality(S \ {x})
  BY <1>1, FS_Subset
<1> QED BY <1>1, <1>2, FS_CardinalityType

LEMMA SpentInvStep ==
    ASSUME TypeOK, TypeOK', SpentInv, [Next]_vars
    PROVE  SpentInv'
<1> USE ApprovalsAssumption
<1>0. /\ IsFiniteSet(Approving) /\ IsFiniteSet(Unused) /\ IsFiniteSet(Allowed)
      /\ Cardinality(Approving) \in Nat /\ Cardinality(Unused) \in Nat /\ Cardinality(Allowed) \in Nat
      /\ Cardinality(Approving') \in Nat /\ Cardinality(Unused') \in Nat /\ Cardinality(Allowed') \in Nat
      /\ approvals \in Nat /\ approvals' \in Nat
      /\ Cardinality(Approving) + Cardinality(Unused) + Cardinality(Allowed) <= approvals
  <2>1. /\ Cardinality(Approving') \in Nat /\ Cardinality(Unused') \in Nat /\ Cardinality(Allowed') \in Nat
    <3>1. Approving' \subseteq Handlers /\ Unused' \subseteq Rows /\ Allowed' \subseteq Requests
      BY DEF Approving, Unused, Allowed
    <3> QED BY <3>1, FS_Subset, FS_CardinalityType, ApprovalsAssumption
  <2> QED BY <2>1, Counts DEF SpentInv, TypeOK
<1>a. ASSUME Approving' = Approving, Unused' = Unused, Allowed' = Allowed, approvals' = approvals PROVE SpentInv'
  BY <1>0, <1>a DEF SpentInv
<1>1. ASSUME NEW r \in Requests, NEW a \in Rows, EventRow(a), call[r] # "allowed",
             status' = [status EXCEPT ![a] = "pending"],
             UNCHANGED request \/ request' = [request EXCEPT ![a] = r],
             \E c \in {"callback", "asked"} : call' = [call EXCEPT ![r] = c],
             UNCHANGED <<handlers, approvals>>
      PROVE  SpentInv'
  <2>1. Approving' = Approving
    BY <1>1 DEF Approving, handlers
  <2>2. Allowed' = Allowed
    BY <1>1 DEF Allowed, TypeOK
  <2>3. status[a] # "approved" /\ status'[a] # "approved"
    BY <1>1 DEF EventRow, Open, Fresh, TypeOK
  <2>4. \A b \in Rows : b # a => status'[b] = status[b] /\ request'[b] = request[b]
    BY <1>1 DEF TypeOK
  <2>5. Unused' = Unused
    BY <2>2, <2>3, <2>4 DEF Unused
  <2> QED BY <1>a, <1>1, <2>1, <2>2, <2>5
<1>2. ASSUME NEW r \in Requests, call[r] # "allowed",
             \E c \in {"callback", "asked", "denied", "timed_out"} : call' = [call EXCEPT ![r] = c],
             UNCHANGED <<status, request, handlers, approvals>>
      PROVE  SpentInv'
  <2>1. Approving' = Approving
    BY <1>2 DEF Approving, handlers
  <2>2. Allowed' = Allowed
    BY <1>2 DEF Allowed, TypeOK
  <2>3. Unused' = Unused
    BY <1>2, <2>2 DEF Unused
  <2> QED BY <1>a, <1>2, <2>1, <2>2, <2>3
<1>3. ASSUME NEW r \in Requests, Callback(r) \/ Request(r) PROVE SpentInv'
  <2>1. call[r] # "allowed" /\ (\E c \in {"callback", "asked"} : call' = [call EXCEPT ![r] = c])
        /\ UNCHANGED <<handlers, approvals>>
    BY <1>3 DEF Callback, Request, pressed
  <2>2. CASE UNCHANGED <<status, request>>
    BY <1>2, <2>1, <2>2
  <2>3. CASE \E a \in Rows : /\ EventRow(a) /\ status' = [status EXCEPT ![a] = "pending"]
                             /\ UNCHANGED request \/ request' = [request EXCEPT ![a] = r]
    BY <1>1, <2>1, <2>3
  <2> QED BY <1>3, <2>2, <2>3 DEF Callback, Request, table
<1>4. ASSUME NEW r \in Requests, Poll(r) PROVE SpentInv'
  <2>1. PICK a \in Rows : /\ request[a] = r /\ status[a] \in Decisions
                          /\ call' = [call EXCEPT ![r] = IF status[a] = "approved" THEN "allowed" ELSE "denied"]
    BY <1>4 DEF Poll
  <2>2. call[r] # "allowed" /\ UNCHANGED <<status, request, handlers, approvals>>
    BY <1>4 DEF Poll, table, pressed
  <2>3. CASE status[a] # "approved"
    BY <1>2, <2>1, <2>2, <2>3
  <2>4. CASE status[a] = "approved"
    <3>1. Approving' = Approving
      BY <2>2 DEF Approving, handlers
    <3>2. Allowed' = Allowed \cup {r}
      BY <2>1, <2>4 DEF Allowed, TypeOK
    <3>3. a \in Unused /\ Unused' \subseteq Unused \ {a}
      BY <2>1, <2>2, <2>4, <3>2 DEF Unused, Allowed
    <3>4. Cardinality(Unused') + 1 <= Cardinality(Unused) /\ Cardinality(Allowed') <= Cardinality(Allowed) + 1
      BY <1>0, <3>2, <3>3, OneLess, OneMore
    <3> QED BY <1>0, <2>2, <3>1, <3>4 DEF SpentInv
  <2> QED BY <2>3, <2>4
<1>5. ASSUME NEW r \in Requests, TimesOut(r) PROVE SpentInv'
  BY <1>2, <1>5 DEF TimesOut, table, pressed
<1>6. ASSUME NEW h \in Handlers, NEW p \in prompts, NEW d \in Decisions, Press(h, p, d) PROVE SpentInv'
  <2>1. UNCHANGED <<status, request, call>>
    BY <1>6 DEF Press, table
  <2>2. Allowed' = Allowed /\ Unused' = Unused
    BY <2>1 DEF Allowed, Unused
  <2>3. CASE d = "approved"
    <3>1. Approving' \subseteq Approving \cup {h}
      BY <1>6 DEF Press, Approving, TypeOK
    <3>2. approvals' = approvals + 1
      BY <1>6, <2>3 DEF Press, Counted
    <3>3. Cardinality(Approving') <= Cardinality(Approving) + 1
      BY <1>0, <3>1, OneMore
    <3> QED BY <1>0, <2>2, <3>2, <3>3 DEF SpentInv
  <2>4. CASE d # "approved"
    <3>1. Approving' = Approving
      BY <1>6, <2>4 DEF Press, Approving, TypeOK
    <3>2. approvals' = approvals
      BY <1>6, <2>4 DEF Press, Counted
    <3> QED BY <1>a, <2>2, <3>1, <3>2
  <2> QED BY <2>3, <2>4
<1>7. ASSUME NEW h \in Handlers, FindOpen(h) PROVE SpentInv'
  <2>1. UNCHANGED <<status, request, call, press, approvals>> /\ at[h] # "idle" /\ at' = [at EXCEPT ![h] = "found"]
    BY <1>7 DEF FindOpen, table, pressed
  <2>2. Allowed' = Allowed /\ Unused' = Unused
    BY <2>1 DEF Allowed, Unused
  <2>3. Approving' = Approving
    BY <2>1 DEF Approving, TypeOK
  <2> QED BY <1>a, <2>1, <2>2, <2>3
<1>8. ASSUME NEW h \in Handlers, Decide(h) PROVE SpentInv'
  <2>1. PICK b \in Rows : status' = [status EXCEPT ![b] = press[h].decision] /\ request' = [request EXCEPT ![b] = written[h]]
    BY <1>8 DEF Decide
  <2>2. UNCHANGED <<call, approvals>> /\ at[h] # "idle"
        /\ at' = [at EXCEPT ![h] = "idle"] /\ press' = [press EXCEPT ![h] = NoPress]
    BY <1>8 DEF Decide, Done, pressed
  <2>3. Allowed' = Allowed
    BY <2>2 DEF Allowed
  <2>4. Approving' \subseteq Approving \ {h}
    BY <2>2 DEF Approving, TypeOK
  <2>5. CASE press[h].decision = "approved"
    <3>1. h \in Approving
      BY <2>2, <2>5 DEF Approving
    <3>2. Unused' \subseteq Unused \cup {b}
      BY <2>1, <2>3 DEF Unused, TypeOK
    <3>3. Cardinality(Approving') + 1 <= Cardinality(Approving) /\ Cardinality(Unused') <= Cardinality(Unused) + 1
      BY <1>0, <2>4, <3>1, <3>2, OneLess, OneMore
    <3> QED BY <1>0, <2>2, <2>3, <3>3 DEF SpentInv
  <2>6. CASE press[h].decision # "approved"
    <3>1. Unused' \subseteq Unused
      BY <2>1, <2>3, <2>6 DEF Unused, TypeOK
    <3>2. Cardinality(Unused') <= Cardinality(Unused) /\ Cardinality(Approving') <= Cardinality(Approving)
      BY <1>0, <2>4, <3>1, FS_Subset
    <3> QED BY <1>0, <2>2, <2>3, <3>2 DEF SpentInv
  <2> QED BY <2>5, <2>6
<1>9. CASE UNCHANGED vars
  <2>1. Approving' = Approving /\ Unused' = Unused /\ Allowed' = Allowed /\ approvals' = approvals
    BY <1>9 DEF vars, table, handlers, pressed, Approving, Unused, Allowed
  <2> QED BY <1>a, <2>1
<1> QED
  BY <1>3, <1>4, <1>5, <1>6, <1>7, <1>8, <1>9 DEF Next, Runtime, Handle, Operator

LEMMA ApprovalsAreSpent == Spec => []SpentInv
<1>1. Init => SpentInv
  <2>1. Init => Approving = {} /\ Unused = {} /\ Allowed = {} /\ approvals = 0
    BY DEF Init, Approving, Unused, Allowed
  <2>2. Cardinality({}) = 0
    BY FS_EmptySet
  <2> QED BY <2>1, <2>2 DEF SpentInv
<1>2. TypeOK /\ TypeOK' /\ SpentInv /\ [Next]_vars => SpentInv'
  BY SpentInvStep
<1> QED BY <1>1, <1>2, TypeCorrect, PTL DEF Spec

\* A gated call runs only after an operator approved that request on its own prompt,
\* unless presses of one row overlap (resolve_approval_action reads the row without a
\* lock); and even then a press lets one call run at most.
THEOREM OnlyGrantedAllowed == Spec => []AllowedIsGranted
<1> DEFINE I == TypeOK /\ PressInv /\ SpentInv
           Own == ~contended => Allowed \subseteq granted
<1>1. Init => Own
  BY DEF Init, Allowed
<1>2. I /\ Own /\ [Next]_vars => Own'
  <2> SUFFICES ASSUME I, Own, [Next]_vars, ~contended' PROVE Allowed' \subseteq granted'
    OBVIOUS
  <2>0. ~contended /\ granted \subseteq granted'
    <3>1. ASSUME NEW h \in Handlers, NEW p \in prompts, NEW d \in Decisions, Press(h, p, d)
          PROVE  ~contended /\ granted \subseteq granted'
      BY <3>1 DEF Press, Counted
    <3>2. CASE UNCHANGED pressed
      BY <3>2 DEF pressed
    <3> QED BY <3>1, <3>2 DEF Next, Runtime, Handle, Operator, Callback, Request, Poll, TimesOut, FindOpen, Decide, vars
  <2>1. ASSUME NEW r \in Requests, Poll(r) PROVE Allowed' \subseteq granted'
    <3>1. PICK a \in Rows : /\ request[a] = r /\ status[a] \in Decisions
                            /\ call' = [call EXCEPT ![r] = IF status[a] = "approved" THEN "allowed" ELSE "denied"]
      BY <2>1 DEF Poll
    <3>2. status[a] = "approved" => r \in granted
      BY <2>0, <3>1, ApprovalsAssumption DEF PressInv
    <3> QED BY <2>0, <3>1, <3>2 DEF Allowed, TypeOK
  <2>2. ASSUME NEW r \in Requests, Callback(r) \/ Request(r) \/ TimesOut(r) PROVE Allowed' \subseteq granted'
    BY <2>0, <2>2 DEF Callback, Request, TimesOut, Allowed, TypeOK
  <2>3. CASE UNCHANGED call
    BY <2>0, <2>3 DEF Allowed
  <2> QED BY <2>1, <2>2, <2>3 DEF Next, Runtime, Handle, Operator, Press, FindOpen, Decide, vars
<1>3. I /\ Own => AllowedIsGranted
  <2> SUFFICES ASSUME I, Own PROVE AllowedIsGranted
    OBVIOUS
  <2>1. Cardinality(Allowed) <= approvals
    BY Counts DEF SpentInv, TypeOK
  <2> QED BY <2>1 DEF AllowedIsGranted
<1> QED BY <1>1, <1>2, <1>3, TypeCorrect, PressesAreCurrent, ApprovalsAreSpent, PTL DEF Spec

\* However presses overlap, a decision is final but for those that had found the row
\* open before it was made: the look-up of record_approval_result finds open rows only.
THEOREM DecisionsAreFinal == Spec => DecisionStable
<1> DEFINE Settled(a) == status[a] \in Decisions /\ (\A h \in Handlers : at[h] = "found" => target[h] # a)
<1>1. TypeOK /\ [Next]_vars
        => [\A a \in Rows : Settled(a) => status'[a] = status[a] /\ request'[a] = request[a]]_vars
  <2> SUFFICES ASSUME TypeOK, [Next]_vars, NEW a \in Rows, Settled(a)
               PROVE  status'[a] = status[a] /\ request'[a] = request[a]
    OBVIOUS
  <2>0. status[a] # "pending" /\ status[a] # "absent"
    BY DEF Decisions
  <2>1. ASSUME NEW r \in Requests, Callback(r) \/ Request(r) PROVE status'[a] = status[a] /\ request'[a] = request[a]
    <3>1. \A b \in Rows : EventRow(b) => b # a
      BY <2>0 DEF EventRow, Open, Fresh
    <3> QED BY <2>1, <3>1 DEF Callback, Request, TypeOK, table
  <2>2. ASSUME NEW h \in Handlers, Decide(h) PROVE status'[a] = status[a] /\ request'[a] = request[a]
    <3>1. PICK b \in Rows : /\ IF target[h] # None THEN b = target[h] ELSE Fresh(b)
                            /\ status' = [status EXCEPT ![b] = press[h].decision]
                            /\ request' = [request EXCEPT ![b] = written[h]]
      BY <2>2 DEF Decide
    <3>2. b # a
      BY <2>0, <2>2, <3>1 DEF Decide, Fresh
    <3> QED BY <3>1, <3>2 DEF TypeOK
  <2>3. CASE UNCHANGED <<status, request>>
    BY <2>3
  <2> QED
    BY <2>1, <2>2, <2>3 DEF Next, Runtime, Handle, Operator, Poll, TimesOut, Press, FindOpen, vars, table
<1> QED BY <1>1, TypeCorrect, PTL DEF Spec, DecisionStable
=============================================================================
