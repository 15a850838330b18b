----------------------------- MODULE TraceTree -----------------------------
(* The trace that the control plane shows of a session                      *)
(* (shared/lib/trace_tree.py): the stored events are read once, in order,   *)
(* and a tree of nodes is built from them, with what is shown twice taken   *)
(* out.  Each message of a batch is a step; a batch may have been lost, so  *)
(* a message may refer to a call that was never seen, or have been sent     *)
(* again.                                                                    *)
(*                                                                           *)
(* Labels, times and bodies are left out, except the texts of the narrative  *)
(* whose comparison decides what is taken out.  Texts are sequences, so that *)
(* one can begin like another.                                               *)
EXTENDS Integers, Sequences, FiniteSets, SequencesExt

CONSTANTS Agents, Messages, Others,  \* ids of calls: Agent, SendMessage, else
          Texts, Prefix,             \* 280 characters are compared
          None, MaxEvents

Tools == Agents \cup Messages \cup Others

TraceAssumption ==
  /\ None \notin Tools \cup {"session_result", "subagent_return"}
  /\ Texts \subseteq Seq(Nat) \ {<<>>}
  /\ Prefix \in Nat \ {0} /\ MaxEvents \in Nat

VARIABLES
  nodes,     \* the nodes in the order they were made, children in that order
  pending,   \* the node of each call that has no result yet, or 0
  message,   \* the ids of all SendMessage calls
  subagent,  \* the node of each Agent call, or 0
  byTask,    \* the node that the task of each subagent was found for, or 0
  active,    \* the subagent that hooks are shown under, or 0
  results,   \* the nodes of the coordinator's results
  stats,     \* calls and errors counted
  said,      \* history: who said which text
  displaced, \* history: results of the coordinator that another took the place of
  read,      \* number of messages read
  built

vars == <<nodes, pending, message, subagent, byTask, active, results, stats,
          said, displaced, read, built>>

Root == 0

Init ==
  /\ nodes = <<>> /\ pending = [t \in Tools |-> 0] /\ message = {}
  /\ subagent = [a \in Agents |-> 0] /\ byTask = [a \in Agents |-> 0]
  /\ active = 0 /\ results = <<>> /\ stats = [calls |-> 0, errors |-> 0]
  /\ said = {} /\ displaced = {} /\ read = 0 /\ built = FALSE

NodeAs(role, err, kind, parent, owner, text) ==
  [kind |-> kind, parent |-> parent, owner |-> owner, text |-> text,
   role |-> role, error |-> err, shown |-> TRUE]
Node(kind, parent, owner, text) == NodeAs(None, FALSE, kind, parent, owner, text)

Children(i) == {n \in DOMAIN nodes : nodes[n].parent = i /\ nodes[n].shown}

(* Two texts are taken for one when they begin alike. *)
SameNarrative(left, right) ==
  /\ left # <<>> /\ right # <<>>
  /\ LET n == Min({Len(left), Len(right), Prefix}) IN
     SubSeq(left, 1, n) = SubSeq(right, 1, n)

(* A message of a subagent goes under the node of its Agent call, if that    *)
(* call was seen.                                                             *)
ParentOf(p) == IF p \in Agents THEN subagent[p] ELSE Root

CurrentParent == active

Reads == ~built /\ read < MaxEvents /\ read' = read + 1 /\ UNCHANGED built

Senders == Agents \cup {None}

-----------------------------------------------------------------------------
(* Messages of a conversation batch *)

Say(p, text) ==
  /\ Reads
  /\ nodes' = Append(nodes, Node("assistant", ParentOf(p), p, text))
  /\ said' = said \cup {[owner |-> p, text |-> text]}
  /\ UNCHANGED <<pending, message, subagent, byTask, active, results, stats, displaced>>

(* Reasoning, or what a user says. *)
Think(p) ==
  /\ Reads
  /\ nodes' = Append(nodes, Node("thinking", ParentOf(p), p, <<>>))
  /\ UNCHANGED <<pending, message, subagent, byTask, active, results, stats,
                 said, displaced>>

CallAgent(p, a) ==
  /\ Reads
  /\ nodes' = Append(nodes, Node("subagent", ParentOf(p), p, <<>>))
  /\ subagent' = [subagent EXCEPT ![a] = Len(nodes')] /\ active' = Len(nodes')
  /\ pending' = [pending EXCEPT ![a] = Len(nodes')]
  /\ stats' = [stats EXCEPT !.calls = @ + 1]
  /\ UNCHANGED <<message, byTask, results, said, displaced>>

(* A message without a text or a recipient is counted and not shown. *)
CallMessage(p, t, whole) ==
  /\ Reads
  /\ message' = message \cup {t} /\ stats' = [stats EXCEPT !.calls = @ + 1]
  /\ IF whole
       THEN /\ nodes' = Append(nodes, Node("messaging", ParentOf(p), p, <<>>))
            /\ pending' = [pending EXCEPT ![t] = Len(nodes')]
       ELSE UNCHANGED <<nodes, pending>>
  /\ UNCHANGED <<subagent, byTask, active, results, said, displaced>>

CallTool(p, t) ==
  /\ Reads
  /\ nodes' = Append(nodes, Node("tool_call", ParentOf(p), p, <<>>))
  /\ pending' = [pending EXCEPT ![t] = Len(nodes')]
  /\ stats' = [stats EXCEPT !.calls = @ + 1]
  /\ UNCHANGED <<message, subagent, byTask, active, results, said, displaced>>

\* Mutant: no result of a message or an Agent call is shown.
ShowsResultPlain(t, err) ==
  t \notin message /\ (pending[t] = 0 \/ nodes[pending[t]].kind = "tool_call")

(* The result of a message is shown only when it is an error, and that of an *)
(* Agent call too: its findings come with a notification.                    *)
ShowsResult(t, err) ==
  \/ err
  \/ t \notin message /\ (pending[t] = 0 \/ nodes[pending[t]].kind = "tool_call")

(* A result belongs to its pending call, or else where the message does.     *)
ToolResult(p, t, err) ==
  /\ Reads
  /\ LET parent == IF pending[t] # 0 THEN pending[t] ELSE ParentOf(p) IN
     nodes' = IF ShowsResult(t, err)
       THEN Append(nodes, NodeAs(None, err, "tool_result", parent, p, <<>>))
       ELSE nodes
  /\ pending' = [pending EXCEPT ![t] = 0]
  /\ stats' = [stats EXCEPT !.errors = IF err THEN @ + 1 ELSE @]
  /\ UNCHANGED <<message, subagent, byTask, active, results, said, displaced>>

(* The task of a subagent is known by its Agent call. *)
TaskStarted(a) ==
  /\ Reads
  /\ IF subagent[a] # 0
       THEN /\ byTask' = [byTask EXCEPT ![a] = subagent[a]]
            /\ active' = subagent[a]
       ELSE UNCHANGED <<byTask, active>>
  /\ UNCHANGED <<nodes, pending, message, subagent, results, stats, said,
                 displaced>>

Notified(a) == IF byTask[a] # 0 THEN byTask[a] ELSE subagent[a]

Returns(i) == {n \in Children(i) : nodes[n].role = "subagent_return"}

(* What a subagent found; a later notification takes the place of it. *)
TaskCompleted(a, summary) ==
  /\ Reads
  /\ LET s == Notified(a) IN
     IF s = 0 THEN UNCHANGED <<nodes, byTask>>
     ELSE /\ byTask' = [byTask EXCEPT ![a] = s]
          /\ nodes' = IF Returns(s) # {}
               THEN [nodes EXCEPT ![Max(Returns(s))].text = summary]
               ELSE Append(nodes, NodeAs("subagent_return", FALSE, "result", s, a, summary))
  /\ UNCHANGED <<pending, message, subagent, active, results, stats, said,
                 displaced>>

(* The coordinator's last text is usually its result. *)
RepeatsLast(preview) ==
  Children(Root) # {} /\
  LET n == nodes[Max(Children(Root))] IN
    n.kind = "assistant" /\ n.owner = None /\ SameNarrative(n.text, preview)

(* Two results in a row, alike but not the same, come of a lost batch: the    *)
(* later one is shown in the place of the earlier one.                        *)
ResultSnapshot(preview) ==
  /\ Reads
  /\ LET last == Max(Children(Root)) IN
     IF RepeatsLast(preview)
       THEN /\ nodes' = Append([nodes EXCEPT ![last].shown = FALSE],
                 NodeAs("session_result", FALSE, "assistant", Root, None, preview))
            /\ displaced' = IF nodes[last].role = "session_result" /\ nodes[last].text # preview
                 THEN displaced \cup {nodes[last].text} ELSE displaced
       ELSE /\ nodes' = Append(nodes,
                 NodeAs("session_result", FALSE, "assistant", Root, None, preview))
            /\ UNCHANGED displaced
  /\ results' = Append(results, Len(nodes'))
  /\ said' = said \cup {[owner |-> None, text |-> preview]}
  /\ UNCHANGED <<pending, message, subagent, byTask, active, stats>>

-----------------------------------------------------------------------------
(* Events of their own *)

(* A preview is cut far beyond the length that is compared. *)
Completes(full, text) == Len(text) >= Prefix /\ SameNarrative(text, full)

(* The longer of the final result and the last preview is shown.  That is the *)
(* whole of what was previewed, unless the batch with its preview was lost.   *)
SessionComplete(full) ==
  /\ Reads
  /\ IF results # <<>>
       THEN LET r == results[Len(results)]
                text == nodes[r].text
                longer == Len(full) > Len(text) IN
            /\ nodes' = [nodes EXCEPT ![r] =
                   [@ EXCEPT !.kind = "result", !.text = IF longer THEN full ELSE text]]
            /\ displaced' = IF longer /\ ~Completes(full, text)
                   THEN displaced \cup {text} ELSE displaced
       ELSE LET R == {n \in Children(Root) : nodes[n].kind = "result"} IN
            /\ nodes' = IF R = {}
                 THEN Append(nodes, NodeAs("session_result", FALSE, "result", Root, None, full))
                 ELSE [nodes EXCEPT ![Max(R)].text =
                                      IF Len(full) > Len(@) THEN full ELSE @]
            /\ UNCHANGED displaced
  /\ UNCHANGED <<pending, message, subagent, byTask, active, results, stats,
                 said>>

SessionFailed ==
  /\ Reads
  /\ nodes' = Append(nodes, NodeAs(None, TRUE, "error", Root, None, <<>>))
  /\ UNCHANGED <<pending, message, subagent, byTask, active, results, stats,
                 said, displaced>>

(* Hooks, approvals and phases are shown under the subagent that was started *)
(* last, even when it has returned.                                          *)
Aside ==
  /\ Reads
  /\ nodes' = Append(nodes, Node("lifecycle", CurrentParent, None, <<>>))
  /\ UNCHANGED <<pending, message, subagent, byTask, active, results, stats,
                 said, displaced>>

-----------------------------------------------------------------------------
(* A text of a subagent that its findings repeat is taken out. *)
Repeated(n) ==
  /\ nodes[n].kind = "assistant"
  /\ \E a \in Agents : subagent[a] # 0 /\ nodes[n].parent = subagent[a]
       /\ \E r \in Returns(subagent[a]) : SameNarrative(nodes[n].text, nodes[r].text)

Finish ==
  /\ ~built /\ built' = TRUE
  /\ nodes' = [n \in DOMAIN nodes |->
                 [nodes[n] EXCEPT !.shown = @ /\ ~Repeated(n)]]
  /\ UNCHANGED <<pending, message, subagent, byTask, active, results, stats,
                 said, displaced, read>>

-----------------------------------------------------------------------------
Next ==
  \/ \E p \in Senders :
       \/ \E x \in Texts : Say(p, x)
       \/ Think(p)
       \/ \E a \in Agents \ {p} : CallAgent(p, a)
       \/ \E t \in Messages, whole \in BOOLEAN : CallMessage(p, t, whole)
       \/ \E t \in Others : CallTool(p, t)
       \/ \E t \in Tools, err \in BOOLEAN : ToolResult(p, t, err)
  \/ \E a \in Agents :
       \/ TaskStarted(a)
       \/ \E x \in Texts : TaskCompleted(a, x)
  \/ \E x \in Texts : ResultSnapshot(x) \/ SessionComplete(x)
  \/ SessionFailed \/ Aside \/ Finish

Spec == Init /\ [][Next]_vars

-----------------------------------------------------------------------------
(* A node is in the tree when it and all above it are. *)
Shown ==
  {n \in DOMAIN nodes : \E A \in SUBSET DOMAIN nodes :
     n \in A /\ \A m \in A : nodes[m].shown /\ nodes[m].parent \in A \cup {Root}}

(* Every failed tool call is to be seen, as often as it was counted. *)
ErrorsShown ==
  stats.errors = Cardinality({n \in Shown : nodes[n].kind = "tool_result"
                                              /\ nodes[n].error})

(* A text of the coordinator that stood in a result another took the place   *)
(* of, with what came between them lost.                                      *)
Displaced(s) == s.owner = None /\ \E x \in displaced : SameNarrative(x, s.text)

(* Of what an agent said nothing is taken out but what begins like a text of *)
(* the same agent that is shown, or like a result that was displaced.        *)
NarrativeShown ==
  \A s \in said : Displaced(s) \/ \E n \in Shown :
    nodes[n].owner = s.owner /\ SameNarrative(nodes[n].text, s.text)

(* Whatever was lost or sent again, no failed call and no text goes missing  *)
(* (build_trace_tree), save that a result is displaced by the next one.      *)
NothingHidden == ErrorsShown /\ NarrativeShown

-----------------------------------------------------------------------------
(* The inductive invariant behind NothingHidden.                             *)

NodeType ==
  [kind : {"assistant", "thinking", "subagent", "messaging", "tool_call",
           "tool_result", "result", "error", "lifecycle"},
   parent : Nat, owner : Senders, text : Seq(Nat),
   role : {None, "session_result", "subagent_return"},
   error : BOOLEAN, shown : BOOLEAN]

TypeOK ==
  /\ nodes \in Seq(NodeType)
  /\ pending \in [Tools -> Nat]
  /\ subagent \in [Agents -> Nat] /\ byTask \in [Agents -> Nat] /\ active \in Nat
  /\ results \in Seq(DOMAIN nodes)
  /\ stats \in [calls : Nat, errors : Nat]
  /\ said \in SUBSET [owner : Senders, text : Texts]
  /\ displaced \subseteq Seq(Nat)

(* Something hangs under the root, a subagent or a call, and only texts are  *)
(* ever hidden: whatever hangs under a node that is shown is in the tree.    *)
Holder(i) ==
  i # Root => i \in DOMAIN nodes /\ nodes[i].kind \in {"subagent", "messaging", "tool_call"}

HolderInv ==
  /\ \A t \in Tools : Holder(pending[t])
  /\ \A a \in Agents : Holder(subagent[a]) /\ Holder(byTask[a])
  /\ Holder(active)

TextInv ==
  \A n \in DOMAIN nodes :
    /\ Holder(nodes[n].parent)
    /\ nodes[n].kind = "assistant" \/ nodes[n].shown
    /\ nodes[n].role = "subagent_return" => nodes[n].kind = "result"

(* No two agents share a node, and the texts under an agent's node are its.  *)
AgentInv ==
  \A a, b \in Agents : a # b =>
    /\ subagent[a] = subagent[b] => subagent[a] = 0
    /\ byTask[a] = subagent[b] => byTask[a] = 0

OwnerInv ==
  \A n \in DOMAIN nodes, a \in Agents :
    /\ nodes[n].parent = subagent[a] /\ subagent[a] # 0
    /\ nodes[n].kind = "assistant" \/ nodes[n].role = "subagent_return"
    => nodes[n].owner = a

(* The coordinator's results; the last one is never hidden.                  *)
ResultInv ==
  /\ \A n \in DOMAIN nodes : nodes[n].role = "session_result" =>
       /\ nodes[n].parent = Root /\ nodes[n].owner = None
       /\ nodes[n].kind = "assistant" => \E k \in DOMAIN results : results[k] = n
  /\ \A k \in DOMAIN results :
       LET r == nodes[results[k]] IN
       r.role = "session_result" /\ r.text # <<>> /\ r.kind \in {"assistant", "result"}
  /\ results # <<>> => nodes[results[Len(results)]].shown

(* As long as the tree is built, what was said stands in a node of its own,  *)
(* or in a result of the coordinator that is alike and was not displaced.    *)
Own(n, s) ==
  nodes[n].kind = "assistant" /\ nodes[n].role = None /\ nodes[n].text = s.text

SaidInv ==
  \A s \in said : Displaced(s) \/ \E n \in DOMAIN nodes :
    /\ nodes[n].shown /\ nodes[n].owner = s.owner
    /\ SameNarrative(nodes[n].text, s.text)
    /\ built \/ Own(n, s) \/ (\E k \in DOMAIN results : results[k] = n)

Failures == {n \in DOMAIN nodes : nodes[n].kind = "tool_result" /\ nodes[n].error}

TreeInv ==
  /\ TypeOK /\ HolderInv /\ TextInv /\ AgentInv /\ OwnerInv /\ ResultInv /\ SaidInv
  /\ stats.errors = Cardinality(Failures)
=============================================================================
