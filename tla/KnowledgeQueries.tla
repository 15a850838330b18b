--------------------------- MODULE KnowledgeQueries ---------------------------
\* The graph tools of the Knowledge MCP over one pinned snapshot: the breadth-first
\* search of find_paths, step by step, and the tools that answer in one pass
\* (neighbours, a node's connections, the hubs, a literal search of the source).
EXTENDS Integers, FiniteSets, Sequences, SequencesExt

CONSTANTS
    Nodes,          \* symbol ids; numbers, because lists break ties by id
    Links,          \* the links a graph may have, as <<source, target>>
    MaxLinks,       \* bound: links of one graph
    Starts, Ends,   \* nodes that calls start from, and ask for paths to
    Depths,         \* values of max_depth
    Limits,         \* values of limit
    Skips           \* sets of files a search may not open

QueriesAssumption ==
    /\ Nodes \subseteq Nat /\ IsFiniteSet(Nodes) /\ Links \subseteq Nodes \X Nodes
    /\ Starts \subseteq Nodes /\ Ends \subseteq Nodes
    /\ Skips \subseteq SUBSET Nodes
    /\ MaxLinks \in Nat /\ Depths \subseteq Nat \ {0} /\ Limits \subseteq Nat \ {0}

VARIABLES
    links,      \* the links of the snapshot, in file order
    ask,        \* the call
    queue,      \* find_paths: the partial paths still to extend
    answer,     \* the result so far
    done        \* the call has returned

vars == <<links, ask, queue, answer, done>>

Asks ==
    [tool : {"paths"}, from : Starts, to : Ends, depth : Depths, limit : Limits]
    \cup [tool : {"neighbors"}, of : Starts, limit : Limits,
          direction : {"incoming", "outgoing", "both"}]
    \cup [tool : {"explain", "overview"}, of : Starts, limit : Limits]
    \cup [tool : {"search"}, skipped : Skips, limit : Limits]

Init ==
    /\ links \in UNION {[1..n -> Links] : n \in 0..MaxLinks}
    /\ ask \in Asks
    /\ queue = IF ask.tool = "paths" THEN <<<<>>>> ELSE <<>>
    /\ answer = <<>> /\ done = FALSE

Source(i) == links[i][1]
Target(i) == links[i][2]
AtMost(s, n) == SubSeq(s, 1, IF Len(s) < n THEN Len(s) ELSE n)

\* The members of S in the order of the pairs of before.
Listing(S, before) ==
    {f \in [1..Cardinality(S) -> S] :
        ToSet(f) = S /\ \A i, j \in DOMAIN f : i < j => <<f[i], f[j]>> \in before}
FileOrder == {p \in (DOMAIN links) \X (DOMAIN links) : p[1] < p[2]}

------------------------------------------------------------------------------
\* find_paths: one turn of the loop takes the oldest partial path and extends it by
\* every link that leaves its end, in file order, except back onto the path.  A path
\* is the links it follows, parallel links being different ways; the code keeps the
\* nodes on it, and reports them: its trail.
Trail(path) == <<ask.from>> \o [k \in DOMAIN path |-> Target(path[k])]

\* Mutant: a node reached by any earlier path is not entered again.
FreshEver(path) ==
    {i \in DOMAIN links : Source(i) = Last(Trail(path))
                          /\ \A q \in {path} \cup ToSet(queue) : Target(i) \notin ToSet(Trail(q))}
Fresh(path) ==
    {i \in DOMAIN links : Source(i) = Last(Trail(path)) /\ Target(i) \notin ToSet(Trail(path))}

Expand ==
    /\ ask.tool = "paths" /\ ~done
    /\ queue # <<>> /\ Len(answer) < ask.limit
    /\ LET path == Head(queue)
           next == IF Len(path) >= ask.depth THEN {} ELSE Fresh(path)
       IN  \E arriving \in Listing({i \in next : Target(i) = ask.to}, FileOrder) :
           \E further \in Listing({i \in next : Target(i) # ask.to}, FileOrder) :
              /\ answer' = answer \o [k \in DOMAIN arriving |-> Append(path, arriving[k])]
              /\ queue' = Tail(queue) \o [k \in DOMAIN further |-> Append(path, further[k])]
    /\ UNCHANGED <<links, ask, done>>

PathsReturned ==
    /\ ask.tool = "paths" /\ ~done
    /\ queue = <<>> \/ Len(answer) >= ask.limit
    /\ done' = TRUE
    /\ UNCHANGED <<links, ask, queue, answer>>

------------------------------------------------------------------------------
\* The tools that read the graph once.

Answers(tool) == ask.tool = tool /\ ~done /\ done' = TRUE /\ UNCHANGED <<links, ask, queue>>

\* A link from a node to itself is outgoing; only a call for incoming links alone
\* reports it as one of those.
Outgoing(i) == ask.direction # "incoming" /\ Source(i) = ask.of
Incoming(i) == ask.direction # "outgoing" /\ Target(i) = ask.of
Touching == {i \in DOMAIN links : Outgoing(i) \/ Incoming(i)}

Neighbors ==
    /\ Answers("neighbors")
    /\ \E taken \in Listing(Touching, FileOrder) :
          answer' = AtMost([k \in DOMAIN taken |->
                              <<taken[k], IF Outgoing(taken[k]) THEN Target(taken[k])
                                                                ELSE Source(taken[k])>>], ask.limit)

\* Every distinct relation of the node once, the outgoing ones after the incoming,
\* each kind by the id of its other end.
Relations == {l \in ToSet(links) : ask.of \in {l[1], l[2]}}
RelationOrder ==
    {p \in Relations \X Relations :
        \/ p[1][1] # ask.of /\ p[2][1] = ask.of
        \/ p[1][1] = ask.of /\ p[2][1] = ask.of /\ p[1][2] < p[2][2]
        \/ p[1][1] # ask.of /\ p[2][1] # ask.of /\ p[1][1] < p[2][1]}

Explain ==
    /\ Answers("explain")
    /\ \E connections \in Listing(Relations, RelationOrder) :
          answer' = <<AtMost(connections, ask.limit), Len(connections) > ask.limit>>

Degree(node) == Cardinality({i \in DOMAIN links : Source(i) = node})
                + Cardinality({i \in DOMAIN links : Target(i) = node})
DegreeOrder ==
    {p \in Nodes \X Nodes :
        Degree(p[1]) > Degree(p[2]) \/ (Degree(p[1]) = Degree(p[2]) /\ p[1] < p[2])}

Overview ==
    /\ Answers("overview")
    /\ \E hubs \in Listing(Nodes, DegreeOrder) : answer' = AtMost(hubs, ask.limit)

\* A literal search: here a link is a matching line, <<file, line>>.  The files that
\* a search passes over are those below a directory of SOURCE_SEARCH_SKIP_DIRS, those
\* larger than MAX_SOURCE_SEARCH_FILE_BYTES and those with a zero byte.  It reads one
\* match past the limit, to know whether there are more.
Matching == {i \in DOMAIN links : Source(i) \notin ask.skipped}

Search ==
    /\ Answers("search")
    /\ \E found \in Listing(Matching, FileOrder) :
          LET matches == AtMost(found, ask.limit + 1)
          IN  answer' = <<AtMost(matches, ask.limit), Len(matches) > ask.limit>>

Next == Expand \/ PathsReturned \/ Neighbors \/ Explain \/ Overview \/ Search
Spec == Init /\ [][Next]_vars

------------------------------------------------------------------------------
\* The reference for find_paths: the walks along links that enter no node twice.
Walks == UNION {[1..n -> DOMAIN links] : n \in 0..ask.depth}
SimpleWalks ==
    {w \in Walks : /\ \A k \in DOMAIN w : Source(w[k]) = Trail(w)[k]
                   /\ IsInjective(Trail(w))}
Arriving == {w \in SimpleWalks : w # <<>> /\ Last(Trail(w)) = ask.to}

\* find_paths returns shortest paths first and each simple path once for every way
\* to walk it along parallel links; it returns all of them when they are fewer than
\* the limit, and when they are more, enough of them to fill it, none longer than
\* one left out.
PathsComplete ==
    ask.tool = "paths" /\ done =>
        /\ ToSet(answer) \subseteq Arriving /\ IsInjective(answer)
        /\ \A j, k \in DOMAIN answer : j < k => Len(answer[j]) <= Len(answer[k])
        /\ Len(answer) < ask.limit => ToSet(answer) = Arriving
        /\ \A left \in Arriving \ ToSet(answer) : \A p \in ToSet(answer) : Len(p) <= Len(left)

\* A tool that says nothing was cut off has answered with everything, a search with
\* every match of the files it reads: it does not say which it skipped.  No node
\* left out of the overview has more links than one in it.
AnswersHonest ==
    done => CASE ask.tool = "neighbors" ->
                    Len(answer) < ask.limit => {r[1] : r \in ToSet(answer)} = Touching
              [] ask.tool = "explain" -> answer[2] = FALSE => ToSet(answer[1]) = Relations
              [] ask.tool = "overview" ->
                    \A in \in ToSet(answer), out \in Nodes \ ToSet(answer) : Degree(in) >= Degree(out)
              [] ask.tool = "search" -> answer[2] = FALSE => ToSet(answer[1]) = Matching
              [] OTHER -> TRUE

\* Whatever the graph, the tool and its limits, an answer can be relied on.
QueriesHonest == PathsComplete /\ AnswersHonest

------------------------------------------------------------------------------
\* The inductive invariant behind QueriesHonest.

TypeOK ==
    /\ links \in Seq(Links) /\ ask \in Asks /\ done \in BOOLEAN
    /\ queue \in Seq(Seq(DOMAIN links))
    /\ ask.tool = "paths" => answer \in Seq(Seq(DOMAIN links))

Prefix(p, w) == Len(p) <= Len(w) /\ \A k \in DOMAIN p : p[k] = w[k]

\* What the search has found and what it may still extend are walks of the graph.
WalksInv ==
    /\ \A j \in DOMAIN queue : queue[j] \in SimpleWalks /\ \A k \in DOMAIN queue[j] : Target(queue[j][k]) # ask.to
    /\ \A k \in DOMAIN answer : answer[k] \in Arriving

\* A path that is still to be found has its beginning in the queue.
BeginsInv == \A w \in Arriving \ ToSet(answer) : \E p \in ToSet(queue) : Prefix(p, w)

\* Short paths come first: the search is breadth first.
BreadthInv ==
    /\ \A j, k \in DOMAIN queue : /\ j < k => Len(queue[j]) <= Len(queue[k])
                                  /\ Len(queue[k]) <= Len(queue[j]) + 1
    /\ \A j, k \in DOMAIN answer : j < k => Len(answer[j]) <= Len(answer[k])
    /\ \A j \in DOMAIN answer, k \in DOMAIN queue : Len(answer[j]) <= Len(queue[k]) + 1

\* Nothing is found, or will be found, twice.
OnceInv ==
    /\ \A j, k \in DOMAIN queue : Prefix(queue[j], queue[k]) => j = k
    /\ \A j \in DOMAIN answer, k \in DOMAIN queue : ~Prefix(queue[k], answer[j])
    /\ IsInjective(answer)

\* The search ends with an empty queue or a full answer.
EndInv == done => queue = <<>> \/ Len(answer) >= ask.limit

PathsInv == ask.tool = "paths" => WalksInv /\ BeginsInv /\ BreadthInv /\ OnceInv /\ EndInv

QueriesInv == TypeOK /\ PathsInv /\ AnswersHonest
=============================================================================
