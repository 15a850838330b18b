---------------------------- MODULE HybridRetrieval ----------------------------
\* One search_knowledge call over a hybrid source: it pins the promoted version,
\* embeds the query, reads the dense and the lexical lane, fuses and deduplicates
\* them, lets a reranker reorder the head and packs the results into a bounded
\* response; meanwhile the source may be promoted, suspended or pruned.
EXTENDS Integers, FiniteSets, Sequences, SequencesExt

CONSTANTS
    Chunks,             \* chunk ids, in the order ties are broken
    ContentLength(_),   \* characters of a chunk's content
    MaxContent,         \* max_content_chars
    MaxResponse,        \* max_response_chars
    Overhead,           \* characters of a result beside its content
    Pairs,              \* pairs of chunks that may overlap
    LaneLimit,          \* candidates a lane returns, and the fusion keeps
    Scale,              \* what the scores are multiplied with to be whole numbers
    RerankCandidates,   \* candidates sent to the reranker
    Limits              \* values of limit

RetrievalAssumption ==
    /\ Chunks \subseteq Nat /\ \A c \in Chunks : ContentLength(c) \in Nat
    /\ {MaxContent, MaxResponse, Overhead, LaneLimit, RerankCandidates, Scale} \subseteq Nat
    /\ \A p \in Pairs : \E a, b \in Chunks : a # b /\ p = {a, b}
    /\ Scale # 0 /\ \A rank \in 1..LaneLimit : Scale % (60 + rank) = 0
    /\ Limits \subseteq 1..LaneLimit

VARIABLES
    source,     \* the source: promoted version, whether it may be searched
    stored,     \* versions whose chunks are stored
    overlaps,   \* the pairs of chunks that overlap
    limit,
    stage,      \* where the call is
    pinned,     \* the version it reads
    dense, lexical, candidates,
    reranked,   \* a reranker's order was applied
    results,    \* <<chunk, characters of its content>>
    used,       \* characters of the response so far
    truncated

vars == <<source, stored, overlaps, limit, stage, pinned, dense, lexical, candidates, reranked,
          results, used, truncated>>
call == <<overlaps, limit, stage, pinned, dense, lexical, candidates, reranked, results, used,
          truncated>>

Init ==
    /\ source = [version |-> 1, open |-> TRUE] /\ stored = {1}
    /\ overlaps \in SUBSET Pairs /\ limit \in Limits
    /\ stage = "pin" /\ pinned = 0
    /\ dense = <<>> /\ lexical = <<>> /\ candidates = <<>> /\ reranked = FALSE
    /\ results = <<>> /\ used = 0 /\ truncated = FALSE

------------------------------------------------------------------------------
\* The indexer, an operator and housekeeping, between the statements of the call.

Promote == source.version = 1 /\ source' = [source EXCEPT !.version = 2] /\ stored' = stored \cup {2} /\ UNCHANGED call
Suspend == source.open /\ source' = [source EXCEPT !.open = FALSE] /\ UNCHANGED <<stored, call>>
Prune == 1 \in stored /\ source.version = 2 /\ stored' = {2} /\ UNCHANGED <<source, call>>

------------------------------------------------------------------------------
Pin ==
    /\ stage = "pin"
    /\ IF source.open THEN pinned' = source.version /\ stage' = "embed"
                      ELSE pinned' = 0 /\ stage' = "refused"
    /\ UNCHANGED <<source, stored, overlaps, limit, dense, lexical, candidates, reranked, results, used, truncated>>

\* A lane ranks some of the chunks of the pinned version that are still stored.
Lanes == {s \in SeqOf(Chunks, LaneLimit) : IsInjective(s)}
Lane == IF pinned \in stored THEN Lanes ELSE {<<>>}

\* Embedding fails, or yields another contract than the pinned version's: the dense
\* lane stays empty.
Dense ==
    /\ stage = "embed"
    /\ dense' \in Lane \cup {<<>>}
    /\ stage' = "lexical"
    /\ UNCHANGED <<source, stored, overlaps, limit, pinned, lexical, candidates, reranked, results, used,
                   truncated>>

\* The reciprocal ranks, in parts of Scale.
Score(lane, c) == IF c \in ToSet(lane)
                  THEN Scale \div (60 + CHOOSE r \in DOMAIN lane : lane[r] = c) ELSE 0

\* The chunks of both lanes in the order of their scores; there is one.
Fused(d, l) ==
    LET chunks == ToSet(d) \cup ToSet(l)
        rrf(c) == Score(d, c) + Score(l, c)
    IN  {s \in [1..Cardinality(chunks) -> chunks] :
            /\ ToSet(s) = chunks
            /\ \A i, j \in DOMAIN s : i < j =>
                  rrf(s[i]) > rrf(s[j]) \/ (rrf(s[i]) = rrf(s[j]) /\ s[i] < s[j])}

\* The positions that are kept: those that overlap no better one that is kept.
Overlap(a, b) == {a, b} \in overlaps
\* Mutant: a candidate is dropped when it overlaps any better one, kept or not.
DeduplicateAll(s) ==
    {{i \in DOMAIN s : ~\E j \in DOMAIN s : j < i /\ Overlap(s[i], s[j])}}
Deduplicate(s) ==
    {K \in SUBSET DOMAIN s : \A i \in DOMAIN s : i \in K <=> ~\E j \in K : j < i /\ Overlap(s[i], s[j])}

\* The members of K in their order.
Listing(K) ==
    {f \in [1..Cardinality(K) -> K] :
        ToSet(f) = K /\ \A i, j \in DOMAIN f : i < j => f[i] < f[j]}

Least(m, n) == IF m < n THEN m ELSE n

Lexical ==
    /\ stage = "lexical"
    /\ lexical' \in Lane
    /\ \E s \in Fused(dense, lexical') : \E K \in Deduplicate(s) : \E kept \in Listing(K) :
          candidates' = [k \in 1..Least(Len(kept), LaneLimit) |-> s[kept[k]]]
    /\ stage' = "rerank"
    /\ UNCHANGED <<source, stored, overlaps, limit, pinned, dense, reranked, results, used, truncated>>

\* The reranker orders the candidates it was sent; disabled, late or malformed, it
\* leaves them as they are.
Rerank ==
    /\ stage = "rerank"
    /\ stage' = "pack"
    /\ \/ UNCHANGED <<candidates, reranked>>
       \/ LET n == Least(Len(candidates), RerankCandidates)
          IN  /\ n > 0
              /\ \E order \in [1..n -> 1..n] :
                    /\ ToSet(order) = 1..n
                    /\ candidates' = [k \in DOMAIN candidates |->
                                        candidates[IF k <= n THEN order[k] ELSE k]]
              /\ reranked' = TRUE
    /\ UNCHANGED <<source, stored, overlaps, limit, pinned, dense, lexical, results, used, truncated>>

\* Each candidate in turn: the longest prefix of its content that still fits, none
\* when not even one character does.
Fits(c) ==
    LET room == MaxResponse - used - Overhead
    IN  IF room < 0 THEN 0 ELSE Least(room, Least(ContentLength(c), MaxContent))

Pack ==
    /\ stage = "pack" /\ candidates # <<>> /\ Len(results) < limit
    /\ LET c == Head(candidates)
       IN  IF Fits(c) = 0
             THEN truncated' = TRUE /\ UNCHANGED <<results, used>>
             ELSE /\ results' = Append(results, <<c, Fits(c)>>)
                  /\ used' = used + Overhead + Fits(c)
                  /\ truncated' = (truncated \/ Fits(c) < ContentLength(c))
    /\ candidates' = Tail(candidates)
    /\ UNCHANGED <<source, stored, overlaps, limit, stage, pinned, dense, lexical, reranked>>

\* A response that a candidate did not fit into is short of its limit or, having
\* skipped it, marked already.
Respond ==
    /\ stage = "pack" /\ (candidates = <<>> \/ Len(results) = limit)
    /\ stage' = "answered"
    /\ UNCHANGED <<source, stored, overlaps, limit, pinned, dense, lexical, candidates, reranked, results, used,
                   truncated>>

Next == Promote \/ Suspend \/ Prune \/ Pin \/ Dense \/ Lexical \/ Rerank \/ Pack \/ Respond
Spec == Init /\ [][Next]_vars

------------------------------------------------------------------------------
Better(a, b) == Score(dense, a) >= Score(dense, b) /\ Score(lexical, a) >= Score(lexical, b) /\ a # b
Returned == {r[1] : r \in ToSet(results)}

\* What an agent may conclude from a response.  Unless it is marked truncated, a
\* chunk that a lane found is in it with its whole content, or it repeats one that
\* was kept, or better ones reached the limit; without a reranker no chunk precedes
\* one that both lanes prefer; and the response keeps within its size.
ResponseHonest ==
    stage = "answered" =>
        /\ used <= MaxResponse /\ Len(results) <= limit
        /\ ~truncated /\ Len(results) < limit =>
              \A c \in ToSet(dense) \cup ToSet(lexical) :
                  \/ \E r \in ToSet(results) : r[1] = c /\ r[2] = ContentLength(c)
                  \/ \E k \in Returned : Overlap(c, k)
        /\ ~truncated => \A r \in ToSet(results) : r[2] = ContentLength(r[1])
        /\ ~reranked => \A i, j \in DOMAIN results :
                            Better(results[j][1], results[i][1]) => j < i
        /\ \A a, b \in Returned : ~Overlap(a, b)

------------------------------------------------------------------------------
\* The inductive invariant behind ResponseHonest.

TypeOK ==
    /\ stage \in {"pin", "embed", "lexical", "rerank", "pack", "answered", "refused"}
    /\ overlaps \in SUBSET Pairs /\ limit \in Limits
    /\ dense \in Lanes /\ lexical \in Lanes
    /\ candidates \in Seq(Chunks) /\ results \in Seq(Chunks \X Nat)
    /\ used \in Nat /\ {reranked, truncated} \subseteq BOOLEAN

\* Nothing is packed before the candidates are in their order.
EarlyInv ==
    /\ stage \notin {"pack", "answered"} => results = <<>> /\ used = 0 /\ ~truncated /\ ~reranked
    /\ stage = "answered" => candidates = <<>> \/ Len(results) = limit

Ready == stage \in {"rerank", "pack", "answered"}
Held == ToSet(candidates) \cup Returned

\* What a lane found is still held, repeats what is, or was cut off.
FoundInv ==
    Ready /\ ~truncated /\ Len(results) + Len(candidates) < LaneLimit =>
        \A c \in ToSet(dense) \cup ToSet(lexical) : c \in Held \/ \E k \in Held : Overlap(c, k)

ApartInv == Ready => \A a, b \in Held : ~Overlap(a, b)

\* No chunk, packed or not, stands behind one that both lanes rank below it.
OrderInv ==
    Ready /\ ~reranked =>
        /\ \A i, j \in DOMAIN candidates : i < j => ~Better(candidates[j], candidates[i])
        /\ \A i, j \in DOMAIN results : i < j => ~Better(results[j][1], results[i][1])
        /\ \A i \in DOMAIN results, j \in DOMAIN candidates : ~Better(candidates[j], results[i][1])

PackedInv ==
    /\ used <= MaxResponse /\ Len(results) <= limit
    /\ ~truncated => \A r \in ToSet(results) : r[2] = ContentLength(r[1])

RetrievalInv == TypeOK /\ EarlyInv /\ FoundInv /\ ApartInv /\ OrderInv /\ PackedInv
=============================================================================
