----------------------------- MODULE HybridIndex -----------------------------
\* How a sync builds the index of a Confluence source: it discovers the pages under a
\* root, reads each page or reuses what the promoted version holds of it, embeds the
\* chunks that are missing and promotes a complete membership.  Its database session
\* is committed by every heartbeat, so a failed build leaves documents and chunks
\* behind, which the next build finds.
EXTENDS Naturals, FiniteSets

CONSTANTS
    Root, Page,         \* the configured root and a page below it
    Rules,              \* scrub rule sets
    Models,             \* embedding models, one index_config_hash each
    Ordinals,           \* chunks of a document
    None,
    MaxChanges          \* bound: changes of the space, the source and the settings

IndexAssumption == Rules # {} /\ Models # {}

Pages == {Root, Page}

VARIABLES
    space,      \* page -> [rev, place, open]: the Confluence space
    rules,      \* scrub rules of the source
    model,      \* embedding model of the settings
    stored,     \* committed rows: [docs, chunks]
    session,    \* the rows as the running build's session sees them
    versions,   \* succeeded versions
    current,    \* the promoted one, or None
    build,      \* the running build
    changes

world == <<space, rules, model, changes>>
vars == <<world, stored, session, versions, current, build>>

Idle == [stage |-> "idle", rules |-> None, model |-> None, edited |-> FALSE,
         left |-> {}, seen |-> <<>>, members |-> <<>>, doc |-> None]

Init ==
    /\ space = [p \in Pages |-> [rev |-> 1, place |-> 0, open |-> TRUE]]
    /\ rules = (CHOOSE r \in Rules : TRUE) /\ model = (CHOOSE m \in Models : TRUE)
    /\ stored = [docs |-> {}, chunks |-> {}] /\ session = stored
    /\ versions = {} /\ current = None /\ build = Idle /\ changes = 0

------------------------------------------------------------------------------
\* The text of a revision.  Every other revision restores the first text, in which no
\* scrub rule finds anything.
Normalized(rev) == IF rev % 2 = 1 THEN "plain" ELSE "secret"
Scrubbed(text, r) == IF text = "plain" THEN <<text>> ELSE <<text, r>>
Content(rev, r) == Scrubbed(Normalized(rev), r)

\* document_hash: the same page, content and place are the same document row.
Document(p, content, place) == [page |-> p, content |-> content, place |-> place]

\* What the vector of a chunk is computed from; the place is no part of it.
Fingerprint(doc, n) == <<doc.page, doc.content, n>>
Embedding(fingerprint, m) == <<fingerprint, m>>

\* A request that the space refuses; one that it cannot answer fails the build.
Refused(p) == ~space[p].open

------------------------------------------------------------------------------
\* The space, the source's configuration and the settings change at any time.

Change ==
    /\ changes < MaxChanges
    /\ changes' = changes + 1
    /\ \/ \E p \in Pages : space' = [space EXCEPT ![p].rev = @ + 1] /\ UNCHANGED <<rules, model, build>>
       \/ space' = [space EXCEPT ![Page].place = 1 - @] /\ UNCHANGED <<rules, model, build>>
       \/ \E p \in Pages : space' = [space EXCEPT ![p].open = ~@] /\ UNCHANGED <<rules, model, build>>
       \/ /\ rules' \in Rules
          /\ build' = [build EXCEPT !.edited = build.stage # "idle"]
          /\ UNCHANGED <<space, model>>
       \/ model' \in Models \ {model} /\ UNCHANGED <<space, rules, build>>
    /\ UNCHANGED <<stored, session, versions, current>>

------------------------------------------------------------------------------
\* A build.

Begin ==
    /\ build.stage = "idle"
    /\ build' = [Idle EXCEPT !.stage = "discover", !.rules = rules, !.model = model, !.left = Pages]
    /\ session' = stored
    /\ UNCHANGED <<world, stored, versions, current>>

Abort == build' = Idle /\ session' = stored /\ UNCHANGED <<world, stored, versions, current>>

\* The metadata of one page, the root's first.  A page that cannot be read is left out, a root ends
\* the build.
Discover(p) ==
    /\ build.stage = "discover" /\ p \in build.left /\ (p = Root \/ Root \notin build.left)
    /\ IF ~Refused(p)
       THEN build' = [build EXCEPT !.left = @ \ {p}, !.seen = [q \in {p} \cup DOMAIN @ |->
                          IF q = p THEN [rev |-> space[p].rev, place |-> space[p].place] ELSE @[q]]]
       ELSE p # Root /\ build' = [build EXCEPT !.left = @ \ {p}]
    /\ UNCHANGED <<world, stored, session, versions, current>>

Discovered ==
    /\ build.stage = "discover" /\ build.left = {}
    /\ build' = [build EXCEPT !.stage = "read", !.left = DOMAIN build.seen]
    /\ UNCHANGED <<world, stored, session, versions, current>>

\* The promoted version's document of a page holds for a build when the page's
\* revision and the scrub rules are those it was made from.
\* Mutant: changed scrub rules do not matter to a page that did not change.
ReusableAnyRules(p) ==
    /\ current # None /\ p \in DOMAIN current.docs
    /\ current.revs[p] = build.seen[p].rev
Reusable(p) ==
    /\ current # None /\ p \in DOMAIN current.docs
    /\ current.revs[p] = build.seen[p].rev
    /\ current.rules = build.rules

\* The body is taken only at the revision that was discovered.
Fetched(p) == ~Refused(p) /\ space[p].rev = build.seen[p].rev

\* A page that was edited since its metadata was read ends the build; one that has
\* become inaccessible is left out, unless it is the root.
Read(p) ==
    /\ build.stage = "read" /\ p \in build.left
    /\ LET seen == build.seen[p]
           doc == Document(p, IF Reusable(p) THEN current.docs[p].content
                              ELSE Content(seen.rev, build.rules), seen.place)
       IN  \/ /\ Reusable(p) \/ Fetched(p)
              /\ session' = [session EXCEPT !.docs = @ \cup {doc}]
              /\ build' = [build EXCEPT !.stage = "chunk", !.left = @ \ {p}, !.doc = doc]
           \/ /\ ~Reusable(p) /\ Refused(p) /\ p # Root
              /\ build' = [build EXCEPT !.left = @ \ {p}]
              /\ UNCHANGED session
    /\ UNCHANGED <<world, stored, versions, current>>

ChunksOf(rows, doc, m) == {c \in rows.chunks : c.doc = doc /\ c.config = m}

\* Vectors that another document of the page has for the same text.
SameText(n) ==
    {c \in session.chunks : c.doc # build.doc /\ c.config = build.model
                            /\ Fingerprint(c.doc, c.ordinal) = Fingerprint(build.doc, n)}

\* Missing chunks are added in order.
Embed(n) ==
    /\ build.stage = "chunk"
    /\ LET present == {c.ordinal : c \in ChunksOf(session, build.doc, build.model)}
       IN  n \notin present /\ \A m \in Ordinals \ present : n <= m
    /\ LET fresh == Embedding(Fingerprint(build.doc, n), build.model)
           vector == IF SameText(n) = {} THEN fresh ELSE (CHOOSE c \in SameText(n) : TRUE).vector
       IN  session' = [session EXCEPT !.chunks = @ \cup
               {[doc |-> build.doc, ordinal |-> n, config |-> build.model, vector |-> vector]}]
    /\ UNCHANGED <<world, stored, versions, current, build>>

\* Every request and page beats, at most once in ten seconds; a beat commits.
Heartbeat ==
    /\ build.stage # "idle"
    /\ stored' = session
    /\ UNCHANGED <<world, session, versions, current, build>>

PageDone ==
    /\ build.stage = "chunk"
    /\ {c.ordinal : c \in ChunksOf(session, build.doc, build.model)} = Ordinals
    /\ build' = [build EXCEPT !.stage = "read", !.doc = None,
                    !.members = [q \in {build.doc.page} \cup DOMAIN @ |->
                                    IF q = build.doc.page THEN build.doc ELSE @[q]]]
    /\ UNCHANGED <<world, stored, session, versions, current>>

\* Membership, version and pointer are committed together, unless the source was
\* edited meanwhile; a snapshot that already has a version gets no second one.
Promote ==
    /\ build.stage = "read" /\ build.left = {} /\ Root \in DOMAIN build.members
    /\ ~build.edited
    /\ LET version == [docs |-> build.members, rules |-> build.rules, config |-> build.model,
                       revs |-> [p \in DOMAIN build.members |-> build.seen[p].rev]]
       IN  versions' = versions \cup {version} /\ current' = version
    /\ stored' = session /\ build' = Idle
    /\ UNCHANGED <<world, session>>

\* A provider error, a page that changed, an edit of the source or the death of the
\* indexer: what no heartbeat committed is gone.
Fail == build.stage # "idle" /\ Abort

\* Housekeeping takes the source's lock, so never beside a build: old versions, then
\* chunks and documents that no version left has.
Prune ==
    /\ build.stage = "idle"
    /\ \E kept \in SUBSET versions :
         /\ current # None => current \in kept
         /\ versions' = kept
         /\ stored' = [docs |-> {d \in stored.docs : \E v \in kept : \E p \in DOMAIN v.docs : v.docs[p] = d},
                       chunks |-> {c \in stored.chunks : \E v \in kept :
                            v.config = c.config /\ \E p \in DOMAIN v.docs : v.docs[p] = c.doc}]
         /\ session' = stored'
    /\ UNCHANGED <<world, current, build>>

Next ==
    \/ Change \/ Begin \/ Heartbeat \/ Discovered \/ PageDone \/ Promote \/ Fail \/ Prune
    \/ \E p \in Pages : Discover(p) \/ Read(p)
    \/ \E n \in Ordinals : Embed(n)
Spec == Init /\ [][Next]_vars

------------------------------------------------------------------------------
\* The promoted version is complete and says what it says it does: it has the root,
\* each of its documents is the page at the revision recorded for it, scrubbed by the
\* rules recorded for it, and has every chunk, each with a vector of the version's
\* own model for its own text, whatever failed builds, reuse and pruning left.
SnapshotFaithful ==
    current # None =>
        /\ Root \in DOMAIN current.docs
        /\ \A p \in DOMAIN current.docs :
              LET doc == current.docs[p]
                  chunks == ChunksOf(stored, doc, current.config)
              IN  /\ doc \in stored.docs
                  /\ doc.content = Content(current.revs[p], current.rules)
                  /\ {c.ordinal : c \in chunks} = Ordinals
                  /\ \A c \in chunks : c.vector = Embedding(Fingerprint(doc, c.ordinal), current.config)

------------------------------------------------------------------------------
\* What SnapshotFaithful rests on.

Rev == Nat \ {0}

\* Records have their fields, and what is read of them its type.
TypeOK ==
    /\ space \in [Pages -> [rev : Rev, place : {0, 1}, open : BOOLEAN]]
    /\ rules \in Rules /\ model \in Models
    /\ stored = [docs |-> stored.docs, chunks |-> stored.chunks]
    /\ session = [docs |-> session.docs, chunks |-> session.chunks]
    /\ build = [stage |-> build.stage, rules |-> build.rules, model |-> build.model,
                edited |-> build.edited, left |-> build.left, seen |-> build.seen,
                members |-> build.members, doc |-> build.doc]
    /\ build.stage \in {"idle", "discover", "read", "chunk"}

\* A chunk has the vector of its own text and model, though it may be taken from another.
ChunksTrue(rows) ==
    \A c \in rows.chunks :
        c.ordinal \in Ordinals /\ c.vector = Embedding(Fingerprint(c.doc, c.ordinal), c.config)

\* A document is among the rows, and is the text of that revision under those rules.
Written(rows, doc, rev, byRules) == doc \in rows.docs /\ doc.content = Content(rev, byRules)

\* Besides, it has all its chunks.
Holds(rows, doc, rev, byRules, config) ==
    /\ Written(rows, doc, rev, byRules)
    /\ {c.ordinal : c \in ChunksOf(rows, doc, config)} = Ordinals

\* The rows hold the promoted version.
CurrentHeld(rows) ==
    current # None =>
        /\ Root \in DOMAIN current.docs
        /\ \A p \in DOMAIN current.docs :
              Holds(rows, current.docs[p], current.revs[p], current.rules, current.config)

\* The pages a build has read are in its session, at the revisions it discovered and
\* under the rules it began with.
BuildHeld ==
    /\ build.stage = "idle" => session = stored
    /\ build.stage \in {"idle", "discover"} => build.members = <<>>
    /\ build.stage \in {"read", "chunk"} => build.left \subseteq DOMAIN build.seen
    /\ \A p \in DOMAIN build.members :
          /\ p \in DOMAIN build.seen
          /\ Holds(session, build.members[p], build.seen[p].rev, build.rules, build.model)
    /\ build.stage = "chunk" =>
          /\ build.doc.page \in DOMAIN build.seen
          /\ Written(session, build.doc, build.seen[build.doc.page].rev, build.rules)

IndexInv ==
    /\ TypeOK
    /\ stored.docs \subseteq session.docs /\ stored.chunks \subseteq session.chunks
    /\ ChunksTrue(session)
    /\ current # None => current \in versions
    /\ CurrentHeld(stored)
    /\ BuildHeld
=============================================================================
