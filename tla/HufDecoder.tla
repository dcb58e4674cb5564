------------------------------ MODULE HufDecoder ------------------------------
(***************************************************************************)
(* The weighted hypergraph union-find decoder.  Clusters of vertices whose *)
(* syndrome their tight edges cannot make ("invalid") let the edges around *)
(* them grow at unit rate; an edge that has grown by its weight is tight   *)
(* and joins the clusters it touches.  When no cluster is invalid, a       *)
(* correction is chosen within every cluster.                              *)
(*                                                                         *)
(* The events of a growth wait in a queue; an event is stale when its edge *)
(* changed speed since.  Time and weights are naturals: Unit makes every   *)
(* division by a speed exact.                                              *)
(***************************************************************************)
EXTENDS Naturals, Sequences, FiniteSets
LOCAL INSTANCE SequencesExt
LOCAL INSTANCE FiniteSetsExt

CONSTANTS
    VertexNum,    \* how many vertices every hypergraph has
    Unit,         \* the scale of weights
    QueueFactor, QueueFloor,  \* 4 and 16: how many events are kept before the stale ones go
    Timeouts      \* whether a decode may exceed its configured time

ASSUME HufAssumption ==
    /\ VertexNum \in Nat
    /\ Unit \in Nat \ {0} /\ QueueFactor \in Nat /\ QueueFloor \in Nat
    /\ Timeouts \in BOOLEAN

VARIABLES
    edges,     \* the edges of the loaded hypergraph: [vertices, weight, original]
    syndrome,  \* the defects of the request
    parent, clusters, growth, queue, invalid,  \* the state of a decode
    now,       \* the time of the last event
    answer     \* what the decoder is doing, or what it answered

decode == <<parent, clusters, growth, queue, invalid, now>>
vars == <<edges, syndrome, decode, answer>>

Vertices == 1 .. VertexNum

SymmetricDifference(S, T) == (S \ T) \cup (T \ S)
Flips(E) == FoldSet(LAMBDA e, S : SymmetricDifference(edges[e].vertices, S), {}, E)

\* The correction of a set of edges, or why there is none.
Idle == [is |-> "idle", subgraph |-> {}]
Growing == [is |-> "growing", subgraph |-> {}]
Correction(subgraph) == [is |-> "ok", subgraph |-> subgraph]
Failed(error) == [is |-> error, subgraph |-> {}]

----------------------------------------------------------------------------

\* CompactHuf::new.  Edges that cannot happen or flip nothing are left out; of parallel
\* edges one stays, with the least weight.
Compacted(kept, original, edge) ==
    LET parallel == {k \in DOMAIN kept : kept[k].vertices = edge.vertices}
    IN  CASE ~edge.possible \/ edge.vertices = {} -> kept
          [] parallel = {} -> Append(kept, [vertices |-> edge.vertices, weight |-> edge.weight,
                                            original |-> original])
          [] OTHER -> [k \in DOMAIN kept |->
                          IF k \in parallel /\ edge.weight < kept[k].weight
                          THEN [kept[k] EXCEPT !.weight = edge.weight, !.original = original]
                          ELSE kept[k]]

Compact(hypergraph) ==
    FoldLeft(LAMBDA kept, e : Compacted(kept, e, hypergraph[e]), <<>>, [e \in DOMAIN hypergraph |-> e])

Adjacency(v) == {e \in DOMAIN edges : v \in edges[e].vertices}

\* A new instance: every vertex for itself.
Load(hypergraph) ==
    /\ answer.is # "growing"
    /\ edges' = Compact(hypergraph)
    /\ answer' = Idle /\ syndrome' = {}
    /\ UNCHANGED decode

----------------------------------------------------------------------------
(* The forest of clusters.                                                  *)

\* One turn of root(): every second vertex on the way is hung one higher.
Halve(find) ==
    LET up == find.parent[find.parent[find.at]]
    IN  IF find.parent[find.at] = find.at THEN find
        ELSE [parent |-> [find.parent EXCEPT ![find.at] = up], at |-> up]

Climb(find) == FoldLeft(LAMBDA f, step : Halve(f), find, [v \in Vertices |-> v])

\* root() of several vertices, one after the other: the forest after, and the roots.
Root(found, v) ==
    LET find == Climb([parent |-> found.parent, at |-> v])
    IN  [parent |-> find.parent, roots |-> found.roots \cup {find.at}]

RootsOf(forest, S) ==
    FoldLeft(Root, [parent |-> forest, roots |-> {}], SetToSortSeq(S, <))

\* Whether the tight edges of a cluster can make its syndrome.
InSpan(span, defects) ==
    \E E \in SUBSET span : Flips(E) = defects

Event(time, edge, version) == [time |-> time, edge |-> edge, version |-> version]
Before(a, b) ==
    \/ a.time < b.time
    \/ a.time = b.time /\ a.edge < b.edge
    \/ a.time = b.time /\ a.edge = b.edge /\ a.version < b.version

Fresh(event) == ~growth[event.edge].tight /\ growth[event.edge].version = event.version

----------------------------------------------------------------------------
\* decode() up to its loop.
Single(v, defects) ==
    [vertices |-> {v}, edges |-> {}, boundary |-> Adjacency(v), span |-> {},
     syndrome |-> {v} \cap defects, invalid |-> v \in defects]

Start(weight, speed) ==
    [slack |-> weight, updated |-> 0, speed |-> speed, version |-> 0, tight |-> FALSE]

Decode(defects) ==
    /\ answer.is # "growing" /\ defects \subseteq Vertices
    /\ syndrome' = defects
    /\ parent' = [v \in Vertices |-> v]
    /\ clusters' = [v \in Vertices |-> Single(v, defects)]
    /\ growth' = [e \in DOMAIN edges |->
                     Start(edges[e].weight, Cardinality(edges[e].vertices \cap defects))]
    /\ queue' = {Event(edges[e].weight \div Cardinality(edges[e].vertices \cap defects), e, 0) :
                    e \in {e \in DOMAIN edges : edges[e].vertices \cap defects # {}}}
    /\ invalid' = Cardinality(defects)
    /\ now' = 0
    /\ answer' = IF defects = {} THEN Correction({}) ELSE Growing
    /\ UNCHANGED edges

\* A syndrome that names a vertex the hypergraph has not.
Refuse(defects) ==
    /\ answer.is # "growing" /\ ~(defects \subseteq Vertices)
    /\ answer' = Failed("invalid_input") /\ syndrome' = defects
    /\ UNCHANGED <<edges, decode>>

----------------------------------------------------------------------------
(* One turn of the loop: the next event that is not stale.                  *)

\* The largest of the clusters an edge joins takes the others in; of equal ones the first.
Owner(roots) ==
    CHOOSE r \in roots : \A s \in roots :
        LET size(x) == Cardinality(clusters[x].vertices)
        IN  size(r) > size(s) \/ (size(r) = size(s) /\ r <= s)

Joined(roots, edge) ==
    LET span == UNION {clusters[r].span : r \in roots} \cup {edge}
        defects == UNION {clusters[r].syndrome : r \in roots}
    IN  [vertices |-> UNION {clusters[r].vertices : r \in roots},
         edges |-> UNION {clusters[r].edges : r \in roots} \cup {edge},
         boundary |-> UNION {clusters[r].boundary : r \in roots} \ {edge},
         span |-> span, syndrome |-> defects, invalid |-> ~InSpan(span, defects)]

Emptied == [vertices |-> {}, edges |-> {}, boundary |-> {}, span |-> {}, syndrome |-> {}, invalid |-> FALSE]

\* How an edge goes on when its speed changes at this time.
Respeed(state, speed, time) ==
    LET grown == (time - state.updated) * state.speed
    IN  [state EXCEPT !.slack = IF grown > state.slack THEN 0 ELSE state.slack - grown,
                      !.updated = time, !.speed = speed, !.version = @ + 1]

\* One of the edges around the new cluster.
Touch(walk, edge, joined, time) ==
    LET found == RootsOf(walk.parent, edges[edge].vertices)
        speed == Cardinality({r \in found.roots : joined[r].invalid})
        state == Respeed(walk.growth[edge], speed, time)
    IN  CASE walk.growth[edge].tight -> walk
          [] speed = walk.growth[edge].speed -> [walk EXCEPT !.parent = found.parent]
          [] OTHER ->
                [parent |-> found.parent,
                 growth |-> [walk.growth EXCEPT ![edge] = state],
                 queue |-> IF speed = 0 THEN walk.queue
                           ELSE walk.queue \cup {Event(time + state.slack \div speed, edge, state.version)}]

Walk(walk, boundary, joined, time) ==
    FoldLeft(LAMBDA w, e : Touch(w, e, joined, time), walk, SetToSortSeq(boundary, <))

\* The stale events go when there are too many of them.
Trimmed(events, state) ==
    IF Cardinality(events) > Max({QueueFactor * Len(edges), QueueFloor})
    THEN {e \in events : ~state[e.edge].tight /\ e.version = state[e.edge].version}
    ELSE events

Settle(walk) ==
    /\ parent' = walk.parent
    /\ growth' = walk.growth
    /\ queue' = Trimmed(walk.queue, walk.growth)

\* Mutant: an edge within one cluster never changes what is around it.
SpreadSkipsSingle(event, roots, owner, joined, walk) ==
    /\ clusters' = joined
    /\ invalid' = (invalid - Cardinality({r \in roots : clusters[r].invalid}))
                    + (IF joined[owner].invalid THEN 1 ELSE 0)
    /\ IF roots = {owner}
       THEN parent' = walk.parent /\ growth' = walk.growth /\ queue' = walk.queue
       ELSE Settle(Walk(walk, joined[owner].boundary, joined, event.time))

\* Nothing around a cluster changes when an edge within it leaves it as valid as before;
\* that turn ends before the queue is looked at.
Spread(event, roots, owner, joined, walk) ==
    /\ clusters' = joined
    /\ invalid' = (invalid - Cardinality({r \in roots : clusters[r].invalid}))
                    + (IF joined[owner].invalid THEN 1 ELSE 0)
    /\ IF roots = {owner} /\ clusters[owner].invalid = joined[owner].invalid
       THEN parent' = walk.parent /\ growth' = walk.growth /\ queue' = walk.queue
       ELSE Settle(Walk(walk, joined[owner].boundary, joined, event.time))

JoinInto(event, found, owner) ==
    Spread(event, found.roots, owner,
           [r \in Vertices |-> CASE r = owner -> Joined(found.roots, event.edge)
                                 [] r \in found.roots -> Emptied
                                 [] OTHER -> clusters[r]],
           [parent |-> [r \in Vertices |-> IF r \in found.roots THEN owner ELSE found.parent[r]],
            growth |-> [growth EXCEPT ![event.edge].tight = TRUE],
            queue |-> {e \in queue : Before(event, e)}])

Join(event, found) == JoinInto(event, found, Owner(found.roots))

Grow ==
    /\ answer.is = "growing" /\ invalid > 0
    /\ \E event \in queue :
          /\ Fresh(event)
          /\ \A e \in queue : Before(e, event) => ~Fresh(e)
          /\ now' = event.time
          /\ Join(event, RootsOf(parent, edges[event.edge].vertices))
    /\ UNCHANGED <<edges, syndrome, answer>>

\* Only stale events are left: no correction exists.
Starve ==
    /\ answer.is = "growing" /\ invalid > 0
    /\ \A e \in queue : ~Fresh(e)
    /\ queue' = {}
    /\ answer' = Failed("not_in_span")
    /\ UNCHANGED <<edges, syndrome, parent, clusters, growth, invalid, now>>

Expire ==
    /\ Timeouts
    /\ answer.is = "growing"
    /\ answer' = Failed("timeout")
    /\ UNCHANGED <<edges, syndrome, decode>>

----------------------------------------------------------------------------
(* The corrections.  Which of the solutions of a cluster is taken is left   *)
(* to MWPF's matrix solver.                                                 *)

Solutions(cluster) ==
    {E \in SUBSET cluster.edges : Flips(E) \cap cluster.vertices = syndrome \cap cluster.vertices}

Kernels == {v \in Vertices : clusters[v].edges # {}}

Originals(E) == {edges[e].original : e \in E}

Answer(selected) ==
    IF Flips(selected) = syndrome THEN Correction(Originals(selected)) ELSE Failed("not_the_syndrome")

Finish ==
    /\ answer.is = "growing" /\ invalid = 0
    /\ IF \E v \in Kernels : Solutions(clusters[v]) = {}
       THEN answer' = Failed("infeasible")
       ELSE \E chosen \in [Kernels -> SUBSET DOMAIN edges] :
               /\ \A v \in Kernels : chosen[v] \in Solutions(clusters[v])
               /\ answer' = Answer(UNION {chosen[v] : v \in Kernels})
    /\ UNCHANGED <<edges, syndrome, decode>>
=============================================================================
