--------------------------- MODULE WindowGeometry ---------------------------
(***************************************************************************)
(* Distances in the circuit graph, as the window coordinator measures      *)
(* them.  A graph is given by nb, the neighbours of every gadget, and      *)
(* free, the free-hop gadgets (no measurement), which add nothing to a     *)
(* distance.                                                               *)
(*                                                                         *)
(* Two costs are in use.  Exploring away from a gadget pays for the gadget *)
(* that is ENTERED (Ball); measuring the distance to the edge of a window  *)
(* pays for the gadget that is LEFT (Shell).                               *)
(***************************************************************************)
EXTENDS Naturals

\* The least superset of S that contains next[x] for each of its members x.  (s and
\* C are bound only so that TLC evaluates their values once.)
Closure(S, next) ==
    LET closed == {T \in SUBSET DOMAIN next : \A y \in T : next[y] \subseteq T}
    IN  UNION {{x \in DOMAIN next : \A T \in C : s \subseteq T => x \in T} :
                  s \in {S}, C \in {closed}}

Around(S, nb) == UNION {nb[x] : x \in S}

\* The gadgets at most k steps into W away from S; what next names costs no step.
Within(S, W, nb, next, k) ==
    LET within[i \in 0 .. k] ==
            IF i = 0 THEN Closure(S, next)
            ELSE Closure(within[i-1] \cup (Around(within[i-1], nb) \cap W), next)
    IN  within[k]

\* The gadgets of W within distance k of S, entering a free-hop for nothing.
Enter(W, nb, free) ==
    [x \in DOMAIN nb |-> IF x \in W THEN nb[x] \cap W \cap free ELSE {}]
Ball(S, W, nb, free, k) == Within(S, W, nb, Enter(W, nb, free), k)

\* What a search of W from S finds that expands the gadgets closer than r only:
\* a free-hop that hangs off a gadget at distance r is not found.
Zone(S, W, nb, free, r) ==
    IF r = 0 THEN S
    ELSE LET inner == Ball(S, W, nb, free, r - 1)
         IN  S \cup (W \cap (inner \cup Around(inner, nb)))

\* The gadgets of W at distance at most k from the seeds, leaving a free-hop for
\* nothing.
Leave(W, nb, free) ==
    [x \in DOMAIN nb |-> IF x \in W \cap free THEN nb[x] \cap W ELSE {}]
Shell(seeds, W, nb, free, k) == Within(seeds, W, nb, Leave(W, nb, free), k)
=============================================================================
