----------------------------- MODULE ResetGate -----------------------------
(***************************************************************************)
(* What the admission counter promises to the coordinators' reset: work    *)
(* enters only through an open gate, and the shared state is cleared only  *)
(* behind a closed gate with nobody inside.                                *)
(***************************************************************************)
CONSTANT Agents     \* RPCs and the background tasks they spawn

VARIABLES phase,    \* "open", "draining" or "clearing"
          inside    \* the agents that may touch the shared state

gvars == <<phase, inside>>

Init == phase = "open" /\ inside = {}

Enter(a) == /\ phase = "open"
            /\ a \notin inside
            /\ inside' = inside \cup {a}
            /\ UNCHANGED phase

\* Work already inside may start more work, whatever the gate.
Fork(a, b) == /\ a \in inside /\ b \notin inside
              /\ inside' = inside \cup {b}
              /\ UNCHANGED phase

Leave(a) == /\ a \in inside
            /\ inside' = inside \ {a}
            /\ UNCHANGED phase

Close == phase = "open" /\ phase' = "draining" /\ UNCHANGED inside

Clear == /\ phase = "draining" /\ inside = {}
         /\ phase' = "clearing" /\ UNCHANGED inside

Reopen == phase # "open" /\ phase' = "open" /\ UNCHANGED inside

Next == \/ \E a \in Agents : Enter(a) \/ Leave(a)
        \/ \E a, b \in Agents : Fork(a, b)
        \/ Close \/ Clear \/ Reopen

Spec == Init /\ [][Next]_gvars
=============================================================================
