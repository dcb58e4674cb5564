---------------------------- MODULE JitCompiler ----------------------------
(***************************************************************************)
(* What the JIT compiler computes (jit/jit_compiler.rs).  A gadget type    *)
(* states its checks over its own measurements and the virtual checks of   *)
(* its input ports, and its errors over its finished checks and the        *)
(* virtual checks of its output ports.  Compiling expands the checks into  *)
(* measurements of earlier gadgets, and the errors into checks of later    *)
(* ones.  Sets are combined by exclusive or; gid, cid and eid are equal.   *)
(***************************************************************************)
EXTENDS Integers, Sequences, FiniteSets

Local == 0              \* no input port, or no remote gadget

\* A check: measurements [port, index], port Local or an input port counted from 1;
\* flipped: its natural parity.  An error: finished and unfinished check indices.
\* unfinished lists the virtual checks of the output ports one after the other,
\* outputs says how many each port has.
IsCheck(c) == /\ c.measurements \in Seq([port : Nat, index : Nat])
              /\ c.flipped \in BOOLEAN
IsError(e) == {e.finished, e.unfinished} \subseteq Seq(Nat)
IsGadgetType(t) ==
    /\ {t.inputs, t.outputs} \subseteq Seq(Nat)
    /\ DOMAIN t.finished \subseteq Nat
    /\ \A i \in DOMAIN t.finished : IsCheck(t.finished[i])
    /\ \A i \in DOMAIN t.unfinished : IsCheck(t.unfinished[i])
    /\ \A i \in DOMAIN t.errors : IsError(t.errors[i])

Xor(S, T) == (S \ T) \cup (T \ S)
OddSet(S) == Cardinality(S) % 2 = 1
Odd(n, p(_)) == OddSet({i \in 1 .. n : p(i)})
\* The exclusive or of f(1), ..., f(n): what is in an odd number of them.
XorAll(n, f(_)) ==
    {x \in UNION {f(i) : i \in 1 .. n} : Odd(n, LAMBDA i : x \in f(i))}

-----------------------------------------------------------------------------
(* Checks.  An expanded check: explicit measurements [gid, index] and its   *)
(* parity.  input[p][k]: the expanded virtual check k of input port p.      *)

ExpandCheckMeasurements(check, input, gid) ==
    LET n == Len(check.measurements)
        M(i) == check.measurements[i]
    IN  [measurements |->
            XorAll(n, LAMBDA i : IF M(i).port = Local
                                 THEN {[gid |-> gid, index |-> M(i).index]}
                                 ELSE input[M(i).port][M(i).index].measurements),
         flipped |->
            check.flipped # Odd(n, LAMBDA i : /\ M(i).port # Local
                                              /\ input[M(i).port][M(i).index].flipped)]

\* The number of virtual checks of the output ports before p.
Before(t, p) == Cardinality(UNION {{q} \X (1 .. t.outputs[q]) : q \in 1 .. p - 1})
OutputChecks(t, input, gid) ==
    [p \in DOMAIN t.outputs |->
        [k \in 1 .. t.outputs[p] |->
            ExpandCheckMeasurements(t.unfinished[Before(t, p) + k], input, gid)]]

\* For each virtual check of an input port, the checks that include it: a list with
\* one entry for every measurement that names it.
Naming(checks, p, k) ==
    LET At(i, j) == checks[i].measurements[j] = [port |-> p, index |-> k]
    IN  [i \in DOMAIN checks |-> Cardinality({j \in DOMAIN checks[i].measurements : At(i, j)})]
InputVirtualCheckMap(t) ==
    [p \in DOMAIN t.inputs |->
        [k \in 1 .. t.inputs[p] |->
            [finished |-> Naming(t.finished, p, k),
             unfinished |-> Naming(t.unfinished, p, k)]]]

-----------------------------------------------------------------------------
(* Errors.  An explicit check is [cid, index]; resolved[k] the explicit     *)
(* checks of virtual check k of the peer, entry one of the input map above. *)

ResolveWithoutToggle(entry, peer, resolved) ==
    {[cid |-> peer, index |-> i] : i \in {i \in DOMAIN entry.finished : entry.finished[i] > 0}}
    \cup UNION {resolved[u] : u \in {u \in DOMAIN entry.unfinished : entry.unfinished[u] > 0}}

\* A finished check is inserted, not toggled; an unfinished one is toggled once for
\* every entry of the list.
ResolveVirtualCheck(entry, peer, resolved) ==
    LET later == {u \in DOMAIN entry.unfinished : entry.unfinished[u] % 2 = 1}
    IN  Xor({[cid |-> peer, index |-> i] : i \in {i \in DOMAIN entry.finished :
                                                     entry.finished[i] > 0}},
            {x \in UNION {resolved[u] : u \in later} : OddSet({u \in later : x \in resolved[u]})})

ExpandErrorChecks(error, virtual, gid) ==
    Xor(XorAll(Len(error.finished), LAMBDA i : {[cid |-> gid, index |-> error.finished[i]]}),
        XorAll(Len(error.unfinished), LAMBDA i : virtual[error.unfinished[i]]))

-----------------------------------------------------------------------------
(* The sequencers.  Remote gadgets (check models) get indices in the order  *)
(* a hash set yields them, check after check; indices are stored relative   *)
(* to the smallest one of their gadget.  sets: the references of the checks *)
(* (errors) of `gid`, as pairs <<gid, index>>.                              *)

Remote(sets, gid) == {x[1] : x \in UNION {sets[i] : i \in DOMAIN sets}} \ {gid}
FirstUse(sets, g) ==
    CHOOSE i \in DOMAIN sets :
        /\ \E x \in sets[i] : x[1] = g
        /\ \A j \in 1 .. i - 1 : \A x \in sets[j] : x[1] # g

Sequencings(sets, gid) ==
    LET R == Remote(sets, gid)  n == Cardinality(R)
    IN  {s \in [1 .. n -> R] :
            /\ \A i, j \in 1 .. n : i # j => s[i] # s[j]
            /\ \A i, j \in 1 .. n :
                  FirstUse(sets, s[i]) < FirstUse(sets, s[j]) => i < j}

Bias(sets, g) ==
    CHOOSE b \in {x[2] : x \in {x \in UNION {sets[i] : i \in DOMAIN sets} : x[1] = g}} :
        \A i \in DOMAIN sets : \A x \in sets[i] : x[1] = g => b <= x[2]

\* The remote list of the model, and the references as the type has them.
RemoteList(sets, order) ==
    [r \in DOMAIN order |-> [gid |-> order[r], bias |-> Bias(sets, order[r])]]
ToBin(sets, order, gid) ==
    [i \in DOMAIN sets |->
        {IF x[1] = gid THEN <<Local, x[2]>>
         ELSE LET r == CHOOSE r \in DOMAIN order : order[r] = x[1]
              IN  <<r, x[2] - Bias(sets, x[1])>> : x \in sets[i]}]

\* What a coordinator reads from a type and a remote list.
FromBin(sets, remote, gid) ==
    [i \in DOMAIN sets |->
        {IF x[1] = Local THEN <<gid, x[2]>>
         ELSE <<remote[x[1]].gid, x[2] + remote[x[1]].bias>> : x \in sets[i]}]

\* The terminal error model of a type: its finished checks, and one check that
\* stands for all in the future.
TerminalErrorModelType(t) ==
    [i \in DOMAIN t.errors |->
        [checks |-> t.errors[i].finished, future |-> t.errors[i].unfinished # <<>>]]
=============================================================================
