------------------------------- MODULE MCQodec -------------------------------
(***************************************************************************)
(* The file systems, names and edits the qodec is checked with.            *)
(***************************************************************************)
EXTENDS Qodec

Stems == << [idle |-> "t0_idle", meas |-> "t0_meas", init |-> "t0_init"],
            [idle |-> "t1_idle", meas |-> "t1_meas", init |-> "t1_init"] >>
MCGadgetStem == [k \in {1, 2} \X {"idle", "meas", "init"} |-> Stems[k[1]][k[2]]]
MCSafeFilename ==
    [n \in {"logical", "inner", "physical", "steane", "a/b", "idle", "meas", "init"}
             \cup {MCGadgetStem[k] : k \in DOMAIN MCGadgetStem} |-> IF n = "a/b" THEN "a_b" ELSE n]
MCMnemonics == <<"idle", "init", "meas">>
MCBlocks == <<"L", "q">>
\* "- h: 0" is a call list that YAML spells "- h: [0]"
MCInferFormat == [t \in {"H 0", "M 0", "- h: 0", "- h: [0]", "OPENQASM"} |->
                    CASE t \in {"H 0", "M 0"} -> "stim" [] t = "OPENQASM" -> "openqasm" [] OTHER -> "yaml"]
MCCallList == [t \in {"- h: 0", "- h: [0]"} |-> "- h: [0]"]

Manifest(layers) == [kind |-> "manifest", body |-> [schema |-> "none", title |-> "t", layers |-> layers]]
LayerSpec(isa, codes, gadgets) == [instruction_set |-> isa, codes |-> codes, gadgets |-> gadgets]

Instruction(m, inputs, outputs, observes) ==
    [mnemonic |-> m, inputs |-> inputs, outputs |-> outputs, observes |-> observes, edition |-> 0]
Instructions == [m \in {"idle", "meas"} |->
    IF m = "idle" THEN Instruction("idle", <<"L">>, <<"L">>, 0) ELSE Instruction("meas", <<"L">>, <<>>, 1)]
Isa(name, blocks, instructions) ==
    [kind |-> "isa", body |-> [name |-> name, edition |-> 0, blocks |-> blocks, instructions |-> instructions]]
Logical  == Isa("logical", <<"L">>, Instructions)
Inner    == Isa("inner", <<"L">>, Instructions)
Physical == Isa("physical", <<"q">>, <<>>)
Pair     == Isa("physical", <<"q", "L">>, <<>>)
Code(name) == [kind |-> "code", body |-> [name |-> name, width |-> 2, edition |-> 0, valid |-> TRUE]]

Circuit(source, format, types) ==
    [instruction_set |-> {}, source |-> source, format |-> format, inputs |-> types, outputs |-> <<>>]
Gadget(circuit, inputs, checks, readouts) ==
    [kind |-> "gadget",
     body |-> [implements |-> {}, circuit |-> circuit, inputs |-> inputs, outputs |-> <<>>,
               checks |-> checks, readouts |-> readouts, rest |-> "d"]]
Stated(gadget, mnemonic, source, target) ==
    [gadget EXCEPT !.body.implements = {[instruction_set |-> source, mnemonic |-> mnemonic]},
                   !.body.circuit.instruction_set = {target}]
At(path) == [path |-> path]
Text(value) == [inline |-> value]
NoChecks == Text(<<>>)

Work == <<Root, Dir("home"), Dir("work")>>
Here(names) == Work \o names

(* Two gadgets share a source and a checks file beside their manifest.     *)
Local ==
    LET circuit == Circuit(At(<<Up, File("shared", "stim")>>), {}, <<>>)
    IN  [manifest |-> Here(<<File("q", "yaml")>>),
         fs |->
           (Here(<<File("q", "yaml")>>) :>
                Manifest(<<LayerSpec(<<File("logical", "isa.yaml")>>, "L" :> <<File("c", "code.yaml")>>,
                                     ("idle" :> <<Dir("g"), File("idle", "gadget.yaml")>>)
                                       @@ ("meas" :> <<Dir("g"), File("meas", "gadget.yaml")>>)),
                           LayerSpec(<<Dir("g"), Up, File("physical", "isa.yaml")>>, <<>>, <<>>)>>))
           @@ (Here(<<File("logical", "isa.yaml")>>) :> Logical)
           @@ (Here(<<File("physical", "isa.yaml")>>) :> Physical)
           @@ (Here(<<File("c", "code.yaml")>>) :> Code("steane"))
           @@ (Here(<<File("shared", "stim")>>) :> [kind |-> "source", body |-> "H 0"])
           @@ (Here(<<File("checks", "yaml")>>) :> [kind |-> "checks", body |-> <<"c0">>])
           @@ (Here(<<Dir("g"), File("idle", "gadget.yaml")>>) :>
                Stated(Gadget(circuit, <<>>, At(<<Up, File("checks", "yaml")>>), Text(<<>>)), "idle",
                       <<Up, File("logical", "isa.yaml")>>, <<Up, File("physical", "isa.yaml")>>))
           @@ (Here(<<Dir("g"), File("meas", "gadget.yaml")>>) :>
                Gadget(circuit, <<>>, At(<<Up, File("checks", "yaml")>>), Text(<<"r0", "r1">>)))]

(* Everything the manifest names lies above its directory.                 *)
External ==
    LET above(p) == <<Up>> \o p
        home(p) == <<Root, Dir("home")>> \o p
    IN  [manifest |-> Here(<<File("q", "yaml")>>),
         fs |->
           (Here(<<File("q", "yaml")>>) :>
                Manifest(<<LayerSpec(above(<<File("logical", "isa.yaml")>>), "L" :> above(<<File("c", "code.yaml")>>),
                                     "meas" :> above(<<File("meas", "gadget.yaml")>>)),
                           LayerSpec(above(<<File("physical", "isa.yaml")>>), <<>>, <<>>)>>))
           @@ (home(<<File("logical", "isa.yaml")>>) :> Logical)
           @@ (home(<<File("physical", "isa.yaml")>>) :> Pair)
           @@ (home(<<File("c", "code.yaml")>>) :> Code("a/b"))
           @@ (home(<<File("m", "txt")>>) :> [kind |-> "source", body |-> "M 0"])
           @@ (home(<<File("r", "yaml")>>) :> [kind |-> "readouts", body |-> <<"r0">>])
           @@ (home(<<File("meas", "gadget.yaml")>>) :>
                Gadget(Circuit(At(<<File("m", "txt")>>), {}, (0 :> "q") @@ (1 :> "L")), <<>>, NoChecks,
                       At(<<File("r", "yaml")>>)))]

(* A bundle of three layers whose manifest has a name of two components:   *)
(* two layers share a gadget document, and a source stays beside it.       *)
Bundled ==
    LET Doc(file, content) == [path |-> <<Dir("sub"), file>>, content |-> content]
        codes == "L" :> <<File("c", "code.yaml")>>
        shared == "idle" :> <<File("idle", "gadget.yaml")>>
    IN  [manifest |-> Here(<<File("q", "qodec")>>),
         fs |->
           (Here(<<File("q", "qodec")>>) :> [kind |-> "bundle", body |->
             << Doc(File("q", "qodec"),
                    Manifest(<<LayerSpec(<<File("logical", "isa.yaml")>>, codes,
                                         shared @@ ("meas" :> <<File("meas", "gadget.yaml")>>)),
                               LayerSpec(<<File("inner", "isa.yaml")>>, codes, shared),
                               LayerSpec(<<File("physical", "isa.yaml")>>, <<>>, <<>>)>>)),
                Doc(File("logical", "isa.yaml"), Logical),
                Doc(File("inner", "isa.yaml"), Inner),
                Doc(File("physical", "isa.yaml"), Physical),
                Doc(File("c", "code.yaml"), Code("steane")),
                Doc(File("idle", "gadget.yaml"),
                    Gadget(Circuit(Text("- h: [0]"), {}, <<>>), <<[block |-> "L", support |-> <<1, 0>>]>>,
                           Text(<<"c0">>), Text(<<>>))),
                Doc(File("meas", "gadget.yaml"),
                    Gadget(Circuit(At(<<File("m", "txt")>>), {}, <<>>), <<>>, NoChecks, Text(<<"r0">>))) >>])
           @@ (Here(<<Dir("sub"), File("m", "txt")>>) :> [kind |-> "source", body |-> "M 0"])]

(* Manifests that do not load: a file read as two kinds under two          *)
(* spellings, a gadget below the last layer, a gadget that names another   *)
(* instruction.                                                            *)
Broken ==
    LET With(layers) == [Local EXCEPT !.fs[Local.manifest].body.layers = layers]
        layers == Local.fs[Local.manifest].body.layers
    IN  { With([layers EXCEPT ![1].codes["L"] = <<Dir("x"), Up, File("logical", "isa.yaml")>>]),
          With([layers EXCEPT ![2].gadgets = layers[1].gadgets]),
          With([layers EXCEPT ![1].gadgets["meas"] = layers[1].gadgets["idle"]]) }

MCLayouts == {Local, External, Bundled} \cup Broken

MCDestinations == {Work, <<Root, Dir("home")>>}
MCFilenames == {<<File("q", "yaml")>>, <<Dir("deep"), File("q", "yaml")>>, <<Up, File("entry", "yaml")>>}
MCCircuits == {<<"H 0", {}>>, <<"- h: 0", {"yaml"}>>}
MCIsaNames == {"inner"}
==============================================================================
