------------------------------ MODULE QodecFiles ------------------------------
(***************************************************************************)
(* How a qodec is read: paths, the documents a file system holds, and the  *)
(* loader, which follows a manifest's references into a chain of layers.   *)
(*                                                                         *)
(* A path is a sequence of components <<name, copy, extension>>; a file    *)
(* system is a function from absolute paths to contents, and a content is  *)
(* a record [kind, body].  An optional value is a set of at most one       *)
(* element.  A section of a gadget document is [path |-> p] when it is     *)
(* factored into a file and [inline |-> v] when it is not.                 *)
(*                                                                         *)
(* Which of several errors the loader reports is not modelled: the loader  *)
(* answers {} when any of its checks fails.                                *)
(***************************************************************************)
EXTENDS Naturals, Sequences, FiniteSets, Functions, SequencesExt, FiniteSetsExt, Folds

CONSTANTS
    InferFormat,    \* source text -> the format read off its first character
    CallList,       \* source text -> the text a YAML call list is rewritten to, for texts that are one
    Mnemonics,      \* the mnemonics in their order
    Blocks          \* the block types in their order

Root == <<"/", 0, "">>
Up   == <<"..", 0, "">>
Dir(name) == <<name, 0, "">>
File(stem, ext) == <<stem, 0, ext>>

(***************************************************************************)
(* Paths                                                                   *)
(***************************************************************************)

IsAbsolute(p) == p # <<>> /\ p[1] = Root
Parent(p) == IF p = <<>> THEN <<>> ELSE Front(p)
Join(directory, p) == IF IsAbsolute(p) THEN p ELSE directory \o p

(* normalize_path: ".." takes back a name, stays at the root, and leads    *)
(* a path that has nothing to take back.                                   *)
Normalized(p) ==
    LET Step(done, c) ==
            IF c # Up THEN Append(done, c)
            ELSE IF done = <<>> \/ Last(done) = Up THEN Append(done, c)
            ELSE IF Last(done) = Root THEN done
            ELSE Front(done)
    IN  FoldLeft(Step, <<>>, p)

ResolveRelative(referrer, target) == Normalized(Join(Parent(referrer), target))

CommonLength(p, q) ==
    Max({0} \cup {n \in 1..Min({Len(p), Len(q)}) : SubSeq(p, 1, n) = SubSeq(q, 1, n)})

(* relative_reference: how a document at "from" names the file "to".       *)
RelativeReference(from, to) ==
    LET target == Normalized(to)
        here   == Parent(Normalized(from))
        common == CommonLength(here, target)
    IN  IF IsAbsolute(target) THEN target
        ELSE [i \in 1..(Len(here) - common) |-> Up]
                 \o SubSeq(target, common + 1, Len(target))

(***************************************************************************)
(* Circuit sources                                                         *)
(***************************************************************************)

(* ParserRegistry::format_for_path                                         *)
FormatForPath(p) ==
    CASE Last(p)[3] = "stim" -> {"stim"}
      [] Last(p)[3] = "qasm" -> {"openqasm"}
      [] Last(p)[3] \in {"yaml", "yml"} -> {"yaml"}
      [] OTHER -> {}

EffectiveFormat(source, format) ==
    IF format # {} THEN CHOOSE f \in format : TRUE ELSE InferFormat[source]

IsFile(section) == "path" \in DOMAIN section

(* CircuitSpec's serializer and deserializer: an inline text without a     *)
(* format is written as a call list, and comes back the way YAML spells it.*)
AsWritten(spec) ==
    IF IsFile(spec.circuit.source) \/ spec.circuit.format # {} THEN spec
    ELSE [spec EXCEPT !.circuit.source.inline = CallList[@]]

(***************************************************************************)
(* Reading the artifacts a manifest names                                  *)
(***************************************************************************)

(* The references of one manifest layer and of one gadget document, as     *)
(* <<path, kind>> pairs; paths are relative to the directory of the file   *)
(* the manifest was read from.                                             *)
LayerReferences(file, layer) ==
    {<<ResolveRelative(file, layer.instruction_set), "isa">>}
      \cup {<<ResolveRelative(file, p), "code">> : p \in Range(layer.codes)}
      \cup {<<ResolveRelative(file, p), "gadget">> : p \in Range(layer.gadgets)}

SectionReferences(at, spec) ==
    UNION { IF IsFile(s[2]) THEN {<<ResolveRelative(at, s[2].path), s[1]>>} ELSE {} :
            s \in {<<"source", spec.circuit.source>>, <<"checks", spec.checks>>,
                   <<"readouts", spec.readouts>>} }

(* ArtifactFiles: bundle documents shadow files; a path is one kind only,  *)
(* however it is spelled.                                                  *)
Identity(root, p) == Normalized(Join(root, p))

Exists(fs, root, documents, p) == p \in DOMAIN documents \/ Identity(root, p) \in DOMAIN fs
Content(fs, root, documents, p) ==
    IF p \in DOMAIN documents THEN documents[p] ELSE fs[Identity(root, p)]

Readable(fs, root, documents, refs) ==
    \A r \in refs : /\ Exists(fs, root, documents, r[1])
                    /\ Content(fs, root, documents, r[1]).kind = r[2]

OneKindPerPath(root, refs) ==
    \A r, s \in refs : Identity(root, r[1]) = Identity(root, s[1]) => r[2] = s[2]

Bodies(fs, root, documents, refs, kind) ==
    [p \in {r[1] : r \in {s \in refs : s[2] = kind}} |-> Content(fs, root, documents, p).body]

UniqueNames(artifacts) ==
    \A p, q \in DOMAIN artifacts : artifacts[p].name = artifacts[q].name => p = q

(* A file outside the manifest's directory keeps its absolute path and     *)
(* what was read from it.                                                  *)
ExternalFiles(fs, root, documents, refs) ==
    [p \in {r[1] : r \in refs} \ (DOMAIN documents \cup {q \in {r[1] : r \in refs} : IsPrefix(root, Identity(root, q))}) |->
        [path |-> Identity(root, p), content |-> fs[Identity(root, p)]]]

(***************************************************************************)
(* Resolving a gadget against the two layers it connects                   *)
(***************************************************************************)

SoleBlock(isa) == IF Len(isa.blocks) = 1 THEN {isa.blocks[1]} ELSE {}

(* CodeBindings.encodings: one encoding per entry; with no entry at all,   *)
(* one per operand on consecutive qubits.                                  *)
DefaultEntries(operands, codeOf) ==
    LET Step(done, block) ==
            Append(done, [block |-> block,
                          support |-> [i \in 1..codeOf[block].width |->
                                         i - 1 + FoldLeft(LAMBDA n, e : n + Len(e.support), 0, done)]])
    IN  FoldLeft(Step, <<>>, operands)

EncodingsResolve(entries, operands, codeOf, types, target) ==
    LET plan == IF entries = <<>> THEN DefaultEntries(operands, codeOf) ELSE entries IN
    /\ Len(plan) <= Len(operands)
    /\ \A i \in 1..Len(plan) :
         /\ plan[i].block = operands[i]
         /\ \A label \in Range(plan[i].support) : label \in DOMAIN types \/ SoleBlock(target) # {}

Encodings(entries, operands, codeOf, types, target) ==
    LET plan == IF entries = <<>> THEN DefaultEntries(operands, codeOf) ELSE entries IN
    [i \in 1..Len(plan) |->
        [code |-> codeOf[operands[i]], support |-> plan[i].support,
         types |-> [j \in 1..Len(plan[i].support) |->
                      IF plan[i].support[j] \in DOMAIN types THEN types[plan[i].support[j]]
                      ELSE CHOOSE b \in SoleBlock(target) : TRUE]]]

(* What a gadget says of its own membership must agree with the layer      *)
(* that lists it: LoweringEdge.check_implements, check_circuit_target.     *)
MembershipAgrees(at, spec, mnemonic, sourcePath, targetPath, source) ==
    /\ \A i \in spec.implements : /\ i.mnemonic = mnemonic
                                  /\ ResolveRelative(at, i.instruction_set) = sourcePath
    /\ \A p \in spec.circuit.instruction_set : ResolveRelative(at, p) = targetPath
    /\ mnemonic \in DOMAIN source.instructions

SectionValue(section, at, files) ==
    IF IsFile(section) THEN files[ResolveRelative(at, section.path)] ELSE section.inline

(* Readout::resolve_list and Readout::to_spec                              *)
ResolveReadouts(list, observes) ==
    [i \in 1..Len(list) |-> [equation |-> list[i], position |-> i, is_flag |-> i > observes]]
ReadoutSpecs(readouts) == [i \in 1..Len(readouts) |-> readouts[i].equation]

GadgetResolves(spec, instruction, codeOf, target) ==
    /\ Range(instruction.inputs \o instruction.outputs) \subseteq DOMAIN codeOf
    /\ EncodingsResolve(spec.inputs, instruction.inputs, codeOf, spec.circuit.inputs, target)
    /\ EncodingsResolve(spec.outputs, instruction.outputs, codeOf, spec.circuit.outputs, target)

ResolveGadget(at, spec, instruction, codeOf, target, raw) ==
    [implements |-> instruction,
     target     |-> target,
     source     |-> SectionValue(spec.circuit.source, at, raw.sources),
     format     |-> IF spec.circuit.format # {} \/ ~IsFile(spec.circuit.source) THEN spec.circuit.format
                    ELSE FormatForPath(spec.circuit.source.path),
     inputs     |-> Encodings(spec.inputs, instruction.inputs, codeOf, spec.circuit.inputs, target),
     outputs    |-> Encodings(spec.outputs, instruction.outputs, codeOf, spec.circuit.outputs, target),
     checks     |-> SectionValue(spec.checks, at, raw.checks),
     readouts   |-> ResolveReadouts(SectionValue(spec.readouts, at, raw.readouts), instruction.observes),
     rest       |-> spec.rest]

(***************************************************************************)
(* The chain of layers                                                     *)
(***************************************************************************)

LayerIsa(file, layer, raw) == raw.isas[ResolveRelative(file, layer.instruction_set)]
LayerCodes(file, layer, raw) ==
    [b \in DOMAIN layer.codes |-> raw.codes[ResolveRelative(file, layer.codes[b])]]

EdgeResolves(file, layer, below, raw) ==
    \A m \in DOMAIN layer.gadgets :
        LET at   == ResolveRelative(file, layer.gadgets[m])
            spec == raw.gadgets[at]
            isa  == LayerIsa(file, layer, raw)
        IN  /\ MembershipAgrees(at, spec, m, ResolveRelative(file, layer.instruction_set),
                                ResolveRelative(file, below.instruction_set), isa)
            /\ GadgetResolves(spec, isa.instructions[m], LayerCodes(file, layer, raw),
                              LayerIsa(file, below, raw))

ChainResolves(file, layers, raw) ==
    \A i \in 1..Len(layers) :
        IF i < Len(layers) THEN EdgeResolves(file, layers[i], layers[i + 1], raw)
        ELSE layers[i].gadgets = <<>>

(* build_layers                                                            *)
BuildLayers(file, layers, raw) ==
    [i \in 1..Len(layers) |->
        [isa     |-> LayerIsa(file, layers[i], raw),
         codes   |-> LayerCodes(file, layers[i], raw),
         gadgets |-> [m \in DOMAIN layers[i].gadgets |->
                        LET at == ResolveRelative(file, layers[i].gadgets[m]) IN
                        ResolveGadget(at, raw.gadgets[at],
                                      LayerIsa(file, layers[i], raw).instructions[m],
                                      LayerCodes(file, layers[i], raw),
                                      LayerIsa(file, layers[i + 1], raw), raw)]]]

(***************************************************************************)
(* What validation asks of a model                                         *)
(***************************************************************************)

(* Layer.code_bindings: declared bindings of declared blocks, then what    *)
(* the gadgets' boundaries say; the gadgets are visited in order.          *)
BoundaryBindings(gadget) ==
    LET codes    == [i \in 1..Len(gadget.inputs \o gadget.outputs) |-> (gadget.inputs \o gadget.outputs)[i].code]
        operands == gadget.implements.inputs \o gadget.implements.outputs
    IN  [i \in 1..Min({Len(codes), Len(operands)}) |-> [block |-> operands[i], code |-> codes[i]]]

InOrder(order, set) == SelectSeq(order, LAMBDA x : x \in set)

CodeBindings(layer) ==
    LET all == FoldLeft(LAMBDA done, m : done \o BoundaryBindings(layer.gadgets[m]), <<>>,
                        InOrder(Mnemonics, DOMAIN layer.gadgets))
        declared == DOMAIN layer.codes \cap Range(layer.isa.blocks)
        First(b) == all[Min({i \in 1..Len(all) : all[i].block = b})].code
    IN  [b \in declared \cup {all[i].block : i \in 1..Len(all)} |->
            IF b \in declared THEN layer.codes[b] ELSE First(b)]

AllCodes(layers) ==
    UNION {Range(layers[i].codes)
             \cup UNION {{e.code : e \in Range(g.inputs \o g.outputs)} : g \in Range(layers[i].gadgets)} :
           i \in 1..Len(layers)}

(* Encoding.record_block_types over one boundary: the labels keep one type.*)
BoundaryTypes(encodings) ==
    {<<e.support[j], e.types[j]>> : <<e, j>> \in
        {x \in Range(encodings) \X (1..4) : x[2] <= Len(x[1].support)}}
TypesAgree(encodings, target) ==
    /\ \A s, t \in BoundaryTypes(encodings) : s[1] = t[1] => s[2] = t[2]
    /\ \A s \in BoundaryTypes(encodings) : s[2] \in Range(target.blocks)

ValidGadget(gadget) ==
    /\ Len(gadget.inputs) = Len(gadget.implements.inputs)
    /\ Len(gadget.outputs) = Len(gadget.implements.outputs)
    /\ TypesAgree(gadget.inputs, gadget.target)
    /\ TypesAgree(gadget.outputs, gadget.target)
    /\ \A i \in 1..Len(gadget.readouts) :
         /\ gadget.readouts[i].position = i
         /\ gadget.readouts[i].is_flag = (i > gadget.implements.observes)

ValidEdge(layer, below) ==
    \A m \in DOMAIN layer.gadgets :
        /\ m \in DOMAIN layer.isa.instructions
        /\ layer.gadgets[m].implements = layer.isa.instructions[m]
        /\ layer.gadgets[m].target = below.isa
        /\ ValidGadget(layer.gadgets[m])
        /\ \A b \in Range(BoundaryBindings(layer.gadgets[m])) :
             /\ b.block \in DOMAIN layer.codes => b.code = layer.codes[b.block]
             /\ \A n \in DOMAIN layer.gadgets : \A c \in Range(BoundaryBindings(layer.gadgets[n])) :
                    b.block = c.block => b.code = c.code

(* Qodec.validate_model                                                    *)
ValidModel(q) ==
    /\ q.schema # "other"
    /\ q.layers # <<>> => Last(q.layers).gadgets = <<>>
    /\ \A i, j \in 1..Len(q.layers) :
         q.layers[i].isa.name = q.layers[j].isa.name => q.layers[i].isa = q.layers[j].isa
    /\ \A c, d \in AllCodes(q.layers) : c.name = d.name => c = d
    /\ \A c \in AllCodes(q.layers) : c.valid
    /\ \A i \in 1..(Len(q.layers) - 1) : ValidEdge(q.layers[i], q.layers[i + 1])

(***************************************************************************)
(* Loading                                                                 *)
(***************************************************************************)

(* Qodec.assemble, from the parsed manifest on: "file" is the manifest's   *)
(* name and "root" the absolute directory its references start from.  The  *)
(* artifacts the manifest names are read, then the sections the gadgets    *)
(* name, then the chain is resolved.                                       *)
Consistent(fs, root, file, documents, refs) ==
    /\ Readable(fs, root, documents, refs)
    /\ OneKindPerPath(root, refs \cup {<<file, "manifest">>})

Validated(raw, q) == IF ValidModel(q) /\ \A c \in Range(raw.codes) : c.valid THEN {q} ELSE {}

Resolve(fs, root, file, manifest, documents, refs, raw) ==
    IF ~(/\ UniqueNames(raw.isas)
         /\ UniqueNames(raw.codes)
         /\ ChainResolves(file, manifest.layers, raw))
    THEN {}
    ELSE Validated(raw,
            [schema |-> manifest.schema, title |-> manifest.title,
             file |-> file, manifest |-> manifest.layers,
             loaded |-> {[file |-> file, root |-> root]},
             external |-> ExternalFiles(fs, root, documents, refs),
             isas |-> raw.isas, codes |-> raw.codes, gadgets |-> raw.gadgets,
             sidecars |-> {r[1] : r \in {s \in refs : s[2] \in {"checks", "readouts", "source"}}},
             layers |-> BuildLayers(file, manifest.layers, raw)])

ReadSections(fs, root, file, manifest, documents, specs, refs) ==
    IF ~Consistent(fs, root, file, documents, refs) THEN {}
    ELSE Resolve(fs, root, file, manifest, documents, refs,
            [isas     |-> Bodies(fs, root, documents, refs, "isa"),
             codes    |-> Bodies(fs, root, documents, refs, "code"),
             gadgets  |-> specs,
             checks   |-> Bodies(fs, root, documents, refs, "checks"),
             readouts |-> Bodies(fs, root, documents, refs, "readouts"),
             sources  |-> Bodies(fs, root, documents, refs, "source")])

ReadGadgets(fs, root, file, manifest, documents, listed, specs) ==
    ReadSections(fs, root, file, manifest, documents, specs,
                 listed \cup UNION {SectionReferences(p, specs[p]) : p \in DOMAIN specs})

ReadListed(fs, root, file, manifest, documents, listed) ==
    IF ~(manifest.schema # "other" /\ Consistent(fs, root, file, documents, listed)) THEN {}
    ELSE ReadGadgets(fs, root, file, manifest, documents, listed, Bodies(fs, root, documents, listed, "gadget"))

Assemble(fs, root, file, manifest, documents) ==
    ReadListed(fs, root, file, manifest, documents,
               UNION {LayerReferences(file, l) : l \in Range(manifest.layers)})

(* Qodec::from_bundle_str: the first document is the manifest, under its   *)
(* own name; the others are looked up by path.                             *)
LoadBundle(fs, root, bundle) ==
    LET documents == [p \in {bundle[i].path : i \in 2..Len(bundle)} |->
                        (CHOOSE d \in {bundle[i] : i \in 2..Len(bundle)} : d.path = p).content]
    IN  IF \E i, j \in 1..Len(bundle) : i # j /\ bundle[i].path = bundle[j].path THEN {}
        ELSE Assemble(fs, root, bundle[1].path, bundle[1].content.body, documents)

(* Qodec::load                                                             *)
Load(fs, path) ==
    IF path \notin DOMAIN fs THEN {}
    ELSE CASE fs[path].kind = "manifest" ->
                Assemble(fs, Parent(path), <<Last(path)>>, fs[path].body, <<>>)
           [] fs[path].kind = "bundle" -> LoadBundle(fs, Parent(path), fs[path].body)
           [] OTHER -> {}
===============================================================================
