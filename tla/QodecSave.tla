------------------------------- MODULE QodecSave -------------------------------
(***************************************************************************)
(* How a qodec is written: the current layers are turned back into         *)
(* documents, reusing the paths and the layout they were loaded with where *)
(* these still fit, and every write is checked before the first one is     *)
(* made.                                                                   *)
(*                                                                         *)
(* The builder's state is a record b: the maps of documents so far, the    *)
(* paths handed out, and the manifest's layers.                            *)
(***************************************************************************)
EXTENDS QodecFiles

CONSTANTS
    SafeFilename,   \* name -> the name with the characters no file name has replaced
    GadgetStem      \* <<layer, mnemonic>> -> the stem of its files in a chain of more than two layers

(***************************************************************************)
(* ArtifactPaths                                                           *)
(***************************************************************************)

(* output_root: the destination, or the manifest's directory when the      *)
(* manifest's name climbs above the destination.                           *)
OutputRoot(file) ==
    LET parent == Normalized(Parent(file)) IN
    IF IsAbsolute(parent) \/ (parent # <<>> /\ parent[1] = Up) THEN parent ELSE <<>>

Escapes(p, root) ==
    \/ IsAbsolute(p) # IsAbsolute(root)
    \/ ~IsPrefix(root, p)
    \/ (Len(p) > Len(root) /\ p[Len(root) + 1] = Up)

ClimbsAbove(file) == OutputRoot(file) # <<>>

(* ArtifactPaths.preferred_path                                            *)
PreferredPath(q, p) ==
    LET inside == IF ~IsAbsolute(p) THEN {p}
                  ELSE {SubSeq(p, Len(l.root) + 1, Len(p)) : l \in {m \in q.loaded : IsPrefix(m.root, p)}}
        moved  == \E l \in q.loaded : Normalized(l.file) # Normalized(q.file)
        placed == {IF moved /\ ClimbsAbove(q.file) THEN Normalized(Parent(q.file) \o i)
                   ELSE Normalized(i) : i \in inside}
    IN  {c \in placed : ~Escapes(c, OutputRoot(q.file))}

(* ArtifactPaths.allocate: the first free name beside the manifest.        *)
Allocated(q, b, stem, ext) ==
    LET At(n) == Normalized(Parent(q.file) \o <<<<SafeFilename[stem], n, ext>>>>)
    IN  At(Min({n \in 0..Cardinality(b.reserved) : At(n) \notin b.reserved}))

Claim(b, p) == [b EXCEPT !.reserved = @ \cup {p}, !.claimed = @ \cup {p}]
Put(b, map, p, value) == [b EXCEPT ![map] = (p :> value) @@ @]

(* ArtifactPaths.store: an unchanged external file is named in place; a    *)
(* loaded path is taken when no other value has it; otherwise a new name.  *)
(* "destination" is {} when the result is a bundle.                        *)
KindOf == [isas |-> "isa", codes |-> "code", checks |-> "checks", readouts |-> "readouts", sources |-> "source"]

Unchanged(q, destination, map, preferred, value) ==
    {p \in preferred : /\ destination # {}
                       /\ p \in DOMAIN q.external
                       /\ q.external[p].content.kind = KindOf[map]
                       /\ q.external[p].content.body = value}

Stored(b, map, p, value) == [b |-> Put(Claim(b, p), map, p, value), path |-> p]

StoreAt(q, b, map, value, unchanged, wanted, fresh) ==
    CASE unchanged # {} ->
           [b |-> [b EXCEPT !.reused = @ \cup unchanged],
            path |-> q.external[CHOOSE p \in unchanged : TRUE].path]
      [] unchanged = {} /\ wanted = {} -> Stored(b, map, fresh, value)
      [] OTHER ->
           LET p == CHOOSE p \in wanted : TRUE IN
           IF p \in DOMAIN b[map] /\ b[map][p] = value THEN [b |-> b, path |-> p]
           ELSE Stored(b, map, IF p \in b.claimed THEN fresh ELSE p, value)

Store(q, destination, b, map, preferred, stem, ext, value) ==
    StoreAt(q, b, map, value, Unchanged(q, destination, map, preferred, value),
            UNION {PreferredPath(q, p) : p \in preferred}, Allocated(q, b, stem, ext))

(***************************************************************************)
(* ArtifactBuilder                                                         *)
(***************************************************************************)

LoadedPath(q, reference) == {ResolveRelative(l.file, reference) : l \in q.loaded}

LoadedIsa(q, layer) ==
    UNION {IF p \in DOMAIN q.isas THEN {q.isas[p]} ELSE {} : p \in LoadedPath(q, layer.instruction_set)}

(* matching_loaded_layer: the loaded layer whose paths layer i reuses.     *)
MatchingLoadedLayer(q, i) ==
    LET Names(l)  == \E isa \in LoadedIsa(q, l) : isa.name = q.layers[i].isa.name
        here      == IF i \in 1..Len(q.manifest) THEN {q.manifest[i]} ELSE {}
        named     == {j \in 1..Len(q.manifest) : Names(q.manifest[j])}
        renamed   == {l \in here : \E isa \in LoadedIsa(q, l) :
                                      \A j \in 1..Len(q.layers) : q.layers[j].isa.name # isa.name}
    IN  IF \E l \in here : Names(l) THEN here
        ELSE IF named # {} THEN {q.manifest[Min(named)]}
        ELSE renamed

(* Mutant of NewBuilder: the paths of the loaded files count as handed out.*)
NewBuilderClaimed(q) ==
    LET known == UNION {PreferredPath(q, p) : p \in
                     DOMAIN q.isas \cup DOMAIN q.codes \cup DOMAIN q.gadgets \cup q.sidecars} \cup {Normalized(q.file)}
    IN  [reserved |-> known, claimed |-> known, reused |-> {},
         isas |-> <<>>, codes |-> <<>>, gadgets |-> <<>>,
         checks |-> <<>>, readouts |-> <<>>, sources |-> <<>>,
         isaOf |-> <<>>, codeOf |-> <<>>, layers |-> <<>>]

NewBuilder(q) ==
    LET start == {Normalized(q.file)}
        known == DOMAIN q.isas \cup DOMAIN q.codes \cup DOMAIN q.gadgets \cup q.sidecars
    IN  [reserved |-> start \cup UNION {PreferredPath(q, p) : p \in known},
         claimed |-> start, reused |-> {},
         isas |-> <<>>, codes |-> <<>>, gadgets |-> <<>>,
         checks |-> <<>>, readouts |-> <<>>, sources |-> <<>>,
         isaOf |-> <<>>, codeOf |-> <<>>, layers |-> <<>>]

(* build_instruction_sets: one document per name, in layer order.          *)
AddInstructionSet(q, isa, stored) ==
    [stored.b EXCEPT
        !.isaOf  = (isa.name :> stored.path) @@ @,
        !.layers = Append(@, [instruction_set |-> RelativeReference(q.file, stored.path),
                              codes |-> <<>>, gadgets |-> <<>>])]

BuildInstructionSet(q, destination, b, i, isa) ==
    AddInstructionSet(q, isa,
        IF isa.name \in DOMAIN b.isaOf THEN [b |-> b, path |-> b.isaOf[isa.name]]
        ELSE Store(q, destination, b, "isas",
                   UNION {LoadedPath(q, l.instruction_set) : l \in MatchingLoadedLayer(q, i)},
                   isa.name, "isa.yaml", isa))

BuildInstructionSets(q, destination, b0) ==
    FoldLeft(LAMBDA b, i : BuildInstructionSet(q, destination, b, i, q.layers[i].isa), b0,
             [i \in 1..Len(q.layers) |-> i])

(* build_codes: one document per code name; a code is followed by name     *)
(* first, then by the binding its layer was loaded with.                   *)
CodePaths(q, i, block, code) ==
    LET named == {p \in DOMAIN q.codes : q.codes[p].name = code.name} IN
    IF named # {} THEN named
    ELSE UNION {IF block \in DOMAIN l.codes THEN LoadedPath(q, l.codes[block]) ELSE {} :
                l \in MatchingLoadedLayer(q, i)}

AddCode(q, i, block, code, stored) ==
    [stored.b EXCEPT
        !.codeOf = (code.name :> stored.path) @@ @,
        !.layers[i].codes = (block :> RelativeReference(q.file, stored.path)) @@ @]

BuildCode(q, destination, b, i, block, code) ==
    AddCode(q, i, block, code,
        IF code.name \in DOMAIN b.codeOf THEN [b |-> b, path |-> b.codeOf[code.name]]
        ELSE Store(q, destination, b, "codes", CodePaths(q, i, block, code), code.name, "code.yaml", code))

BuildLayerCodes(q, destination, b0, i, bindings) ==
    FoldLeft(LAMBDA b, block : BuildCode(q, destination, b, i, block, bindings[block]), b0,
             InOrder(Blocks, DOMAIN bindings))

BuildCodes(q, destination, b0) ==
    FoldLeft(LAMBDA b, i : BuildLayerCodes(q, destination, b, i, CodeBindings(q.layers[i])), b0,
             [i \in 1..Len(q.layers) |-> i])

(* build_raw_realization: the boundaries' support, and the types of its    *)
(* labels unless the target's only block type says them.                   *)
TypesOf(encodings, target) ==
    LET types == BoundaryTypes(encodings) IN
    [label \in {t[1] : t \in types} |-> (CHOOSE t \in types : t[1] = label)[2]]
Elided(types, target) ==
    IF Range(types[1]) \cup Range(types[2]) \subseteq SoleBlock(target) THEN <<<<>>, <<>>>> ELSE types
EncodingSpecs(encodings, operands) ==
    [i \in 1..Len(encodings) |-> [block |-> operands[i], support |-> encodings[i].support]]
DefaultSupport(encodings) ==
    LET all == FoldLeft(LAMBDA done, e : done \o e.support, <<>>, encodings)
    IN  /\ all = [i \in 1..Len(all) |-> i - 1]
        /\ \A i \in 1..Len(encodings) : Len(encodings[i].support) = encodings[i].code.width

SectionAt(at, stored) == [b |-> stored.b, section |-> [path |-> RelativeReference(at, stored.path)]]
FileOf(o) == {ResolveRelative(o.at, o.section.path)}

(* preserve_section: a section stays in a file if it was in one.           *)
PreserveSection(q, destination, b, filed, at, map, stem, ext, value) ==
    IF filed = {} THEN [b |-> b, section |-> [inline |-> value]]
    ELSE SectionAt(at, Store(q, destination, b, map, UNION {FileOf(o) : o \in filed}, stem, ext, value))

(* source_format: written out unless the text is a call list.              *)
SourceFormat(gadget, effective) ==
    IF effective = "yaml" /\ gadget.source \in DOMAIN CallList THEN {} ELSE {effective}

(* prepare_source: "keeps" is the file the source was in, if the format    *)
(* still fits it, and "inline" the format it was inlined with.             *)
SourceFile(gadget, filed, effective) ==
    {o \in filed : LET known == FormatForPath(o.section.path) IN
                   known = {effective} \/ (known = {} /\ gadget.format = {})}

WithFormat(made, format) == [b |-> made.b, section |-> made.section, format |-> format]

PlaceSource(q, destination, b, gadget, at, keeps, inline, stem, effective) ==
    IF keeps # {}
    THEN WithFormat(PreserveSection(q, destination, b, keeps, at, "sources", stem,
                        Last((CHOOSE o \in keeps : TRUE).section.path)[3],
                        gadget.source), {})
    ELSE IF inline = {} /\ effective = "stim"
    THEN WithFormat(SectionAt(at, Stored(b, "sources", Allocated(q, b, stem, "stim"), gadget.source)), {})
    ELSE [b |-> b, section |-> [inline |-> gadget.source],
          format |-> IF {effective} \in inline THEN {effective} ELSE SourceFormat(gadget, effective)]

PrepareSource(q, destination, b, gadget, at, original, stem) ==
    LET effective == EffectiveFormat(gadget.source, gadget.format)
        At(o) == [at |-> o.at, section |-> o.spec.circuit.source]
    IN  PlaceSource(q, destination, b, gadget, at,
            SourceFile(gadget, {At(o) : o \in {p \in original : IsFile(p.spec.circuit.source)}}, effective),
            {o.spec.circuit.format : o \in {p \in original : ~IsFile(p.spec.circuit.source)}},
            stem, effective)

(* gadget_document: the gadget as a document at "at"; "original" is where  *)
(* it was loaded from and what was there.                                  *)
Filed(original, part) ==
    {[at |-> o.at, section |-> o.spec[part]] : o \in {p \in original : IsFile(p.spec[part])}}

Entries(original, side, encodings, operands) ==
    IF (\E o \in original : o.spec[side] = <<>>) /\ DefaultSupport(encodings) THEN <<>>
    ELSE EncodingSpecs(encodings, operands)

SpecOf(q, b0, i, gadget, at, original, types, source, checks, readouts) ==
    [b |-> readouts.b,
     spec |->
       [implements |-> IF original = {} \/ \E o \in original : o.spec.implements # {}
                       THEN {[instruction_set |-> RelativeReference(at, b0.isaOf[q.layers[i].isa.name]),
                              mnemonic |-> gadget.implements.mnemonic]}
                       ELSE {},
        circuit |-> [instruction_set |->
                        IF original = {} \/ \E o \in original : o.spec.circuit.instruction_set # {}
                        THEN {RelativeReference(at, b0.isaOf[q.layers[i + 1].isa.name])} ELSE {},
                     source |-> source.section, format |-> source.format,
                     inputs |-> types[1], outputs |-> types[2]],
        inputs  |-> Entries(original, "inputs", gadget.inputs, gadget.implements.inputs),
        outputs |-> Entries(original, "outputs", gadget.outputs, gadget.implements.outputs),
        checks  |-> checks.section, readouts |-> readouts.section, rest |-> gadget.rest]]

WithReadouts(q, destination, b0, i, gadget, stem, at, original, source, checks) ==
    SpecOf(q, b0, i, gadget, at, original,
           Elided(<<TypesOf(gadget.inputs, gadget.target), TypesOf(gadget.outputs, gadget.target)>>, gadget.target),
           source, checks,
           PreserveSection(q, destination, checks.b, Filed(original, "readouts"), at, "readouts", stem,
                           "readouts.yaml", ReadoutSpecs(gadget.readouts)))

WithChecks(q, destination, b0, i, gadget, stem, at, original, source) ==
    WithReadouts(q, destination, b0, i, gadget, stem, at, original, source,
        PreserveSection(q, destination, source.b, Filed(original, "checks"), at, "checks", stem,
                        "checks.yaml", gadget.checks))

GadgetDocument(q, destination, b0, i, gadget, stem, at, original) ==
    WithChecks(q, destination, b0, i, gadget, stem, at, original,
               PrepareSource(q, destination, b0, gadget, at, original, stem))

(* rebase_gadget: the same document, its references told from another file.*)
Rebased(spec, from, to) ==
    LET Move(p) == RelativeReference(to, ResolveRelative(from, p))
        Section(s) == IF IsFile(s) THEN [path |-> Move(s.path)] ELSE s
    IN  [spec EXCEPT
            !.implements = {[i EXCEPT !.instruction_set = Move(@)] : i \in @},
            !.circuit.instruction_set = {Move(p) : p \in @},
            !.circuit.source = Section(@), !.checks = Section(@), !.readouts = Section(@)]

(* gadget_path: a gadget document may be written twice at its loaded path. *)
GadgetPathAt(b, open, fresh) ==
    IF open = {} THEN [b |-> Claim(b, fresh), path |-> fresh]
    ELSE LET p == CHOOSE p \in open : TRUE IN [b |-> [b EXCEPT !.claimed = @ \cup {p}], path |-> p]

GadgetPath(q, b, preferred, stem) ==
    GadgetPathAt(b, {p \in UNION {PreferredPath(q, p) : p \in preferred} :
                        p \notin b.claimed \/ p \in DOMAIN b.gadgets},
                 Allocated(q, b, stem, "gadget.yaml"))

List(b, i, mnemonic, reference) ==
    [b EXCEPT !.layers[i].gadgets = (mnemonic :> reference) @@ @]

(* build_gadget: named in place when it is external and its document, its  *)
(* references resolved, is unchanged; separated from a gadget that has     *)
(* the same path and another document; else written at its path.           *)
ElidedSpec(spec, types) == [spec EXCEPT !.circuit.inputs = types[1], !.circuit.outputs = types[2]]

AsLoaded(q, p, spec, gadget) ==
    Rebased(ElidedSpec(spec, Elided(<<spec.circuit.inputs, spec.circuit.outputs>>, gadget.target)),
            q.external[p].path, <<>>)

UnchangedGadget(q, destination, preferred, gadget, spec, at) ==
    {p \in preferred : \E d \in destination :
        /\ p \in DOMAIN q.external
        /\ AsLoaded(q, p, q.external[p].content.body, gadget) = Rebased(spec, Join(d, at), <<>>)}

(* Mutant of PlaceGadget: the later of two documents on one path stays.    *)
PlaceGadgetShared(q, b, i, mnemonic, spec, at, unchanged, separate) ==
    IF unchanged # {}
    THEN LET p == CHOOSE p \in unchanged : TRUE
         IN  List([b EXCEPT !.reused = @ \cup {p}], i, mnemonic, q.external[p].path)
    ELSE List(Put(b, "gadgets", at, spec), i, mnemonic, RelativeReference(q.file, at))

PlaceGadget(q, b, i, mnemonic, spec, at, unchanged, separate) ==
    IF unchanged # {}
    THEN LET p == CHOOSE p \in unchanged : TRUE
         IN  List([b EXCEPT !.reused = @ \cup {p}], i, mnemonic, q.external[p].path)
    ELSE IF at \in DOMAIN b.gadgets /\ b.gadgets[at] # spec
    THEN List(Put(Claim(b, separate), "gadgets", separate, Rebased(spec, at, separate)),
              i, mnemonic, RelativeReference(q.file, separate))
    ELSE List(Put(b, "gadgets", at, spec), i, mnemonic, RelativeReference(q.file, at))

ListGadget(q, destination, i, mnemonic, gadget, stem, preferred, at, made) ==
    PlaceGadget(q, made.b, i, mnemonic, made.spec, at,
                UnchangedGadget(q, destination, preferred, gadget, made.spec, at),
                Allocated(q, made.b, stem, "gadget.yaml"))

DocumentGadget(q, destination, i, mnemonic, gadget, stem, preferred, place) ==
    ListGadget(q, destination, i, mnemonic, gadget, stem, preferred, place.path,
        GadgetDocument(q, destination, place.b, i, gadget, stem, place.path,
                       {[at |-> p, spec |-> q.gadgets[p]] : p \in preferred \cap DOMAIN q.gadgets}))

WriteGadget(q, destination, b, i, mnemonic, stem, preferred) ==
    DocumentGadget(q, destination, i, mnemonic, q.layers[i].gadgets[mnemonic], stem, preferred,
                   GadgetPath(q, b, preferred, stem))

BuildGadget(q, destination, b, i, mnemonic) ==
    WriteGadget(q, destination, b, i, mnemonic,
        IF Len(q.layers) > 2 THEN GadgetStem[<<i, mnemonic>>] ELSE mnemonic,
        UNION {IF mnemonic \in DOMAIN l.gadgets THEN LoadedPath(q, l.gadgets[mnemonic]) ELSE {} :
               l \in MatchingLoadedLayer(q, i)})

BuildGadgets(q, destination, b0) ==
    LET Step(b, i) == FoldLeft(LAMBDA c, m : BuildGadget(q, destination, c, i, m), b,
                               InOrder(Mnemonics, DOMAIN q.layers[i].gadgets))
    IN  FoldLeft(Step, b0, [i \in 1..(Len(q.layers) - 1) |-> i])

(***************************************************************************)
(* Checks before the first write                                           *)
(***************************************************************************)

OutputPaths(b) ==
    <<DOMAIN b.isas, DOMAIN b.codes, DOMAIN b.gadgets, DOMAIN b.checks, DOMAIN b.readouts, DOMAIN b.sources>>

(* check_output_paths: no two documents on one path, none outside.         *)
PathsDistinct(q, b, root) ==
    LET all == OutputPaths(b)
        At(p) == Normalized(Join(root, p))
    IN  /\ \A k \in 1..Len(all) : \A p \in all[k] : At(p) # At(q.file)
        /\ \A j, k \in 1..Len(all) : \A p \in all[j], r \in all[k] :
              At(p) = At(r) => j = k /\ p = r
        /\ \A k \in 1..Len(all) : \A p \in all[k] : ~Escapes(Normalized(p), OutputRoot(q.file))

(* synthesize_raw_artifacts: {} when a reused external file is no longer   *)
(* what was loaded.                                                        *)
Reusable(fs, q, b) ==
    IF /\ \A p \in b.reused : /\ q.external[p].path \in DOMAIN fs
                              /\ fs[q.external[p].path] = q.external[p].content
       /\ PathsDistinct(q, b, <<>>)
    THEN {b} ELSE {}

Prepare(fs, q, destination) ==
    IF ~ValidModel(q) THEN {}
    ELSE Reusable(fs, q, BuildGadgets(q, destination, BuildCodes(q, destination,
                             BuildInstructionSets(q, destination, NewBuilder(q)))))

(* inline_gadget_sources: for a bundle, a source whose format is known     *)
(* moves into its gadget; it stays a file if another gadget still names it.*)
InlineSources(b) ==
    LET Key(at) == ResolveRelative(at, b.gadgets[at].circuit.source.path)
        Format(at) == IF b.gadgets[at].circuit.format # {} THEN b.gadgets[at].circuit.format
                      ELSE FormatForPath(b.gadgets[at].circuit.source.path)
        filed == {at \in DOMAIN b.gadgets : IsFile(b.gadgets[at].circuit.source)}
        moves == {at \in filed : Key(at) \in DOMAIN b.sources /\ Format(at) # {}}
    IN  [gadgets |-> [at \in DOMAIN b.gadgets |->
                        IF at \in moves
                        THEN [b.gadgets[at] EXCEPT !.circuit.format = Format(at),
                                                   !.circuit.source = [inline |-> b.sources[Key(at)]]]
                        ELSE b.gadgets[at]],
         inlined |-> {Key(at) : at \in moves} \ {Key(at) : at \in filed \ moves}]

(* Mutant of TargetsFree: files from outside are not looked at.            *)
TargetsDistinct(q, targets) == \A i, j \in 1..Len(targets) : targets[i] = targets[j] => i = j

(* check_write_targets: distinct files, none of them one that was loaded   *)
(* from outside.                                                           *)
TargetsFree(q, targets) ==
    /\ \A i, j \in 1..Len(targets) : targets[i] = targets[j] => i = j
    /\ \A p \in DOMAIN q.external : q.external[p].path \notin Range(targets)

(***************************************************************************)
(* The writes, in order                                                    *)
(***************************************************************************)

Documents(kind, map) ==
    [i \in 1..Cardinality(DOMAIN map) |->
        LET p == SetToSeq(DOMAIN map)[i]
        IN  [path |-> p, content |-> [kind |-> kind, body |-> IF kind = "gadget" THEN AsWritten(map[p]) ELSE map[p]]]]

ManifestOf(q, b) ==
    [kind |-> "manifest", body |-> [schema |-> q.schema, title |-> q.title, layers |-> b.layers]]

(* build_single_file_bundle                                                *)
BundleOf(q, b) ==
    <<[path |-> q.file, content |-> ManifestOf(q, b)]>>
      \o Documents("isa", b.isas) \o Documents("code", b.codes)
      \o Documents("gadget", InlineSources(b).gadgets)
      \o Documents("checks", b.checks) \o Documents("readouts", b.readouts)

(* write_directory, write_bundle: the manifest goes before the sources; a  *)
(* bundle's sources are placed from the manifest's directory.              *)
DirectoryWrites(q, b, destination) ==
    LET Placed(w) == [w EXCEPT !.path = Normalized(Join(destination, @))]
        all == Documents("isa", b.isas) \o Documents("code", b.codes)
                 \o Documents("gadget", b.gadgets) \o Documents("checks", b.checks)
                 \o Documents("readouts", b.readouts)
                 \o <<[path |-> q.file, content |-> ManifestOf(q, b)]>>
                 \o Documents("source", b.sources)
    IN  [i \in 1..Len(all) |-> Placed(all[i])]

BundleWrites(q, b, destination) ==
    LET manifest == Normalized(Join(destination, q.file))
        beside   == Documents("source", [p \in DOMAIN b.sources \ InlineSources(b).inlined |-> b.sources[p]])
    IN  <<[path |-> manifest, content |-> [kind |-> "bundle", body |-> BundleOf(q, b)]]>>
          \o [i \in 1..Len(beside) |->
                [beside[i] EXCEPT !.path = Normalized(Join(Parent(manifest), @))]]

(* save_qodec: the writes to make, or {} when it is refused.               *)
SaveWrites(fs, q, destination, singleFile) ==
    UNION {LET writes == IF singleFile THEN BundleWrites(q, b, destination) ELSE DirectoryWrites(q, b, destination)
           IN  IF /\ PathsDistinct(q, b, destination)
                  /\ TargetsFree(q, [i \in 1..Len(writes) |-> writes[i].path])
               THEN {writes} ELSE {} :
           b \in Prepare(fs, q, IF singleFile THEN {} ELSE {destination})}

(* bundle_string: refused when a source would need a file of its own.      *)
BundleString(fs, q) ==
    {BundleOf(q, b) : b \in {c \in Prepare(fs, q, {}) : DOMAIN c.sources = InlineSources(c).inlined}}
================================================================================
