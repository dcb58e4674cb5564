-------------------------------- MODULE Qodec --------------------------------
(***************************************************************************)
(* A qodec in a process: it is loaded from files, edited in memory, and    *)
(* saved as a directory of documents or as a bundle, one file after the    *)
(* other.  A save may fail between two writes, and the files outside its   *)
(* directory may be changed by others while it is being edited.            *)
(***************************************************************************)
EXTENDS QodecSave

CONSTANTS
    Layouts,        \* the file systems to start from, each with its manifest
    Destinations,   \* the directories to save into
    Filenames,      \* the names a manifest may be given
    Circuits,       \* the circuit sources an edit may set: texts with their formats
    IsaNames,       \* the names an instruction set may be given
    MaxEdits,       \* bound on edits, outside changes and failed writes
    MaxSaves        \* bound on saves

VARIABLES
    fs,       \* absolute path -> content
    model,    \* the qodec in memory, if any
    saving,   \* the last save: its model, manifest, root, remaining writes and the files before it
    edits,    \* edits, outside changes and failed writes so far
    saves     \* saves so far

vars == <<fs, model, saving, edits, saves>>

CurrentDirectory == <<Root, Dir("home")>>

Init ==
    \E layout \in Layouts :
        /\ fs = layout.fs
        /\ model = Load(layout.fs, layout.manifest)
        /\ saving = {}
        /\ edits = 0
        /\ saves = 0

Idle == \A s \in saving : s.writes = <<>>

Edit(q) ==
    /\ Idle
    /\ edits < MaxEdits
    /\ edits' = edits + 1
    /\ model' = {q}
    /\ saving' = {}
    /\ UNCHANGED <<fs, saves>>

(***************************************************************************)
(* Edits through layers_mut: what a caller changes in one place may need   *)
(* to be changed in others ("follow") for the model to stay valid.         *)
(***************************************************************************)

WithIsa(q, i, isa, follow) ==
    [q EXCEPT !.layers = [j \in 1..Len(@) |->
        IF j = i THEN [@[j] EXCEPT !.isa = isa]
        ELSE IF j + 1 = i /\ follow
        THEN [@[j] EXCEPT !.gadgets = [m \in DOMAIN @ |-> [@[m] EXCEPT !.target = isa]]]
        ELSE @[j]]]

EditInstructionSet(q, i, follow) ==
    Edit(WithIsa(q, i, [q.layers[i].isa EXCEPT !.edition = @ + 1], follow))

RenameInstructionSet(q, i, name) ==
    /\ name # q.layers[i].isa.name
    /\ Edit(WithIsa(q, i, [q.layers[i].isa EXCEPT !.name = name], TRUE))

EditCode(q, code, valid, everywhere) ==
    LET New(c) == IF c = code THEN [c EXCEPT !.edition = @ + 1, !.valid = valid] ELSE c
        Side(encodings) == [k \in 1..Len(encodings) |-> [encodings[k] EXCEPT !.code = New(@)]]
    IN  Edit([q EXCEPT !.layers = [i \in 1..Len(@) |->
               [@[i] EXCEPT
                   !.codes = [b \in DOMAIN @ |-> New(@[b])],
                   !.gadgets = [m \in DOMAIN @ |->
                       IF everywhere THEN [@[m] EXCEPT !.inputs = Side(@), !.outputs = Side(@)] ELSE @[m]]]]])

EditSource(q, i, m, text, format) ==
    /\ text # q.layers[i].gadgets[m].source
    /\ Edit([q EXCEPT !.layers[i].gadgets[m].source = text, !.layers[i].gadgets[m].format = format])

EditEquations(q, i, m) ==
    IF q.layers[i].gadgets[m].readouts = <<>>
    THEN Edit([q EXCEPT !.layers[i].gadgets[m].checks = Append(@, "c9")])
    ELSE Edit([q EXCEPT !.layers[i].gadgets[m].readouts[1].equation = "r9"])

MoveSupport(q, i, m) ==
    /\ q.layers[i].gadgets[m].inputs # <<>>
    /\ Edit([q EXCEPT !.layers[i].gadgets[m].inputs[1].support = [k \in DOMAIN @ |-> @[k] + 1]])

RemoveGadget(q, i, m) ==
    Edit([q EXCEPT !.layers[i].gadgets = Restrict(@, DOMAIN @ \ {m})])

(* A gadget is added for another instruction with the same operands.       *)
AddGadget(q, i, m, n) ==
    LET instruction == q.layers[i].isa.instructions[n] IN
    /\ n \notin DOMAIN q.layers[i].gadgets
    /\ Edit([q EXCEPT !.layers[i].gadgets = (n :> [@[m] EXCEPT !.implements = instruction]) @@ @])

RemoveTopLayer(q) == q.layers # <<>> /\ Edit([q EXCEPT !.layers = Tail(@)])

SwapLayers(q) ==
    /\ Len(q.layers) > 1
    /\ Edit([q EXCEPT !.layers[1] = q.layers[2], !.layers[2] = q.layers[1]])

SetManifestFilename(q, file) == file # q.file /\ Edit([q EXCEPT !.file = file])

SetSchemaVersion(q) == q.schema # "other" /\ Edit([q EXCEPT !.schema = "other"])

(* Qodec::new                                                              *)
New(schema, title, file, layers) ==
    [schema |-> schema, title |-> title, file |-> file, manifest |-> <<>>, loaded |-> {},
     external |-> <<>>, isas |-> <<>>, codes |-> <<>>, gadgets |-> <<>>, sidecars |-> {},
     layers |-> layers]

Rebuild(q) == q.loaded # {} /\ Edit(New("none", q.title, <<File("qodec", "yaml")>>, q.layers))

(* Qodec::slice: the new bottom layer keeps its codes and loses its        *)
(* gadgets; nothing of the loaded files is kept.                           *)
SliceOf(q, start, stop) ==
    LET layers == SubSeq(q.layers, start + 1, stop)
        n == Len(layers)
    IN  New(q.schema, q.title, q.file,
            [i \in 1..n |-> IF i < n THEN layers[i]
                            ELSE [layers[i] EXCEPT !.codes = CodeBindings(layers[i]), !.gadgets = <<>>]])

Slice(q, start, stop) ==
    /\ start < stop
    /\ stop <= Len(q.layers)
    /\ <<start, stop>> # <<0, Len(q.layers)>>
    /\ Edit(SliceOf(q, start, stop))

(***************************************************************************)
(* Others change or remove a file that was loaded from outside             *)
(***************************************************************************)

Outside(q, p, after) ==
    /\ Idle
    /\ edits < MaxEdits
    /\ edits' = edits + 1
    /\ p \in DOMAIN fs
    /\ \E r \in DOMAIN q.external : q.external[r].path = p
    /\ fs' = after
    /\ saving' = {}
    /\ UNCHANGED <<model, saves>>

RemoveOutside(q, p) == Outside(q, p, Restrict(fs, DOMAIN fs \ {p}))

ChangeOutside(q, p) ==
    /\ p \in DOMAIN fs
    /\ fs[p].kind \in {"isa", "code"}
    /\ Outside(q, p, [fs EXCEPT ![p].body.edition = @ + 1])

(***************************************************************************)
(* Saving, and loading what was saved                                      *)
(***************************************************************************)

Save(q, destination, singleFile) ==
    /\ Idle
    /\ saves < MaxSaves
    /\ saves' = saves + 1
    /\ \E writes \in SaveWrites(fs, q, destination, singleFile) :
         saving' = {[model |-> q, writes |-> writes, before |-> fs,
                     manifest |-> Normalized(Join(destination, q.file)),
                     root |-> Normalized(Join(destination, OutputRoot(q.file))),
                     single |-> singleFile]}
    /\ UNCHANGED <<fs, model, edits>>

WriteFile ==
    \E s \in saving :
        /\ s.writes # <<>>
        /\ fs' = (s.writes[1].path :> s.writes[1].content) @@ fs
        /\ saving' = {[s EXCEPT !.writes = Tail(@)]}
        /\ UNCHANGED <<model, edits, saves>>

(* A write fails: the save ends with what is on disk.                      *)
FailWrite ==
    /\ ~Idle
    /\ edits < MaxEdits
    /\ edits' = edits + 1
    /\ saving' = {}
    /\ UNCHANGED <<fs, model, saves>>

Reload ==
    \E s \in saving :
        /\ s.writes = <<>>
        /\ model' = Load(fs, s.manifest)
        /\ saving' = {}
        /\ UNCHANGED <<fs, edits, saves>>

EditLayer(q, i) ==
    \/ \E follow \in BOOLEAN : EditInstructionSet(q, i, follow)
    \/ \E name \in IsaNames : RenameInstructionSet(q, i, name)
    \/ \E m \in DOMAIN q.layers[i].gadgets :
         \/ \E circuit \in Circuits : EditSource(q, i, m, circuit[1], circuit[2])
         \/ EditEquations(q, i, m)
         \/ MoveSupport(q, i, m)
         \/ RemoveGadget(q, i, m)
         \/ \E n \in DOMAIN q.layers[i].isa.instructions : AddGadget(q, i, m, n)

Next ==
    \/ \E q \in model :
         \/ \E i \in 1..Len(q.layers) : EditLayer(q, i)
         \/ \E code \in AllCodes(q.layers), valid, everywhere \in BOOLEAN : EditCode(q, code, valid, everywhere)
         \/ RemoveTopLayer(q)
         \/ SwapLayers(q)
         \/ \E file \in Filenames : SetManifestFilename(q, file)
         \/ SetSchemaVersion(q)
         \/ Rebuild(q)
         \/ \E start, stop \in 0..Len(q.layers) : Slice(q, start, stop)
         \/ \E p \in DOMAIN fs : RemoveOutside(q, p) \/ ChangeOutside(q, p)
         \/ \E destination \in Destinations, singleFile \in BOOLEAN : Save(q, destination, singleFile)
    \/ WriteFile
    \/ FailWrite
    \/ Reload

Spec == Init /\ [][Next]_vars

(***************************************************************************)
(* Properties                                                              *)
(***************************************************************************)

(* A circuit is the same when it reads the same: a format the text already *)
(* shows may be stated or not, and a call list may be spelled YAML's way.  *)
Spelled(gadget) ==
    [gadget EXCEPT !.format = {EffectiveFormat(gadget.source, gadget.format)},
                   !.source = IF @ \in DOMAIN CallList THEN CallList[@] ELSE @]

(* Qodec's equality: the current layers, not where they came from.         *)
Same(q, r) ==
    LET Layer(l) == [isa |-> l.isa, codes |-> CodeBindings(l),
                     gadgets |-> [m \in DOMAIN l.gadgets |-> Spelled(l.gadgets[m])]]
    IN  /\ q.schema = r.schema
        /\ q.title = r.title
        /\ Len(q.layers) = Len(r.layers)
        /\ \A i \in 1..Len(q.layers) : Layer(q.layers[i]) = Layer(r.layers[i])

Reads(loaded, q) == \E r \in loaded : Same(q, r)

(* A completed save, whatever was edited since loading and whatever was    *)
(* left by earlier saves, is read back as the same qodec; so is the        *)
(* bundle's text (save_qodec, bundle_string).                              *)
RoundTrip ==
    /\ \A s \in saving : s.writes = <<>> => Reads(Load(fs, s.manifest), s.model)
    /\ Idle => \A q \in model : \A text \in BundleString(fs, q) :
                    Reads(LoadBundle(fs, CurrentDirectory, text), q)

(* A save stays in its directory and leaves every file it was loaded from  *)
(* outside that directory alone (output_root, check_write_targets).  The   *)
(* sources beside a bundle whose manifest climbs above the destination are *)
(* the exception: they go as far again above the manifest.                 *)
StaysInside ==
    \A s \in saving : \A i \in 1..Len(s.writes) :
        /\ (s.single /\ ClimbsAbove(s.model.file)) \/ IsPrefix(s.root, s.writes[i].path)
        /\ \A p \in DOMAIN s.model.external : s.model.external[p].path # s.writes[i].path

(* A qodec that was loaded from a directory and not edited is saved there  *)
(* over its own files: no document moves, none is added, and only the      *)
(* manifest and the gadgets may spell their references anew                *)
(* (ArtifactPaths.store, matching_loaded_layer, preserve_section).         *)
SavesInPlace ==
    \A s \in saving :
        (/\ s.before = fs
         /\ ~s.single
         /\ s.manifest \in DOMAIN fs
         /\ fs[s.manifest].kind = "manifest"
         /\ \E l \in s.model.loaded : s.manifest = l.root \o l.file
         /\ Load(fs, s.manifest) = {s.model})
        => \A i \in 1..Len(s.writes) :
             LET w == s.writes[i] IN
             /\ w.path \in DOMAIN fs
             /\ w.content.kind = fs[w.path].kind
             /\ w.content.kind \in {"manifest", "gadget"} \/ w.content = fs[w.path]
==============================================================================
