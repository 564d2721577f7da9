----------------------------- MODULE FeatureLayers -----------------------------
(***************************************************************************)
(* `dvt init`, `dvt feature add` and `dvt feature remove` on one project   *)
(* (dvt/src/devtemplate/commands/init.py, commands/feature.py, merge.py,   *)
(* sidecar.py).                                                            *)
(*                                                                         *)
(* Two files: devcontainer.json, which the user edits too, and the sidecar *)
(* dvt-features.json, which remembers the contents from before the first   *)
(* feature ("init") and the overlay of every feature added since           *)
(* ("applied").  `add` merges an overlay into what the file holds; `remove`*)
(* cannot subtract, so it merges "init" and the other overlays again, for  *)
(* the fields the removed overlay touched.  Each command reads both files, *)
(* writes the first and then the second; it may be killed, or fail to      *)
(* write, in between.                                                      *)
(*                                                                         *)
(* A config is a function from the fields it has to their values: a string *)
(* for a scalar; a sequence for an array; a function from keys for a map;  *)
(* a lifecycle command is such a function too, [plain |-> c] if it is not  *)
(* in the form of named commands.  A command that refuses (a file that is  *)
(* not strict JSON, an unknown feature, an invalid result) has written     *)
(* nothing: it is no step here.                                            *)
(***************************************************************************)
EXTENDS Integers, Sequences, FiniteSets, SequencesExt, Functions

CONSTANTS
    Field,        \* of a devcontainer.json
    LifecycleFields, ArrayFields, ArrayConcatFields, MapFields,
                  \* kinds of fields; any other is replaced as a whole
    Feature,
    Template,     \* feature -> overlays its template had or will have
    Boilerplate,  \* what `dvt init` writes
    HandWritten,  \* files a project may have had before dvt
    Written,      \* field -> values users write into it
    MaxGiven,     \* bound: commands and edits
    MaxKills      \* bound: commands killed, or failed, between their writes

\* No file, or nothing read.
Missing == [missing |-> TRUE]

\* A value of the kind a field has.
IsMap(v) == v = [e \in DOMAIN v |-> v[e]]
IsArray(v) == v \in Seq(Range(v))
OfKind(k, v) ==
    /\ k \in MapFields \cup LifecycleFields => IsMap(v)
    /\ k \in ArrayFields \cup ArrayConcatFields => IsArray(v)

IsConfig(c) ==
    /\ IsMap(c) /\ DOMAIN c \subseteq Field
    /\ \A k \in DOMAIN c : OfKind(k, c[k])

\* A config for a file: what `add` lists only once the user has not listed twice.
Unrepeated(k, v) == k \in ArrayFields => IsInjective(v)
IsFile(c) == IsConfig(c) /\ \A k \in DOMAIN c : Unrepeated(k, c[k])

ASSUME FieldAssumption ==
    /\ LifecycleFields \subseteq Field /\ ArrayFields \subseteq Field
    /\ ArrayConcatFields \subseteq Field /\ MapFields \subseteq Field
    /\ LifecycleFields \cap (ArrayFields \cup ArrayConcatFields \cup MapFields) = {}
    /\ ArrayFields \cap (ArrayConcatFields \cup MapFields) = {}
    /\ ArrayConcatFields \cap MapFields = {}
    /\ "missing" \notin Field
ASSUME TemplateAssumption ==
    \A f \in Feature : \A overlay \in Template[f] : IsConfig(overlay)
ASSUME WrittenAssumption ==
    /\ \A c \in HandWritten \cup {Boilerplate} : IsFile(c)
    /\ \A k \in Field : \A v \in Written[k] : OfKind(k, v) /\ Unrepeated(k, v)
ASSUME BoundAssumption ==
    MaxGiven \in Nat /\ MaxKills \in Nat

VARIABLES
    file,    \* devcontainer.json, or Missing
    sidecar, \* dvt-features.json, or Missing
    pc,      \* the command's next step, or how the last one ended
    read,    \* what the command has read and is to apply: see Reading
    given, kills, \* commands and edits so far; kills so far
    hand,    \* history: what the user, or `dvt init`, wrote last into each field
    late,    \* history: fields edited since the first feature was added
    touched, \* history: fields of the overlays added since then
    torn     \* history: an `add` or `init` was killed between its writes, or the
             \* user has saved the file while a command ran

vars == <<file, sidecar, pc, read, given, kills, hand, late, touched, torn>>

NoFields == [k \in {} |-> "none"]
Ended == {"idle", "made", "added", "removed"}

Init ==
    /\ file \in HandWritten \cup {Missing}
    /\ sidecar = Missing
    /\ pc = "idle" /\ read = Missing
    /\ given = 0 /\ kills = 0
    /\ hand = IF file = Missing THEN NoFields ELSE file
    /\ late = {} /\ touched = {} /\ torn = FALSE

-----------------------------------------------------------------------------
(* merge.py                                                                 *)

Updated(below, above) ==
    [k \in DOMAIN below \cup DOMAIN above |->
        IF k \in DOMAIN above THEN above[k] ELSE below[k]]

IsNamed(command) == "plain" \notin DOMAIN command

AppendNew(items, item) == IF item \in Range(items) THEN items ELSE Append(items, item)

AppendAllNew(items, more) ==
    LET upTo[n \in 0 .. Len(more)] ==
            IF n = 0 THEN items ELSE AppendNew(upTo[n - 1], more[n])
    IN upTo[Len(more)]

\* One field that both have: the value from above merged onto the one below.
MergeField(k, below, above) ==
    IF k \in MapFields \/ (k \in LifecycleFields /\ IsNamed(below) /\ IsNamed(above))
    THEN Updated(below, above)
    ELSE IF k \in ArrayFields THEN AppendAllNew(below, above)
    ELSE IF k \in ArrayConcatFields THEN below \o above
    ELSE above

\* A field the base lacks: arrays are still merged, onto an empty one.
NewField(k, above) ==
    IF k \in ArrayFields THEN AppendAllNew(<<>>, above) ELSE above

MergeLayer(base, overlay) ==
    [k \in DOMAIN base \cup DOMAIN overlay |->
        IF k \notin DOMAIN overlay THEN base[k]
        ELSE IF k \notin DOMAIN base THEN NewField(k, overlay[k])
        ELSE MergeField(k, base[k], overlay[k])]

MergeLayerKeys(layers, keys) ==
    LET upTo[n \in 0 .. Len(layers)] ==
            IF n = 0 THEN NoFields
            ELSE MergeLayer(upTo[n - 1],
                            Restrict(layers[n], keys \cap DOMAIN layers[n]))
    IN upTo[Len(layers)]

-----------------------------------------------------------------------------
(* What the user does.                                                      *)

Give == given < MaxGiven /\ given' = given + 1

\* Fields edited while features are tracked, see Guaranteed.
Tracking == sidecar # Missing /\ sidecar.applied # <<>>
MarkLate(k) == late' = IF Tracking THEN late \cup {k} ELSE late

Edit(k) ==
    /\ file # Missing /\ Give
    /\ \E v \in Written[k] :
          /\ file' = Updated(file, [d \in {k} |-> v])
          /\ hand' = Updated(hand, [d \in {k} |-> v])
    /\ MarkLate(k)
    /\ torn' = (torn \/ pc \notin Ended)
    /\ UNCHANGED <<sidecar, pc, read, kills, touched>>

EraseField(k) ==
    /\ file # Missing /\ Give
    /\ k \in DOMAIN file
    /\ file' = Restrict(file, DOMAIN file \ {k})
    /\ hand' = Restrict(hand, DOMAIN hand \ {k})
    /\ MarkLate(k)
    /\ torn' = (torn \/ pc \notin Ended)
    /\ UNCHANGED <<sidecar, pc, read, kills, touched>>

\* The documented way out of lost tracking: delete the file, `dvt init` again.
DeleteFile ==
    /\ pc \in Ended /\ file # Missing /\ Give
    /\ file' = Missing /\ hand' = NoFields
    /\ UNCHANGED <<sidecar, pc, read, kills, late, touched, torn>>

\* The sidecar was deleted, or never committed: all there is counts as written
\* by hand.
LoseSidecar ==
    /\ pc \in Ended /\ sidecar # Missing /\ Give
    /\ sidecar' = Missing
    /\ hand' = IF file = Missing THEN NoFields ELSE file
    /\ late' = {} /\ touched' = {}
    /\ torn' = FALSE
    /\ UNCHANGED <<file, pc, read, kills>>

-----------------------------------------------------------------------------
(* The commands.                                                            *)

\* Faulty forms of definitions are kept beside them: the checks replace the one
\* by the other to see that a property notices.

\* dvt init: refuses if the file is there.
InitFile ==
    /\ pc \in Ended /\ file = Missing /\ Give
    /\ file' = Boilerplate /\ hand' = Boilerplate
    /\ late' = {} /\ touched' = {}
    /\ pc' = "initSidecar"
    /\ UNCHANGED <<sidecar, read, kills, torn>>

InitSidecar ==
    /\ pc = "initSidecar"
    /\ sidecar' = [init |-> Boilerplate, applied |-> <<>>]
    /\ pc' = "made"
    /\ UNCHANGED <<file, read, given, kills, hand, late, touched, torn>>

LoadSidecar ==
    IF sidecar = Missing THEN [init |-> NoFields, applied |-> <<>>] ELSE sidecar

IsLastApplied(applied, f) == applied # <<>> /\ Last(applied).name = f
IsApplied(applied, f) == \E i \in DOMAIN applied : applied[i].name = f

\* add_one up to the first write: the file, the sidecar and the template as
\* cached now.
AddRead(f) ==
    /\ pc \in Ended /\ file # Missing /\ Give
    /\ ~IsApplied(LoadSidecar.applied, f)
    /\ \E overlay \in Template[f] :
          read' = [name |-> f, base |-> file, sidecar |-> LoadSidecar,
                   overlay |-> overlay]
    /\ pc' = "addWrite"
    /\ UNCHANGED <<file, sidecar, kills, hand, late, touched, torn>>

AddWrite ==
    /\ pc = "addWrite"
    /\ file' = MergeLayer(read.base, read.overlay)
    /\ pc' = "addSidecar"
    /\ UNCHANGED <<sidecar, read, given, kills, hand, late, touched, torn>>

\* Captured again whenever no feature is applied, not only without a sidecar.
CaptureOnce(from) == IF sidecar = Missing THEN from.base ELSE from.sidecar.init
Capture(from) ==
    IF from.sidecar.applied = <<>> THEN from.base ELSE from.sidecar.init

\* What the user may rely on (concepts.md): edits made before the first `add`,
\* or to a field that no feature added since touches.
Guaranteed(k) == k \notin late \/ k \notin touched

\* A first feature: what is not guaranteed any more counts as written by hand.
StartRun(from) ==
    /\ hand' = Updated(Restrict(hand, {d \in DOMAIN hand : Guaranteed(d)}),
                       Restrict(from.base, {d \in DOMAIN from.base : ~Guaranteed(d)}))
    /\ late' = {}
    /\ touched' = DOMAIN from.overlay

AddSidecar ==
    /\ pc = "addSidecar"
    /\ sidecar' = [init |-> Capture(read),
                   applied |-> Append(read.sidecar.applied,
                                      [name |-> read.name,
                                       overlay |-> read.overlay])]
    /\ IF read.sidecar.applied = <<>>
       THEN StartRun(read)
       ELSE touched' = touched \cup DOMAIN read.overlay /\ UNCHANGED <<hand, late>>
    /\ pc' = "added" /\ read' = Missing
    /\ UNCHANGED <<file, given, kills, torn>>

\* remove_one up to the first write: the last entry of that name.
LastOf(applied, f) ==
    CHOOSE i \in DOMAIN applied :
        /\ applied[i].name = f
        /\ \A j \in DOMAIN applied : applied[j].name = f => j <= i

RemoveRead(f) ==
    /\ pc \in Ended /\ file # Missing /\ Give
    /\ IsApplied(LoadSidecar.applied, f)
    /\ read' = [name |-> f, base |-> file, sidecar |-> LoadSidecar,
                overlay |-> LoadSidecar.applied[LastOf(LoadSidecar.applied, f)].overlay]
    /\ pc' = "removeWrite"
    /\ UNCHANGED <<file, sidecar, kills, hand, late, touched, torn>>

OnlyEarlier(from) ==
    SubSeq(from.sidecar.applied, 1, LastOf(from.sidecar.applied, from.name) - 1)
Remaining(from) ==
    RemoveAt(from.sidecar.applied, LastOf(from.sidecar.applied, from.name))

\* The layers the fields are computed from again.
WithoutInit(from) ==
    [i \in DOMAIN Remaining(from) |-> Remaining(from)[i].overlay]
Layers(from) == <<from.sidecar.init>> \o WithoutInit(from)

TouchedKeys(from) == DOMAIN from.overlay

RemoveWrite ==
    /\ pc = "removeWrite"
    /\ file' = Updated(Restrict(read.base, DOMAIN read.base \ TouchedKeys(read)),
                       MergeLayerKeys(Layers(read), TouchedKeys(read)))
    /\ pc' = "removeSidecar"
    /\ UNCHANGED <<sidecar, read, given, kills, hand, late, touched, torn>>

RemoveSidecar ==
    /\ pc = "removeSidecar"
    /\ sidecar' = [init |-> read.sidecar.init, applied |-> Remaining(read)]
    /\ pc' = "removed" /\ read' = Missing
    /\ UNCHANGED <<file, given, kills, hand, late, touched, torn>>

\* The command is killed, or the sidecar cannot be written (which `dvt init`
\* reports as a warning only).
Killed ==
    /\ pc \notin Ended /\ kills < MaxKills
    /\ kills' = kills + 1
    /\ pc' = "idle" /\ read' = Missing
    /\ torn' = (torn \/ pc \in {"initSidecar", "addSidecar"})
    /\ UNCHANGED <<file, sidecar, given, hand, late, touched>>

Command ==
    \/ InitFile \/ InitSidecar
    \/ \E f \in Feature : AddRead(f) \/ RemoveRead(f)
    \/ AddWrite \/ AddSidecar \/ RemoveWrite \/ RemoveSidecar

User ==
    \/ \E k \in Field : Edit(k) \/ EraseField(k)
    \/ DeleteFile \/ LoseSidecar

Next == Command \/ Killed \/ User

Spec == Init /\ [][Next]_vars

-----------------------------------------------------------------------------
(* What field k should hold, said of all its layers at once.                *)

Holding(layers, k) == {i \in DOMAIN layers : k \in DOMAIN layers[i]}

Highest(layers, k) == layers[Max(Holding(layers, k))][k]

\* Of each key of a map the value it has in the highest of these layers.
Topmost(layers, these, k) ==
    [e \in UNION {DOMAIN layers[i][k] : i \in these} |->
        layers[Max({i \in these : e \in DOMAIN layers[i][k]})][k][e]]

\* Named commands are united down to the last plain one, which hides the rest.
Commands(layers, k) ==
    LET plain == {i \in Holding(layers, k) : ~IsNamed(layers[i][k])}
    IN IF Max(Holding(layers, k)) \in plain THEN Highest(layers, k)
       ELSE Topmost(layers,
                    {i \in Holding(layers, k) : \A j \in plain : j < i}, k)

Items(layers, k) ==
    FlattenSeq([i \in DOMAIN layers |->
                    IF k \in DOMAIN layers[i] THEN layers[i][k] ELSE <<>>])

\* Every item once, where it first occurs.
Distinct(items) ==
    LET first == {i \in DOMAIN items : \A j \in 1 .. i - 1 : items[j] # items[i]}
    IN [n \in 1 .. Cardinality(first) |->
            items[CHOOSE i \in first : Cardinality({j \in first : j <= i}) = n]]

Expected(layers, k) ==
    IF k \in MapFields              THEN Topmost(layers, Holding(layers, k), k)
    ELSE IF k \in LifecycleFields   THEN Commands(layers, k)
    ELSE IF k \in ArrayFields       THEN Distinct(Items(layers, k))
    ELSE IF k \in ArrayConcatFields THEN Items(layers, k)
    ELSE Highest(layers, k)

\* Field k of config c is what these layers make of it.
Holds(c, layers, k) ==
    /\ k \in DOMAIN c <=> Holding(layers, k) # {}
    /\ k \in DOMAIN c => c[k] = Expected(layers, k)

Overlays ==
    IF sidecar = Missing THEN <<>>
    ELSE [i \in DOMAIN sidecar.applied |-> sidecar.applied[i].overlay]

\* Field k holds what the user wrote under the overlays that are applied.
Explained(k) == Holds(file, <<hand>> \o Overlays, k)

-----------------------------------------------------------------------------
\* The values the variables take: configs, and an applied list that names a
\* feature at most once.
Overlay == UNION {Template[f] : f \in Feature}

TypeOK ==
    /\ file = Missing \/ IsFile(file)
    /\ sidecar = Missing \/
          /\ DOMAIN sidecar = {"init", "applied"}
          /\ IsFile(sidecar.init)
          /\ sidecar.applied \in Seq([name : Feature, overlay : Overlay])
          /\ \A i, j \in DOMAIN sidecar.applied :
                i # j => sidecar.applied[i].name # sidecar.applied[j].name
    /\ pc \in Ended \cup {"initSidecar", "addWrite", "addSidecar",
                          "removeWrite", "removeSidecar"}
    /\ given \in 0 .. MaxGiven /\ kills \in 0 .. MaxKills
    /\ IsFile(hand)
    /\ late \subseteq Field /\ touched \subseteq Field

\* "The precise guarantee" of concepts.md, over any series of adds, removes and
\* edits: a guaranteed field of devcontainer.json holds what the user wrote
\* there, under the overlays of the features still applied, in the order they
\* were added - although `add` merges into the file as it is, `remove` computes
\* from the sidecar, and templates change.  While no command is at work, none
\* was killed and no edit came between its steps.
LayersExplainFile ==
    pc \in Ended /\ kills = 0 /\ ~torn /\ file # Missing =>
        \A k \in Field : Guaranteed(k) => Explained(k)

\* What the sidecar keeps as "init" is what `remove` will go back to: a field
\* the user wrote before the first feature is in it, as written.
InitIsWhatWasThere ==
    pc \in Ended /\ Tracking /\ file # Missing /\ ~torn =>
        \A k \in Field \ late :
            /\ k \in DOMAIN sidecar.init <=> k \in DOMAIN hand
            /\ k \in DOMAIN hand => sidecar.init[k] = hand[k]

\* A `remove` that was killed between its writes may be given again, at once or
\* after other commands: when the last feature has been removed the file is as
\* the user wrote it.
RemoveMayBeRepeated ==
    pc = "removed" /\ sidecar # Missing /\ sidecar.applied = <<>>
        /\ file # Missing /\ ~torn =>
        \A k \in Field : Guaranteed(k) => Explained(k)
=============================================================================
