----------------------------- MODULE ConfigProps -----------------------------
(***************************************************************************)
(* What a loaded configuration promises the hook that runs with it.        *)
(***************************************************************************)
EXTENDS ConfigLoad, SequencesExt

Locations == {"embed", "global", "freeze", "checkMain", "mergeMain",
              "checkHere", "mergeHere", "finish", "done", "failed"}

\* Where a layer may come from; the first two are the user's own.
Origins == Files \union {"embed"}
Users == {"embed", "global"}

\* Every variable stays within its type.
TypeOK ==
    /\ pc \in Locations
    /\ place \in Places
    /\ disk \in [Files -> Contents \union {None, Bad}]
    /\ tracked \subseteq Places \ {"plain"}
    /\ cfg \in Config
    /\ frozen \in BOOLEAN \union {None}
    /\ merged \in Seq([from : Origins, layer : Layer])
    /\ exposed \subseteq Files
    /\ touched \subseteq Files
    /\ shaky \subseteq Files
    /\ edits \in 0..MaxEdits

\* The last of these layers, among those of these origins, to set a field has
\* set it to v; v is the default if none has.
LastSets(layers, origins, field, default, v) ==
    \/ \E i \in 1..Len(layers) :
          /\ layers[i].from \in origins /\ v = layers[i].layer[field] /\ v # None
          /\ \A j \in i + 1..Len(layers) :
                layers[j].from \in origins => layers[j].layer[field] = None
    \/ /\ v = default
       /\ \A i \in 1..Len(layers) : layers[i].from \in origins => layers[i].layer[field] = None

\* The provider block is one layer's whole block, the last that has one, so
\* that no layer's auth meets another layer's provider; scalars likewise.
LastLayerWins ==
    pc = "done" =>
        /\ LastSets(merged, Origins, "provider", DefaultBlock, cfg.provider)
        /\ LastSets(merged, Origins, "path", DefaultPath, cfg.path)

\* A list is the last layer's that replaces it, followed by what that layer
\* and the later ones append.
Base(layers) == SelectLastInSeq(layers, LAMBDA m : m.layer.allow # None)
Appended(layers) ==
    [i \in 1..Len(layers) |-> IF i < Base(layers) THEN <<>> ELSE layers[i].layer.append]
ListOf(layers) ==
    (IF Base(layers) = 0 THEN <<>> ELSE layers[Base(layers)].layer.allow)
    \o FlattenSeq(Appended(layers))

\* No list entry of a layer is lost, doubled or out of order, and none comes
\* back that a later layer has replaced (mergeConfigJSON).
ListsCompose == pc = "done" => cfg.allow = ListOf(merged)

\* Layers are laid in the documented order and none twice, also where the
\* main worktree is the working directory.
Rank(origin) ==
    CASE origin = "embed" -> 1
      [] origin = "global" -> 2
      [] origin = place -> 4
      [] OTHER -> 3
LayersInOrder ==
    \A i, j \in 1..Len(merged) : i < j => Rank(merged[i].from) < Rank(merged[j].from)

\* The kill switch is the user's: the loaded value is the one of the embedded
\* and global layers, whatever local files say, and when it is set nothing of
\* the main worktree's file is in the result.
KillSwitchIsTheUsers ==
    pc = "done" =>
        /\ LastSets(merged, Users, "off", None, cfg.off)
        /\ cfg.off = TRUE /\ place = "linked" =>
              \A i \in 1..Len(merged) : merged[i].from # "main"

\* A file that was in git's index throughout the load is never a layer, even
\* if git cannot be asked.
TrackedNeverLoads ==
    \A i \in 1..Len(merged) : merged[i].from \in Places => merged[i].from \in exposed

\* No layer is silently dropped: a file that nobody touched during the load,
\* and of which git could say that it is not tracked, is in the result, and
\* if it is malformed there is no result.
UntouchedFilesCount ==
    pc = "done" =>
        \A f \in Visible :
            /\ disk[f] # None /\ f \notin tracked /\ f \notin touched \union shaky
            /\ f # place /\ f # "global" => frozen # TRUE
            => \E i \in 1..Len(merged) : merged[i].from = f

\* docs/configuration.md: "Outside a git repo the `cwd` itself is used."
OutsideUsesCwd ==
    pc = "done" /\ place = "plain" /\ disk["plain"] # None /\ "plain" \notin touched
    => \E i \in 1..Len(merged) : merged[i].from = "plain"

=============================================================================
