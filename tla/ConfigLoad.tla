----------------------------- MODULE ConfigLoad -----------------------------
(***************************************************************************)
(* Loading the configuration of one hook (internal/config, internal/       *)
(* gitutil): embedded defaults, the global file, the main worktree's local *)
(* file and the working directory's own, each laid over the ones before.   *)
(* The user, other hooks' sessions and git change the files and the index  *)
(* between any two steps of the loader.                                    *)
(***************************************************************************)
EXTENDS Integers, Sequences

CONSTANTS
    Contents,     \* what the configuration files may hold
    Embedded,     \* the target's embedded defaults
    DefaultBlock, \* the provider block of Default()
    DefaultPath,  \* the target's default metrics path
    Paths,        \* metrics paths
    Rules,        \* entries of the allow list
    None,         \* no file; a field the layer omits
    Bad,          \* a file that does not evaluate, or has unknown or ill-typed fields
    MaxEdits      \* bound: edits and git operations by others during the load

\* "padded" is the anthropic provider written with blanks around it.
Block == [name : {"", "padded", "anthropic", "openai", "gemini"},
          auth : {"env", "exec", "file", "profile"}]

\* One layer: path stands for the scalars, allow and append for the three lists.
Layer == [provider : Block \union {None}, off : BOOLEAN \union {None},
          path : Paths \union {None}, allow : Seq(Rules) \union {None}, append : Seq(Rules)]

\* What the layers add up to; off is disable_load_main_worktree_local_config.
Config == [provider : Block, off : BOOLEAN \union {None},
           path : Paths \union {None}, allow : Seq(Rules)]

\* Where the hook runs: in the main worktree, in a linked one, in no repository.
Places == {"main", "linked", "plain"}
Files == {"global"} \union Places

ASSUME ConfigAssumption ==
    /\ Contents \subseteq Layer /\ Embedded \in Layer
    /\ DefaultBlock \in Block /\ DefaultPath \in Paths
    /\ None \notin Block /\ None \notin BOOLEAN /\ None \notin Paths
    /\ None \notin Seq(Rules) /\ None \notin Layer /\ Bad \notin Layer /\ None # Bad
    /\ MaxEdits \in Nat

VARIABLES
    pc,       \* where the load is
    place,    \* where the hook runs; the local file of a place bears its name
    disk,     \* content of each file
    tracked,  \* the local files in their worktree's index
    cfg,      \* the configuration so far
    frozen,   \* the kill switch as the embedded and global layers set it
    merged,   \* history: the layers laid over so far
    exposed,  \* history: files that were untracked at some instant
    touched,  \* history: files changed since the load began
    shaky,    \* history: files skipped because a stat or a git command failed
    edits     \* edits so far

world == <<disk, tracked, exposed, touched, edits>>
vars == <<pc, place, world, cfg, frozen, merged, shaky>>

Visible == {"global"} \union (IF place = "linked" THEN {"main", "linked"} ELSE {place})

Goto(where) == pc' = where

Init ==
    /\ pc = "embed"
    /\ place \in Places
    /\ disk \in [Files -> Contents \union {None, Bad}]
    /\ \A f \in Files \ Visible : disk[f] = None
    /\ tracked \in SUBSET (Visible \ {"global", "plain"})
    /\ cfg = [provider |-> DefaultBlock, off |-> None, path |-> None, allow |-> <<>>]
    /\ frozen = None
    /\ merged = <<>>
    /\ exposed = Files \ tracked
    /\ touched = {}
    /\ shaky = {}
    /\ edits = 0

-----------------------------------------------------------------------------
\* Definitions named Slip... are deliberate faults for mutation testing: each
\* is the definition that follows it with one plausible mistake.

Set(new, old) == IF new = None THEN old ELSE new

\* Slip: the provider block is merged field by field.
SlipOverlay(base, layer) ==
    [provider |-> IF layer.provider = None THEN base.provider
                  ELSE [name |-> layer.provider.name,
                        auth |-> IF layer.provider.auth = "env" THEN base.provider.auth
                                 ELSE layer.provider.auth],
     off      |-> Set(layer.off, base.off),
     path     |-> Set(layer.path, base.path),
     allow    |-> Set(layer.allow, base.allow) \o layer.append]

\* Slip: a layer without a provider block replaces it with an empty one.
SlipOverlayProvider(base, layer) ==
    [provider |-> layer.provider,
     off      |-> Set(layer.off, base.off),
     path     |-> Set(layer.path, base.path),
     allow    |-> Set(layer.allow, base.allow) \o layer.append]

\* Slip: the layer's own append_allow is lost when it also sets allow.
SlipOverlayLists(base, layer) ==
    [provider |-> Set(layer.provider, base.provider),
     off      |-> Set(layer.off, base.off),
     path     |-> Set(layer.path, base.path),
     allow    |-> Set(layer.allow, base.allow \o layer.append)]

\* mergeConfigJSON: a layer that has the field replaces it, the provider
\* block as a whole; append_allow comes after the layer's own allow.
Overlay(base, layer) ==
    [provider |-> Set(layer.provider, base.provider),
     off      |-> Set(layer.off, base.off),
     path     |-> Set(layer.path, base.path),
     allow    |-> Set(layer.allow, base.allow) \o layer.append]

LayOver(origin, layer) ==
    /\ cfg' = Overlay(cfg, layer)
    /\ merged' = Append(merged, [from |-> origin, layer |-> layer])

MergeEmbedded ==
    /\ pc = "embed"
    /\ LayOver("embed", Embedded)
    /\ Goto("global")
    /\ UNCHANGED <<place, world, frozen, shaky>>

\* mergeConfigFile and what Load makes of its errors: a missing file is no
\* layer, a malformed one fails the load.
MergeFile(f, next) ==
    /\ \/ disk[f] = None /\ Goto(next) /\ UNCHANGED <<cfg, merged>>
       \/ disk[f] = Bad /\ Goto("failed") /\ UNCHANGED <<cfg, merged>>
       \/ disk[f] \notin {None, Bad} /\ LayOver(f, disk[f]) /\ Goto(next)
    /\ UNCHANGED <<place, world, frozen, shaky>>

MergeGlobal == pc = "global" /\ MergeFile("global", "freeze")

\* The kill switch is read before any local file, and decides about them.
FreezeSwitch ==
    /\ pc = "freeze"
    /\ frozen' = cfg.off
    /\ Goto(IF cfg.off = TRUE THEN "checkHere" ELSE "checkMain")
    /\ UNCHANGED <<place, world, cfg, merged, shaky>>

\* Slip: a check that fails is taken for "not tracked".
SlipCheckUntracked(f, yes, no) ==
    /\ \/ disk[f] # None /\ f \notin tracked /\ Goto(yes) /\ UNCHANGED shaky
       \/ (disk[f] = None \/ f \in tracked) /\ Goto(no) /\ UNCHANGED shaky
       \/ Goto(yes) /\ shaky' = shaky \union {f}
    /\ UNCHANGED <<place, world, cfg, frozen, merged>>

\* safeUntrackedPaths with IsTracked: only a file that exists and that git
\* says is not tracked passes.  Outside a repository git ls-files fails.
CheckUntracked(f, yes, no) ==
    /\ \/ /\ disk[f] # None /\ f \notin tracked /\ place # "plain"
          /\ Goto(yes) /\ UNCHANGED shaky
       \/ (disk[f] = None \/ f \in tracked) /\ Goto(no) /\ UNCHANGED shaky
       \/ Goto(no) /\ shaky' = shaky \union {f}
    /\ UNCHANGED <<place, world, cfg, frozen, merged>>

\* Slip: no test that this is a linked worktree.
SlipCheckMain == pc = "checkMain" /\ CheckUntracked("main", "mergeMain", "checkHere")

\* safeMainWorktreeLocalConfigPaths.  MainWorktreeRoot is empty outside a
\* linked worktree, for a bare repository, and whenever git fails.
CheckMain ==
    /\ pc = "checkMain"
    /\ \/ place = "linked" /\ CheckUntracked("main", "mergeMain", "checkHere")
       \/ /\ place # "linked"
          /\ Goto("checkHere")
          /\ UNCHANGED <<place, world, cfg, frozen, merged, shaky>>

MergeMain == pc = "mergeMain" /\ MergeFile("main", "checkHere")

\* safeProjectLocalConfigPaths.
CheckHere == pc = "checkHere" /\ CheckUntracked(place, "mergeHere", "finish")

\* Slip: a malformed local file is skipped like a missing one.
SlipMergeHere ==
    /\ pc = "mergeHere"
    /\ \/ disk[place] \in {None, Bad} /\ Goto("finish") /\ UNCHANGED <<cfg, merged>>
       \/ disk[place] \notin {None, Bad} /\ LayOver(place, disk[place]) /\ Goto("finish")
    /\ UNCHANGED <<place, world, frozen, shaky>>

MergeHere == pc = "mergeHere" /\ MergeFile(place, "finish")

\* Validate, as far as the provider block goes.
Valid(block) ==
    /\ block.name # ""
    /\ block.auth = "profile" => block.name \in {"anthropic", "padded"}

\* Slip: the switch keeps what the local files say.
SlipFinish ==
    /\ pc = "finish"
    /\ cfg' = [cfg EXCEPT !.path = Set(@, DefaultPath)]
    /\ Goto(IF Valid(cfg.provider) THEN "done" ELSE "failed")
    /\ UNCHANGED <<place, world, frozen, merged, shaky>>

\* The end of Load: the switch is put back, unset paths get the target's
\* default, and the result is validated.
Finish ==
    /\ pc = "finish"
    /\ cfg' = [cfg EXCEPT !.off = frozen, !.path = Set(@, DefaultPath)]
    /\ Goto(IF Valid(cfg.provider) THEN "done" ELSE "failed")
    /\ UNCHANGED <<place, world, frozen, merged, shaky>>

-----------------------------------------------------------------------------
\* The user, and git on the user's behalf.

Change(f) ==
    /\ pc \notin {"done", "failed"}
    /\ edits < MaxEdits
    /\ edits' = edits + 1
    /\ touched' = touched \union {f}
    /\ UNCHANGED <<pc, place, cfg, frozen, merged, shaky>>

Edit(f) ==
    /\ f \in Visible
    /\ Change(f)
    /\ \E c \in Contents \union {None, Bad} : disk' = [disk EXCEPT ![f] = c]
    /\ UNCHANGED <<tracked, exposed>>

\* git add, or git rm --cached.
Restage(f) ==
    /\ f \in Visible \ {"global", "plain"}
    /\ Change(f)
    /\ \/ tracked' = tracked \union {f} /\ UNCHANGED exposed
       \/ tracked' = tracked \ {f} /\ exposed' = exposed \union {f}
    /\ UNCHANGED disk

-----------------------------------------------------------------------------

Load ==
    \/ MergeEmbedded \/ MergeGlobal \/ FreezeSwitch
    \/ CheckMain \/ MergeMain \/ CheckHere \/ MergeHere \/ Finish

Next == Load \/ \E f \in Files : Edit(f) \/ Restage(f)

Spec == Init /\ [][Next]_vars

=============================================================================
