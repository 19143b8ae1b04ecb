---------------------------- MODULE ConfigProofs ----------------------------
(***************************************************************************)
(* Proofs about ConfigLoad, for any file contents, any embedded defaults   *)
(* and any number of edits by others during the load.                      *)
(***************************************************************************)
EXTENDS ConfigProps, SequenceLemmas

Merged == [from : Origins, layer : Layer]

\* The first part of the load, in which only the user's own layers are read.
Early == {"embed", "global", "freeze"}

\* How far the load is, on the scale of Rank.
Depth ==
    CASE pc = "embed" -> 1
      [] pc = "global" -> 2
      [] pc \in {"freeze", "checkMain", "mergeMain"} -> 3
      [] pc \in {"checkHere", "mergeHere"} -> 4
      [] OTHER -> 5

\* What is merged ranks below what is still to come.
OrderInv ==
    /\ pc = "mergeMain" => place = "linked"
    /\ \A i \in 1..Len(merged) : Rank(merged[i].from) < Depth
    /\ LayersInOrder

\* What passed the check was not tracked at that instant.
TrackInv ==
    /\ Files \ tracked \subseteq exposed
    /\ pc = "mergeMain" => "main" \in exposed
    /\ pc = "mergeHere" => place \in exposed
    /\ TrackedNeverLoads

\* The configuration so far holds the last settings so far; the switch moves
\* to frozen and back.
SettingInv ==
    /\ LastSets(merged, Origins, "provider", DefaultBlock, cfg.provider)
    /\ pc \notin {"done", "failed"} => LastSets(merged, Origins, "path", None, cfg.path)
    /\ pc = "done" => LastSets(merged, Origins, "path", DefaultPath, cfg.path)
    /\ pc \in Early => LastSets(merged, Users, "off", None, cfg.off)
    /\ pc \notin Early \union {"failed"} => LastSets(merged, Users, "off", None, frozen)
    /\ pc = "done" => cfg.off = frozen

\* Behind the switch, the main worktree's file is neither checked nor merged.
SwitchInv ==
    /\ pc \in Early => frozen # TRUE
    /\ pc \in {"checkMain", "mergeMain"} => frozen # TRUE
    /\ place = "linked" /\ frozen = TRUE => \A i \in 1..Len(merged) : merged[i].from # "main"

\* A file whose turn is over is in the result, or has an excuse that lasts.
Excused(f) == disk[f] = None \/ f \in tracked \union touched \union shaky
Counted(f) == Excused(f) \/ \E i \in 1..Len(merged) : merged[i].from = f
CountInv ==
    /\ pc \notin {"embed", "global", "failed"} => Counted("global")
    /\ pc \in {"checkHere", "mergeHere", "finish", "done"} /\ place = "linked" /\ frozen # TRUE
          => Counted("main")
    /\ pc \in {"finish", "done"} => Counted(place)

\* The list so far is composed of the layers so far.
ListInv == cfg.allow = ListOf(merged)

-----------------------------------------------------------------------------
\* Laying a layer over a configuration gives a configuration, field by field.
LEMMA OverlayIsConfig ==
    ASSUME NEW base \in Config, NEW layer \in Layer
    PROVE  /\ Overlay(base, layer) \in Config
           /\ Overlay(base, layer).provider = Set(layer.provider, base.provider)
           /\ Overlay(base, layer).off = Set(layer.off, base.off)
           /\ Overlay(base, layer).path = Set(layer.path, base.path)
           /\ Overlay(base, layer).allow = Set(layer.allow, base.allow) \o layer.append
<1>1. Set(layer.provider, base.provider) \in Block
  BY DEF Set, Config, Layer
<1>2. Set(layer.off, base.off) \in BOOLEAN \union {None}
  BY DEF Set, Config, Layer
<1>3. Set(layer.path, base.path) \in Paths \union {None}
  BY DEF Set, Config, Layer
<1>4. Set(layer.allow, base.allow) \in Seq(Rules) /\ layer.append \in Seq(Rules)
  BY DEF Set, Config, Layer
<1>5. Set(layer.allow, base.allow) \o layer.append \in Seq(Rules)
  BY <1>4, ConcatProperties
<1> QED
  BY <1>1, <1>2, <1>3, <1>5 DEF Overlay, Config

\* One more layer: the sequence keeps what it has and gets the layer at its end.
LEMMA AppendOne ==
    ASSUME NEW s \in Seq(Merged), NEW m \in Merged
    PROVE  /\ Append(s, m) \in Seq(Merged)
           /\ Len(s) \in Nat /\ Len(Append(s, m)) = Len(s) + 1
           /\ \A i \in 1..Len(s) : Append(s, m)[i] = s[i]
           /\ Append(s, m)[Len(s) + 1] = m
  OBVIOUS

\* The last setting of a field when one more layer comes.
LEMMA LastAppended ==
    ASSUME NEW s \in Seq(Merged), NEW m \in Merged, NEW origins, NEW field, NEW default,
           NEW v, LastSets(s, origins, field, default, v)
    PROVE  /\ m.from \in origins =>
                 LastSets(Append(s, m), origins, field, default, Set(m.layer[field], v))
           /\ m.from \notin origins => LastSets(Append(s, m), origins, field, default, v)
<1> DEFINE t == Append(s, m)
           n == Len(s) + 1
<1>1. /\ Len(s) \in Nat /\ Len(t) = n
      /\ \A i \in 1..Len(s) : t[i] = s[i]
      /\ t[n] = m
  BY AppendOne
<1> HIDE DEF t
<1>2. \A i \in 1..Len(t) : i # n => i \in 1..Len(s)
  BY <1>1
<1>3. CASE m.from \in origins /\ m.layer[field] # None
  <2>1. n \in 1..Len(t) /\ n + 1..Len(t) = {}
    BY <1>1
  <2>2. Set(m.layer[field], v) = t[n].layer[field]
    BY <1>1, <1>3 DEF Set
  <2> QED
    BY <1>1, <1>3, <2>1, <2>2 DEF LastSets, t
<1>4. CASE m.from \notin origins \/ m.layer[field] = None
  <2>1. t[n].from \in origins => t[n].layer[field] = None
    BY <1>1, <1>4
  <2>2. CASE \E i \in 1..Len(s) :
                /\ s[i].from \in origins /\ v = s[i].layer[field] /\ v # None
                /\ \A j \in i + 1..Len(s) : s[j].from \in origins => s[j].layer[field] = None
    <3>1. PICK i \in 1..Len(s) :
                /\ s[i].from \in origins /\ v = s[i].layer[field] /\ v # None
                /\ \A j \in i + 1..Len(s) : s[j].from \in origins => s[j].layer[field] = None
      BY <2>2
    <3>2. i \in 1..Len(t) /\ t[i] = s[i]
      BY <1>1
    <3>3. \A j \in i + 1..Len(t) : t[j].from \in origins => t[j].layer[field] = None
      <4>1. SUFFICES ASSUME NEW j \in i + 1..Len(t), j # n
                     PROVE  t[j].from \in origins => t[j].layer[field] = None
        BY <2>1
      <4>2. j \in i + 1..Len(s) /\ t[j] = s[j]
        BY <1>1, <4>1
      <4> QED
        BY <3>1, <4>2
    <3>4. LastSets(t, origins, field, default, v)
      BY <3>1, <3>2, <3>3 DEF LastSets
    <3> QED
      BY <1>4, <3>4 DEF Set, t
  <2>3. CASE /\ v = default
             /\ \A i \in 1..Len(s) : s[i].from \in origins => s[i].layer[field] = None
    <3>1. \A i \in 1..Len(t) : t[i].from \in origins => t[i].layer[field] = None
      BY <1>1, <1>2, <2>1, <2>3
    <3>2. LastSets(t, origins, field, default, v)
      BY <2>3, <3>1 DEF LastSets
    <3> QED
      BY <1>4, <3>2 DEF Set, t
  <2> QED
    BY <2>2, <2>3 DEF LastSets
<1> QED
  BY <1>3, <1>4

\* The base of a list is the last of the layers that replace it.
Replacing(layers) == {i \in 1..Len(layers) : layers[i].layer.allow # None}
LEMMA BaseIsLast ==
    ASSUME NEW s \in Seq(Merged)
    PROVE  \/ Replacing(s) = {} /\ Base(s) = 0
           \/ Base(s) \in Replacing(s) /\ \A i \in Replacing(s) : i <= Base(s)
<1>1. Replacing(s) \in SUBSET (1..Len(s)) /\ Len(s) \in Nat
  BY DEF Replacing
<1>2. Base(s) = IF Replacing(s) # {} THEN Max(Replacing(s)) ELSE 0
  BY DEF Base, SelectLastInSeq, Replacing
<1>3. Replacing(s) # {} =>
        Max(Replacing(s)) \in Replacing(s) /\ \A i \in Replacing(s) : i <= Max(Replacing(s))
  BY <1>1, MaxPosition
<1> QED
  BY <1>2, <1>3

\* It moves when one more layer comes that replaces the list.
LEMMA BaseAppended ==
    ASSUME NEW s \in Seq(Merged), NEW m \in Merged, NEW t, t = Append(s, m)
    PROVE  /\ Base(s) \in 0..Len(s)
           /\ m.layer.allow # None => Base(t) = Len(s) + 1
           /\ m.layer.allow = None => Base(t) = Base(s)
<1> DEFINE n == Len(s)
<1>1. /\ t \in Seq(Merged) /\ n \in Nat /\ Len(t) = n + 1
      /\ \A i \in 1..n : t[i] = s[i]
      /\ t[n + 1] = m
  BY AppendOne
<1>2. \A i \in 1..n + 1 : i \in 1..n \/ i = n + 1
  BY <1>1
<1>3. Replacing(s) \subseteq 1..n /\ Replacing(t) \subseteq 1..n + 1
  BY <1>1 DEF Replacing
<1>4. /\ \/ Replacing(s) = {} /\ Base(s) = 0
         \/ Base(s) \in Replacing(s) /\ \A i \in Replacing(s) : i <= Base(s)
      /\ \/ Replacing(t) = {} /\ Base(t) = 0
         \/ Base(t) \in Replacing(t) /\ \A i \in Replacing(t) : i <= Base(t)
  BY <1>1, BaseIsLast
<1>5. Base(s) \in 0..n
  BY <1>1, <1>3, <1>4
<1>6. CASE m.layer.allow # None
  <2>1. n + 1 \in Replacing(t)
    BY <1>1, <1>6 DEF Replacing
  <2>2. Base(t) \in 1..n + 1 /\ n + 1 <= Base(t)
    BY <1>3, <1>4, <2>1
  <2> QED
    BY <1>1, <1>5, <1>6, <2>2
<1>7. CASE m.layer.allow = None
  <2>1. Replacing(t) = Replacing(s)
    BY <1>1, <1>2, <1>7 DEF Replacing
  <2>2. Base(t) = Base(s)
    BY <1>1, <1>3, <1>4, <2>1
  <2> QED
    BY <1>5, <1>7, <2>2
<1> QED
  BY <1>6, <1>7

\* The composed list when one more layer comes: that layer's own list, if it
\* has one, or the list before, and what it appends.
LEMMA ListAppended ==
    ASSUME NEW s \in Seq(Merged), NEW m \in Merged
    PROVE  ListOf(Append(s, m)) = Set(m.layer.allow, ListOf(s)) \o m.layer.append
<1> DEFINE n == Len(s)
           First(layers) == IF Base(layers) = 0 THEN <<>> ELSE layers[Base(layers)].layer.allow
<1> SUFFICES ASSUME NEW t, t = Append(s, m)
             PROVE  ListOf(t) = Set(m.layer.allow, ListOf(s)) \o m.layer.append
  OBVIOUS
<1>1. /\ t \in Seq(Merged) /\ n \in Nat /\ Len(t) = n + 1
      /\ \A i \in 1..n : t[i] = s[i]
      /\ t[n + 1] = m
  BY AppendOne
<1>2. /\ ListOf(s) = First(s) \o FlattenSeq(Appended(s))
      /\ ListOf(t) = First(t) \o FlattenSeq(Appended(t))
  BY DEF ListOf
<1>3. /\ Base(s) \in 0..n
      /\ m.layer.allow # None => Base(t) = n + 1
      /\ m.layer.allow = None => Base(t) = Base(s)
  BY BaseAppended
<1>4. \A i \in 1..n : s[i] \in Merged
  BY ElementOfSeq
<1>5. \A x \in Merged : /\ x.layer.append \in Seq(Rules)
                        /\ x.layer.allow # None => x.layer.allow \in Seq(Rules)
  BY DEF Merged, Layer
<1>6. \A i \in 1..n + 1 : i \in 1..n \/ i = n + 1
  BY <1>1
<1>7. CASE m.layer.allow # None
  <2> DEFINE nothing == [i \in 1..n |-> <<>>]
  <2>1. nothing \in Seq(Seq(Rules)) /\ FlattenSeq(nothing) = <<>>
    BY <1>1, FlattenNothing
  <2>2. Appended(t) = Append(nothing, m.layer.append)
    BY <1>1, <1>3, <1>6, <1>7 DEF Appended
  <2> HIDE DEF nothing
  <2>3. FlattenSeq(Appended(t)) = FlattenSeq(nothing) \o m.layer.append
    BY <1>5, <2>1, <2>2, FlattenAppend
  <2>4. First(t) = m.layer.allow
    BY <1>1, <1>3, <1>7
  <2>5. FlattenSeq(nothing) \o m.layer.append = m.layer.append
    BY <1>5, <2>1, ConcatEmptySeq
  <2> QED
    BY <1>2, <1>7, <2>3, <2>4, <2>5 DEF Set
<1>8. CASE m.layer.allow = None
  <2>1. Appended(s) \in Seq(Seq(Rules))
    BY <1>1, <1>4, <1>5 DEF Appended
  <2>2. Appended(t) = Append(Appended(s), m.layer.append)
    BY <1>1, <1>3, <1>6, <1>8 DEF Appended
  <2>3. /\ FlattenSeq(Appended(s)) \in Seq(Rules)
        /\ FlattenSeq(Appended(t)) = FlattenSeq(Appended(s)) \o m.layer.append
    BY <1>5, <2>1, <2>2, FlattenAppend
  <2>4. First(t) = First(s)
    BY <1>1, <1>3, <1>8
  <2>5. First(s) \in Seq(Rules)
    <3>1. CASE Base(s) = 0
      BY <3>1
    <3>2. CASE Base(s) # 0
      <4>1. Base(s) \in 1..n /\ s[Base(s)].layer.allow # None
        BY <1>1, <1>3, <3>2, BaseIsLast DEF Replacing
      <4> QED
        BY <1>4, <1>5, <3>2, <4>1
    <3> QED
      BY <3>1, <3>2
  <2> HIDE DEF First
  <2>6. (First(s) \o FlattenSeq(Appended(s))) \o m.layer.append
          = First(s) \o (FlattenSeq(Appended(s)) \o m.layer.append)
    <3>1. m.layer.append \in Seq(Rules) /\ FlattenSeq(Appended(s)) \in Seq(Rules)
      BY <1>5, <2>3
    <3>2. \A a, b, c \in Seq(Rules) : (a \o b) \o c = a \o (b \o c)
      BY ConcatAssociative
    <3> QED
      BY <2>5, <3>1, <3>2
  <2>7. ListOf(t) = ListOf(s) \o m.layer.append
    BY <1>2, <2>3, <2>4, <2>6
  <2> QED
    BY <1>8, <2>7 DEF Set
<1> QED
  BY <1>7, <1>8

\* A layer is laid over, seen from the outside.
LEMMA LayOverOutcome ==
    ASSUME TypeOK, NEW origin \in Origins, NEW layer \in Layer, LayOver(origin, layer)
    PROVE  /\ cfg' \in Config
           /\ cfg'.provider = Set(layer.provider, cfg.provider)
           /\ cfg'.off = Set(layer.off, cfg.off)
           /\ cfg'.path = Set(layer.path, cfg.path)
           /\ cfg'.allow = Set(layer.allow, cfg.allow) \o layer.append
           /\ [from |-> origin, layer |-> layer] \in Merged
           /\ merged' = Append(merged, [from |-> origin, layer |-> layer])
           /\ merged \in Seq(Merged) /\ merged' \in Seq(Merged)
           /\ Len(merged) \in Nat /\ Len(merged') = Len(merged) + 1
           /\ \A i \in 1..Len(merged) : merged'[i] = merged[i]
           /\ merged'[Len(merged) + 1].from = origin
           /\ merged'[Len(merged) + 1].layer = layer
<1>1. merged \in Seq(Merged) /\ [from |-> origin, layer |-> layer] \in Merged
  BY DEF TypeOK, Merged
<1>2. merged' = Append(merged, [from |-> origin, layer |-> layer]) /\ cfg' = Overlay(cfg, layer)
  BY DEF LayOver
<1>3. cfg \in Config
  BY DEF TypeOK
<1>4. merged'[Len(merged) + 1] = [from |-> origin, layer |-> layer]
  BY <1>1, <1>2, AppendOne
<1>5. /\ cfg' \in Config
      /\ cfg'.provider = Set(layer.provider, cfg.provider)
      /\ cfg'.off = Set(layer.off, cfg.off)
      /\ cfg'.path = Set(layer.path, cfg.path)
      /\ cfg'.allow = Set(layer.allow, cfg.allow) \o layer.append
  BY <1>2, <1>3, OverlayIsConfig
<1> QED
  BY <1>1, <1>2, <1>4, <1>5, AppendOne

\* Every merged layer comes from somewhere.
LEMMA MergedHasOrigins ==
    ASSUME TypeOK, NEW i \in 1..Len(merged)
    PROVE  merged[i] \in Merged /\ merged[i].from \in Origins
<1>1. merged \in Seq(Merged)
  BY DEF TypeOK, Merged
<1>2. merged[i] \in Merged
  BY <1>1, ElementOfSeq
<1> QED
  BY <1>2 DEF Merged

\* What one step of the loader may do to the configuration: lay one layer
\* over it, in the phase that layer's origin belongs to, or leave it alone.
Lays(origin, at, next) ==
    /\ pc = at /\ pc' = next
    /\ UNCHANGED <<place, world, frozen, shaky>>
    /\ \E layer \in Layer : LayOver(origin, layer)

LEMMA MergeOutcome ==
    ASSUME TypeOK, NEW f \in Files, NEW at, NEW next, pc = at, MergeFile(f, next)
    PROVE  \/ Lays(f, at, next)
           \/ /\ UNCHANGED <<place, world, frozen, shaky, cfg, merged>>
              /\ (pc' = next /\ disk[f] = None) \/ pc' = "failed"
<1>1. disk[f] \in Layer \union {None, Bad}
  BY ConfigAssumption DEF TypeOK
<1> QED
  BY <1>1 DEF MergeFile, Lays, Goto

LEMMA EmbedOutcome ==
    ASSUME MergeEmbedded
    PROVE  Lays("embed", "embed", "global")
  BY ConfigAssumption DEF MergeEmbedded, Lays, Goto

\* A check changes nothing but where the load goes on.
LEMMA CheckOutcome ==
    ASSUME TypeOK, NEW f \in Places, NEW yes, NEW no, CheckUntracked(f, yes, no)
    PROVE  /\ UNCHANGED <<place, world, cfg, frozen, merged>>
           /\ \/ pc' = yes /\ f \notin tracked /\ UNCHANGED shaky
              \/ pc' = no /\ Excused(f)'  /\ shaky' \in {shaky, shaky \union {f}}
  BY DEF CheckUntracked, Excused, world, Goto

-----------------------------------------------------------------------------

LEMMA TypeStep == TypeOK /\ [Next]_vars => TypeOK'
<1> SUFFICES ASSUME TypeOK, [Next]_vars PROVE TypeOK'
  OBVIOUS
<1> USE DEF Locations
<1>1. ASSUME NEW origin \in Origins, NEW at \in Locations, NEW next \in Locations,
             Lays(origin, at, next)
      PROVE  TypeOK'
  BY <1>1, LayOverOutcome DEF Lays, TypeOK, Merged, world
<1>2. ASSUME NEW f \in Files, NEW at \in Locations, NEW next \in Locations, pc = at,
             MergeFile(f, next)
      PROVE  TypeOK'
  <2>1. CASE Lays(f, at, next)
    BY <1>1, <2>1 DEF Origins
  <2> QED
    BY <1>2, <2>1, MergeOutcome DEF TypeOK, world
<1>3. ASSUME NEW f \in Places, NEW yes \in Locations, NEW no \in Locations,
             CheckUntracked(f, yes, no)
      PROVE  TypeOK'
  BY <1>3, CheckOutcome DEF TypeOK, world, Files
<1>4. CASE MergeEmbedded
  BY <1>1, <1>4, EmbedOutcome DEF Origins
<1>5. CASE MergeGlobal
  BY <1>2, <1>5 DEF MergeGlobal, Files
<1>6. CASE FreezeSwitch
  BY <1>6 DEF FreezeSwitch, Goto, world, TypeOK, Config
<1>7. CASE CheckMain
  <2>1. CASE CheckUntracked("main", "mergeMain", "checkHere")
    BY <1>3, <2>1 DEF Places
  <2> QED
    BY <1>7, <2>1 DEF CheckMain, Goto, world, TypeOK
<1>8. CASE MergeMain
  BY <1>2, <1>8 DEF MergeMain, Files, Places
<1>9. CASE CheckHere
  BY <1>3, <1>9 DEF CheckHere, TypeOK
<1>10. CASE MergeHere
  BY <1>2, <1>10 DEF MergeHere, Files, TypeOK
<1>11. CASE Finish
  <2>1. cfg.path \in Paths \union {None} /\ DefaultPath \in Paths
    BY ConfigAssumption DEF TypeOK, Config
  <2>2. Set(cfg.path, DefaultPath) \in Paths \union {None}
    BY <2>1 DEF Set
  <2> QED
    BY <1>11, <2>2 DEF Finish, Goto, world, TypeOK, Config
<1>12. ASSUME NEW f \in Files, Change(f)
       PROVE  /\ UNCHANGED <<pc, place, cfg, frozen, merged, shaky>>
              /\ touched' \subseteq Files /\ edits' \in 0..MaxEdits
  BY <1>12, ConfigAssumption DEF Change, TypeOK
<1>13. ASSUME NEW f \in Files, Edit(f)
       PROVE  TypeOK'
  <2>1. disk' \in [Files -> Contents \union {None, Bad}] /\ UNCHANGED <<tracked, exposed>>
    BY <1>13 DEF Edit, TypeOK
  <2> QED
    BY <1>12, <1>13, <2>1 DEF Edit, TypeOK
<1>14. ASSUME NEW f \in Files, Restage(f)
       PROVE  TypeOK'
  <2>1. UNCHANGED disk /\ f \in Places \ {"plain"}
    BY <1>14 DEF Restage, Files
  <2>2. tracked' \subseteq Places \ {"plain"} /\ exposed' \subseteq Files
    BY <1>14, <2>1 DEF Restage, TypeOK, Files
  <2> QED
    BY <1>12, <1>14, <2>1, <2>2 DEF Restage, TypeOK
<1>15. CASE UNCHANGED vars
  BY <1>15 DEF vars, world, TypeOK
<1> QED
  BY <1>4, <1>5, <1>6, <1>7, <1>8, <1>9, <1>10, <1>11, <1>13, <1>14, <1>15 DEF Next, Load

-----------------------------------------------------------------------------
\* Every step, seen from the outside: a layer is laid over in the phase of its
\* origin, a check is made, the switch is frozen, the load ends one way or the
\* other, or the world moves on.
Fails == pc' = "failed" /\ UNCHANGED <<place, world, frozen, shaky, cfg, merged>>
Skips(f, at, next) ==
    /\ pc = at /\ pc' = next /\ disk[f] = None
    /\ UNCHANGED <<place, world, frozen, shaky, cfg, merged>>
Checks(f, at, yes, no) ==
    /\ pc = at
    /\ UNCHANGED <<place, world, cfg, frozen, merged>>
    /\ \/ pc' = yes /\ f \notin tracked /\ UNCHANGED shaky
       \/ pc' = no /\ Excused(f)' /\ shaky' \in {shaky, shaky \union {f}}
Passes == /\ pc = "checkMain" /\ pc' = "checkHere" /\ place # "linked"
          /\ UNCHANGED <<place, world, cfg, frozen, merged, shaky>>
Changes(f) ==
    /\ UNCHANGED <<pc, place, cfg, frozen, merged, shaky>>
    /\ touched' = touched \union {f}
    /\ \A g \in Files \ {f} : disk'[g] = disk[g] /\ (g \in tracked' <=> g \in tracked)
    /\ exposed \subseteq exposed' /\ Files \ tracked' \subseteq exposed' \union (Files \ tracked)
    /\ Files \ tracked \subseteq exposed => Files \ tracked' \subseteq exposed'

Moves ==
    \/ Lays("embed", "embed", "global")
    \/ Lays("global", "global", "freeze") \/ Skips("global", "global", "freeze")
    \/ FreezeSwitch
    \/ Checks("main", "checkMain", "mergeMain", "checkHere") /\ place = "linked"
    \/ Passes
    \/ Lays("main", "mergeMain", "checkHere") \/ Skips("main", "mergeMain", "checkHere")
    \/ Checks(place, "checkHere", "mergeHere", "finish")
    \/ Lays(place, "mergeHere", "finish") \/ Skips(place, "mergeHere", "finish")
    \/ Finish \/ Fails
    \/ \E f \in Files : Changes(f)
    \/ UNCHANGED vars

LEMMA StepMoves == TypeOK /\ [Next]_vars => Moves
<1> SUFFICES ASSUME TypeOK, [Next]_vars PROVE Moves
  OBVIOUS
<1> USE DEF Files, Places
<1>1. place \in Places
  BY DEF TypeOK
<1>2. CASE MergeEmbedded
  BY <1>2, EmbedOutcome DEF Moves
<1>3. CASE MergeGlobal
  BY <1>3, MergeOutcome DEF MergeGlobal, Moves, Skips, Fails
<1>4. CASE CheckMain
  <2>1. CASE place = "linked" /\ CheckUntracked("main", "mergeMain", "checkHere")
    BY <1>4, <2>1, CheckOutcome DEF CheckMain, Moves, Checks
  <2> QED
    BY <1>4, <2>1 DEF CheckMain, Moves, Passes, Goto
<1>5. CASE MergeMain
  BY <1>5, MergeOutcome DEF MergeMain, Moves, Skips, Fails
<1>6. CASE CheckHere
  BY <1>1, <1>6, CheckOutcome DEF CheckHere, Moves, Checks
<1>7. CASE MergeHere
  BY <1>1, <1>7, MergeOutcome DEF MergeHere, Moves, Skips, Fails
<1>8. ASSUME NEW f \in Files, Edit(f)
      PROVE  Changes(f)
  BY <1>8 DEF Edit, Change, Changes, TypeOK
<1>9. ASSUME NEW f \in Files, Restage(f)
      PROVE  Changes(f)
  BY <1>9 DEF Restage, Change, Changes, TypeOK
<1>10. CASE FreezeSwitch \/ Finish \/ UNCHANGED vars
  BY <1>10 DEF Moves
<1> QED
  BY <1>2, <1>3, <1>4, <1>5, <1>6, <1>7, <1>8, <1>9, <1>10 DEF Next, Load, Moves

-----------------------------------------------------------------------------

LEMMA OrderStep == TypeOK /\ OrderInv /\ Moves => OrderInv'
<1> SUFFICES ASSUME TypeOK, OrderInv, Moves PROVE OrderInv'
  OBVIOUS
<1>1. place \in Places /\ \A x \in Origins : Rank(x) \in 1..4
  BY DEF TypeOK, Rank
<1>2. ASSUME NEW origin \in Origins, NEW at, NEW next, Lays(origin, at, next),
             Depth <= Rank(origin), Rank(origin) < Depth', next # "mergeMain"
      PROVE  OrderInv'
  <2>1. PICK layer \in Layer : LayOver(origin, layer)
    BY <1>2 DEF Lays
  <2>2. /\ Len(merged) \in Nat /\ Len(merged') = Len(merged) + 1
        /\ \A i \in 1..Len(merged) : merged'[i] = merged[i]
        /\ merged'[Len(merged) + 1].from = origin
    BY <2>1, LayOverOutcome
  <2>3. Depth \in 1..5 /\ Depth' \in 1..5
    BY DEF Depth
  <2>4. place' = place /\ \A x : Rank(x)' = Rank(x)
    BY <1>2 DEF Lays, Rank
  <2>5. \A i \in 1..Len(merged) : merged[i].from \in Origins
    BY MergedHasOrigins
  <2>6. \A i \in 1..Len(merged) : Rank(merged[i].from) < Rank(origin)
    BY <1>1, <1>2, <2>3, <2>5 DEF OrderInv
  <2>7. \A i \in 1..Len(merged') : i \in 1..Len(merged) \/ i = Len(merged) + 1
    BY <2>2
  <2>8. \A i \in 1..Len(merged') : Rank(merged'[i].from) < Depth'
    BY <1>1, <1>2, <2>2, <2>3, <2>5, <2>6, <2>7
  <2>9. ASSUME NEW i \in 1..Len(merged'), NEW j \in 1..Len(merged'), i < j
        PROVE  Rank(merged'[i].from) < Rank(merged'[j].from)
    <3>1. i \in 1..Len(merged)
      BY <2>2, <2>9
    <3>2. CASE j \in 1..Len(merged)
      BY <2>2, <2>9, <3>1, <3>2 DEF OrderInv, LayersInOrder
    <3>3. CASE j = Len(merged) + 1
      BY <2>2, <2>6, <3>1, <3>3
    <3> QED
      BY <2>7, <3>2, <3>3
  <2> QED
    BY <1>2, <2>4, <2>8, <2>9 DEF OrderInv, LayersInOrder, Lays
<1>3. ASSUME UNCHANGED <<place, merged>>, Depth <= Depth', pc' = "mergeMain" => place = "linked"
      PROVE  OrderInv'
  <2>1. Depth \in 1..5 /\ Depth' \in 1..5
    BY DEF Depth
  <2>2. \A x : Rank(x)' = Rank(x)
    BY <1>3 DEF Rank
  <2>3. \A i \in 1..Len(merged) : Rank(merged[i].from) \in 1..4
    BY <1>1, MergedHasOrigins
  <2>4. \A i \in 1..Len(merged) : Rank(merged[i].from) < Depth'
    BY <1>3, <2>1, <2>3 DEF OrderInv
  <2> QED
    BY <1>3, <2>2, <2>4 DEF OrderInv, LayersInOrder
<1>4. CASE Lays("embed", "embed", "global")
  BY <1>1, <1>2, <1>4 DEF Rank, Depth, Lays, Origins, Files, Places
<1>5. CASE Lays("global", "global", "freeze")
  BY <1>1, <1>2, <1>5 DEF Rank, Depth, Lays, Origins, Files, Places
<1>6. CASE Lays("main", "mergeMain", "checkHere")
  BY <1>1, <1>2, <1>6 DEF Rank, Depth, Lays, Origins, Files, Places, OrderInv
<1>7. CASE Lays(place, "mergeHere", "finish")
  BY <1>1, <1>2, <1>7 DEF Rank, Depth, Lays, Origins, Files, Places
<1>8. CASE \/ Skips("global", "global", "freeze") \/ Skips("main", "mergeMain", "checkHere")
           \/ Skips(place, "mergeHere", "finish")
  BY <1>3, <1>8 DEF Skips, Depth
<1>9. CASE Checks("main", "checkMain", "mergeMain", "checkHere") /\ place = "linked"
  BY <1>3, <1>9 DEF Checks, Depth
<1>10. CASE Passes \/ Checks(place, "checkHere", "mergeHere", "finish")
  BY <1>3, <1>10 DEF Passes, Checks, Depth
<1>11. CASE FreezeSwitch \/ Finish \/ Fails
  <2>1. UNCHANGED <<place, merged>> /\ Depth <= Depth' /\ pc' # "mergeMain"
    BY <1>11 DEF FreezeSwitch, Finish, Fails, Goto, Depth
  <2> QED
    BY <1>3, <2>1
<1>12. CASE (\E f \in Files : Changes(f)) \/ UNCHANGED vars
  <2>1. UNCHANGED <<pc, place, merged>>
    BY <1>12 DEF Changes, vars
  <2>2. Depth = Depth' /\ Depth \in 1..5
    BY <2>1 DEF Depth
  <2> QED
    BY <1>3, <2>1, <2>2 DEF OrderInv
<1> QED
  BY <1>4, <1>5, <1>6, <1>7, <1>8, <1>9, <1>10, <1>11, <1>12 DEF Moves

LEMMA TrackStep == TypeOK /\ TrackInv /\ Moves => TrackInv'
<1> SUFFICES ASSUME TypeOK, TrackInv, Moves PROVE TrackInv'
  OBVIOUS
<1>1. place \in Places
  BY DEF TypeOK
<1>2. ASSUME NEW origin \in Origins, NEW at, NEW next, Lays(origin, at, next),
             origin \in Places => origin \in exposed, next \notin {"mergeMain", "mergeHere"}
      PROVE  TrackInv'
  <2>1. PICK layer \in Layer : LayOver(origin, layer)
    BY <1>2 DEF Lays
  <2>2. /\ Len(merged) \in Nat /\ Len(merged') = Len(merged) + 1
        /\ \A i \in 1..Len(merged) : merged'[i] = merged[i]
        /\ merged'[Len(merged) + 1].from = origin
    BY <2>1, LayOverOutcome
  <2>3. \A i \in 1..Len(merged') : i \in 1..Len(merged) \/ i = Len(merged) + 1
    BY <2>2
  <2>4. \A i \in 1..Len(merged') : merged'[i].from \in Places => merged'[i].from \in exposed
    BY <1>2, <2>2, <2>3 DEF TrackInv, TrackedNeverLoads
  <2> QED
    BY <1>2, <2>4 DEF TrackInv, TrackedNeverLoads, Lays, world
<1>3. ASSUME UNCHANGED <<place, world, merged>>,
             pc' = "mergeMain" => "main" \in exposed, pc' = "mergeHere" => place \in exposed
      PROVE  TrackInv'
  BY <1>3 DEF TrackInv, TrackedNeverLoads, world
<1>4. CASE Lays("embed", "embed", "global") \/ Lays("global", "global", "freeze")
  BY <1>2, <1>4 DEF Origins, Files, Places
<1>5. CASE Lays("main", "mergeMain", "checkHere")
  BY <1>2, <1>5 DEF Origins, Files, Places, TrackInv, Lays
<1>6. CASE Lays(place, "mergeHere", "finish")
  BY <1>1, <1>2, <1>6 DEF Origins, Files, Places, TrackInv, Lays
<1>7. CASE \/ Skips("global", "global", "freeze") \/ Skips("main", "mergeMain", "checkHere")
           \/ Skips(place, "mergeHere", "finish")
  BY <1>3, <1>7 DEF Skips
<1>8. CASE Checks("main", "checkMain", "mergeMain", "checkHere") /\ place = "linked"
  BY <1>3, <1>8 DEF Checks, TrackInv, Files, Places
<1>9. CASE Passes \/ Checks(place, "checkHere", "mergeHere", "finish")
  BY <1>1, <1>3, <1>9 DEF Passes, Checks, TrackInv, Files
<1>10. CASE FreezeSwitch \/ Finish \/ Fails
  <2>1. UNCHANGED <<place, world, merged>> /\ pc' \notin {"mergeMain", "mergeHere"}
    BY <1>10 DEF FreezeSwitch, Finish, Fails, Goto
  <2> QED
    BY <1>3, <2>1
<1>11. ASSUME NEW f \in Files, Changes(f)
       PROVE  TrackInv'
  BY <1>11 DEF Changes, TrackInv, TrackedNeverLoads
<1>12. CASE UNCHANGED vars
  BY <1>12 DEF vars, world, TrackInv, TrackedNeverLoads
<1> QED
  BY <1>4, <1>5, <1>6, <1>7, <1>8, <1>9, <1>10, <1>11, <1>12 DEF Moves

\* The settings, through a step that lays a layer over.
LEMMA SettingsLaid ==
    ASSUME TypeOK, NEW origin \in Origins, NEW layer \in Layer, LayOver(origin, layer)
    PROVE  /\ LastSets(merged, Origins, "provider", DefaultBlock, cfg.provider) =>
                 LastSets(merged', Origins, "provider", DefaultBlock, cfg'.provider)
           /\ LastSets(merged, Origins, "path", None, cfg.path) =>
                 LastSets(merged', Origins, "path", None, cfg'.path)
           /\ origin \in Users /\ LastSets(merged, Users, "off", None, cfg.off) =>
                 LastSets(merged', Users, "off", None, cfg'.off)
           /\ origin \notin Users /\ LastSets(merged, Users, "off", None, frozen) =>
                 LastSets(merged', Users, "off", None, frozen)
<1> DEFINE m == [from |-> origin, layer |-> layer]
<1>1. /\ merged \in Seq(Merged) /\ m \in Merged /\ merged' = Append(merged, m)
      /\ cfg'.provider = Set(m.layer.provider, cfg.provider)
      /\ cfg'.off = Set(m.layer.off, cfg.off)
      /\ cfg'.path = Set(m.layer.path, cfg.path)
  BY LayOverOutcome
<1>2. m.from = origin
  OBVIOUS
<1> HIDE DEF m
<1>3. LastSets(merged, Origins, "provider", DefaultBlock, cfg.provider) =>
        LastSets(merged', Origins, "provider", DefaultBlock, cfg'.provider)
  BY <1>1, <1>2, LastAppended
<1>4. LastSets(merged, Origins, "path", None, cfg.path) =>
        LastSets(merged', Origins, "path", None, cfg'.path)
  BY <1>1, <1>2, LastAppended
<1>5. origin \in Users /\ LastSets(merged, Users, "off", None, cfg.off) =>
        LastSets(merged', Users, "off", None, cfg'.off)
  BY <1>1, <1>2, LastAppended
<1>6. origin \notin Users /\ LastSets(merged, Users, "off", None, frozen) =>
        LastSets(merged', Users, "off", None, frozen)
  BY <1>1, <1>2, LastAppended
<1> QED
  BY <1>3, <1>4, <1>5, <1>6

LEMMA SettingStep == TypeOK /\ SettingInv /\ Moves => SettingInv'
<1> SUFFICES ASSUME TypeOK, SettingInv, Moves PROVE SettingInv'
  OBVIOUS
<1>1. place \in Places /\ pc \in Locations
  BY DEF TypeOK
<1>2. ASSUME NEW origin \in Origins, NEW at, NEW next, Lays(origin, at, next),
             \/ origin \in Users /\ at \in Early /\ next \in Early
             \/ origin \notin Users /\ at \notin Early /\ next \notin Early,
             at \notin {"done", "failed"}, next \notin {"done", "failed"}
      PROVE  SettingInv'
  <2>1. PICK layer \in Layer : LayOver(origin, layer)
    BY <1>2 DEF Lays
  <2>2. pc = at /\ pc' = next /\ UNCHANGED frozen
    BY <1>2 DEF Lays
  <2> QED
    BY <1>2, <2>1, <2>2, SettingsLaid DEF SettingInv
<1>3. ASSUME UNCHANGED <<cfg, frozen, merged>>, pc' \in Early <=> pc \in Early,
             pc' = "failed" \/ (pc' = "done" <=> pc = "done"), pc = "failed" => pc' = "failed"
      PROVE  SettingInv'
  BY <1>3 DEF SettingInv
<1>4. CASE Lays("embed", "embed", "global") \/ Lays("global", "global", "freeze")
  BY <1>2, <1>4 DEF Origins, Users, Files, Early
<1>5. CASE Lays("main", "mergeMain", "checkHere") \/ Lays(place, "mergeHere", "finish")
  BY <1>1, <1>2, <1>5 DEF Origins, Users, Files, Places, Early
<1>6. CASE \/ Skips("global", "global", "freeze") \/ Skips("main", "mergeMain", "checkHere")
           \/ Skips(place, "mergeHere", "finish")
  BY <1>3, <1>6 DEF Skips, Early
<1>7. CASE \/ Checks("main", "checkMain", "mergeMain", "checkHere") \/ Passes
           \/ Checks(place, "checkHere", "mergeHere", "finish")
  BY <1>3, <1>7 DEF Checks, Passes, Early
<1>8. CASE FreezeSwitch
  BY <1>8 DEF FreezeSwitch, Goto, SettingInv, Early
<1>9. CASE Finish
  <2>1. /\ UNCHANGED <<frozen, merged>> /\ pc = "finish" /\ pc' \in {"done", "failed"}
        /\ cfg'.provider = cfg.provider /\ cfg'.off = frozen
        /\ cfg'.path = Set(cfg.path, DefaultPath)
    BY <1>9 DEF Finish, Goto, TypeOK, Config
  <2>2. LastSets(merged, Origins, "path", None, cfg.path) =>
          LastSets(merged, Origins, "path", DefaultPath, Set(cfg.path, DefaultPath))
    BY DEF LastSets, Set
  <2> QED
    BY <2>1, <2>2 DEF SettingInv, Early
<1>10. CASE Fails
  BY <1>10 DEF Fails, SettingInv, Early
<1>11. CASE (\E f \in Files : Changes(f)) \/ UNCHANGED vars
  <2>1. UNCHANGED <<pc, cfg, frozen, merged>>
    BY <1>11 DEF Changes, vars
  <2> QED
    BY <1>3, <2>1
<1> QED
  BY <1>4, <1>5, <1>6, <1>7, <1>8, <1>9, <1>10, <1>11 DEF Moves

LEMMA ListStep == TypeOK /\ ListInv /\ Moves => ListInv'
<1> SUFFICES ASSUME TypeOK, ListInv, Moves PROVE ListInv'
  OBVIOUS
<1>1. place \in Origins /\ {"embed", "global", "main"} \subseteq Origins
  BY DEF TypeOK, Origins, Files, Places
<1>2. ASSUME NEW origin \in Origins, NEW at, NEW next, Lays(origin, at, next)
      PROVE  ListInv'
  <2>1. PICK layer \in Layer : LayOver(origin, layer)
    BY <1>2 DEF Lays
  <2> DEFINE m == [from |-> origin, layer |-> layer]
  <2>2. /\ merged \in Seq(Merged) /\ m \in Merged /\ merged' = Append(merged, m)
        /\ cfg'.allow = Set(m.layer.allow, cfg.allow) \o m.layer.append
    BY <2>1, LayOverOutcome
  <2> HIDE DEF m
  <2>3. ListOf(merged') = Set(m.layer.allow, ListOf(merged)) \o m.layer.append
    BY <2>2, ListAppended
  <2>4. cfg'.allow = ListOf(merged')
    BY <2>2, <2>3 DEF ListInv
  <2> QED
    BY <2>4 DEF ListInv, ListOf, Base, Appended, SelectLastInSeq, FlattenSeq, Max
<1>3. ASSUME merged' = merged, cfg'.allow = cfg.allow
      PROVE  ListInv'
  <2>1. cfg'.allow = ListOf(merged')
    BY <1>3 DEF ListInv
  <2> QED
    BY <2>1 DEF ListInv, ListOf, Base, Appended, SelectLastInSeq, FlattenSeq, Max
<1>4. CASE \/ \E f, at, next : Skips(f, at, next)
           \/ \E f, at, yes, no : Checks(f, at, yes, no)
           \/ \E f \in Files : Changes(f)
           \/ FreezeSwitch \/ Passes \/ Fails \/ UNCHANGED vars
  BY <1>3, <1>4 DEF Skips, Checks, Changes, FreezeSwitch, Passes, Fails, vars
<1>5. CASE Finish
  BY <1>3, <1>5 DEF Finish, TypeOK, Config
<1> QED
  BY <1>1, <1>2, <1>4, <1>5 DEF Moves

LEMMA SwitchStep == TypeOK /\ OrderInv /\ SwitchInv /\ Moves => SwitchInv'
<1> SUFFICES ASSUME TypeOK, OrderInv, SwitchInv, Moves PROVE SwitchInv'
  OBVIOUS
<1>1. place \in Places /\ pc \in Locations
  BY DEF TypeOK
<1>2. ASSUME NEW origin \in Origins, NEW at, NEW next, Lays(origin, at, next),
             at \in Early \/ next \notin Early, next \notin {"checkMain", "mergeMain"},
             origin # "main" \/ place # "linked" \/ at = "mergeMain"
      PROVE  SwitchInv'
  <2>1. PICK layer \in Layer : LayOver(origin, layer)
    BY <1>2 DEF Lays
  <2>2. /\ Len(merged) \in Nat /\ Len(merged') = Len(merged) + 1
        /\ \A i \in 1..Len(merged) : merged'[i] = merged[i]
        /\ merged'[Len(merged) + 1].from = origin
    BY <2>1, LayOverOutcome
  <2>3. \A i \in 1..Len(merged') : i \in 1..Len(merged) \/ i = Len(merged) + 1
    BY <2>2
  <2>4. place = "linked" /\ frozen = TRUE => \A i \in 1..Len(merged') : merged'[i].from # "main"
    BY <1>2, <2>2, <2>3 DEF SwitchInv, Lays
  <2> QED
    BY <1>2, <2>4 DEF SwitchInv, Lays
<1>3. ASSUME UNCHANGED <<place, frozen, merged>>, pc \in Early \/ pc' \notin Early,
             pc' \in {"checkMain", "mergeMain"} => pc \in {"checkMain", "mergeMain"}
      PROVE  SwitchInv'
  BY <1>3 DEF SwitchInv
<1>4. CASE Lays("embed", "embed", "global") \/ Lays("global", "global", "freeze")
  <2>1. CASE Lays("embed", "embed", "global")
    BY <1>2, <2>1 DEF Origins, Early
  <2>2. CASE Lays("global", "global", "freeze")
    BY <1>2, <2>2 DEF Origins, Files, Early
  <2> QED
    BY <1>4, <2>1, <2>2
<1>5. CASE Lays("main", "mergeMain", "checkHere")
  BY <1>2, <1>5 DEF Origins, Files, Places, Early, Lays, SwitchInv
<1>6. CASE Lays(place, "mergeHere", "finish")
  BY <1>1, <1>2, <1>6 DEF Origins, Files, Early
<1>7. CASE \/ Skips("global", "global", "freeze") \/ Skips("main", "mergeMain", "checkHere")
           \/ Skips(place, "mergeHere", "finish")
  BY <1>3, <1>7 DEF Skips, Early
<1>8. CASE \/ Checks("main", "checkMain", "mergeMain", "checkHere") \/ Passes
           \/ Checks(place, "checkHere", "mergeHere", "finish")
  BY <1>3, <1>8 DEF Checks, Passes, Early
<1>9. CASE FreezeSwitch
  <2>1. /\ UNCHANGED <<place, merged>> /\ pc = "freeze" /\ frozen' = cfg.off
        /\ pc' = IF cfg.off = TRUE THEN "checkHere" ELSE "checkMain"
    BY <1>9 DEF FreezeSwitch, Goto
  <2>2. place = "linked" => Depth = 3 /\ Rank("main") = 3
    BY <2>1 DEF Depth, Rank
  <2>3. place = "linked" => \A i \in 1..Len(merged) : merged[i].from # "main"
    BY <2>2 DEF OrderInv
  <2> QED
    BY <2>1, <2>3 DEF SwitchInv, Early
<1>10. CASE Finish \/ Fails
  BY <1>3, <1>10 DEF Finish, Fails, Goto, Early
<1>11. CASE (\E f \in Files : Changes(f)) \/ UNCHANGED vars
  <2>1. UNCHANGED <<pc, place, frozen, merged>>
    BY <1>11 DEF Changes, vars
  <2> QED
    BY <1>3, <2>1
<1> QED
  BY <1>4, <1>5, <1>6, <1>7, <1>8, <1>9, <1>10, <1>11 DEF Moves

\* An excuse lasts, and so does a place in the result.
LEMMA CountedLasts ==
    ASSUME TypeOK, Moves, NEW f \in Files, Counted(f)
    PROVE  Counted(f)'
<1>1. ASSUME NEW origin \in Origins, NEW at, NEW next, Lays(origin, at, next)
      PROVE  Counted(f)'
  <2>1. PICK layer \in Layer : LayOver(origin, layer)
    BY <1>1 DEF Lays
  <2>2. /\ Len(merged) \in Nat /\ Len(merged') = Len(merged) + 1
        /\ \A i \in 1..Len(merged) : merged'[i] = merged[i]
    BY <2>1, LayOverOutcome
  <2>3. \A i \in 1..Len(merged) : i \in 1..Len(merged')
    BY <2>2
  <2> QED
    BY <1>1, <2>2, <2>3 DEF Lays, world, Counted, Excused
<1>2. ASSUME UNCHANGED <<world, merged>>, shaky \subseteq shaky'
      PROVE  Counted(f)'
  BY <1>2 DEF world, Counted, Excused
<1>3. ASSUME NEW at, NEW yes, NEW no, NEW g, Checks(g, at, yes, no)
      PROVE  Counted(f)'
  BY <1>2, <1>3 DEF Checks
<1>4. ASSUME NEW at, NEW next, NEW g, Skips(g, at, next)
      PROVE  Counted(f)'
  BY <1>2, <1>4 DEF Skips
<1>5. CASE FreezeSwitch \/ Finish \/ Fails \/ Passes
  BY <1>2, <1>5 DEF FreezeSwitch, Finish, Fails, Passes
<1>6. ASSUME NEW g \in Files, Changes(g)
      PROVE  Counted(f)'
  BY <1>6 DEF Changes, Counted, Excused
<1>7. CASE UNCHANGED vars
  BY <1>2, <1>7 DEF vars
<1>8. place \in Origins /\ {"embed", "global", "main"} \subseteq Origins
  BY DEF TypeOK, Origins, Files, Places
<1> QED
  BY <1>1, <1>3, <1>4, <1>5, <1>6, <1>7, <1>8 DEF Moves

LEMMA CountStep == TypeOK /\ CountInv /\ Moves => CountInv'
<1> SUFFICES ASSUME TypeOK, CountInv, Moves PROVE CountInv'
  OBVIOUS
<1> USE DEF Files, Places
<1>1. place \in Places /\ pc \in Locations
  BY DEF TypeOK
<1>2. \A f \in Files : Counted(f) => Counted(f)'
  BY CountedLasts
<1>3. ASSUME NEW f \in Files, NEW at, NEW next, Lays(f, at, next)
      PROVE  Counted(f)'
  <2>1. PICK layer \in Layer : LayOver(f, layer)
    BY <1>3 DEF Lays
  <2>2. /\ Len(merged) \in Nat /\ Len(merged') = Len(merged) + 1
        /\ merged'[Len(merged) + 1].from = f
    BY <2>1, LayOverOutcome DEF Origins
  <2>3. Len(merged) + 1 \in 1..Len(merged')
    BY <2>2
  <2> QED
    BY <2>2, <2>3 DEF Counted
<1>4. ASSUME NEW f \in Files, NEW at, NEW next, Skips(f, at, next)
      PROVE  Counted(f)'
  BY <1>4 DEF Skips, Counted, Excused, world
<1>5. ASSUME NEW f \in Files, NEW at, NEW yes, NEW no, Checks(f, at, yes, no), pc' # yes
      PROVE  Counted(f)'
  BY <1>5 DEF Checks, Counted
<1>6. ASSUME UNCHANGED <<place, frozen>>, pc' \notin {"embed", "global", "failed"} => Counted("global")',
             pc' \in {"checkHere", "mergeHere", "finish", "done"} /\ place = "linked" /\ frozen # TRUE
                => Counted("main")',
             pc' \in {"finish", "done"} => Counted(place)'
      PROVE  CountInv'
  <2>1. place' = place
    BY <1>6
  <2>2. pc' \in {"finish", "done"} => \A f : f = place => Counted(f)'
    BY <1>6
  <2> QED
    BY <1>6, <2>1, <2>2 DEF CountInv, Counted, Excused
<1>7. CASE Lays("embed", "embed", "global")
  BY <1>6, <1>7 DEF Lays
<1>8. CASE Lays("global", "global", "freeze") \/ Skips("global", "global", "freeze")
  <2>1. Counted("global")' /\ pc' = "freeze" /\ UNCHANGED <<place, frozen>>
    BY <1>3, <1>4, <1>8 DEF Lays, Skips
  <2> QED
    BY <1>6, <2>1
<1>9. CASE FreezeSwitch
  <2>1. /\ UNCHANGED place /\ pc = "freeze" /\ frozen' = cfg.off
        /\ pc' = IF cfg.off = TRUE THEN "checkHere" ELSE "checkMain"
    BY <1>9 DEF FreezeSwitch, Goto
  <2>2. Counted("global")'
    BY <1>2, <2>1 DEF CountInv
  <2> QED
    BY <2>1, <2>2 DEF CountInv, Counted, Excused
<1>10. CASE Checks("main", "checkMain", "mergeMain", "checkHere") /\ place = "linked"
  <2>1. /\ pc = "checkMain" /\ pc' \in {"mergeMain", "checkHere"} /\ UNCHANGED <<place, frozen>>
    BY <1>10 DEF Checks
  <2>2. Counted("global")' /\ (pc' = "checkHere" => Counted("main")')
    BY <1>2, <1>5, <1>10, <2>1 DEF CountInv
  <2> QED
    BY <1>6, <2>1, <2>2
<1>11. CASE Passes
  BY <1>2, <1>6, <1>11 DEF Passes, CountInv
<1>12. CASE Lays("main", "mergeMain", "checkHere") \/ Skips("main", "mergeMain", "checkHere")
  <2>1. /\ Counted("main")' /\ pc = "mergeMain" /\ pc' = "checkHere" /\ UNCHANGED <<place, frozen>>
    BY <1>3, <1>4, <1>12 DEF Lays, Skips
  <2>2. Counted("global")'
    BY <1>2, <2>1 DEF CountInv
  <2> QED
    BY <1>6, <2>1, <2>2
<1>13. CASE Checks(place, "checkHere", "mergeHere", "finish")
  <2>1. pc = "checkHere" /\ pc' \in {"mergeHere", "finish"} /\ UNCHANGED <<place, frozen>>
    BY <1>13 DEF Checks
  <2>2. /\ Counted("global")' /\ (place = "linked" /\ frozen # TRUE => Counted("main")')
    BY <1>2, <2>1 DEF CountInv
  <2>3. pc' = "finish" => \A f : f = place => Counted(f)'
    BY <1>1, <1>5, <1>13, <2>1
  <2>4. pc' = "finish" => Counted(place)'
    BY <2>1, <2>3 DEF Counted, Excused
  <2> QED
    BY <1>6, <2>1, <2>2, <2>4
<1>14. CASE Lays(place, "mergeHere", "finish") \/ Skips(place, "mergeHere", "finish")
  <2>1. pc = "mergeHere" /\ pc' = "finish" /\ UNCHANGED <<place, frozen>>
    BY <1>14 DEF Lays, Skips
  <2>2. /\ Counted("global")' /\ (place = "linked" /\ frozen # TRUE => Counted("main")')
    BY <1>2, <2>1 DEF CountInv
  <2>3. \A f : f = place => Counted(f)'
    BY <1>1, <1>3, <1>4, <1>14
  <2>4. Counted(place)'
    BY <2>1, <2>3 DEF Counted, Excused
  <2> QED
    BY <1>6, <2>1, <2>2, <2>4
<1>15. ASSUME UNCHANGED <<place, frozen>>,
              pc' = pc \/ pc' = "failed" \/ (pc = "finish" /\ pc' = "done")
       PROVE  CountInv'
  <2>1. \A f : f = place => (Counted(f) => Counted(f)')
    BY <1>1, <1>2
  <2>2. Counted(place) => Counted(place)'
    BY <1>15, <2>1 DEF Counted, Excused
  <2> QED
    BY <1>2, <1>6, <1>15, <2>2 DEF CountInv
<1>16. CASE Finish \/ Fails \/ (\E f \in Files : Changes(f)) \/ UNCHANGED vars
  <2>1. /\ UNCHANGED <<place, frozen>>
        /\ pc' = pc \/ pc' = "failed" \/ (pc = "finish" /\ pc' = "done")
    BY <1>16 DEF Finish, Fails, Changes, vars, Goto
  <2> QED
    BY <1>15, <2>1
<1> QED
  BY <1>7, <1>8, <1>9, <1>10, <1>11, <1>12, <1>13, <1>14, <1>16 DEF Moves

-----------------------------------------------------------------------------

ConfigInv ==
    TypeOK /\ OrderInv /\ TrackInv /\ SettingInv /\ ListInv /\ SwitchInv /\ CountInv

LEMMA ConfigInit == Init => ConfigInv
<1> SUFFICES ASSUME Init PROVE ConfigInv
  OBVIOUS
<1>1. TypeOK
  BY ConfigAssumption, EmptySeq DEF Init, TypeOK, Locations, Config, Visible, Files, Places
<1>2. Len(merged) = 0 /\ 1..Len(merged) = {}
  BY DEF Init
<1>3. OrderInv
  BY <1>2 DEF Init, OrderInv, LayersInOrder
<1>4. TrackInv
  BY <1>2 DEF Init, TrackInv, TrackedNeverLoads
<1>5. SettingInv
  BY <1>2 DEF Init, SettingInv, LastSets, Early
<1>6. SwitchInv /\ CountInv
  BY <1>2, ConfigAssumption DEF Init, SwitchInv, CountInv, Early
<1>7. ListInv
  <2>1. Replacing(<<>>) = {} /\ <<>> \in Seq(Merged)
    BY DEF Replacing
  <2>2. Base(<<>>) = 0
    BY <2>1, BaseIsLast
  <2>3. Appended(<<>>) = <<>>
    BY DEF Appended
  <2>4. FlattenSeq(<<>>) = <<>>
    BY DEF FlattenSeq
  <2>5. ListOf(<<>>) = <<>> \o <<>>
    BY <2>2, <2>3, <2>4 DEF ListOf
  <2> QED
    BY <2>5 DEF Init, ListInv
<1> QED
  BY <1>1, <1>3, <1>4, <1>5, <1>6, <1>7 DEF ConfigInv

LEMMA ConfigCorrect == Spec => []ConfigInv
<1>1. ConfigInv /\ [Next]_vars => ConfigInv'
  BY TypeStep, StepMoves, OrderStep, TrackStep, SettingStep, ListStep,
     SwitchStep, CountStep DEF ConfigInv
<1> QED
  BY ConfigInit, <1>1, PTL DEF Spec

\* Every variable of the loader stays within its type.
THEOREM ConfigTypeCorrect == Spec => []TypeOK
<1>1. ConfigInv => TypeOK
  BY DEF ConfigInv
<1> QED
  BY ConfigCorrect, <1>1, PTL

\* Load lays the layers in the documented order and none twice.
THEOREM LayersOrdered == Spec => []LayersInOrder
<1>1. ConfigInv => LayersInOrder
  BY DEF ConfigInv, OrderInv
<1> QED
  BY ConfigCorrect, <1>1, PTL

\* mergeConfigJSON leaves the last layer's whole provider block, and the last
\* setting of a scalar.
THEOREM LastLayerPrevails == Spec => []LastLayerWins
<1>1. ConfigInv => LastLayerWins
  BY DEF ConfigInv, SettingInv, LastLayerWins
<1> QED
  BY ConfigCorrect, <1>1, PTL

\* mergeConfigJSON loses, doubles and revives no entry of a list.
THEOREM ListsAreComposed == Spec => []ListsCompose
<1>1. ConfigInv => ListsCompose
  BY DEF ConfigInv, ListInv, ListsCompose
<1> QED
  BY ConfigCorrect, <1>1, PTL

\* Only the embedded and global layers decide about the main worktree's file.
THEOREM SwitchStaysWithUser == Spec => []KillSwitchIsTheUsers
<1>1. ConfigInv => KillSwitchIsTheUsers
  BY DEF ConfigInv, SettingInv, SwitchInv, KillSwitchIsTheUsers, Early
<1> QED
  BY ConfigCorrect, <1>1, PTL

\* safeUntrackedPaths fails closed: no file that is tracked throughout the
\* load is ever a layer.
THEOREM TrackedStaysOut == Spec => []TrackedNeverLoads
<1>1. ConfigInv => TrackedNeverLoads
  BY DEF ConfigInv, TrackInv
<1> QED
  BY ConfigCorrect, <1>1, PTL

\* Load drops no layer that it could read: it uses it, or it fails.
THEOREM NoLayerDropped == Spec => []UntouchedFilesCount
<1>1. ConfigInv => UntouchedFilesCount
  BY DEF ConfigInv, TypeOK, CountInv, Counted, Excused, UntouchedFilesCount, Visible, Places
<1> QED
  BY ConfigCorrect, <1>1, PTL

=============================================================================
