---------------------- MODULE KeystoreRefinementProofs ----------------------
(***************************************************************************)
(* Keystore implements CredentialService, for any number of fires and any  *)
(* fault: every step maps to a step of the service or to a stutter.        *)
(***************************************************************************)
EXTENDS KeystoreProofs

\* Moving one fire moves its phase and its answer, and nobody else's.
LEMMA MoveOne ==
    ASSUME TypeOK, NEW f \in Fires, NEW w, NEW c,
           pc' = [pc EXCEPT ![f] = w], held' = [held EXCEPT ![f] = c]
    PROVE  Service!Becomes(f, PhaseOf(w, c), c)
<1>1. Phases' = [Phases EXCEPT ![f] = PhaseOf(w, c)]
  BY DEF Phases, TypeOK
<1> QED
  BY <1>1 DEF Service!Becomes

LEMMA MoveKeeping ==
    ASSUME TypeOK, NEW f \in Fires, NEW w, pc' = [pc EXCEPT ![f] = w], held' = held
    PROVE  Service!Becomes(f, PhaseOf(w, held[f]), held[f])
<1>1. held' = [held EXCEPT ![f] = held[f]]
  BY DEF TypeOK
<1> QED
  BY <1>1, MoveOne

\* A move within a phase that keeps the answer is not seen.
LEMMA MoveUnseen ==
    ASSUME TypeOK, NEW f \in Fires, NEW w, pc' = [pc EXCEPT ![f] = w], held' = held,
           PhaseOf(w, held[f]) = Phases[f], UNCHANGED <<clock, cache, look>>
    PROVE  UNCHANGED Service!vars
<1>1. Phases' = [Phases EXCEPT ![f] = PhaseOf(w, held[f])]
  BY MoveKeeping DEF Service!Becomes
<1>2. Phases' = Phases
  BY <1>1 DEF Phases
<1> QED
  BY <1>2 DEF Service!vars, Slot, Blind

\* What a fire that moves to phase p, perhaps after a look, makes of Blind.
LEMMA BlindMoves ==
    ASSUME TypeOK, NEW f \in Fires, NEW p, NEW c, NEW how \in Looks,
           Service!Becomes(f, p, c), look' = [look EXCEPT ![f] = how]
    PROVE  Blind' = IF how # "sound" /\ p \in Unsettled THEN Blind \union {f} ELSE Blind \ {f}
  BY DEF Service!Becomes, TypeOK, Blind, Phases

\* A fire that is settled is not blind.
LEMMA SettledSees ==
    ASSUME TypeOK, NEW f \in Fires, NEW p, NEW c, Service!Becomes(f, p, c), p \notin Unsettled,
           look' = look \/ \E how \in Looks : look' = [look EXCEPT ![f] = how]
    PROVE  Service!Sees(f)
<1>1. \E how \in Looks : look' = [look EXCEPT ![f] = how]
  <2>1. look[f] \in Looks /\ look = [look EXCEPT ![f] = look[f]]
    BY DEF TypeOK
  <2> QED
    BY <2>1
<1> QED
  BY <1>1, BlindMoves DEF Service!Sees

\* A fire that goes on without a look is as blind as before.
LEMMA BlindKept ==
    ASSUME TypeOK, NEW f \in Fires, NEW p, NEW c, Service!Becomes(f, p, c), look' = look,
           Phases[f] \in Unsettled <=> p \in Unsettled
    PROVE  UNCHANGED Blind
  BY DEF Service!Becomes, Blind, Phases

LEMMA SlotUsable == Service!Usable(Slot) <=> Usable(cache)
  BY KeystoreAssumption DEF Service!Usable, Service!Credential, Usable, Fresh, Slot, Credential

LEMMA SlotKept == UNCHANGED cache => UNCHANGED Slot
  BY DEF Slot

LEMMA SlotEmptied == cache' = None => Slot' = None
  BY KeystoreAssumption DEF Slot

RefBase == RenewInv /\ EmptyHands /\ LossInv

\* Steps of a waiting fire that only move it on, or make it give up.
LEMMA WaitSteps ==
    ASSUME RefBase, NEW f \in Fires, Start(f) \/ PrepareDir(f) \/ TryLock(f) \/ Backoff(f)
    PROVE  [Service!Next]_(Service!vars)
<1> USE DEF RefBase, RenewInv, TypeInv
<1>1. /\ pc[f] \in {"idle", "dir", "lock", "backoff"}
      /\ UNCHANGED <<clock, cache, held, look>>
      /\ \E w \in {"fast", "over", "lock", "check", "backoff", "reread"} : Goto(f, w)
  BY DEF Start, PrepareDir, TryLock, Backoff, ghosts
<1>2. PICK w \in {"fast", "over", "lock", "check", "backoff", "reread"} : Goto(f, w)
  BY <1>1
<1>3. held[f] = None /\ Phases[f] = "waiting"
  BY <1>1 DEF EmptyHands, Carrying, Phases, PhaseOf, Final
<1>4. CASE w = "over"
  <2>1. Service!Becomes(f, "over", None)
    BY <1>1, <1>2, <1>3, <1>4, MoveKeeping DEF Goto, PhaseOf, Final
  <2>2. Service!Sees(f)
    BY <1>1, <2>1, SettledSees DEF Unsettled
  <2> QED
    BY <1>1, <1>3, <2>1, <2>2, SlotKept DEF Service!Next, Service!Fail
<1>5. CASE w # "over"
  <2>1. PhaseOf(w, held[f]) = "waiting"
    BY <1>2, <1>5 DEF PhaseOf, Final
  <2> QED
    BY <1>1, <1>2, <1>3, <2>1, MoveUnseen DEF Goto
<1> QED
  BY <1>4, <1>5

\* A hit hands out the slot, which is usable at that instant.
LEMMA HitStep ==
    ASSUME RefBase, NEW f \in Fires, pc[f] \in {"fast", "reread", "check"},
           Usable(cache), Hold(f, cache), NEW w \in {"resolved", "release"}, Goto(f, w),
           UNCHANGED <<clock, cache>>, Saw(f, "sound")
    PROVE  Service!Next
<1> USE DEF RefBase, RenewInv, TypeInv
<1>1. Phases[f] = "waiting"
  BY DEF Phases, PhaseOf, Final
<1>2. cache \in Credential /\ cache # None /\ Slot = cache
  BY KeystoreAssumption DEF Usable, Slot
<1>3. Service!Becomes(f, "served", Slot)
  BY <1>2, MoveOne DEF Goto, Hold, PhaseOf, Final
<1>4. Service!Sees(f)
  BY <1>3, SettledSees DEF Saw, Looks, Unsettled
<1> QED
  BY <1>1, <1>3, <1>4, SlotUsable, SlotKept DEF Service!Next, Service!Serve

\* The lock makes a renewal the only one.
LEMMA NobodyRenews ==
    ASSUME RefBase, NEW f \in Fires, pc[f] \in {"check", "unlinkCheck"}
    PROVE  \A g \in Fires : ~Service!Renewing(g)
<1>1. \A g \in Fires : pc[g] \notin {"exec", "helper", "vet", "write", "rename"}
  BY KeystoreAssumption DEF RefBase, RenewInv, TypeInv, TypeOK, LockInv, Critical
<1>2. \A g \in Fires : PhaseOf(pc[g], held[g]) \notin {"renewing", "vetted"}
  BY <1>1 DEF PhaseOf, Final
<1> QED
  BY <1>2 DEF Service!Renewing, Phases

\* A fire that waits on stays where it is.
LEMMA WaitsOn ==
    ASSUME TypeOK, NEW f \in Fires, Phases[f] = "waiting", held[f] = None,
           Service!Becomes(f, "waiting", None)
    PROVE  UNCHANGED <<Phases, held>>
  BY DEF Service!Becomes, Phases, TypeOK

LEMMA ReadSteps ==
    ASSUME RefBase, NEW f \in Fires, FastPath(f) \/ Reread(f) \/ Check(f)
    PROVE  [Service!Next]_(Service!vars)
<1> USE DEF RefBase, RenewInv, TypeInv
<1>1. /\ pc[f] \in {"fast", "reread", "check"}
      /\ UNCHANGED <<clock, cache>>
  BY DEF FastPath, Reread, Check, ReadCacheValid
<1>2. held[f] = None /\ Phases[f] = "waiting"
  BY <1>1 DEF EmptyHands, Carrying, Phases, PhaseOf, Final
<1>3. CASE /\ Usable(cache) /\ Hold(f, cache) /\ Saw(f, "sound")
           /\ Goto(f, "resolved") \/ Goto(f, "release")
  BY <1>1, <1>3, HitStep
<1>4. CASE held' = held /\ ~Usable(cache) /\ Saw(f, "sound") /\ Goto(f, "dir")
  <2>1. Service!Becomes(f, "waiting", None)
    BY <1>2, <1>4, MoveKeeping DEF Goto, PhaseOf, Final
  <2>2. Service!Sees(f)
    BY <1>4, <2>1, BlindMoves DEF Saw, Looks, Service!Sees
  <2> QED
    BY <1>1, <1>2, <1>4, <2>1, <2>2, WaitsOn, SlotUsable, SlotKept
       DEF Service!Next, Service!Miss
<1>5. CASE held' = held /\ Saw(f, "sound") /\ Goto(f, "over")
  <2>1. Service!Becomes(f, "over", None)
    BY <1>2, <1>5, MoveKeeping DEF Goto, PhaseOf, Final
  <2>2. Service!Sees(f)
    BY <1>5, <2>1, SettledSees DEF Saw, Looks, Unsettled
  <2> QED
    BY <1>1, <1>2, <2>1, <2>2, SlotKept DEF Service!Next, Service!Fail
<1>6. CASE /\ pc[f] = "check" /\ held' = held /\ ~Usable(cache)
           /\ Saw(f, "sound") /\ Goto(f, "exec")
  <2>1. Service!Becomes(f, "renewing", None)
    BY <1>2, <1>6, MoveKeeping DEF Goto, PhaseOf, Final
  <2>2. Service!Sees(f)
    BY <1>6, <2>1, BlindMoves DEF Saw, Looks, Service!Sees
  <2> QED
    BY <1>1, <1>2, <1>6, <2>1, <2>2, SlotUsable, SlotKept, NobodyRenews
       DEF Service!Next, Service!Renew
<1>7. CASE /\ held' = held /\ (Saw(f, "damaged") \/ Saw(f, "failed"))
           /\ \E w \in Unlinks : Goto(f, w)
  <2>1. Service!Becomes(f, "waiting", None)
    BY <1>2, <1>7, MoveKeeping DEF Goto, Unlinks, PhaseOf, Final
  <2>2. Blind' = Blind \union {f}
    BY <1>7, <2>1, BlindMoves DEF Saw, Looks, Unsettled
  <2> QED
    BY <1>1, <1>2, <2>1, <2>2, WaitsOn, SlotKept DEF Service!Next, Service!Misread
<1> QED
  BY <1>3, <1>4, <1>5, <1>6, <1>7 DEF FastPath, Reread, Check, ReadCacheValid, Unlinks

LEMMA UnlinkSteps ==
    ASSUME RefBase, NEW f \in Fires, FastPathUnlink(f) \/ RereadUnlink(f) \/ CheckUnlink(f)
    PROVE  [Service!Next]_(Service!vars)
<1> USE DEF RefBase, RenewInv, TypeInv
<1>1. /\ pc[f] \in Unlinks
      /\ UNCHANGED <<clock, held, look>> /\ (cache' = cache \/ cache' = None)
  BY DEF FastPathUnlink, RereadUnlink, CheckUnlink, UnlinkCache, Unlinks
<1>2. held[f] = None /\ Phases[f] = "waiting"
  BY <1>1 DEF EmptyHands, Carrying, Phases, PhaseOf, Unlinks, Final
<1>3. Slot' = Slot \/ Slot' = None
  BY <1>1, SlotKept, SlotEmptied
<1>4. f \in Blind
  BY <1>1, <1>2 DEF LossInv, Blind, Unsettled
<1>5. CASE Goto(f, "dir")
  <2>1. Service!Becomes(f, "waiting", None)
    BY <1>1, <1>2, <1>5, MoveKeeping DEF Goto, PhaseOf, Final
  <2>2. UNCHANGED <<Phases, held, Blind>>
    BY <1>1, <1>2, <2>1, WaitsOn, BlindKept
  <2> QED
    BY <1>1, <1>2, <1>3, <1>4, <2>2 DEF Service!Next, Service!DiscardDamaged, Service!vars
<1>6. CASE Goto(f, "over")
  <2>1. Service!Becomes(f, "over", None)
    BY <1>1, <1>2, <1>6, MoveKeeping DEF Goto, PhaseOf, Final
  <2>2. Service!Sees(f)
    BY <1>1, <2>1, SettledSees DEF Unsettled
  <2> QED
    BY <1>1, <1>2, <1>3, <1>4, <2>1, <2>2
       DEF Service!Next, Service!DiscardDamaged, Service!Fail
<1>7. CASE pc[f] = "unlinkCheck" /\ Goto(f, "exec")
  <2>1. Service!Becomes(f, "renewing", None)
    BY <1>1, <1>2, <1>7, MoveKeeping DEF Goto, PhaseOf, Final
  <2>2. UNCHANGED Blind
    BY <1>1, <1>2, <2>1, BlindKept DEF Unsettled
  <2> QED
    BY <1>1, <1>2, <1>3, <1>4, <1>7, <2>1, <2>2, NobodyRenews
       DEF Service!Next, Service!DiscardDamaged, Service!Renew
<1> QED
  BY <1>5, <1>6, <1>7 DEF FastPathUnlink, RereadUnlink, CheckUnlink, UnlinkCache

\* The helper is started, answers, fails or is killed.
LEMMA HelperSteps ==
    ASSUME RefBase, NEW f \in Fires,
           StartHelper(f) \/ HelperPrints(f) \/ HelperFails(f) \/ KillHelper(f)
    PROVE  [Service!Next]_(Service!vars)
<1> USE DEF RefBase, RenewInv, TypeInv
<1>1. /\ pc[f] \in {"exec", "helper"}
      /\ UNCHANGED <<clock, cache, look>>
  BY DEF StartHelper, HelperPrints, HelperFails, KillHelper, ghosts
<1>2. held[f] = None /\ Phases[f] = "renewing"
  BY <1>1 DEF EmptyHands, Carrying, Phases, PhaseOf, Final
<1>3. CASE held' = held /\ Goto(f, "helper")
  <2>1. PhaseOf("helper", held[f]) = "renewing"
    BY DEF PhaseOf, Final
  <2> QED
    BY <1>1, <1>2, <1>3, <2>1, MoveUnseen DEF Goto
<1>4. CASE held' = held /\ Goto(f, "release")
  <2>1. Service!Becomes(f, "over", None)
    BY <1>2, <1>4, MoveKeeping DEF Goto, PhaseOf, Final
  <2>2. Service!Sees(f)
    BY <1>1, <2>1, SettledSees DEF Unsettled
  <2> QED
    BY <1>1, <1>2, <2>1, <2>2, SlotKept DEF Service!Next, Service!Fail
<1>5. CASE HelperPrints(f)
  <2>1. PICK c \in Credential : c # None /\ held' = [held EXCEPT ![f] = c]
    BY <1>5, HelperCredential
  <2>2. Service!Becomes(f, "renewing", c)
    BY <1>5, <2>1, MoveOne DEF HelperPrints, Goto, PhaseOf, Final
  <2>3. held'[f] = c /\ UNCHANGED Phases
    BY <1>2, <2>1, <2>2 DEF Service!Becomes, Phases, TypeOK
  <2>4. UNCHANGED Blind
    BY <1>1, <2>3 DEF Blind
  <2> QED
    BY <1>1, <1>2, <2>1, <2>3, <2>4, SlotKept
       DEF Service!Next, Service!Obtain, Service!Credential, Credential
<1> QED
  BY <1>3, <1>4, <1>5 DEF StartHelper, HelperFails, KillHelper

\* The payload is vetted, stored or kept.
LEMMA StoreSteps ==
    ASSUME RefBase, NEW f \in Fires, CheckFresh(f) \/ WriteTemp(f) \/ RenameTemp(f)
    PROVE  [Service!Next]_(Service!vars)
<1> USE DEF RefBase, RenewInv, TypeInv
<1>1. pc[f] \in {"vet", "write", "rename"} /\ UNCHANGED <<clock, look>>
  BY DEF CheckFresh, WriteTemp, RenameTemp, ghosts
<1>2. held[f] \in Credential /\ held[f] # None
  BY <1>1 DEF TypeOK, HandsFull, Carrying
<1>3. /\ pc[f] = "vet" => Phases[f] = "renewing"
      /\ pc[f] \in {"write", "rename"} => Phases[f] = "vetted"
  BY DEF Phases, PhaseOf, Final
<1>4. held' = held /\ Goto(f, "release") =>
         Service!Becomes(f, "served", held[f]) /\ Service!Sees(f)
  <2> SUFFICES ASSUME held' = held, Goto(f, "release")
               PROVE  Service!Becomes(f, "served", held[f]) /\ Service!Sees(f)
    OBVIOUS
  <2>1. Service!Becomes(f, "served", held[f])
    BY <1>2, MoveKeeping DEF Goto, PhaseOf, Final
  <2> QED
    BY <1>1, <2>1, SettledSees DEF Unsettled
<1>5. CASE CheckFresh(f)
  <2>1. CASE held[f].exp = 0 /\ Goto(f, "release") /\ held' = held
    BY <1>1, <1>2, <1>3, <1>4, <1>5, <2>1, SlotKept
       DEF CheckFresh, Service!Next, Service!KeepPrivate
  <2>2. CASE Fresh(held[f]) /\ Goto(f, "write") /\ held' = held
    <3>1. Service!Becomes(f, "vetted", held[f])
      BY <2>2, MoveKeeping DEF Goto, PhaseOf, Final
    <3>2. UNCHANGED Blind
      BY <1>1, <1>3, <1>5, <3>1, BlindKept DEF CheckFresh, Unsettled
    <3> QED
      BY <1>2, <1>3, <1>5, <2>2, <3>1, <3>2, SlotKept
         DEF CheckFresh, Fresh, Service!Next, Service!Vet, Service!Usable,
             Service!Credential, Credential
  <2>3. CASE held[f].exp # 0 /\ ~Fresh(held[f]) /\ Goto(f, "release") /\ Hold(f, None)
    <3>1. Service!Becomes(f, "over", None)
      BY <2>3, MoveOne DEF Goto, Hold, PhaseOf, Final
    <3>2. Service!Sees(f)
      BY <1>1, <3>1, SettledSees DEF Unsettled
    <3>3. ~Service!Usable(held[f])
      BY <2>3 DEF Fresh, Service!Usable
    <3> QED
      BY <1>1, <1>3, <1>5, <2>3, <3>1, <3>2, <3>3, SlotKept
         DEF CheckFresh, Service!Next, Service!Fail
  <2> QED
    BY <1>5, <2>1, <2>2, <2>3 DEF CheckFresh
<1>6. CASE WriteTemp(f)
  <2>1. CASE Goto(f, "rename")
    <3>1. PhaseOf("rename", held[f]) = "vetted"
      BY DEF PhaseOf, Final
    <3> QED
      BY <1>1, <1>3, <1>6, <2>1, <3>1, MoveUnseen DEF WriteTemp, Goto
  <2>2. CASE Goto(f, "release")
    BY <1>3, <1>4, <1>6, <2>2, SlotKept DEF WriteTemp, Service!Next, Service!KeepPrivate
  <2> QED
    BY <1>6, <2>1, <2>2 DEF WriteTemp
<1>7. CASE RenameTemp(f)
  <2>1. Service!Becomes(f, "served", held[f]) /\ Service!Sees(f)
    BY <1>4, <1>7 DEF RenameTemp
  <2>2. CASE cache' = held[f]
    <3>1. Slot' = held[f]
      BY <1>2, <2>2 DEF Slot
    <3>2. ~Usable(cache) \/ f \in Blind
      BY <1>3, <1>7 DEF RenameTemp, RenewsOnlyWithoutUsable, Blind, Unsettled
    <3> QED
      BY <1>1, <1>3, <1>7, <2>1, <3>1, <3>2, SlotUsable
         DEF RenameTemp, Service!Next, Service!Publish
  <2>3. CASE UNCHANGED cache
    BY <1>1, <1>3, <1>7, <2>1, <2>3, SlotKept
       DEF RenameTemp, Service!Next, Service!KeepPrivate
  <2> QED
    BY <1>7, <2>2, <2>3 DEF RenameTemp
<1> QED
  BY <1>5, <1>6, <1>7

\* The Result is returned, used and perhaps refused.
LEMMA UseSteps ==
    ASSUME RefBase, NEW f \in Fires,
           Release(f) \/ Accepted(f) \/ Rejected(f) \/ Invalidate(f)
    PROVE  [Service!Next]_(Service!vars)
<1> USE DEF RefBase, RenewInv, TypeInv
<1>1. UNCHANGED <<clock, look>>
  BY DEF Release, Accepted, Rejected, Invalidate, ghosts
<1>2. CASE Release(f)
  <2>1. CASE held[f] = None
    <3>1. PhaseOf("over", held[f]) = "over" /\ Phases[f] = "over"
      BY <1>2, <2>1 DEF Release, PhaseOf, Phases, Final
    <3> QED
      BY <1>2, <2>1, <3>1, MoveUnseen DEF Release, Goto, ghosts
  <2>2. CASE held[f] # None
    <3>1. PhaseOf("resolved", held[f]) = "served" /\ Phases[f] = "served"
      BY <1>2, <2>2 DEF Release, PhaseOf, Phases, Final
    <3> QED
      BY <1>2, <2>2, <3>1, MoveUnseen DEF Release, Goto, ghosts
  <2> QED
    BY <2>1, <2>2
<1>3. pc[f] \in {"resolved", "invalidate"} => Phases[f] = "served"
  BY DEF PhaseOf, Phases, Final
<1>4. pc[f] \in {"resolved", "invalidate"} /\ Goto(f, "over") /\ Hold(f, None) =>
         Service!Becomes(f, "over", None) /\ UNCHANGED Blind
  <2> SUFFICES ASSUME pc[f] \in {"resolved", "invalidate"}, Goto(f, "over"), Hold(f, None)
               PROVE  Service!Becomes(f, "over", None) /\ UNCHANGED Blind
    OBVIOUS
  <2>1. Service!Becomes(f, "over", None)
    BY MoveOne DEF Goto, Hold, PhaseOf, Final
  <2> QED
    BY <1>1, <1>3, <2>1, BlindKept DEF Unsettled
<1>5. CASE Accepted(f)
  BY <1>1, <1>3, <1>4, <1>5, SlotKept DEF Accepted, Service!Next, Service!Leave
<1>6. CASE Rejected(f)
  <2>1. PhaseOf("invalidate", held[f]) = "served"
    BY DEF PhaseOf, Final
  <2> QED
    BY <1>3, <1>6, <2>1, MoveUnseen DEF Rejected, Goto, ghosts
<1>7. CASE Invalidate(f)
  <2>1. Service!Becomes(f, "over", None) /\ Phases[f] = "served" /\ UNCHANGED Blind
    BY <1>3, <1>4, <1>7 DEF Invalidate
  <2>2. CASE cache' = None
    BY <1>1, <2>1, <2>2, SlotEmptied DEF Service!Next, Service!LeaveAndDiscard
  <2>3. CASE UNCHANGED cache
    BY <1>1, <2>1, <2>3, SlotKept DEF Service!Next, Service!Leave
  <2> QED
    BY <1>7, <2>2, <2>3 DEF Invalidate
<1> QED
  BY <1>2, <1>5, <1>6, <1>7

LEMMA CrashStep ==
    ASSUME RefBase, NEW f \in Fires, Crash(f)
    PROVE  [Service!Next]_(Service!vars)
<1> USE DEF RefBase, RenewInv, TypeInv
<1>1. Service!Becomes(f, "dead", None)
  BY MoveOne DEF Crash, Goto, Hold, PhaseOf, Final
<1>2. UNCHANGED <<clock, look, Slot>>
  BY SlotKept DEF Crash, ghosts
<1>3. Service!Sees(f)
  BY <1>1, <1>2, SettledSees DEF Unsettled
<1>4. Phases[f] # "dead"
  BY DEF Crash, Phases, PhaseOf, Final
<1> QED
  BY <1>1, <1>2, <1>3, <1>4 DEF Service!Next, Service!Die

LEMMA EnvironmentSteps ==
    ASSUME RefBase,
           \/ Tick \/ UNCHANGED vars
           \/ \E f \in Fires : OrphanExits(f) \/ Cancel(f)
    PROVE  [Service!Next]_(Service!vars)
<1>1. UNCHANGED <<pc, held, cache, look>> /\ (clock' = clock \/ clock' = clock + 1)
  BY DEF Tick, vars, OrphanExits, Cancel, ghosts
<1>2. UNCHANGED <<Phases, Slot, held, Blind>>
  BY <1>1 DEF Phases, Slot, Blind
<1> QED
  BY <1>1, <1>2 DEF Service!vars, Service!Next, Service!Pass

\* The fires implement the credential service.
THEOREM KeystoreImplementsService == Spec => ImplementsService
<1>1. Init => Service!Init
  <2> SUFFICES ASSUME Init PROVE Service!Init
    OBVIOUS
  <2>1. Slot \in Service!Credential \union {None}
    BY DEF Slot, Service!Credential, Credential
  <2>2. Phases = [f \in Fires |-> "waiting"]
    BY DEF Init, Phases, PhaseOf, Final
  <2>3. Blind = {}
    BY DEF Init, Blind
  <2> QED
    BY <2>1, <2>2, <2>3 DEF Init, Service!Init
<1>2. RefBase /\ [Next]_vars => [Service!Next]_(Service!vars)
  BY WaitSteps, ReadSteps, UnlinkSteps, HelperSteps, StoreSteps, UseSteps, CrashStep,
     EnvironmentSteps DEF Next, Step, Happens
<1> QED
  BY <1>1, <1>2, LossSafe, PTL DEF Spec, Service!Spec, ImplementsService, RefBase

-----------------------------------------------------------------------------
(***************************************************************************)
(* What the hook pipeline relies on of the credential cache is what the    *)
(* fires provide: a step of the service is a step of one slot, or unseen.  *)
(***************************************************************************)
SlotTypes ==
    /\ Slot \in Credential \union {None}
    /\ held \in [Fires -> Credential \union {None}]
    /\ \A f \in Fires : Phases[f] = "vetted" => held[f] # None

LEMMA SlotTyped == RefBase => SlotTypes
<1> SUFFICES ASSUME RefBase PROVE SlotTypes
  OBVIOUS
<1> USE DEF RefBase, RenewInv, TypeInv
<1>1. Slot \in Credential \union {None} /\ held \in [Fires -> Credential \union {None}]
  BY DEF TypeOK, Slot
<1>2. ASSUME NEW f \in Fires, Phases[f] = "vetted" PROVE held[f] # None
  <2>1. pc[f] \in {"write", "rename"}
    BY <1>2 DEF Phases, PhaseOf, Final
  <2> QED
    BY <2>1 DEF HandsFull, Carrying
<1> QED
  BY <1>1, <1>2 DEF SlotTypes

\* A step of one fire of the service moves its use of the slot and its key.
LEMMA UseMoves ==
    ASSUME SlotTypes, NEW f \in Fires, NEW p, NEW c, Service!Becomes(f, p, c)
    PROVE  /\ Uses' = [Uses EXCEPT ![f] = UseOf(p)]
           /\ Hands' = [Hands EXCEPT ![f] = HandOf(p, c)]
           /\ Works' = Works
  BY DEF Service!Becomes, Uses, Hands, Works, Phases, SlotTypes

\* A move within a use that keeps the key is not seen.
LEMMA UseKept ==
    ASSUME SlotTypes, NEW f \in Fires, NEW p, NEW c, Service!Becomes(f, p, c),
           UseOf(p) = Uses[f], HandOf(p, c) = Hands[f]
    PROVE  UNCHANGED <<Uses, Hands, Works>>
<1>1. Uses' = [Uses EXCEPT ![f] = Uses[f]] /\ Hands' = [Hands EXCEPT ![f] = Hands[f]]
  BY UseMoves
<1>2. [Uses EXCEPT ![f] = Uses[f]] = Uses
  BY DEF Uses
<1>3. [Hands EXCEPT ![f] = Hands[f]] = Hands
  BY DEF Hands
<1> QED
  BY <1>1, <1>2, <1>3 DEF Works

LEMMA KeySlotKept == Slot' = Slot => KeySlot' = KeySlot
  BY DEF KeySlot

LEMMA KeySlotMoves == KeySlot' = [KeySlot EXCEPT !["scope"] = KeyIn(Slot')]
  BY DEF KeySlot

LEMMA KeyInHand ==
    ASSUME NEW c \in Credential
    PROVE  KeyIn(c) \in Keys /\ KeyIn(c) = c.key /\ KeyIn(c) # None /\ c # None
  BY KeystoreAssumption DEF Credential, KeyIn

LEMMA ServeIsTake ==
    ASSUME SlotTypes, NEW f \in Fires, Service!Serve(f)
    PROVE  Slots!Take(f)
<1>1. Slot \in Credential
  BY DEF Service!Serve, Service!Usable, Service!Credential, Credential
<1>2. Uses[f] = "asking" /\ Works[f] = "scope" /\ KeySlot["scope"] = KeyIn(Slot)
  BY DEF Service!Serve, Uses, UseOf, Unsettled, Works, KeySlot
<1>3. UseOf("served") = "holding" /\ HandOf("served", Slot) = KeyIn(Slot)
  BY DEF UseOf, Unsettled, HandOf
<1>4. Slots!Becomes(f, "holding", KeyIn(Slot)) /\ Works' = Works
  BY <1>3, UseMoves DEF Service!Serve, Slots!Becomes
<1> QED
  BY <1>1, <1>2, <1>4, KeyInHand, KeySlotKept, KeystoreAssumption
     DEF Service!Serve, Slots!Take, Slots!Asking

\* A renewal that may be used is a key made, shared or not.
LEMMA RenewalIsMake ==
    ASSUME SlotTypes, NEW f \in Fires, Service!Publish(f) \/ Service!KeepPrivate(f)
    PROVE  Slots!Make(f)
<1> DEFINE c == held[f]
<1>1. Phases[f] \in {"renewing", "vetted"} /\ c \in Credential
  BY KeystoreAssumption DEF SlotTypes, Service!Publish, Service!KeepPrivate
<1>2. Uses[f] = "asking" /\ Works[f] = "scope"
  BY <1>1 DEF Uses, UseOf, Unsettled, Works
<1>3. UseOf("served") = "holding" /\ HandOf("served", c) = KeyIn(c)
  BY DEF UseOf, Unsettled, HandOf
<1>4. Slots!Becomes(f, "holding", KeyIn(c)) /\ Works' = Works
  BY <1>3, UseMoves DEF Service!Publish, Service!KeepPrivate, Slots!Becomes
<1>5. KeySlot' \in {KeySlot, [KeySlot EXCEPT !["scope"] = KeyIn(c)]}
  BY KeySlotKept, KeySlotMoves DEF Service!Publish, Service!KeepPrivate
<1>6. Slots!Asking(f)
  BY <1>2, KeystoreAssumption DEF Slots!Asking
<1>7. KeyIn(c) \in Keys
  BY <1>1, KeyInHand
<1> QED
  BY <1>2, <1>4, <1>5, <1>6, <1>7 DEF Slots!Make

LEMMA GoneIsLeave ==
    ASSUME SlotTypes, NEW f \in Fires, Service!Fail(f) \/ Service!Leave(f) \/ Service!Die(f)
    PROVE  [Slots!Leave(f)]_(Slots!vars)
<1>1. UNCHANGED Slot /\ \E p \in {"over", "dead"} : Service!Becomes(f, p, None)
  BY DEF Service!Fail, Service!Leave, Service!Die
<1>2. PICK p \in {"over", "dead"} : Service!Becomes(f, p, None)
  BY <1>1
<1>3. UseOf(p) = "left" /\ HandOf(p, None) = None
  BY DEF UseOf, Unsettled, HandOf
<1>4. CASE Uses[f] = "left"
  <2>1. Hands[f] = None
    BY <1>4 DEF Uses, Hands, HandOf
  <2>2. UNCHANGED <<Uses, Hands, Works>>
    BY <1>2, <1>3, <1>4, <2>1, UseKept
  <2> QED
    BY <1>1, <2>2, KeySlotKept DEF Slots!vars
<1>5. CASE Uses[f] # "left"
  <2>1. Slots!Becomes(f, "left", None) /\ Works' = Works
    BY <1>2, <1>3, UseMoves DEF Slots!Becomes
  <2> QED
    BY <1>1, <1>5, <2>1, KeySlotKept DEF Slots!Leave
<1> QED
  BY <1>4, <1>5

LEMMA RefusedIsDiscard ==
    ASSUME SlotTypes, NEW f \in Fires, Service!LeaveAndDiscard(f)
    PROVE  Slots!Discard(f)
<1>1. Uses[f] = "holding" /\ Works[f] = "scope" /\ KeyIn(None) = None
  BY DEF Service!LeaveAndDiscard, Uses, UseOf, Unsettled, Works, KeyIn
<1>2. UseOf("over") = "left" /\ HandOf("over", None) = None
  BY DEF UseOf, Unsettled, HandOf
<1>3. Slots!Becomes(f, "left", None) /\ Works' = Works
  BY <1>2, UseMoves DEF Service!LeaveAndDiscard, Slots!Becomes
<1> QED
  BY <1>1, <1>3, KeySlotMoves DEF Service!LeaveAndDiscard, Slots!Discard

LEMMA DamagedIsClear ==
    ASSUME SlotTypes, NEW f \in Fires, Service!DiscardDamaged(f)
    PROVE  Slots!Clear(f)
<1>1. Uses[f] = "asking" /\ Hands[f] = None /\ Works[f] = "scope" /\ Slots!Asking(f)
  BY KeystoreAssumption
     DEF Service!DiscardDamaged, Uses, UseOf, Unsettled, Hands, HandOf, Works, Slots!Asking
<1>2. KeySlot' = [KeySlot EXCEPT ![Works[f]] = None]
  BY <1>1, KeySlotMoves DEF Service!DiscardDamaged, KeyIn
<1>3. CASE UNCHANGED <<Phases, held>>
  BY <1>1, <1>2, <1>3 DEF Slots!Clear, Uses, Hands, Works
<1>4. CASE Service!Becomes(f, "over", None)
  <2>1. UseOf("over") = "left" /\ HandOf("over", None) = None
    BY DEF UseOf, Unsettled, HandOf
  <2>2. Slots!Becomes(f, "left", None) /\ Works' = Works
    BY <1>4, <2>1, UseMoves DEF Slots!Becomes
  <2> QED
    BY <1>1, <1>2, <2>2 DEF Slots!Clear
<1>5. CASE Service!Becomes(f, "renewing", None)
  <2>1. UseOf("renewing") = "asking" /\ HandOf("renewing", None) = None
    BY DEF UseOf, Unsettled, HandOf
  <2>2. UNCHANGED <<Uses, Hands, Works>>
    BY <1>1, <1>5, <2>1, UseKept
  <2> QED
    BY <1>1, <1>2, <2>2 DEF Slots!Clear
<1> QED
  BY <1>3, <1>4, <1>5 DEF Service!DiscardDamaged

\* A look at the slot without a key taken is not seen from outside.
LEMMA LookUnseen ==
    ASSUME Service!Pass \/ \E f \in Fires : Service!Miss(f) \/ Service!Misread(f)
    PROVE  UNCHANGED Slots!vars
  BY DEF Service!Pass, Service!Miss, Service!Misread, Slots!vars, Works, KeySlot, Uses, Hands

\* How a renewal gets on is not seen from outside.
LEMMA RenewalUnseen ==
    ASSUME SlotTypes, NEW f \in Fires,
           Service!Renew(f) \/ Service!Obtain(f) \/ Service!Vet(f)
    PROVE  UNCHANGED Slots!vars
<1> USE DEF Slots!vars
<1>1. Phases[f] \in {"waiting", "renewing"} /\ UNCHANGED Slot
  BY DEF Service!Renew, Service!Obtain, Service!Vet
<1>2. Uses[f] = "asking" /\ Hands[f] = None
  BY <1>1 DEF Uses, UseOf, Unsettled, Hands, HandOf
<1>3. \A p \in {"renewing", "vetted"} : UseOf(p) = "asking" /\ \A c : HandOf(p, c) = None
  BY DEF UseOf, Unsettled, HandOf
<1>4. CASE Service!Renew(f) \/ Service!Vet(f)
  BY <1>1, <1>2, <1>3, <1>4, UseKept, KeySlotKept DEF Service!Renew, Service!Vet
<1>5. CASE Service!Obtain(f)
  <2>1. PICK c : held' = [held EXCEPT ![f] = c] /\ UNCHANGED Phases
    BY <1>5 DEF Service!Obtain
  <2>2. Service!Becomes(f, Phases[f], c)
    BY <2>1 DEF Service!Becomes, Phases
  <2>3. Phases[f] = "renewing"
    BY <1>5 DEF Service!Obtain
  <2> QED
    BY <1>1, <1>2, <1>3, <2>2, <2>3, UseKept, KeySlotKept
<1> QED
  BY <1>4, <1>5

LEMMA ServiceStepIsSlotStep ==
    ASSUME SlotTypes, [Service!Next]_(Service!vars)
    PROVE  [Slots!Next]_(Slots!vars)
<1>1. CASE UNCHANGED Service!vars
  BY <1>1 DEF Service!vars, Slots!vars, Works, KeySlot, Uses, Hands
<1>2. ASSUME NEW f \in Fires,
             \/ Service!Serve(f) \/ Service!Publish(f) \/ Service!KeepPrivate(f)
             \/ Service!Fail(f) \/ Service!Leave(f) \/ Service!Die(f)
             \/ Service!LeaveAndDiscard(f) \/ Service!DiscardDamaged(f)
      PROVE  [Slots!Next]_(Slots!vars)
  BY <1>2, ServeIsTake, RenewalIsMake, GoneIsLeave, RefusedIsDiscard, DamagedIsClear
     DEF Slots!Next
<1>3. ASSUME NEW f \in Fires, Service!Renew(f) \/ Service!Obtain(f) \/ Service!Vet(f)
      PROVE  UNCHANGED Slots!vars
  BY <1>3, RenewalUnseen
<1> QED
  BY <1>1, <1>2, <1>3, LookUnseen DEF Service!Next

\* The fires of one scope are users of a slot such as the hook pipeline has.
THEOREM KeystoreProvidesSlots == Spec => ProvidesSlots
<1>1. Init => Slots!Init
  <2> SUFFICES ASSUME Init PROVE Slots!Init
    OBVIOUS
  <2>1. KeySlot \in [{"scope"} -> Keys \union {None}]
    BY DEF KeySlot, KeyIn, Slot, Credential
  <2>2. Works \in [Fires -> {"scope"} \union {None}]
    BY DEF Works
  <2>3. \A f \in Fires : Phases[f] = "waiting"
    BY DEF Init, Phases, PhaseOf, Final
  <2>4. \A f \in Fires : Uses[f] = "asking" /\ Hands[f] = None
    BY <2>3 DEF Uses, UseOf, Unsettled, Hands, HandOf
  <2>5. Uses = [f \in Fires |-> "asking"] /\ Hands = [f \in Fires |-> None]
    BY <2>4 DEF Uses, Hands
  <2> QED
    BY <2>1, <2>2, <2>5 DEF Slots!Init
<1>2. RefBase /\ [Service!Next]_(Service!vars) => [Slots!Next]_(Slots!vars)
  BY SlotTyped, ServiceStepIsSlotStep
<1>3. ImplementsService => [][Service!Next]_(Service!vars)
  BY PTL DEF ImplementsService, Service!Spec
<1> QED
  BY <1>1, <1>2, <1>3, LossSafe, KeystoreImplementsService, PTL
     DEF Spec, Slots!Spec, ProvidesSlots, RefBase

=============================================================================
