--------------------------- MODULE KeystoreProofs ---------------------------
(***************************************************************************)
(* Proofs about Keystore, for any number of fires, any timing and any      *)
(* number of crashes, signals, refused keys and failing reads.             *)
(***************************************************************************)
EXTENDS KeystoreRefinement, TLAPS

\* What a successful helper run puts into a fire's hand is a credential whose
\* key is its own or a session key.
LEMMA HelperCredential ==
    ASSUME TypeOK, NEW f \in Fires, HelperPrints(f)
    PROVE  /\ \E c \in Credential : /\ c.key \in {f} \union SessionKeys
                                    /\ c # None
                                    /\ held' = [held EXCEPT ![f] = c]
           /\ invalidated' \subseteq invalidated
<1>1. PICK k \in {f} \union SessionKeys, life \in Lifetimes :
         /\ \E exp \in {0, clock + life} : Hold(f, [key |-> k, exp |-> exp])
         /\ invalidated' = invalidated \ {k}
  BY Zenon DEF HelperPrints
<1>2. PICK exp \in {0, clock + life} : Hold(f, [key |-> k, exp |-> exp])
  BY <1>1
<1>3. [key |-> k, exp |-> exp] \in Credential
  BY KeystoreAssumption DEF Credential, Keys, TypeOK
<1> QED
  BY <1>1, <1>2, <1>3, KeystoreAssumption DEF Hold

-----------------------------------------------------------------------------
TypeInv == TypeOK /\ HandsFull

LEMMA TypeStep == TypeInv /\ [Next]_vars => TypeInv'
<1> SUFFICES ASSUME TypeInv, [Next]_vars PROVE TypeInv'
  OBVIOUS
<1> USE DEF TypeInv, TypeOK, HandsFull, Carrying, Locations, Reasons, Reads, Unlinks,
            Critical, Final, Looks, Goto, Because, Hold, ghosts, outcomes
<1>1. CASE Tick
  BY <1>1 DEF Tick
<1>2. ASSUME NEW f \in Fires, FastPath(f) PROVE TypeInv'
  BY <1>2, KeystoreAssumption DEF FastPath, ReadCacheValid, Saw, Usable
<1>3. ASSUME NEW f \in Fires, FastPathUnlink(f) PROVE TypeInv'
  BY <1>3 DEF FastPathUnlink, UnlinkCache
<1>4. ASSUME NEW f \in Fires, PrepareDir(f) PROVE TypeInv'
  BY <1>4 DEF PrepareDir
<1>5. ASSUME NEW f \in Fires, TryLock(f) PROVE TypeInv'
  BY <1>5 DEF TryLock
<1>6. ASSUME NEW f \in Fires, Backoff(f) PROVE TypeInv'
  BY <1>6 DEF Backoff
<1>7. ASSUME NEW f \in Fires, Reread(f) PROVE TypeInv'
  BY <1>7, KeystoreAssumption DEF Reread, ReadCacheValid, Saw, Usable
<1>8. ASSUME NEW f \in Fires, RereadUnlink(f) PROVE TypeInv'
  BY <1>8 DEF RereadUnlink, UnlinkCache
<1>9. ASSUME NEW f \in Fires, Check(f) PROVE TypeInv'
  BY <1>9, KeystoreAssumption DEF Check, ReadCacheValid, Saw, Usable
<1>10. ASSUME NEW f \in Fires, CheckUnlink(f) PROVE TypeInv'
  BY <1>10 DEF CheckUnlink, UnlinkCache
<1>11. ASSUME NEW f \in Fires, StartHelper(f) PROVE TypeInv'
  BY <1>11 DEF StartHelper, WhyDone
<1>12. ASSUME NEW f \in Fires, KillHelper(f) PROVE TypeInv'
  BY <1>12 DEF KillHelper, WhyDone
<1>13. ASSUME NEW f \in Fires, CheckFresh(f) PROVE TypeInv'
  BY <1>13 DEF CheckFresh
<1>14. ASSUME NEW f \in Fires, WriteTemp(f) PROVE TypeInv'
  BY <1>14 DEF WriteTemp
<1>15. ASSUME NEW f \in Fires, RenameTemp(f) PROVE TypeInv'
  BY <1>15 DEF RenameTemp
<1>16. ASSUME NEW f \in Fires, Release(f) PROVE TypeInv'
  BY <1>16 DEF Release
<1>17. ASSUME NEW f \in Fires, Invalidate(f) PROVE TypeInv'
  BY <1>17, KeystoreAssumption DEF Invalidate, Credential
<1>18. ASSUME NEW f \in Fires, Start(f) PROVE TypeInv'
  BY <1>18, KeystoreAssumption DEF Start
<1>19. ASSUME NEW f \in Fires, HelperPrints(f) PROVE TypeInv'
  <2>1. PICK c \in Credential : c # None /\ held' = [held EXCEPT ![f] = c]
    BY <1>19, HelperCredential
  <2>2. /\ pc' = [pc EXCEPT ![f] = "vet"]
        /\ helpers' \subseteq Fires
        /\ UNCHANGED <<clock, cache, lock, reason, deadline, cancelled, look, overtaken,
                       published, lost>>
    BY <1>19 DEF HelperPrints
  <2>3. invalidated' \subseteq Keys
    BY <1>19, HelperCredential
  <2> QED
    BY <2>1, <2>2, <2>3
<1>20. ASSUME NEW f \in Fires, HelperFails(f) PROVE TypeInv'
  BY <1>20 DEF HelperFails
<1>21. ASSUME NEW f \in Fires, Accepted(f) PROVE TypeInv'
  BY <1>21 DEF Accepted
<1>22. ASSUME NEW f \in Fires, Rejected(f) PROVE TypeInv'
  BY <1>22 DEF Rejected
<1>23. ASSUME NEW f \in Fires, Crash(f) PROVE TypeInv'
  BY <1>23 DEF Crash
<1>24. ASSUME NEW f \in Fires, OrphanExits(f) PROVE TypeInv'
  BY <1>24 DEF OrphanExits
<1>25. ASSUME NEW f \in Fires, Cancel(f) PROVE TypeInv'
  BY <1>25 DEF Cancel
<1>26. CASE UNCHANGED vars
  BY <1>26 DEF vars
<1> QED
  BY <1>1, <1>2, <1>3, <1>4, <1>5, <1>6, <1>7, <1>8, <1>9, <1>10, <1>11,
     <1>12, <1>13, <1>14, <1>15, <1>16, <1>17, <1>18, <1>19, <1>20, <1>21, <1>22,
     <1>23, <1>24, <1>25, <1>26 DEF Next, Step, Happens

\* The types, with what a fire has in hand, are an invariant of the fires.
LEMMA TypeInvariant == Spec => []TypeInv
<1>1. Init => TypeInv
  <2> SUFFICES ASSUME Init PROVE TypeInv
    OBVIOUS
  <2>1. lost \in BOOLEAN
    BY DEF Init
  <2>2. look \in [Fires -> Looks]
    BY DEF Init, Looks
  <2>3. clock \in Nat /\ deadline \in [Fires -> Nat]
    BY DEF Init
  <2>4. cache \in Credential \union {None, Corrupt}
    BY KeystoreAssumption DEF Init
  <2> QED
    BY <2>1, <2>2, <2>3, <2>4
       DEF Init, TypeInv, TypeOK, HandsFull, Carrying, Locations, Reasons
<1> QED
  BY <1>1, TypeStep, PTL DEF Spec

\* Every variable of Keystore keeps its type.
THEOREM TypeCorrect == Spec => []TypeOK
<1>1. TypeInv => TypeOK
  BY DEF TypeInv
<1> QED
  BY <1>1, TypeInvariant, PTL

-----------------------------------------------------------------------------
\* The flock excludes: a fire is in the critical section iff it holds it, and a
\* helper process belongs to the fire in that stage or to a killed one.
LockInv ==
    /\ \A f \in Fires : pc[f] \in Critical <=> lock = f
    /\ \A f \in helpers : pc[f] \in {"helper", "crashed"}

LEMMA NoneIsNoFire == None \notin Fires
  BY KeystoreAssumption DEF Keys

LEMMA LockStep == TypeInv /\ LockInv /\ [Next]_vars => LockInv'
<1> SUFFICES ASSUME TypeInv, LockInv, [Next]_vars PROVE LockInv'
  OBVIOUS
<1> USE KeystoreAssumption, NoneIsNoFire
<1> USE DEF TypeInv, TypeOK, LockInv, Locations, Reads, Unlinks,
            Critical, Final, Goto
<1>1. CASE Tick
  BY <1>1 DEF Tick
<1>2. ASSUME NEW f \in Fires, FastPath(f) PROVE LockInv'
  BY <1>2 DEF FastPath, ReadCacheValid, Saw
<1>3. ASSUME NEW f \in Fires, FastPathUnlink(f) PROVE LockInv'
  BY <1>3 DEF FastPathUnlink, UnlinkCache
<1>4. ASSUME NEW f \in Fires, PrepareDir(f) PROVE LockInv'
  BY <1>4 DEF PrepareDir
<1>5. ASSUME NEW f \in Fires, TryLock(f) PROVE LockInv'
  BY <1>5 DEF TryLock
<1>6. ASSUME NEW f \in Fires, Backoff(f) PROVE LockInv'
  BY <1>6 DEF Backoff
<1>7. ASSUME NEW f \in Fires, Reread(f) PROVE LockInv'
  BY <1>7 DEF Reread, ReadCacheValid, Saw
<1>8. ASSUME NEW f \in Fires, RereadUnlink(f) PROVE LockInv'
  BY <1>8 DEF RereadUnlink, UnlinkCache
<1>9. ASSUME NEW f \in Fires, Check(f) PROVE LockInv'
  BY <1>9 DEF Check, ReadCacheValid, Saw
<1>10. ASSUME NEW f \in Fires, CheckUnlink(f) PROVE LockInv'
  BY <1>10 DEF CheckUnlink, UnlinkCache
<1>11. ASSUME NEW f \in Fires, StartHelper(f) PROVE LockInv'
  BY <1>11 DEF StartHelper
<1>12. ASSUME NEW f \in Fires, KillHelper(f) PROVE LockInv'
  BY <1>12 DEF KillHelper
<1>13. ASSUME NEW f \in Fires, CheckFresh(f) PROVE LockInv'
  BY <1>13 DEF CheckFresh
<1>14. ASSUME NEW f \in Fires, WriteTemp(f) PROVE LockInv'
  BY <1>14 DEF WriteTemp
<1>15. ASSUME NEW f \in Fires, RenameTemp(f) PROVE LockInv'
  BY <1>15 DEF RenameTemp
<1>16. ASSUME NEW f \in Fires, Release(f) PROVE LockInv'
  BY <1>16 DEF Release
<1>17. ASSUME NEW f \in Fires, Invalidate(f) PROVE LockInv'
  BY <1>17 DEF Invalidate
<1>18. ASSUME NEW f \in Fires, Start(f) PROVE LockInv'
  BY <1>18 DEF Start
<1>19. ASSUME NEW f \in Fires, HelperPrints(f) PROVE LockInv'
  BY <1>19 DEF HelperPrints
<1>20. ASSUME NEW f \in Fires, HelperFails(f) PROVE LockInv'
  BY <1>20 DEF HelperFails
<1>21. ASSUME NEW f \in Fires, Accepted(f) PROVE LockInv'
  BY <1>21 DEF Accepted
<1>22. ASSUME NEW f \in Fires, Rejected(f) PROVE LockInv'
  BY <1>22 DEF Rejected
<1>23. ASSUME NEW f \in Fires, Crash(f) PROVE LockInv'
  BY <1>23 DEF Crash
<1>24. ASSUME NEW f \in Fires, OrphanExits(f) PROVE LockInv'
  BY <1>24 DEF OrphanExits
<1>25. ASSUME NEW f \in Fires, Cancel(f) PROVE LockInv'
  BY <1>25 DEF Cancel
<1>26. CASE UNCHANGED vars
  BY <1>26 DEF vars
<1> QED
  BY <1>1, <1>2, <1>3, <1>4, <1>5, <1>6, <1>7, <1>8, <1>9, <1>10, <1>11,
     <1>12, <1>13, <1>14, <1>15, <1>16, <1>17, <1>18, <1>19, <1>20, <1>21, <1>22,
     <1>23, <1>24, <1>25, <1>26 DEF Next, Step, Happens

LEMMA LockSafe == Spec => [](TypeInv /\ LockInv)
<1>1. Init => LockInv
  BY NoneIsNoFire DEF Init, LockInv, Critical
<1> QED
  BY <1>1, TypeInvariant, LockStep, PTL DEF Spec

\* Helper processes overlap only after one of their fires was killed.
THEOREM HelpersExclude == Spec => []HelpersOverlapOnlyAfterKill
<1>1. TypeInv /\ LockInv => HelpersOverlapOnlyAfterKill
  BY KeystoreAssumption DEF TypeInv, TypeOK, LockInv, HelpersOverlapOnlyAfterKill, Critical
<1> QED
  BY <1>1, LockSafe, PTL

-----------------------------------------------------------------------------
\* What is not usable does not become usable as time passes.
LEMMA StaleStaysStale ==
    ASSUME TypeOK, Tick, NEW c, ~Usable(c)
    PROVE  ~(c \in Credential /\ clock' + Margin < c.exp)
<1> SUFFICES ASSUME c \in Credential PROVE ~(clock' + Margin < c.exp)
  OBVIOUS
<1>1. c.exp \in Nat /\ clock \in Nat /\ Margin \in Nat /\ clock' = clock + 1
  BY KeystoreAssumption DEF Credential, TypeOK, Tick
<1>2. ~(clock + Margin < c.exp)
  BY DEF Usable, Fresh
<1> QED
  BY <1>1, <1>2

RenewInv == TypeInv /\ LockInv /\ RenewsOnlyWithoutUsable

LEMMA RenewStep == RenewInv /\ [Next]_vars => RenewsOnlyWithoutUsable'
<1> SUFFICES ASSUME RenewInv, [Next]_vars PROVE RenewsOnlyWithoutUsable'
  OBVIOUS
<1> USE KeystoreAssumption
<1> USE DEF RenewInv, TypeInv, TypeOK, LockInv, RenewsOnlyWithoutUsable, Locations, Reads,
            Unlinks, Critical, Final, Goto, ghosts, Usable, Fresh
<1>1. CASE Tick
  <2>1. ~Usable(cache) => ~Usable(cache)'
    BY <1>1, StaleStaysStale DEF Tick
  <2> QED
    BY <1>1, <2>1 DEF Tick
<1>2. ASSUME NEW f \in Fires, FastPath(f) PROVE RenewsOnlyWithoutUsable'
  BY <1>2 DEF FastPath, ReadCacheValid, Saw
<1>3. ASSUME NEW f \in Fires, FastPathUnlink(f) PROVE RenewsOnlyWithoutUsable'
  BY <1>3 DEF FastPathUnlink, UnlinkCache
<1>4. ASSUME NEW f \in Fires, PrepareDir(f) PROVE RenewsOnlyWithoutUsable'
  BY <1>4 DEF PrepareDir
<1>5. ASSUME NEW f \in Fires, TryLock(f) PROVE RenewsOnlyWithoutUsable'
  BY <1>5 DEF TryLock
<1>6. ASSUME NEW f \in Fires, Backoff(f) PROVE RenewsOnlyWithoutUsable'
  BY <1>6 DEF Backoff
<1>7. ASSUME NEW f \in Fires, Reread(f) PROVE RenewsOnlyWithoutUsable'
  BY <1>7 DEF Reread, ReadCacheValid, Saw
<1>8. ASSUME NEW f \in Fires, RereadUnlink(f) PROVE RenewsOnlyWithoutUsable'
  BY <1>8 DEF RereadUnlink, UnlinkCache
<1>9. ASSUME NEW f \in Fires, Check(f) PROVE RenewsOnlyWithoutUsable'
  BY <1>9 DEF Check, ReadCacheValid, Saw
<1>10. ASSUME NEW f \in Fires, CheckUnlink(f) PROVE RenewsOnlyWithoutUsable'
  BY <1>10 DEF CheckUnlink, UnlinkCache
<1>11. ASSUME NEW f \in Fires, StartHelper(f) PROVE RenewsOnlyWithoutUsable'
  BY <1>11 DEF StartHelper
<1>12. ASSUME NEW f \in Fires, KillHelper(f) PROVE RenewsOnlyWithoutUsable'
  BY <1>12 DEF KillHelper
<1>13. ASSUME NEW f \in Fires, CheckFresh(f) PROVE RenewsOnlyWithoutUsable'
  BY <1>13 DEF CheckFresh
<1>14. ASSUME NEW f \in Fires, WriteTemp(f) PROVE RenewsOnlyWithoutUsable'
  BY <1>14 DEF WriteTemp
<1>15. ASSUME NEW f \in Fires, RenameTemp(f) PROVE RenewsOnlyWithoutUsable'
  BY <1>15 DEF RenameTemp
<1>16. ASSUME NEW f \in Fires, Release(f) PROVE RenewsOnlyWithoutUsable'
  BY <1>16 DEF Release
<1>17. ASSUME NEW f \in Fires, Invalidate(f) PROVE RenewsOnlyWithoutUsable'
  BY <1>17 DEF Invalidate
<1>18. ASSUME NEW f \in Fires, Start(f) PROVE RenewsOnlyWithoutUsable'
  BY <1>18 DEF Start
<1>19. ASSUME NEW f \in Fires, HelperPrints(f) PROVE RenewsOnlyWithoutUsable'
  BY <1>19 DEF HelperPrints
<1>20. ASSUME NEW f \in Fires, HelperFails(f) PROVE RenewsOnlyWithoutUsable'
  BY <1>20 DEF HelperFails
<1>21. ASSUME NEW f \in Fires, Accepted(f) PROVE RenewsOnlyWithoutUsable'
  BY <1>21 DEF Accepted
<1>22. ASSUME NEW f \in Fires, Rejected(f) PROVE RenewsOnlyWithoutUsable'
  BY <1>22 DEF Rejected
<1>23. ASSUME NEW f \in Fires, Crash(f) PROVE RenewsOnlyWithoutUsable'
  BY <1>23 DEF Crash
<1>24. ASSUME NEW f \in Fires, OrphanExits(f) PROVE RenewsOnlyWithoutUsable'
  BY <1>24 DEF OrphanExits
<1>25. ASSUME NEW f \in Fires, Cancel(f) PROVE RenewsOnlyWithoutUsable'
  BY <1>25 DEF Cancel
<1>26. CASE UNCHANGED vars
  BY <1>26 DEF vars
<1> QED
  BY <1>1, <1>2, <1>3, <1>4, <1>5, <1>6, <1>7, <1>8, <1>9, <1>10, <1>11,
     <1>12, <1>13, <1>14, <1>15, <1>16, <1>17, <1>18, <1>19, <1>20, <1>21, <1>22,
     <1>23, <1>24, <1>25, <1>26 DEF Next, Step, Happens

\* Whoever renews the credential does so while no usable entry is cached, or
\* could not read the cache.
THEOREM RenewalJustified == Spec => []RenewsOnlyWithoutUsable
<1>1. Init => RenewsOnlyWithoutUsable
  BY DEF Init, RenewsOnlyWithoutUsable
<1>2. RenewInv /\ [Next]_vars => RenewsOnlyWithoutUsable'
  BY RenewStep
<1> QED
  BY <1>1, <1>2, LockSafe, PTL DEF Spec, RenewInv

\* The one step that changes what the cache holds to something else than nothing.
LEMMA OnlyRenamePuts ==
    ASSUME Next, cache' # cache, cache' # None
    PROVE  \E f \in Fires : RenameTemp(f)
  BY DEF Next, Step, Happens, Tick, FastPath, FastPathUnlink, PrepareDir, TryLock, Backoff,
     Reread, RereadUnlink, Check, CheckUnlink, StartHelper, KillHelper, CheckFresh, WriteTemp,
     Release, Invalidate, Start, HelperPrints, HelperFails, Accepted, Rejected, Crash,
     OrphanExits, Cancel, ReadCacheValid, UnlinkCache

\* A usable entry is overwritten only by a fire that could not read it.
THEOREM NeverClobbers == Spec => NeverClobbersUsable
<1>1. RenewInv /\ [Next]_vars =>
         [cache' # cache /\ cache' # None /\ Usable(cache) =>
             \E f \in Fires : pc[f] = "rename" /\ look[f] = "failed"]_vars
  <2> SUFFICES ASSUME RenewInv, Next, cache' # cache, cache' # None, Usable(cache)
               PROVE  \E f \in Fires : pc[f] = "rename" /\ look[f] = "failed"
    BY DEF vars
  <2>1. PICK f \in Fires : RenameTemp(f)
    BY OnlyRenamePuts
  <2> QED
    BY <2>1 DEF RenameTemp, RenewInv, RenewsOnlyWithoutUsable
<1> QED
  BY <1>1, LockSafe, RenewalJustified, PTL DEF Spec, NeverClobbersUsable, RenewInv

-----------------------------------------------------------------------------
\* Fires that are not about to use or store a payload have none in hand.
EmptyHands == \A f \in Fires : pc[f] \notin Carrying \union {"release"} => held[f] = None

LEMMA EmptyHandsStep == TypeInv /\ EmptyHands /\ [Next]_vars => EmptyHands'
<1> SUFFICES ASSUME TypeInv, EmptyHands, [Next]_vars PROVE EmptyHands'
  OBVIOUS
<1> USE DEF TypeInv, TypeOK, EmptyHands, Carrying, Locations, Reads, Unlinks, Critical, Final,
            Goto, Hold
<1>1. CASE Tick
  BY <1>1 DEF Tick
<1>2. ASSUME NEW f \in Fires, FastPath(f) PROVE EmptyHands'
  BY <1>2 DEF FastPath, ReadCacheValid, Saw
<1>3. ASSUME NEW f \in Fires, FastPathUnlink(f) PROVE EmptyHands'
  BY <1>3 DEF FastPathUnlink, UnlinkCache
<1>4. ASSUME NEW f \in Fires, PrepareDir(f) PROVE EmptyHands'
  BY <1>4 DEF PrepareDir
<1>5. ASSUME NEW f \in Fires, TryLock(f) PROVE EmptyHands'
  BY <1>5 DEF TryLock
<1>6. ASSUME NEW f \in Fires, Backoff(f) PROVE EmptyHands'
  BY <1>6 DEF Backoff
<1>7. ASSUME NEW f \in Fires, Reread(f) PROVE EmptyHands'
  BY <1>7 DEF Reread, ReadCacheValid, Saw
<1>8. ASSUME NEW f \in Fires, RereadUnlink(f) PROVE EmptyHands'
  BY <1>8 DEF RereadUnlink, UnlinkCache
<1>9. ASSUME NEW f \in Fires, Check(f) PROVE EmptyHands'
  BY <1>9 DEF Check, ReadCacheValid, Saw
<1>10. ASSUME NEW f \in Fires, CheckUnlink(f) PROVE EmptyHands'
  BY <1>10 DEF CheckUnlink, UnlinkCache
<1>11. ASSUME NEW f \in Fires, StartHelper(f) PROVE EmptyHands'
  BY <1>11 DEF StartHelper
<1>12. ASSUME NEW f \in Fires, KillHelper(f) PROVE EmptyHands'
  BY <1>12 DEF KillHelper
<1>13. ASSUME NEW f \in Fires, CheckFresh(f) PROVE EmptyHands'
  BY <1>13 DEF CheckFresh
<1>14. ASSUME NEW f \in Fires, WriteTemp(f) PROVE EmptyHands'
  BY <1>14 DEF WriteTemp
<1>15. ASSUME NEW f \in Fires, RenameTemp(f) PROVE EmptyHands'
  BY <1>15 DEF RenameTemp
<1>16. ASSUME NEW f \in Fires, Release(f) PROVE EmptyHands'
  BY <1>16 DEF Release
<1>17. ASSUME NEW f \in Fires, Invalidate(f) PROVE EmptyHands'
  BY <1>17 DEF Invalidate
<1>18. ASSUME NEW f \in Fires, Start(f) PROVE EmptyHands'
  BY <1>18 DEF Start
<1>19. ASSUME NEW f \in Fires, HelperPrints(f) PROVE EmptyHands'
  BY <1>19 DEF HelperPrints
<1>20. ASSUME NEW f \in Fires, HelperFails(f) PROVE EmptyHands'
  BY <1>20 DEF HelperFails
<1>21. ASSUME NEW f \in Fires, Accepted(f) PROVE EmptyHands'
  BY <1>21 DEF Accepted
<1>22. ASSUME NEW f \in Fires, Rejected(f) PROVE EmptyHands'
  BY <1>22 DEF Rejected
<1>23. ASSUME NEW f \in Fires, Crash(f) PROVE EmptyHands'
  BY <1>23 DEF Crash
<1>24. ASSUME NEW f \in Fires, OrphanExits(f) PROVE EmptyHands'
  BY <1>24 DEF OrphanExits
<1>25. ASSUME NEW f \in Fires, Cancel(f) PROVE EmptyHands'
  BY <1>25 DEF Cancel
<1>26. CASE UNCHANGED vars
  BY <1>26 DEF vars
<1> QED
  BY <1>1, <1>2, <1>3, <1>4, <1>5, <1>6, <1>7, <1>8, <1>9, <1>10, <1>11,
     <1>12, <1>13, <1>14, <1>15, <1>16, <1>17, <1>18, <1>19, <1>20, <1>21, <1>22,
     <1>23, <1>24, <1>25, <1>26 DEF Next, Step, Happens

LEMMA HandsSafe == Spec => [](RenewInv /\ EmptyHands)
<1>1. Init => EmptyHands
  BY DEF Init, EmptyHands
<1>2. TypeInv /\ EmptyHands /\ [Next]_vars => EmptyHands'
  BY EmptyHandsStep
<1> QED
  BY <1>1, <1>2, LockSafe, RenewalJustified, PTL DEF Spec, RenewInv

-----------------------------------------------------------------------------
\* A fire that uses a credential, or is about to, has the one usable entry of
\* the cache in hand unless a peer has overtaken it or its own read failed.
UseInv ==
    \A f \in Fires \ overtaken :
        /\ \/ pc[f] \in {"resolved", "invalidate"}
           \/ pc[f] = "release" /\ held[f] # None
        /\ look[f] # "failed"
        /\ Usable(cache)
        => cache = held[f]

UseBase == RenewInv /\ EmptyHands

LEMMA UseStep == UseBase /\ UseInv /\ [Next]_vars => UseInv'
<1> SUFFICES ASSUME UseBase, UseInv, [Next]_vars PROVE UseInv'
  OBVIOUS
<1> USE KeystoreAssumption
<1> USE DEF UseBase, RenewInv, TypeInv, TypeOK, LockInv, EmptyHands, HandsFull,
            RenewsOnlyWithoutUsable, UseInv, Carrying, Locations, Reads, Unlinks, Critical,
            Final, Goto, Because, Hold, ghosts, outcomes, Usable, Fresh
<1>1. CASE Tick
  <2>1. ~Usable(cache) => ~Usable(cache)'
    BY <1>1, StaleStaysStale DEF Tick, Usable, Fresh
  <2> QED
    BY <1>1, <2>1 DEF Tick
<1>2. ASSUME NEW f \in Fires, FastPath(f) PROVE UseInv'
  BY <1>2 DEF FastPath, ReadCacheValid, Saw
<1>3. ASSUME NEW f \in Fires, FastPathUnlink(f) PROVE UseInv'
  BY <1>3 DEF FastPathUnlink, UnlinkCache
<1>4. ASSUME NEW f \in Fires, PrepareDir(f) PROVE UseInv'
  BY <1>4 DEF PrepareDir
<1>5. ASSUME NEW f \in Fires, TryLock(f) PROVE UseInv'
  BY <1>5 DEF TryLock
<1>6. ASSUME NEW f \in Fires, Backoff(f) PROVE UseInv'
  BY <1>6 DEF Backoff
<1>7. ASSUME NEW f \in Fires, Reread(f) PROVE UseInv'
  BY <1>7 DEF Reread, ReadCacheValid, Saw
<1>8. ASSUME NEW f \in Fires, RereadUnlink(f) PROVE UseInv'
  BY <1>8 DEF RereadUnlink, UnlinkCache
<1>9. ASSUME NEW f \in Fires, Check(f) PROVE UseInv'
  BY <1>9 DEF Check, ReadCacheValid, Saw
<1>10. ASSUME NEW f \in Fires, CheckUnlink(f) PROVE UseInv'
  BY <1>10 DEF CheckUnlink, UnlinkCache
<1>11. ASSUME NEW f \in Fires, StartHelper(f) PROVE UseInv'
  BY <1>11 DEF StartHelper
<1>12. ASSUME NEW f \in Fires, KillHelper(f) PROVE UseInv'
  BY <1>12 DEF KillHelper
<1>13. ASSUME NEW f \in Fires, CheckFresh(f) PROVE UseInv'
  BY <1>13 DEF CheckFresh
<1>14. ASSUME NEW f \in Fires, WriteTemp(f) PROVE UseInv'
  BY <1>14 DEF WriteTemp
<1>15. ASSUME NEW f \in Fires, RenameTemp(f) PROVE UseInv'
  BY <1>15 DEF RenameTemp
<1>16. ASSUME NEW f \in Fires, Release(f) PROVE UseInv'
  BY <1>16 DEF Release
<1>17. ASSUME NEW f \in Fires, Invalidate(f) PROVE UseInv'
  BY <1>17 DEF Invalidate
<1>18. ASSUME NEW f \in Fires, Start(f) PROVE UseInv'
  BY <1>18 DEF Start
<1>19. ASSUME NEW f \in Fires, HelperPrints(f) PROVE UseInv'
  BY <1>19 DEF HelperPrints
<1>20. ASSUME NEW f \in Fires, HelperFails(f) PROVE UseInv'
  BY <1>20 DEF HelperFails
<1>21. ASSUME NEW f \in Fires, Accepted(f) PROVE UseInv'
  BY <1>21 DEF Accepted
<1>22. ASSUME NEW f \in Fires, Rejected(f) PROVE UseInv'
  BY <1>22 DEF Rejected
<1>23. ASSUME NEW f \in Fires, Crash(f) PROVE UseInv'
  BY <1>23 DEF Crash
<1>24. ASSUME NEW f \in Fires, OrphanExits(f) PROVE UseInv'
  BY <1>24 DEF OrphanExits
<1>25. ASSUME NEW f \in Fires, Cancel(f) PROVE UseInv'
  BY <1>25 DEF Cancel
<1>26. CASE UNCHANGED vars
  BY <1>26 DEF vars
<1> QED
  BY <1>1, <1>2, <1>3, <1>4, <1>5, <1>6, <1>7, <1>8, <1>9, <1>10, <1>11,
     <1>12, <1>13, <1>14, <1>15, <1>16, <1>17, <1>18, <1>19, <1>20, <1>21, <1>22,
     <1>23, <1>24, <1>25, <1>26 DEF Next, Step, Happens

\* What is usable in the cache is what every fire at the provider uses, except
\* for fires that a peer has overtaken or whose read failed: an invalidation
\* that takes a newer entry away is one of theirs.
THEOREM InUseStaysCached == Spec => []InUseIsCached
<1>1. Init => UseInv
  BY DEF Init, UseInv
<1>2. UseInv => InUseIsCached
  BY DEF UseInv, InUseIsCached
<1>3. UseBase /\ UseInv /\ [Next]_vars => UseInv'
  BY UseStep
<1> QED
  BY <1>1, <1>2, <1>3, HandsSafe, PTL DEF Spec, UseBase

-----------------------------------------------------------------------------
\* A fire that is about to unlink has seen a damaged file or could not read it;
\* as long as no peer has renamed since, a damaged file is not a usable entry.
\* What was published stays until it gets stale, is invalidated or is unlinked.
LossInv ==
    /\ \A f \in Fires : pc[f] \in Unlinks => look[f] # "sound"
    /\ \A f \in Fires \ overtaken :
          pc[f] \in Unlinks /\ look[f] = "damaged" => ~Usable(cache)
    /\ Usable(published) /\ ~lost => cache = published

LEMMA LossStep == RenewInv /\ LossInv /\ [Next]_vars => LossInv'
<1> SUFFICES ASSUME RenewInv, LossInv, [Next]_vars PROVE LossInv'
  OBVIOUS
<1> USE KeystoreAssumption
<1> USE DEF RenewInv, TypeInv, TypeOK, LossInv, HandsFull, Carrying, Locations, Reads, Unlinks,
            Critical, Final, Looks, Goto, ghosts, outcomes, Usable, Fresh
<1>1. CASE Tick
  <2>1. /\ ~Usable(cache) => ~Usable(cache)'
        /\ ~Usable(published) => ~Usable(published)'
    BY <1>1, StaleStaysStale DEF Tick
  <2> QED
    BY <1>1, <2>1 DEF Tick
<1>2. ASSUME NEW f \in Fires, FastPath(f) PROVE LossInv'
  BY <1>2 DEF FastPath, ReadCacheValid, Saw
<1>3. ASSUME NEW f \in Fires, FastPathUnlink(f) PROVE LossInv'
  BY <1>3 DEF FastPathUnlink, UnlinkCache
<1>4. ASSUME NEW f \in Fires, PrepareDir(f) PROVE LossInv'
  BY <1>4 DEF PrepareDir
<1>5. ASSUME NEW f \in Fires, TryLock(f) PROVE LossInv'
  BY <1>5 DEF TryLock
<1>6. ASSUME NEW f \in Fires, Backoff(f) PROVE LossInv'
  BY <1>6 DEF Backoff
<1>7. ASSUME NEW f \in Fires, Reread(f) PROVE LossInv'
  BY <1>7 DEF Reread, ReadCacheValid, Saw
<1>8. ASSUME NEW f \in Fires, RereadUnlink(f) PROVE LossInv'
  BY <1>8 DEF RereadUnlink, UnlinkCache
<1>9. ASSUME NEW f \in Fires, Check(f) PROVE LossInv'
  BY <1>9 DEF Check, ReadCacheValid, Saw
<1>10. ASSUME NEW f \in Fires, CheckUnlink(f) PROVE LossInv'
  BY <1>10 DEF CheckUnlink, UnlinkCache
<1>11. ASSUME NEW f \in Fires, StartHelper(f) PROVE LossInv'
  BY <1>11 DEF StartHelper
<1>12. ASSUME NEW f \in Fires, KillHelper(f) PROVE LossInv'
  BY <1>12 DEF KillHelper
<1>13. ASSUME NEW f \in Fires, CheckFresh(f) PROVE LossInv'
  BY <1>13 DEF CheckFresh
<1>14. ASSUME NEW f \in Fires, WriteTemp(f) PROVE LossInv'
  BY <1>14 DEF WriteTemp
<1>15. ASSUME NEW f \in Fires, RenameTemp(f) PROVE LossInv'
  BY <1>15 DEF RenameTemp
<1>16. ASSUME NEW f \in Fires, Release(f) PROVE LossInv'
  BY <1>16 DEF Release
<1>17. ASSUME NEW f \in Fires, Invalidate(f) PROVE LossInv'
  BY <1>17 DEF Invalidate
<1>18. ASSUME NEW f \in Fires, Start(f) PROVE LossInv'
  BY <1>18 DEF Start
<1>19. ASSUME NEW f \in Fires, HelperPrints(f) PROVE LossInv'
  BY <1>19 DEF HelperPrints
<1>20. ASSUME NEW f \in Fires, HelperFails(f) PROVE LossInv'
  BY <1>20 DEF HelperFails
<1>21. ASSUME NEW f \in Fires, Accepted(f) PROVE LossInv'
  BY <1>21 DEF Accepted
<1>22. ASSUME NEW f \in Fires, Rejected(f) PROVE LossInv'
  BY <1>22 DEF Rejected
<1>23. ASSUME NEW f \in Fires, Crash(f) PROVE LossInv'
  BY <1>23 DEF Crash
<1>24. ASSUME NEW f \in Fires, OrphanExits(f) PROVE LossInv'
  BY <1>24 DEF OrphanExits
<1>25. ASSUME NEW f \in Fires, Cancel(f) PROVE LossInv'
  BY <1>25 DEF Cancel
<1>26. CASE UNCHANGED vars
  BY <1>26 DEF vars
<1> QED
  BY <1>1, <1>2, <1>3, <1>4, <1>5, <1>6, <1>7, <1>8, <1>9, <1>10, <1>11,
     <1>12, <1>13, <1>14, <1>15, <1>16, <1>17, <1>18, <1>19, <1>20, <1>21, <1>22,
     <1>23, <1>24, <1>25, <1>26 DEF Next, Step, Happens

LEMMA LossSafe == Spec => [](RenewInv /\ EmptyHands /\ LossInv)
<1>1. Init => LossInv
  BY KeystoreAssumption DEF Init, LossInv, Unlinks, Usable
<1>2. RenewInv /\ LossInv /\ [Next]_vars => LossInv'
  BY LossStep
<1> QED
  BY <1>1, <1>2, HandsSafe, PTL DEF Spec

\* The helper runs once per published credential that stays usable, unless a
\* reader's unlink took it away or the fire that runs the helper could not read it.
THEOREM OncePerEntry == Spec => []HelperRunsOncePerEntry
<1>1. RenewInv /\ LossInv => HelperRunsOncePerEntry
  BY DEF RenewInv, LossInv, RenewsOnlyWithoutUsable, HelperRunsOncePerEntry
<1> QED
  BY <1>1, LossSafe, PTL

\* A usable entry is lost only to a refused fire, to a reader whose read failed,
\* or to one that saw a damaged file which a peer has replaced since.
THEOREM LossesExplained == Spec => UsableLostOnlyToMisled
<1> DEFINE Takes(f) ==
        /\ pc'[f] # pc[f]
        /\ \/ pc[f] = "invalidate"
           \/ pc[f] \in Unlinks /\ look[f] = "failed"
           \/ pc[f] \in {"unlinkFast", "unlinkReread"} /\ Misled(f)
<1>1. RenewInv /\ LossInv /\ [Next]_vars =>
         [Usable(cache) /\ cache' = None => \E f \in Fires : Takes(f)]_vars
  <2> SUFFICES ASSUME RenewInv, LossInv, Next, Usable(cache), cache' = None
               PROVE  \E f \in Fires : Takes(f)
    BY DEF vars
  <2>1. cache' # cache
    BY KeystoreAssumption DEF Usable
  <2>2. PICK f \in Fires : Step(f) \/ Happens(f)
    BY <2>1 DEF Next, Tick
  <2>3. ~Happens(f)
    BY <2>1 DEF Happens, Start, HelperPrints, HelperFails, Accepted, Rejected, Crash,
       OrphanExits, Cancel
  <2>4. ~RenameTemp(f)
    BY <2>1 DEF RenameTemp, RenewInv, TypeInv, HandsFull, Carrying
  <2>5. CASE FastPathUnlink(f) \/ RereadUnlink(f)
    <3>1. /\ pc[f] \in {"unlinkFast", "unlinkReread"}
          /\ Goto(f, "dir") \/ Goto(f, "over")
      BY <2>5 DEF FastPathUnlink, RereadUnlink, UnlinkCache
    <3>2. Misled(f)
      BY <3>1 DEF Misled, LossInv, Unlinks, RenewInv, TypeInv, TypeOK, Looks
    <3> QED
      BY <3>1, <3>2 DEF Goto, RenewInv, TypeInv, TypeOK
  <2>6. CASE CheckUnlink(f)
    <3>1. pc[f] = "unlinkCheck" /\ Goto(f, "exec")
      BY <2>6 DEF CheckUnlink, UnlinkCache
    <3>2. look[f] = "failed"
      BY <3>1 DEF RenewInv, RenewsOnlyWithoutUsable
    <3> QED
      BY <3>1, <3>2 DEF Goto, Unlinks, RenewInv, TypeInv, TypeOK
  <2>7. CASE Invalidate(f)
    BY <2>7 DEF Invalidate, Goto, RenewInv, TypeInv, TypeOK
  <2> QED
    BY <2>1, <2>2, <2>3, <2>4, <2>5, <2>6, <2>7 DEF Step, FastPath, PrepareDir, TryLock,
       Backoff, Reread, Check, StartHelper, KillHelper, CheckFresh, WriteTemp, Release,
       ReadCacheValid
<1> QED
  BY <1>1, LossSafe, PTL DEF Spec, UsableLostOnlyToMisled

-----------------------------------------------------------------------------
\* Why a fire may fail: the Reason is set only on the way out, and a fire that
\* leaves the critical section with empty hands leaves no usable entry behind,
\* unless it could not read the cache.
NothingUsable == ~Usable(cache)
Untroubled == {"idle", "fast", "unlinkFast", "dir", "lock", "backoff", "check", "unlinkCheck",
               "exec", "helper", "vet", "write", "rename", "resolved"}
FailInv ==
    /\ \A f \in Fires : pc[f] \in Untroubled => reason[f] = "ok"
    /\ \A f \in Fires : pc[f] = "invalidate" => reason[f] = "provider_auth"
    /\ \A f \in Fires : pc[f] = "release" /\ held[f] # None => reason[f] = "ok"
    /\ \A f \in Fires : pc[f] = "release" /\ held[f] = None => NothingUsable \/ look[f] = "failed"

FailBase == RenewInv /\ EmptyHands /\ LossInv

LEMMA FailStep == FailBase /\ FailInv /\ [Next]_vars => FailInv'
<1> SUFFICES ASSUME FailBase, FailInv, [Next]_vars PROVE FailInv'
  OBVIOUS
<1> USE KeystoreAssumption
<1> USE DEF FailBase, RenewInv, TypeInv, TypeOK, LockInv, EmptyHands, HandsFull,
            RenewsOnlyWithoutUsable, FailInv, Untroubled, Carrying,
            Locations, Reasons, Reads, Unlinks, Critical, Final, Goto, Because, Hold, ghosts
<1>50. UNCHANGED <<cache, clock>> => NothingUsable' = NothingUsable
  BY DEF NothingUsable, Usable, Fresh
<1>51. cache' = None => NothingUsable'
  BY DEF NothingUsable, Usable
<1>52. \A f \in Fires : pc[f] \in {"exec", "helper", "vet", "write", "rename"} =>
            NothingUsable \/ look[f] = "failed"
  BY DEF NothingUsable
<1> USE <1>50, <1>51, <1>52
<1> HIDE DEF RenewsOnlyWithoutUsable
<1>1. CASE Tick
  <2>1. NothingUsable => NothingUsable'
    BY <1>1, StaleStaysStale DEF Tick, NothingUsable, Usable, Fresh
  <2> QED
    BY <1>1, <2>1 DEF Tick
<1>2. ASSUME NEW f \in Fires, FastPath(f) PROVE FailInv'
  BY <1>2 DEF FastPath, ReadCacheValid, Saw
<1>3. ASSUME NEW f \in Fires, FastPathUnlink(f) PROVE FailInv'
  BY <1>3 DEF FastPathUnlink, UnlinkCache
<1>4. ASSUME NEW f \in Fires, PrepareDir(f) PROVE FailInv'
  BY <1>4 DEF PrepareDir
<1>5. ASSUME NEW f \in Fires, TryLock(f) PROVE FailInv'
  BY <1>5 DEF TryLock
<1>6. ASSUME NEW f \in Fires, Backoff(f) PROVE FailInv'
  BY <1>6 DEF Backoff
<1>7. ASSUME NEW f \in Fires, Reread(f) PROVE FailInv'
  BY <1>7 DEF Reread, ReadCacheValid, Saw
<1>8. ASSUME NEW f \in Fires, RereadUnlink(f) PROVE FailInv'
  BY <1>8 DEF RereadUnlink, UnlinkCache
<1>9. ASSUME NEW f \in Fires, Check(f) PROVE FailInv'
  BY <1>9 DEF Check, ReadCacheValid, Saw
<1>10. ASSUME NEW f \in Fires, CheckUnlink(f) PROVE FailInv'
  BY <1>10 DEF CheckUnlink, UnlinkCache
<1>11. ASSUME NEW f \in Fires, StartHelper(f) PROVE FailInv'
  BY <1>11 DEF StartHelper
<1>12. ASSUME NEW f \in Fires, KillHelper(f) PROVE FailInv'
  BY <1>12 DEF KillHelper
<1>13. ASSUME NEW f \in Fires, CheckFresh(f) PROVE FailInv'
  BY <1>13 DEF CheckFresh
<1>14. ASSUME NEW f \in Fires, WriteTemp(f) PROVE FailInv'
  BY <1>14 DEF WriteTemp
<1>15. ASSUME NEW f \in Fires, RenameTemp(f) PROVE FailInv'
  BY <1>15 DEF RenameTemp
<1>16. ASSUME NEW f \in Fires, Release(f) PROVE FailInv'
  BY <1>16 DEF Release
<1>17. ASSUME NEW f \in Fires, Invalidate(f) PROVE FailInv'
  BY <1>17 DEF Invalidate
<1>18. ASSUME NEW f \in Fires, Start(f) PROVE FailInv'
  BY <1>18 DEF Start
<1>19. ASSUME NEW f \in Fires, HelperPrints(f) PROVE FailInv'
  BY <1>19 DEF HelperPrints
<1>20. ASSUME NEW f \in Fires, HelperFails(f) PROVE FailInv'
  BY <1>20 DEF HelperFails
<1>21. ASSUME NEW f \in Fires, Accepted(f) PROVE FailInv'
  BY <1>21 DEF Accepted
<1>22. ASSUME NEW f \in Fires, Rejected(f) PROVE FailInv'
  BY <1>22 DEF Rejected
<1>23. ASSUME NEW f \in Fires, Crash(f) PROVE FailInv'
  BY <1>23 DEF Crash
<1>24. ASSUME NEW f \in Fires, OrphanExits(f) PROVE FailInv'
  BY <1>24 DEF OrphanExits
<1>25. ASSUME NEW f \in Fires, Cancel(f) PROVE FailInv'
  BY <1>25 DEF Cancel
<1>26. CASE UNCHANGED vars
  BY <1>26 DEF vars
<1> QED
  BY <1>1, <1>2, <1>3, <1>4, <1>5, <1>6, <1>7, <1>8, <1>9, <1>10, <1>11,
     <1>12, <1>13, <1>14, <1>15, <1>16, <1>17, <1>18, <1>19, <1>20, <1>21, <1>22,
     <1>23, <1>24, <1>25, <1>26 DEF Next, Step, Happens

\* For want of a lock or of a helper's answer a fire fails only at an instant
\* when nothing usable is cached, unless it was misled.
THEOREM FailuresJustified == Spec => FailsOnlyWithoutUsable
<1>1. Init => FailInv
  BY DEF Init, FailInv
<1>2. FailBase /\ FailInv /\ [Next]_vars => FailInv'
  BY FailStep
<1>3. FailBase /\ FailInv /\ [Next]_vars =>
         [\A f \in Fires :
             /\ pc[f] # "over" /\ pc'[f] = "over"
             /\ reason'[f] \notin {"ok", "cache_unavailable", "provider_auth"}
             => ~Usable(cache) \/ Misled(f)]_vars
  <2> SUFFICES ASSUME FailBase, FailInv, Next, NEW g \in Fires,
                      pc[g] # "over", pc'[g] = "over",
                      reason'[g] \notin {"ok", "cache_unavailable", "provider_auth"}
               PROVE  ~Usable(cache) \/ Misled(g)
    BY DEF vars
  <2>1. \/ Start(g) \/ PrepareDir(g) \/ Reread(g) \/ RereadUnlink(g) \/ Release(g)
        \/ Accepted(g) \/ Invalidate(g)
    <3> USE DEF FailBase, RenewInv, TypeInv, TypeOK, Goto
    <3>1. PICK f \in Fires : Step(f) \/ Happens(f)
      BY DEF Next, Tick
    <3>2. CASE Step(f)
      BY <3>2 DEF Step, FastPath, FastPathUnlink, PrepareDir, TryLock, Backoff, Reread,
         RereadUnlink, Check, CheckUnlink, StartHelper, KillHelper, CheckFresh, WriteTemp,
         RenameTemp, Release, Invalidate, ReadCacheValid, UnlinkCache
    <3>3. CASE Happens(f)
      BY <3>3 DEF Happens, Start, HelperPrints, HelperFails, Accepted, Rejected, Crash,
         OrphanExits, Cancel
    <3> QED
      BY <3>1, <3>2, <3>3
  <2>2. CASE Start(g) \/ PrepareDir(g)
    BY <2>2 DEF FailBase, RenewInv, TypeInv, TypeOK, Start, PrepareDir, Goto, Because
  <2>3. CASE Reread(g)
    BY <2>3 DEF FailBase, RenewInv, TypeInv, TypeOK, Reread, ReadCacheValid, Goto
  <2>4. CASE RereadUnlink(g)
    BY <2>4 DEF FailBase, RenewInv, TypeInv, TypeOK, Looks, LossInv, Misled, RereadUnlink, Unlinks
  <2>5. CASE Release(g)
    BY <2>5 DEF FailBase, RenewInv, TypeInv, TypeOK, FailInv, NothingUsable, Misled, Release, Goto
  <2>6. CASE Accepted(g) \/ Invalidate(g)
    BY <2>6 DEF FailInv, Untroubled, Accepted, Invalidate
  <2> QED
    BY <2>1, <2>2, <2>3, <2>4, <2>5, <2>6
<1> QED
  BY <1>1, <1>2, <1>3, LossSafe, PTL DEF Spec, FailBase, FailsOnlyWithoutUsable

-----------------------------------------------------------------------------
\* Where a key can be before its own fire has renamed it into place: nowhere
\* but in that fire's hand.
Unpublished == {"idle", "fast", "unlinkFast", "dir", "lock", "backoff", "reread",
                "unlinkReread", "check", "unlinkCheck", "exec", "helper", "vet", "write",
                "rename"}
KeyInv ==
    /\ RejectedNeverReturns
    /\ \A f \in Fires : pc[f] \in {"vet", "write", "rename"} => held[f].key = f
    /\ \A f \in Fires : pc[f] \in Unpublished =>
          /\ f \notin invalidated
          /\ cache \in Credential => cache.key # f
          /\ \A g \in Fires : held[g] # None /\ held[g].key = f => g = f

KeyBase == RenewInv /\ EmptyHands

LEMMA KeyStep == ASSUME SessionKeys = {}
                 PROVE  KeyBase /\ KeyInv /\ [Next]_vars => KeyInv'
<1> SUFFICES ASSUME KeyBase, KeyInv, [Next]_vars PROVE KeyInv'
  OBVIOUS
<1> USE KeystoreAssumption
<1> USE DEF KeyBase, RenewInv, TypeInv, TypeOK, EmptyHands, HandsFull, KeyInv,
            RejectedNeverReturns, Unpublished, Carrying, Locations, Reads, Unlinks, Critical,
            Final, Goto, Hold, ghosts, outcomes
<1>1. CASE Tick
  BY <1>1 DEF Tick
<1>2. ASSUME NEW f \in Fires, FastPath(f) PROVE KeyInv'
  BY <1>2 DEF FastPath, ReadCacheValid, Saw, Usable
<1>3. ASSUME NEW f \in Fires, FastPathUnlink(f) PROVE KeyInv'
  BY <1>3 DEF FastPathUnlink, UnlinkCache
<1>4. ASSUME NEW f \in Fires, PrepareDir(f) PROVE KeyInv'
  BY <1>4 DEF PrepareDir
<1>5. ASSUME NEW f \in Fires, TryLock(f) PROVE KeyInv'
  BY <1>5 DEF TryLock
<1>6. ASSUME NEW f \in Fires, Backoff(f) PROVE KeyInv'
  BY <1>6 DEF Backoff
<1>7. ASSUME NEW f \in Fires, Reread(f) PROVE KeyInv'
  BY <1>7 DEF Reread, ReadCacheValid, Saw, Usable
<1>8. ASSUME NEW f \in Fires, RereadUnlink(f) PROVE KeyInv'
  BY <1>8 DEF RereadUnlink, UnlinkCache
<1>9. ASSUME NEW f \in Fires, Check(f) PROVE KeyInv'
  BY <1>9 DEF Check, ReadCacheValid, Saw, Usable
<1>10. ASSUME NEW f \in Fires, CheckUnlink(f) PROVE KeyInv'
  BY <1>10 DEF CheckUnlink, UnlinkCache
<1>11. ASSUME NEW f \in Fires, StartHelper(f) PROVE KeyInv'
  BY <1>11 DEF StartHelper
<1>12. ASSUME NEW f \in Fires, KillHelper(f) PROVE KeyInv'
  BY <1>12 DEF KillHelper
<1>13. ASSUME NEW f \in Fires, CheckFresh(f) PROVE KeyInv'
  BY <1>13 DEF CheckFresh
<1>14. ASSUME NEW f \in Fires, WriteTemp(f) PROVE KeyInv'
  BY <1>14 DEF WriteTemp
<1>15. ASSUME NEW f \in Fires, RenameTemp(f) PROVE KeyInv'
  BY <1>15 DEF RenameTemp
<1>16. ASSUME NEW f \in Fires, Release(f) PROVE KeyInv'
  BY <1>16 DEF Release
<1>17. ASSUME NEW f \in Fires, Invalidate(f) PROVE KeyInv'
  BY <1>17 DEF Invalidate
<1>18. ASSUME NEW f \in Fires, Start(f) PROVE KeyInv'
  BY <1>18 DEF Start
<1>19. ASSUME NEW f \in Fires, HelperPrints(f) PROVE KeyInv'
  <2>1. PICK c \in Credential : c.key = f /\ c # None /\ held' = [held EXCEPT ![f] = c]
    BY <1>19, HelperCredential
  <2>2. /\ pc' = [pc EXCEPT ![f] = "vet"]
        /\ UNCHANGED cache
    BY <1>19 DEF HelperPrints
  <2>3. invalidated' \subseteq invalidated
    BY <1>19, HelperCredential
  <2> QED
    BY <1>19, <2>1, <2>2, <2>3 DEF HelperPrints
<1>20. ASSUME NEW f \in Fires, HelperFails(f) PROVE KeyInv'
  BY <1>20 DEF HelperFails
<1>21. ASSUME NEW f \in Fires, Accepted(f) PROVE KeyInv'
  BY <1>21 DEF Accepted
<1>22. ASSUME NEW f \in Fires, Rejected(f) PROVE KeyInv'
  BY <1>22 DEF Rejected
<1>23. ASSUME NEW f \in Fires, Crash(f) PROVE KeyInv'
  BY <1>23 DEF Crash
<1>24. ASSUME NEW f \in Fires, OrphanExits(f) PROVE KeyInv'
  BY <1>24 DEF OrphanExits
<1>25. ASSUME NEW f \in Fires, Cancel(f) PROVE KeyInv'
  BY <1>25 DEF Cancel
<1>26. CASE UNCHANGED vars
  BY <1>26 DEF vars
<1> QED
  BY <1>1, <1>2, <1>3, <1>4, <1>5, <1>6, <1>7, <1>8, <1>9, <1>10, <1>11,
     <1>12, <1>13, <1>14, <1>15, <1>16, <1>17, <1>18, <1>19, <1>20, <1>21, <1>22,
     <1>23, <1>24, <1>25, <1>26 DEF Next, Step, Happens

\* An invalidated key never comes back to the cache, as long as the helper
\* prints a new key on every run.
THEOREM RejectedKeysGone == ASSUME SessionKeys = {}
                            PROVE  Spec => []RejectedNeverReturns
<1>1. Init => KeyInv
  BY KeystoreAssumption DEF Init, KeyInv, RejectedNeverReturns
<1>2. KeyBase /\ KeyInv /\ [Next]_vars => KeyInv'
  BY KeyStep
<1>3. KeyInv => RejectedNeverReturns
  BY DEF KeyInv
<1> QED
  BY <1>1, <1>2, <1>3, HandsSafe, PTL DEF Spec, KeyBase

=============================================================================
