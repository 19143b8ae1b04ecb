------------------------- MODULE KeystoreRefinement -------------------------
(***************************************************************************)
(* Keystore implements CredentialService.  The slot is the cache file when *)
(* it holds an entry; a fire renews from its double-check under the lock   *)
(* until its Result is settled, which is before the lock is released.      *)
(***************************************************************************)
EXTENDS KeystoreProps

PhaseOf(where, c) ==
    CASE where \in {"exec", "helper", "vet"} -> "renewing"
      [] where \in {"write", "rename"}       -> "vetted"
      [] where \in {"resolved", "invalidate"} \/ (where = "release" /\ c # None) -> "served"
      [] where = "over" \/ (where = "release" /\ c = None) -> "over"
      [] where = "crashed" -> "dead"
      [] OTHER -> "waiting"

Phases == [f \in Fires |-> PhaseOf(pc[f], held[f])]
Slot == IF cache \in Credential THEN cache ELSE None
Unsettled == {"waiting", "renewing", "vetted"}
Blind == {f \in Fires : look[f] # "sound" /\ Phases[f] \in Unsettled}

Service == INSTANCE CredentialService WITH
    now <- clock, slot <- Slot, phase <- Phases, answer <- held, blind <- Blind

\* Every behaviour of the fires is one that CredentialService allows: usable
\* credentials only, one renewal at a time, started and shared only for want of
\* a usable credential that the fire can see, the slot emptied by nobody but
\* those that were refused or could not see it, and no credential dropped that
\* may still be used.
ImplementsService == Service!Spec

\* The same fires as users of a slot for one key in one scope: a fire that
\* waits, renews or vets is asking, and one that is served holds its key.
UseOf(p) ==
    CASE p \in Unsettled -> "asking"
      [] p = "served" -> "holding"
      [] OTHER -> "left"
KeyIn(c) == IF c = None THEN None ELSE c.key
HandOf(p, c) == IF UseOf(p) = "holding" THEN KeyIn(c) ELSE None

Works == [f \in Fires |-> "scope"]
KeySlot == [s \in {"scope"} |-> KeyIn(Slot)]
Uses == [f \in Fires |-> UseOf(Phases[f])]
Hands == [f \in Fires |-> HandOf(Phases[f], held[f])]

Slots == INSTANCE CredentialSlots WITH
    Scopes <- {"scope"}, scope <- Works, slots <- KeySlot, phase <- Uses, hand <- Hands

\* What the hook pipeline relies on: the files, locks and renewals behind one
\* scope look like one slot whose key is always in use by whoever put it there.
ProvidesSlots == Slots!Spec

=============================================================================
