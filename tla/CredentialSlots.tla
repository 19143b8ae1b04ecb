-------------------------- MODULE CredentialSlots --------------------------
(***************************************************************************)
(* What the hook pipeline may rely on of the credential cache, and what    *)
(* the cache provides: one slot per credential scope, touched only by the  *)
(* fires of that scope.  A fire takes the key in the slot or makes a new   *)
(* one, which it may leave in the slot; it empties the slot only while it  *)
(* has no key yet, or because its own key was refused.                     *)
(***************************************************************************)
CONSTANTS
    Fires,   \* the fires that ask for a key
    Scopes,  \* the credential scopes
    Keys,    \* the keys
    None     \* no scope, no key

VARIABLES
    scope,   \* the scope each fire works in, or None
    slots,   \* the key in each scope's slot, or None
    phase,   \* "asking", "holding" or "left"
    hand     \* the key in each fire's hand, or None

vars == <<scope, slots, phase, hand>>

Init ==
    /\ scope \in [Fires -> Scopes \union {None}]
    /\ slots \in [Scopes -> Keys \union {None}]
    /\ phase = [f \in Fires |-> "asking"]
    /\ hand = [f \in Fires |-> None]

Asking(f) == phase[f] = "asking" /\ scope[f] # None

Becomes(f, p, k) ==
    /\ phase' = [phase EXCEPT ![f] = p]
    /\ hand' = [hand EXCEPT ![f] = k]

\* A fire works in one scope for as long as it lives.
Join(f) ==
    /\ phase[f] = "asking" /\ scope[f] = None
    /\ \E s \in Scopes : scope' = [scope EXCEPT ![f] = s]
    /\ UNCHANGED <<slots, phase, hand>>

Take(f) ==
    /\ Asking(f)
    /\ slots[scope[f]] # None
    /\ Becomes(f, "holding", slots[scope[f]])
    /\ UNCHANGED <<scope, slots>>

Make(f) ==
    /\ Asking(f)
    /\ \E k \in Keys :
          /\ Becomes(f, "holding", k)
          /\ slots' \in {slots, [slots EXCEPT ![scope[f]] = k]}
    /\ UNCHANGED scope

\* A fire that takes the slot for damaged; it may give up at that.
Clear(f) ==
    /\ Asking(f)
    /\ slots' = [slots EXCEPT ![scope[f]] = None]
    /\ \/ UNCHANGED <<phase, hand>>
       \/ Becomes(f, "left", None)
    /\ UNCHANGED scope

\* A fire whose key was refused.
Discard(f) ==
    /\ phase[f] = "holding"
    /\ slots' = [slots EXCEPT ![scope[f]] = None]
    /\ Becomes(f, "left", None)
    /\ UNCHANGED scope

Leave(f) ==
    /\ phase[f] # "left"
    /\ Becomes(f, "left", None)
    /\ UNCHANGED <<scope, slots>>

Next ==
    \E f \in Fires :
        Join(f) \/ Take(f) \/ Make(f) \/ Clear(f) \/ Discard(f) \/ Leave(f)

Spec == Init /\ [][Next]_vars

=============================================================================
