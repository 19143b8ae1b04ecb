-------------------------- MODULE CredentialService --------------------------
(***************************************************************************)
(* What credential resolution promises to the fires of one scope, without  *)
(* files, locks or processes: one slot that may hold a shared credential,  *)
(* and at most one fire at a time that renews it.                          *)
(***************************************************************************)
EXTENDS Integers

CONSTANTS
    Fires,   \* the fires that ask for a credential
    Keys,    \* the keys a credential may carry
    None,    \* no credential
    Margin   \* a credential this close to its expiry is not handed out

Credential == [key : Keys, exp : Nat]

VARIABLES
    now,     \* the time
    slot,    \* the shared credential, or None
    phase,   \* how far each fire is
    answer,  \* the credential in each fire's hand, or None
    blind    \* fires without an answer yet that made nothing of the slot when they last looked

vars == <<now, slot, phase, answer, blind>>

Usable(c) == c \in Credential /\ now + Margin < c.exp
Renewing(f) == phase[f] \in {"renewing", "vetted"}

Init ==
    /\ now = 0
    /\ slot \in Credential \union {None}
    /\ phase = [f \in Fires |-> "waiting"]
    /\ answer = [f \in Fires |-> None]
    /\ blind = {}

Becomes(f, p, c) ==
    /\ phase' = [phase EXCEPT ![f] = p]
    /\ answer' = [answer EXCEPT ![f] = c]

\* A fire that looks sees the slot, as a rule.
Sees(f) == blind' = blind \ {f}

\* The shared credential is handed out only while it is usable.
Serve(f) ==
    /\ phase[f] = "waiting"
    /\ Usable(slot)
    /\ Becomes(f, "served", slot)
    /\ Sees(f)
    /\ UNCHANGED <<now, slot>>

\* There is nothing usable, and the fire goes on waiting.
Miss(f) ==
    /\ phase[f] = "waiting"
    /\ ~Usable(slot)
    /\ Sees(f)
    /\ UNCHANGED <<now, slot, phase, answer>>

\* The look at the slot fails, or the slot seems damaged.
Misread(f) ==
    /\ phase[f] = "waiting"
    /\ blind' = blind \union {f}
    /\ UNCHANGED <<now, slot, phase, answer>>

\* A renewal starts when nobody else renews and there is nothing usable, or
\* nothing that the fire can see.
Renew(f) ==
    /\ phase[f] = "waiting"
    /\ \A g \in Fires : ~Renewing(g)
    /\ \/ ~Usable(slot) /\ Sees(f)
       \/ f \in blind /\ UNCHANGED blind
    /\ Becomes(f, "renewing", None)
    /\ UNCHANGED <<now, slot>>

Obtain(f) ==
    /\ phase[f] = "renewing" /\ answer[f] = None
    /\ answer'[f] \in Credential
    /\ answer' = [answer EXCEPT ![f] = answer'[f]]
    /\ UNCHANGED <<now, slot, phase, blind>>

\* A credential that expires is vetted before anything is done with it.
Vet(f) ==
    /\ phase[f] = "renewing"
    /\ Usable(answer[f])
    /\ Becomes(f, "vetted", answer[f])
    /\ UNCHANGED <<now, slot, blind>>

\* A vetted credential may become the shared one, not over a usable one that
\* the fire could see.
Publish(f) ==
    /\ phase[f] = "vetted"
    /\ ~Usable(slot) \/ f \in blind
    /\ slot' = answer[f]
    /\ Becomes(f, "served", answer[f])
    /\ Sees(f)
    /\ UNCHANGED now

\* A vetted credential, or one without expiry, may be used without sharing.
KeepPrivate(f) ==
    /\ \/ phase[f] = "vetted"
       \/ phase[f] = "renewing" /\ answer[f] # None /\ answer[f].exp = 0
    /\ Becomes(f, "served", answer[f])
    /\ Sees(f)
    /\ UNCHANGED <<now, slot>>

\* A fire fails for want of a credential; what it has obtained is dropped only
\* because it is about to expire.
Fail(f) ==
    /\ phase[f] \in {"waiting", "renewing"}
    /\ answer[f] # None => answer[f].exp # 0 /\ ~Usable(answer[f])
    /\ Becomes(f, "over", None)
    /\ Sees(f)
    /\ UNCHANGED <<now, slot>>

\* A fire has used its credential.
Leave(f) ==
    /\ phase[f] = "served"
    /\ Becomes(f, "over", None)
    /\ UNCHANGED <<now, slot, blind>>

\* A fire whose credential was refused empties the slot as it leaves.
LeaveAndDiscard(f) ==
    /\ phase[f] = "served"
    /\ Becomes(f, "over", None)
    /\ slot' = None
    /\ UNCHANGED <<now, blind>>

\* A fire may be killed at any time.
Die(f) ==
    /\ phase[f] # "dead"
    /\ Becomes(f, "dead", None)
    /\ Sees(f)
    /\ UNCHANGED <<now, slot>>

\* A waiting fire that made nothing of the slot empties it, and then goes on,
\* gives up or renews.
DiscardDamaged(f) ==
    /\ phase[f] = "waiting" /\ f \in blind
    /\ slot' = None
    /\ \/ UNCHANGED <<phase, answer, blind>>
       \/ Becomes(f, "over", None) /\ Sees(f)
       \/ (\A g \in Fires : ~Renewing(g)) /\ Becomes(f, "renewing", None) /\ UNCHANGED blind
    /\ UNCHANGED now

Pass == now' = now + 1 /\ UNCHANGED <<slot, phase, answer, blind>>

Next ==
    \/ Pass
    \/ \E f \in Fires :
          \/ Serve(f) \/ Miss(f) \/ Misread(f) \/ Renew(f) \/ Obtain(f) \/ Vet(f)
          \/ Publish(f) \/ KeepPrivate(f) \/ Fail(f) \/ Leave(f) \/ LeaveAndDiscard(f)
          \/ Die(f) \/ DiscardDamaged(f)

Spec == Init /\ [][Next]_vars

=============================================================================
