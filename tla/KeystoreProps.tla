---------------------------- MODULE KeystoreProps ----------------------------
(***************************************************************************)
(* What the credential cache owes its callers: the properties the runs of  *)
(* MCKeystore check, and the invariants that KeystoreProofs proves.        *)
(***************************************************************************)
EXTENDS Keystore

\* Every variable stays within its type.
TypeOK ==
    /\ clock \in Nat
    /\ cache \in Credential \union {None, Corrupt}
    /\ lock \in Fires \union {None}
    /\ helpers \subseteq Fires
    /\ pc \in [Fires -> Locations]
    /\ held \in [Fires -> Credential \union {None}]
    /\ reason \in [Fires -> Reasons]
    /\ deadline \in [Fires -> Nat]
    /\ cancelled \subseteq Fires
    /\ look \in [Fires -> Looks]
    /\ overtaken \subseteq Fires
    /\ invalidated \subseteq Keys
    /\ published \in Credential \union {None}
    /\ lost \in BOOLEAN

\* A fire that vets, stores or uses a payload has one.
Carrying == {"vet", "write", "rename", "resolved", "invalidate"}
HandsFull == \A f \in Fires : pc[f] \in Carrying => held[f] # None

\* Two helper processes run at once only if the fire that started one of
\* them was killed: every other way out of the helper stops it before the
\* flock is released (timeout, signal, exit), and none gets in without it.
HelpersOverlapOnlyAfterKill ==
    \A f, g \in helpers : f # g => "crashed" \in {pc[f], pc[g]}

\* What a fire made of the cache is wrong: its read failed, or it saw a damaged
\* file that a peer has replaced since.
Misled(f) == look[f] = "failed" \/ (look[f] = "damaged" /\ f \in overtaken)

\* From the double-check to the rename, the fire that renews the credential
\* knows that no usable entry is in the cache, whatever unlocked readers,
\* invalidations and the clock do meanwhile, unless its own read failed.
RenewsOnlyWithoutUsable ==
    \A f \in Fires :
        /\ pc[f] \in {"unlinkCheck", "exec", "helper", "vet", "write", "rename"}
        /\ look[f] # "failed"
        => ~Usable(cache)

\* A rename replaces a usable entry only if the fire's own read of it failed:
\* a slow fire cannot put its older credential over the one a peer cached.
NeverClobbersUsable ==
    [][cache' # cache /\ cache' # None /\ Usable(cache) =>
          \E f \in Fires : pc[f] = "rename" /\ look[f] = "failed"]_vars

\* A usable entry is lost only to a fire that was refused a key, to a reader
\* whose read failed, or to one that saw a damaged file, without the lock, and
\* that a peer's rename has overtaken.  No stale entry is removed in passing,
\* and the removal under the lock takes nothing away that was renamed since.
UsableLostOnlyToMisled ==
    [][Usable(cache) /\ cache' = None =>
          \E f \in Fires :
              /\ pc'[f] # pc[f]
              /\ \/ pc[f] = "invalidate"
                 \/ pc[f] \in Unlinks /\ look[f] = "failed"
                 \/ pc[f] \in {"unlinkFast", "unlinkReread"} /\ Misled(f)]_vars

\* Once a fire has published a credential, no helper runs again before that
\* credential gets stale or is invalidated ("the helper still runs only once").
HelperRunsOnlyOnce ==
    \A f \in Fires : pc[f] = "helper" => ~Usable(published)

\* The same as far as it is true: a helper runs again before the published
\* credential gets stale or is invalidated only if a reader's unlink has taken
\* that credential away, or if the fire that runs it could not read the cache.
HelperRunsOncePerEntry ==
    \A f \in Fires :
        pc[f] = "helper" /\ Usable(published) => lost \/ look[f] = "failed"

\* A fire fails for want of a lock or of a helper's answer only at an
\* instant when the cache had nothing usable to offer, unless it was misled.
FailsOnlyWithoutUsable ==
    [][\A f \in Fires :
          /\ pc[f] # "over" /\ pc'[f] = "over"
          /\ reason'[f] \notin {"ok", "cache_unavailable", "provider_auth"}
          => ~Usable(cache) \/ Misled(f)]_vars

\* A key that was invalidated never comes back to the cache: the rename that
\* cached it always precedes the rejection that removes it.
RejectedNeverReturns ==
    cache \in Credential => cache.key \notin invalidated

\* Once a key was invalidated, no fire whose first read comes later is served
\* it before a helper run has printed it anew ("the next hook fire forces a
\* fresh helper exec").
NextFireRunsHelper ==
    [][\A f \in Fires :
          pc[f] = "fast" /\ pc'[f] = "resolved" => held'[f].key \notin invalidated]_vars

\* While a fire uses a credential, whatever usable entry is in the cache is
\* that credential, unless a peer has renamed a newer one into place since, or
\* the fire could not read the cache: an invalidation costs a peer its newer
\* entry only in that case.
InUseIsCached ==
    \A f \in Fires \ overtaken :
        /\ pc[f] \in {"resolved", "invalidate"} /\ look[f] # "failed"
        /\ Usable(cache)
        => cache = held[f]

\* Every fire that goes on running leaves resolveCommand, even if its helper
\* hangs and the holder of the lock is stopped: its own deadline bounds its wait
\* for the lock and for the helper.
EveryFireResolves ==
    \A f \in Scheduled :
        pc[f] = "fast" ~> pc[f] \in {"resolved", "invalidate"} \union Final

=============================================================================
