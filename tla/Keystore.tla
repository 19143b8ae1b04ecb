------------------------------ MODULE Keystore ------------------------------
(***************************************************************************)
(* auth.type=exec credential resolution (internal/keystore) together with  *)
(* its caller's use of the credential (internal/runner).  Every hook fire  *)
(* is a one-shot process.  The fires of one credential scope share a cache *)
(* file and a sibling lock file; readers take no lock, so a peer may act   *)
(* between any two steps.  Time is a discrete clock that may advance       *)
(* between any two steps as well.                                          *)
(***************************************************************************)
EXTENDS Integers, FiniteSets

CONSTANTS
    Fires,        \* the hook processes; fire f's helper run prints key f, or a session key
    OldKey,       \* the key an earlier session may have left in the cache
    SessionKeys,  \* keys the helper may print more than once (a helper with a cache of its own)
    Leftover,     \* what the cache file may hold before the first fire
    None,         \* no file, no credential, no lock holder
    Corrupt,      \* a cache file that cannot be read, parsed, or lacks a field
    Margin,       \* auth.refresh_margin_ms, in ticks
    Timeout,      \* auth.timeout_ms, in ticks
    Lifetimes,    \* lifetimes of the credentials the helper prints
    MaxClock,     \* bound: the clock stops here
    MaxCrashes,   \* bound: fires killed by SIGKILL
    MaxCancels,   \* bound: fires told to stop by SIGINT or SIGTERM
    MaxMisreads,  \* bound: fires at a time whose last read of a good cache file failed
    Scheduled     \* fires whose processes go on running; any other may stop for ever

Keys == Fires \union {OldKey}

\* A helper payload; exp = 0 stands for an absent expires_at.
Credential == [key : Keys, exp : Nat]

ASSUME KeystoreAssumption ==
    /\ Margin \in Nat /\ Timeout \in Nat /\ MaxClock \in Nat
    /\ Lifetimes \subseteq Nat \ {0}
    /\ SessionKeys \subseteq Keys
    /\ Scheduled \subseteq Fires
    /\ OldKey \notin Fires
    /\ None \notin Keys /\ None # "scope"
    /\ None \notin Credential /\ Corrupt \notin Credential /\ None # Corrupt
    /\ Leftover \subseteq Credential \union {None, Corrupt}
    /\ \A c \in Leftover : c \in Credential => c.key = OldKey

VARIABLES
    clock,        \* wall clock
    cache,        \* content of api_key.<fingerprint>.json
    lock,         \* holder of the flock on the sibling .lock file
    helpers,      \* fires whose helper process runs
    pc,           \* where each fire is
    held,         \* the payload each fire has in hand
    reason,       \* the Reason of each fire's Result, or why it is about to fail
    deadline,     \* when each fire's CommandTimeout context ends
    cancelled,    \* fires whose parent context was cancelled by a signal
    look,         \* history: how each fire's last read of the cache file went
    invalidated,  \* history: keys invalidated after a 401 that no helper printed since
    published,    \* history: what was last renamed into place, None after Invalidate
    lost,         \* history: an unlink by a reader has taken a usable entry since
    overtaken     \* history: fires that hold a credential, or are about to unlink, while a
                  \* peer renamed its own into place since they last read the cache

outcomes == <<invalidated, published, lost>>
ghosts == <<look, overtaken, outcomes>>
vars == <<clock, cache, lock, helpers, pc, held, reason, deadline, cancelled, ghosts>>

Reads == {"fast", "reread", "check"}
Unlinks == {"unlinkFast", "unlinkReread", "unlinkCheck"}
Critical == {"check", "unlinkCheck", "exec", "helper", "vet", "write", "rename", "release"}
Final == {"over", "crashed"}
Locations == {"idle", "dir", "lock", "backoff", "resolved", "invalidate"}
             \union Reads \union Unlinks \union Critical \union Final

\* A good file was read, the file was damaged, or the read itself failed.
Looks == {"sound", "damaged", "failed"}

Reasons == {"ok", "cache_unavailable", "lock_timeout", "lock_error", "timeout",
            "command_exit", "bad_output", "expired", "provider_auth"}

\* now + margin is before expires_at.
Fresh(c) == clock + Margin < c.exp
\* readCacheValid accepts this file content.
Usable(c) == c \in Credential /\ Fresh(c)

Goto(f, where) == pc' = [pc EXCEPT ![f] = where]
Because(f, why) == reason' = [reason EXCEPT ![f] = why]
Hold(f, c) == held' = [held EXCEPT ![f] = c]
Expired(f) == clock >= deadline[f]
CtxDone(f) == Expired(f) \/ f \in cancelled
\* What execHelper reports of a helper that the end of the context stopped:
\* ctx.Err() remembers which of the two came first.
WhyDone(f) == (IF Expired(f) THEN {"timeout"} ELSE {})
              \union (IF f \in cancelled THEN {"command_exit"} ELSE {})

-----------------------------------------------------------------------------

Init ==
    /\ clock = 0
    /\ cache \in Leftover
    /\ lock = None
    /\ helpers = {}
    /\ pc = [f \in Fires |-> "idle"]
    /\ held = [f \in Fires |-> None]
    /\ reason = [f \in Fires |-> "ok"]
    /\ deadline = [f \in Fires |-> 0]
    /\ cancelled = {}
    /\ look = [f \in Fires |-> "sound"]
    /\ overtaken = {}
    /\ invalidated = {}
    /\ published = None
    /\ lost = FALSE

\* Definitions named Slip... are deliberate faults for mutation testing: each
\* is the definition that follows it with one plausible mistake.

\* Slip: the deadline is set Timeout ago instead of Timeout ahead.
SlipStart(f) ==
    /\ pc[f] = "idle"
    /\ clock + Timeout <= MaxClock
    /\ Goto(f, "fast")
    /\ deadline' = [deadline EXCEPT ![f] = clock - Timeout]
    /\ UNCHANGED <<clock, cache, lock, helpers, held, reason, cancelled, ghosts>>

\* resolveCommand starts its context and builds the cache path.
Start(f) ==
    /\ pc[f] = "idle"
    /\ clock + Timeout <= MaxClock
    /\ \/ /\ Goto(f, "fast")
          /\ deadline' = [deadline EXCEPT ![f] = clock + Timeout]
          /\ UNCHANGED reason
       \/ /\ Goto(f, "over")
          /\ Because(f, "cache_unavailable")
          /\ UNCHANGED deadline
    /\ UNCHANGED <<clock, cache, lock, helpers, held, cancelled, ghosts>>

Saw(f, how) == look' = [look EXCEPT ![f] = how] /\ overtaken' = overtaken \ {f}

\* An open or a read of the cache file fails for a while (EMFILE, EIO).
ReadMayFail(f) == Cardinality({g \in Fires \ {f} : look[g] = "failed"}) < MaxMisreads

\* Slip: stale entries are unlinked like corrupt ones.
SlipReadCacheValid(f, hit, miss, unlink) ==
    /\ \/ Usable(cache) /\ Hold(f, cache) /\ Goto(f, hit)
       \/ cache = None /\ Goto(f, miss) /\ UNCHANGED held
       \/ cache # None /\ ~Usable(cache) /\ Goto(f, unlink) /\ UNCHANGED held
    /\ Saw(f, IF cache = Corrupt THEN "damaged" ELSE "sound")
    /\ UNCHANGED <<clock, cache, lock, helpers, deadline, cancelled, outcomes>>

\* readCacheValid up to its unlink: one read of the file, then the freshness
\* test.  Any error but that of a missing file leads to the unlink.
ReadCacheValid(f, hit, miss, unlink) ==
    /\ \/ Usable(cache) /\ Hold(f, cache) /\ Goto(f, hit) /\ Saw(f, "sound")
       \/ cache # Corrupt /\ ~Usable(cache) /\ Goto(f, miss) /\ Saw(f, "sound") /\ UNCHANGED held
       \/ cache = Corrupt /\ Goto(f, unlink) /\ Saw(f, "damaged") /\ UNCHANGED held
       \/ cache # Corrupt /\ ReadMayFail(f) /\ Goto(f, unlink) /\ Saw(f, "failed") /\ UNCHANGED held
    /\ UNCHANGED <<clock, cache, lock, helpers, deadline, cancelled, outcomes>>

\* The os.Remove that readCacheValid runs after it saw an unusable file: it
\* takes away whatever the path names by then, or fails, which is ignored.
UnlinkCache(f, miss) ==
    /\ \/ cache' = None /\ lost' = (lost \/ Usable(cache))
       \/ UNCHANGED <<cache, lost>>
    /\ Goto(f, miss)
    /\ UNCHANGED <<clock, lock, helpers, held, reason, deadline, cancelled,
                   look, overtaken, invalidated, published>>

FastPath(f) ==
    /\ pc[f] = "fast"
    /\ ReadCacheValid(f, "resolved", "dir", "unlinkFast")
    /\ UNCHANGED reason

FastPathUnlink(f) == pc[f] = "unlinkFast" /\ UnlinkCache(f, "dir")

\* MkdirAll and Chmod of the cache directory.
PrepareDir(f) ==
    /\ pc[f] = "dir"
    /\ \/ Goto(f, "lock") /\ UNCHANGED reason
       \/ Goto(f, "over") /\ Because(f, "cache_unavailable")
    /\ UNCHANGED <<clock, cache, lock, helpers, held, deadline, cancelled, ghosts>>

\* Slip: a shared lock where an exclusive one is needed.
SlipTryLock(f) ==
    /\ pc[f] = "lock"
    /\ lock' = f
    /\ Goto(f, "check")
    /\ UNCHANGED <<clock, cache, helpers, held, reason, deadline, cancelled, ghosts>>

\* acquireLock's TryLock: taken, busy, or an error.
TryLock(f) ==
    /\ pc[f] = "lock"
    /\ \/ lock = None /\ lock' = f /\ Goto(f, "check") /\ UNCHANGED reason
       \/ lock # None /\ Goto(f, "backoff") /\ UNCHANGED <<lock, reason>>
       \/ Goto(f, "reread") /\ Because(f, "lock_error") /\ UNCHANGED lock
    /\ UNCHANGED <<clock, cache, helpers, held, deadline, cancelled, ghosts>>

\* Slip: the wait for the lock does not look at the context.
SlipBackoff(f) ==
    /\ pc[f] = "backoff"
    /\ Goto(f, "lock")
    /\ UNCHANGED <<clock, cache, lock, helpers, held, reason, deadline, cancelled, ghosts>>

\* acquireLock's select: the context ended, or lockBackoff passed.
Backoff(f) ==
    /\ pc[f] = "backoff"
    /\ \/ CtxDone(f) /\ Goto(f, "reread") /\ Because(f, "lock_timeout")
       \/ Goto(f, "lock") /\ UNCHANGED reason
    /\ UNCHANGED <<clock, cache, lock, helpers, held, deadline, cancelled, ghosts>>

\* Slip: no last-chance read.
SlipReread(f) ==
    /\ pc[f] = "reread"
    /\ Goto(f, "over")
    /\ UNCHANGED <<clock, cache, lock, helpers, held, reason, deadline, cancelled, ghosts>>

\* The last-chance read of a fire that did not get the lock.
Reread(f) ==
    /\ pc[f] = "reread"
    /\ ReadCacheValid(f, "resolved", "over", "unlinkReread")
    /\ IF pc'[f] = "resolved" THEN Because(f, "ok") ELSE UNCHANGED reason

RereadUnlink(f) == pc[f] = "unlinkReread" /\ UnlinkCache(f, "over")

\* Slip: no double-check under the lock.
SlipCheck(f) ==
    /\ pc[f] = "check"
    /\ Goto(f, "exec")
    /\ UNCHANGED <<clock, cache, lock, helpers, held, reason, deadline, cancelled, ghosts>>

\* The double-check under the lock.
Check(f) ==
    /\ pc[f] = "check"
    /\ ReadCacheValid(f, "release", "exec", "unlinkCheck")
    /\ UNCHANGED reason

CheckUnlink(f) == pc[f] = "unlinkCheck" /\ UnlinkCache(f, "exec")

\* cmd.Start: refused once the context is done, and it may fail by itself.
StartHelper(f) ==
    /\ pc[f] = "exec"
    /\ \/ ~CtxDone(f) /\ helpers' = helpers \union {f} /\ Goto(f, "helper") /\ UNCHANGED reason
       \/ /\ Goto(f, "release")
          /\ \E why \in WhyDone(f) \union {"command_exit"} : Because(f, why)
          /\ UNCHANGED helpers
    /\ UNCHANGED <<clock, cache, lock, held, deadline, cancelled, ghosts>>

\* The helper prints a well-formed payload and exits with 0.
HelperPrints(f) ==
    /\ pc[f] = "helper"
    /\ \E k \in {f} \union SessionKeys, life \in Lifetimes :
          /\ \E exp \in {0, clock + life} : Hold(f, [key |-> k, exp |-> exp])
          /\ invalidated' = invalidated \ {k}
    /\ helpers' = helpers \ {f}
    /\ Goto(f, "vet")
    /\ UNCHANGED <<clock, cache, lock, reason, deadline, cancelled,
                   look, overtaken, published, lost>>

\* The helper exits with an error, or prints what parseHelperOutput refuses.
HelperFails(f) ==
    /\ pc[f] = "helper"
    /\ \E why \in {"command_exit", "bad_output"} : Because(f, why)
    /\ helpers' = helpers \ {f}
    /\ Goto(f, "release")
    /\ UNCHANGED <<clock, cache, lock, held, deadline, cancelled, ghosts>>

\* Slip: the wait for the helper is given up, the helper is not killed.
SlipAbandonHelper(f) ==
    /\ pc[f] = "helper"
    /\ CtxDone(f)
    /\ Goto(f, "release") /\ Because(f, "timeout")
    /\ UNCHANGED <<clock, cache, lock, helpers, held, deadline, cancelled, ghosts>>

\* The context ends: cmd.Cancel kills the helper's process group.  An
\* overflowing stdout is reported before the cause of the kill.
KillHelper(f) ==
    /\ pc[f] = "helper"
    /\ CtxDone(f)
    /\ \E why \in WhyDone(f) \union {"bad_output"} : Because(f, why)
    /\ helpers' = helpers \ {f}
    /\ Goto(f, "release")
    /\ UNCHANGED <<clock, cache, lock, held, deadline, cancelled, ghosts>>

\* checkFresh, and the decision to cache only what has an expiry.
CheckFresh(f) ==
    /\ pc[f] = "vet"
    /\ \/ held[f].exp = 0 /\ Goto(f, "release") /\ UNCHANGED <<held, reason>>
       \/ held[f].exp # 0 /\ Fresh(held[f]) /\ Goto(f, "write") /\ UNCHANGED <<held, reason>>
       \/ /\ held[f].exp # 0 /\ ~Fresh(held[f])
          /\ Goto(f, "release") /\ Because(f, "expired") /\ Hold(f, None)
    /\ UNCHANGED <<clock, cache, lock, helpers, deadline, cancelled, ghosts>>

\* Slip: the lock is released before the cache is written.
SlipWriteTemp(f) ==
    /\ pc[f] = "write"
    /\ lock' = None
    /\ Goto(f, "rename")
    /\ UNCHANGED <<clock, cache, helpers, held, reason, deadline, cancelled, ghosts>>

\* Slip: a failed write loses the key.
SlipLoseKey(f) ==
    /\ pc[f] = "write"
    /\ \/ Goto(f, "rename") /\ UNCHANGED held
       \/ Goto(f, "release") /\ Hold(f, None)
    /\ UNCHANGED <<clock, cache, lock, helpers, reason, deadline, cancelled, ghosts>>

\* writeCache up to the rename; when a step fails, the key is returned
\* uncached.  The temporary file has a name of its own, which nothing looks for
\* again: whether it is left behind is not followed.
WriteTemp(f) ==
    /\ pc[f] = "write"
    /\ Goto(f, "rename") \/ Goto(f, "release")
    /\ UNCHANGED <<clock, cache, lock, helpers, held, reason, deadline, cancelled, ghosts>>

\* The rename, or its failure, after which the key is returned uncached.
RenameTemp(f) ==
    /\ pc[f] = "rename"
    /\ Goto(f, "release")
    /\ \/ /\ cache' = held[f]
          /\ published' = held[f]
          /\ lost' = FALSE
          /\ overtaken' = overtaken \union
                {g \in Fires \ {f} : held[g] # None \/ pc[g] \in Unlinks}
       \/ UNCHANGED <<cache, published, lost, overtaken>>
    /\ UNCHANGED <<clock, lock, helpers, held, reason, deadline, cancelled,
                   look, invalidated>>

\* The deferred releaseLock and cancel, and the return of resolveCommand.
Release(f) ==
    /\ pc[f] = "release"
    /\ lock' = None
    /\ Goto(f, IF held[f] = None THEN "over" ELSE "resolved")
    /\ UNCHANGED <<clock, cache, helpers, held, reason, deadline, cancelled, ghosts>>

\* decide's provider call: anything but a credential rejection ends the fire here.
Accepted(f) ==
    /\ pc[f] = "resolved"
    /\ Goto(f, "over")
    /\ Hold(f, None)
    /\ UNCHANGED <<clock, cache, lock, helpers, reason, deadline, cancelled, ghosts>>

\* The provider answers 401 or 403, which it may do to any key at any time.
Rejected(f) ==
    /\ pc[f] = "resolved"
    /\ Goto(f, "invalidate")
    /\ Because(f, "provider_auth")
    /\ UNCHANGED <<clock, cache, lock, helpers, held, deadline, cancelled, ghosts>>

\* Slip: the rebuilt Options hash to another cache path.
SlipInvalidate(f) ==
    /\ pc[f] = "invalidate"
    /\ Goto(f, "over")
    /\ Hold(f, None)
    /\ invalidated' = invalidated \union {held[f].key}
    /\ UNCHANGED <<clock, cache, lock, helpers, reason, deadline, cancelled,
                   look, overtaken, published, lost>>

\* invalidateAuthCache: an unlocked os.Remove, whose failure is only logged.
Invalidate(f) ==
    /\ pc[f] = "invalidate"
    /\ Goto(f, "over")
    /\ Hold(f, None)
    /\ \/ /\ cache' = None
          /\ published' = None
          /\ invalidated' = invalidated \union {held[f].key}
       \/ UNCHANGED <<cache, published, invalidated>>
    /\ UNCHANGED <<clock, lock, helpers, reason, deadline, cancelled,
                   look, overtaken, lost>>

-----------------------------------------------------------------------------
\* The environment.

Tick ==
    /\ clock < MaxClock
    /\ clock' = clock + 1
    /\ UNCHANGED <<cache, lock, helpers, pc, held, reason, deadline, cancelled, ghosts>>

\* SIGKILL: the kernel drops the flock; a running helper (in its own process
\* group) stays behind.
Crash(f) ==
    /\ pc[f] \notin {"idle"} \union Final
    /\ Cardinality({g \in Fires : pc[g] = "crashed"}) < MaxCrashes
    /\ Goto(f, "crashed")
    /\ lock' = IF lock = f THEN None ELSE lock
    /\ Hold(f, None)
    /\ UNCHANGED <<clock, cache, helpers, reason, deadline, cancelled, ghosts>>

OrphanExits(f) ==
    /\ pc[f] = "crashed" /\ f \in helpers
    /\ helpers' = helpers \ {f}
    /\ UNCHANGED <<clock, cache, lock, pc, held, reason, deadline, cancelled, ghosts>>

\* signal.NotifyContext cancels the fire's context.
Cancel(f) ==
    /\ pc[f] \notin {"idle", "resolved", "invalidate"} \union Final
    /\ f \notin cancelled
    /\ Cardinality(cancelled) < MaxCancels
    /\ cancelled' = cancelled \union {f}
    /\ UNCHANGED <<clock, cache, lock, helpers, pc, held, reason, deadline, ghosts>>

-----------------------------------------------------------------------------

\* The steps a fire takes by itself as long as its process is scheduled.
Step(f) ==
    \/ FastPath(f) \/ FastPathUnlink(f) \/ PrepareDir(f)
    \/ TryLock(f) \/ Backoff(f) \/ Reread(f) \/ RereadUnlink(f)
    \/ Check(f) \/ CheckUnlink(f) \/ StartHelper(f) \/ KillHelper(f)
    \/ CheckFresh(f) \/ WriteTemp(f) \/ RenameTemp(f) \/ Release(f)
    \/ Invalidate(f)

\* What others do to a fire: the host tool, its helper, the provider, a signal.
Happens(f) ==
    \/ Start(f) \/ HelperPrints(f) \/ HelperFails(f)
    \/ Accepted(f) \/ Rejected(f)
    \/ Crash(f) \/ OrphanExits(f) \/ Cancel(f)

Next ==
    \/ Tick
    \/ \E f \in Fires : Step(f) \/ Happens(f)

Spec == Init /\ [][Next]_vars

\* Time passes, and of the processes those in Scheduled go on running.  A
\* select that finds both cases ready picks either at random, so the end of the
\* context is not overlooked for ever.  Nothing is assumed of the helper, which
\* may hang, of the host tool, the provider, or the other fires.
GivesUp(f) == Backoff(f) /\ Goto(f, "reread")
Fairness == WF_vars(Tick) /\ \A f \in Scheduled : WF_vars(Step(f)) /\ SF_vars(GivesUp(f))
FairSpec == Spec /\ Fairness

=============================================================================
