------------------------------ MODULE HookProps ------------------------------
(***************************************************************************)
(* What the hook pipeline owes the host tool, the owner of the keys and    *)
(* the reader of the metrics.                                              *)
(***************************************************************************)
EXTENDS Hook

Locations == {"idle", "gate", "resolve", "file", "prompt", "call", "wait", "invalidate",
              "record", "emit", "unlogged", "over", "crashed"}

\* Every variable stays within its type.
TypeOK ==
    /\ pc \in [Fires -> Locations]
    /\ conf \in [Fires -> Configs \union {None}]
    /\ req \in [Fires -> Requests \union {None}]
    /\ reader \in [Fires -> {"reading", "good", "bad", None}]
    /\ cred \in [Fires -> Credential \union {None}]
    /\ reply \in [Fires -> Response \union {None}]
    /\ result \in [Fires -> Result \union {None}]
    /\ cache \in [Scopes -> Key \union {None}]
    /\ log \in [Fires -> Entry \union {None}]
    /\ answer \in [Fires -> {"allow", "deny", None}]
    /\ exit \in [Fires -> {0, 1, None}]

\* A whole response that says one of these; the provider's rejection.
Said(r, texts) ==
    r # None /\ r.status = "ok" /\ r.stop = "end" /\ r.text \in texts
Rejected(r) == r # None /\ r.status = "rejected"

\* The host tool is told to allow or deny only what the model said so of, or
\* was unsure of under a strategy that says so.  In particular nothing is
\* decided on an allow in a truncated or refused response, on one that does
\* not parse, on a lost credential or on a skipped request.
AutomatesOnlyOnVerdict ==
    \A f \in Fires : answer[f] # None =>
        \/ Said(reply[f], {answer[f]})
        \/ Said(reply[f], Uncertain) /\ conf[f].strategy = answer[f]

\* A fire whose configured credential cannot be had (the file is missing, its
\* reader still hangs at the deadline, the helper fails), or is rejected by
\* the provider, hands the request back to the user: it neither fails nor
\* decides.
CredentialTroubleAsks ==
    \A f \in Fires :
        /\ pc[f] = "over" /\ conf[f] # None
        /\ conf[f].auth # "env" /\ (cred[f] = None \/ Rejected(reply[f]))
        => exit[f] = 0 /\ answer[f] = None

\* The key a client sends belongs to that client's provider and to the scope
\* of this configuration, and comes from where the configuration says: a
\* failing helper is not papered over with a key from the environment, and
\* no other scope's cache file is read.
KeyGoesToItsOwner ==
    \A f \in Fires : pc[f] = "wait" =>
        LET key == cred[f].key IN
        /\ key.provider = ClientOf(conf[f].provider)
        /\ key.salt = conf[f].salt
        /\ key.from = conf[f].auth

\* What the host tool is told is in the metrics by then, in the same words,
\* unless metrics are off or the entry could not be written.
AnswersAreLogged ==
    [][\A f \in Fires : answer'[f] # answer[f] =>
          \/ log[f] # None /\ log[f].decision = answer'[f]
          \/ ~conf[f].metrics
          \/ pc[f] = "unlogged"]_vars

\* Over all fires with an entry, the report says what happened: its forced
\* columns and its top fallthroughs count exactly the uncertain replies, and
\* top denies only what the model denied.  Credential failures are exactly the
\* requests that a configured credential kept from the model, each under its
\* own cause, and no invocation is counted in two columns.
ReportMatchesHistory ==
    LET report == Aggregate
        Logged == {f \in Fires : log[f] # None}
        Saying(texts) == {f \in Logged : Said(reply[f], texts)}
        Promoted(d) == {f \in Saying(Uncertain) : conf[f].strategy = d}
        Asked == {f \in Logged : /\ req[f].tool \notin Interactive
                                 /\ req[f].mode \in {"default", "plan"}
                                 /\ conf[f].provider \in Known /\ conf[f].auth # "env"}
        Refused == {f \in Asked : Rejected(reply[f])}
        Stopped == {f \in Asked : reply[f] = None /\ ~result[f].failed} \union Refused
    IN  /\ report.forcedAllow = Cardinality(Promoted("allow"))
        /\ report.forcedDeny = Cardinality(Promoted("deny"))
        /\ report.allow = Cardinality(Saying({"allow"})) + report.forcedAllow
        /\ report.deny = Cardinality(Saying({"deny"})) + report.forcedDeny
        /\ report.topFall = Cardinality(Saying(Uncertain))
        /\ report.topDeny = Cardinality(Saying({"deny"}))
        /\ report.total = report.allow + report.deny + report.fall + report.errors
        /\ CredentialFailures(Sources, Reasons) = Cardinality(Stopped)
        /\ \A s \in Sources :
              CredentialFailures({s}, {"provider_auth"})
                  = Cardinality({f \in Refused : cred[f].source = s})

\* An exec fire works in the scope its configuration names; it holds a key
\* from the moment it has resolved one until its result is settled.
ScopeOf(c) ==
    IF c = None \/ c.auth # "exec" \/ c.provider \notin Known
    THEN None ELSE <<c.provider, c.salt>>
PhaseOf(where, s) ==
    CASE where \in {"idle", "gate", "resolve"} -> "asking"
      [] where \in {"prompt", "call", "wait", "invalidate"} /\ s # None -> "holding"
      [] OTHER -> "left"
HandOf(p, c) == IF p = "holding" THEN c.key ELSE None

Works == [f \in Fires |-> ScopeOf(conf[f])]
Phases == [f \in Fires |-> PhaseOf(pc[f], ScopeOf(conf[f]))]
Hands == [f \in Fires |-> HandOf(PhaseOf(pc[f], ScopeOf(conf[f])), cred[f])]

Slots == INSTANCE CredentialSlots WITH
    Keys <- Key, scope <- Works, slots <- cache, phase <- Phases, hand <- Hands

\* All fires together use the credential cache as CredentialSlots allows:
\* a fire reads, fills and empties its own scope's slot only, it empties it
\* on the way to a key of its own or because the provider refused its key, and
\* a key gets into a slot only together with being used.
ImplementsSlots == Slots!Spec

\* A hook with a provider timeout ends even if the provider never answers and
\* the read of its credential file never returns.
EveryHookEnds ==
    \A f \in Fires :
        pc[f] = "gate" /\ conf[f].bounded ~> pc[f] \in {"over", "crashed"}

\* docs/configuration.md on the Err column: it counts the "invocations that
\* ended in an error (parse failure, panic, API failure ...)".
FailuresAreCounted ==
    \A f \in Fires : exit[f] = 1 => log[f] # None /\ log[f].decision = "error"

=============================================================================
