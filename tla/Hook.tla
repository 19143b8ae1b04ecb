-------------------------------- MODULE Hook --------------------------------
(***************************************************************************)
(* The hook pipeline (internal/runner): from the host tool's request to    *)
(* its answer, one process per request.  Fires meet in two places, the     *)
(* credential cache and the metrics file.  The cache is seen here as       *)
(* CredentialSlots, which Keystore's files, locks and renewals implement;  *)
(* rotation and the report's reads are MetricsLog's.                       *)
(***************************************************************************)
EXTENDS Integers, FiniteSets

CONSTANTS
    Fires,       \* the hook processes
    Configs,     \* the merged configurations a fire may load
    Requests,    \* the requests the host tool may send
    Responses,   \* what the provider may answer to a request it accepts
    Salts,       \* values of auth.cache_key
    None,        \* no value
    MaxCrashes   \* bound: fires killed by the host tool

Known == {"anthropic", "openai", "gemini"}
AuthTypes == {"env", "exec", "file", "profile"}
Strategies == {"ask", "allow", "deny"}

\* bounded: provider.timeout_ms is not 0.  auth "env": no auth block.
Config == [provider : Known \union {"unknown"}, auth : AuthTypes, salt : Salts,
           strategy : Strategies, metrics : BOOLEAN, bounded : BOOLEAN]

Interactive == {"ExitPlanMode", "AskUserQuestion", "exit_plan_mode", "ask_user_question"}
Request == [tool : Interactive \union {"Bash"},
            mode : {"default", "plan", "bypassPermissions", "dontAsk"}]

\* What came back from the provider: stop is why the response ends, text is
\* what it says.  "other" is JSON with an unexpected behavior, "garbled" is
\* not JSON, "blank" is no text at all.
Response == [status : {"ok", "rejected", "error"},
             stop : {"end", "cut", "refused"},
             text : {"allow", "deny", "fallthrough", "other", "garbled", "blank"}]
Uncertain == {"fallthrough", "other"}

ASSUME FiresAssumption == IsFiniteSet(Fires)

ASSUME HookAssumption ==
    /\ Configs \subseteq Config
    /\ \A c \in Configs : c.auth = "profile" => c.provider \in {"anthropic", "unknown"}
    /\ Requests \subseteq Request
    /\ Responses \subseteq {r \in Response : r.status = "ok"}
    /\ MaxCrashes \in Nat

\* A key, by whose it is and where it came from.
Key == [provider : Known, salt : Salts, from : AuthTypes]
Scopes == (Known \union {"unknown"}) \X Salts
Sources == {"exec", "file", "cache", "lock", "profile", ""}
Credential == [key : Key, source : Sources]

\* What decide returns.
Kinds == {"", "llm", "user_interaction", "bypass", "dontask", "unknown_provider",
          "no_apikey", "credential_unavailable", "api_unusable"}
\* "llm" is whatever the model gives as its reason, "unresolved" whatever
\* keystore reports except a timeout.
Reasons == {"", "llm", "unresolved", "timeout", "provider_auth", "profile_load"}
Result == [behavior : {"allow", "deny", "none"}, kind : Kinds, reason : Reasons,
           source : Sources, failed : BOOLEAN]

\* A line of the metrics file.
Entry == [decision : {"allow", "deny", "fallthrough", "error"}, kind : Kinds, forced : BOOLEAN,
          reason : Reasons, source : Sources]

ASSUME NoneAssumption ==
    /\ None \notin Config /\ None \notin Scopes /\ None \notin Key /\ None \notin Credential
    /\ None \notin Response /\ None \notin Result /\ None \notin Entry
    /\ None \notin {"allow", "deny", "reading", "good", "bad"}

VARIABLES
    pc,      \* where each fire is
    conf,    \* the configuration each fire loaded
    req,     \* the request each fire was sent
    reader,  \* how far the goroutine that reads auth.path is, and what it has read
    cred,    \* the credential each fire resolved
    reply,   \* what came back from the provider
    result,  \* what decide returned
    cache,   \* key in each scope's cache file, or None
    log,     \* each fire's entry in the metrics file, or None
    answer,  \* the decision the host tool was told, or None
    exit     \* exit code, or None

loaded == <<conf, req>>
outcome == <<answer, exit>>
vars == <<pc, conf, req, reader, cred, reply, result, cache, log, answer, exit>>

Init ==
    /\ pc = [f \in Fires |-> "idle"]
    /\ conf = [f \in Fires |-> None]
    /\ req = [f \in Fires |-> None]
    /\ reader = [f \in Fires |-> None]
    /\ cred = [f \in Fires |-> None]
    /\ reply = [f \in Fires |-> None]
    /\ result = [f \in Fires |-> None]
    /\ cache = [s \in Scopes |-> None]
    /\ log = [f \in Fires |-> None]
    /\ answer = [f \in Fires |-> None]
    /\ exit = [f \in Fires |-> None]

Goto(f, where) == pc' = [pc EXCEPT ![f] = where]

\* decide returns r; Run goes on to the metrics entry.
Return(f, r) ==
    /\ result' = [result EXCEPT ![f] = r]
    /\ Goto(f, "record")

Decided(behavior, kind) ==
    [behavior |-> behavior, kind |-> kind, reason |-> "llm", source |-> "", failed |-> FALSE]
Fallthrough(kind, reason, source) ==
    [behavior |-> "none", kind |-> kind, reason |-> reason, source |-> source, failed |-> FALSE]
Failure == [behavior |-> "none", kind |-> "", reason |-> "", source |-> "", failed |-> TRUE]

-----------------------------------------------------------------------------
\* Definitions named Slip... are deliberate faults for mutation testing: each
\* is the definition that follows it with one plausible mistake.

\* Run reads the request and loads the configuration; without either it
\* exits before it has anything to log to.
Start(f) ==
    /\ pc[f] = "idle"
    /\ \/ /\ \E c \in Configs, r \in Requests :
                conf' = [conf EXCEPT ![f] = c] /\ req' = [req EXCEPT ![f] = r]
          /\ Goto(f, "gate")
          /\ UNCHANGED exit
       \/ Goto(f, "over") /\ exit' = [exit EXCEPT ![f] = 1] /\ UNCHANGED loaded
    /\ UNCHANGED <<reader, cred, reply, result, cache, log, answer>>

\* The requests decide hands back to the user unseen, in the code's order.
Gate(f) ==
    /\ pc[f] = "gate"
    /\ LET mode == req[f].mode IN
       \/ req[f].tool \in Interactive /\ Return(f, Fallthrough("user_interaction", "", ""))
       \/ /\ req[f].tool \notin Interactive
          /\ \/ /\ mode \in {"bypassPermissions", "dontAsk"}
                /\ Return(f, Fallthrough(IF mode = "dontAsk" THEN "dontask" ELSE "bypass", "", ""))
             \/ mode \in {"default", "plan"} /\ Goto(f, "resolve") /\ UNCHANGED result
    /\ UNCHANGED <<loaded, reader, cred, reply, cache, log, outcome>>

\* Slip: the provider is left out of the hash.
SlipCacheFingerprint(c) == <<"anthropic", c.salt>>

\* The part of the configuration that names the cache file.
CacheFingerprint(c) == <<c.provider, c.salt>>

KeyOf(c) == [provider |-> c.provider, salt |-> c.salt, from |-> c.auth]

Resolved(f, key, source) ==
    /\ cred' = [cred EXCEPT ![f] = [key |-> key, source |-> source]]
    /\ Goto(f, "prompt")
    /\ UNCHANGED result

Unresolved(f, kind, reason, source) ==
    Return(f, Fallthrough(kind, reason, source)) /\ UNCHANGED cred

Unavailable(f, reason, source) == Unresolved(f, "credential_unavailable", reason, source)

\* keystore.Resolve for auth.type=exec: a cached key, a new one that may or
\* may not be cached, or a failure of the cache, the lock or the helper.
ResolveCommand(f) ==
    LET scope == CacheFingerprint(conf[f]) IN
    \/ cache[scope] # None /\ Resolved(f, cache[scope], "cache") /\ UNCHANGED cache
    \/ /\ Resolved(f, KeyOf(conf[f]), "exec")
       /\ \/ cache' = [cache EXCEPT ![scope] = KeyOf(conf[f])]
          \/ UNCHANGED cache
    \/ /\ \/ \E s \in {"cache", "lock", "exec"} : Unavailable(f, "unresolved", s)
          \/ Unavailable(f, "timeout", "exec")
       /\ UNCHANGED cache

\* keystore.Resolve for auth.type=file up to its select: a path without a
\* home directory, or a goroutine that reads it.  Nothing is cached.
ResolveFile(f) ==
    /\ \/ /\ reader' = [reader EXCEPT ![f] = "reading"]
          /\ Goto(f, "file")
          /\ UNCHANGED <<cred, result>>
       \/ Unavailable(f, "unresolved", "file") /\ UNCHANGED reader
    /\ UNCHANGED cache

\* resolveAPIKey: an unknown provider comes before everything, and the
\* environment is looked at only if there is no auth block.
ResolveAPIKey(f) ==
    /\ pc[f] = "resolve"
    /\ LET c == conf[f] IN
       \/ /\ c.provider \notin Known
          /\ Unresolved(f, "unknown_provider", "", "") /\ UNCHANGED <<reader, cache>>
       \/ /\ c.provider \in Known
          /\ \/ c.auth = "exec" /\ ResolveCommand(f) /\ UNCHANGED reader
             \/ c.auth = "file" /\ ResolveFile(f)
             \/ /\ c.auth \in {"profile", "env"} /\ UNCHANGED <<reader, cache>>
                /\ \/ c.auth = "profile" /\ Resolved(f, KeyOf(c), "profile")
                   \/ c.auth = "env" /\ Resolved(f, KeyOf(c), "")
                   \/ c.auth = "env" /\ Unresolved(f, "no_apikey", "", "")
    /\ UNCHANGED <<loaded, reply, log, outcome>>

\* The os.Remove in keystore.Resolve's reads of a file that it finds
\* damaged, before it goes on.
DropDamaged(f) ==
    /\ pc[f] = "resolve" /\ conf[f].auth = "exec" /\ conf[f].provider \in Known
    /\ cache' = [cache EXCEPT ![CacheFingerprint(conf[f])] = None]
    /\ UNCHANGED <<pc, loaded, reader, cred, reply, result, log, outcome>>

\* The goroutine puts what it has read into its buffered channel: a fresh
\* payload ("good") or not.  The fire may have gone on without it.
ReaderEnds(f) ==
    /\ reader[f] = "reading" /\ pc[f] \notin {"over", "crashed"}
    /\ \E r \in {"good", "bad"} : reader' = [reader EXCEPT ![f] = r]
    /\ UNCHANGED <<pc, loaded, cred, reply, result, cache, log, outcome>>

\* Slip: the channel is received from outside of a select.
SlipAwaitFile(f) ==
    /\ pc[f] = "file"
    /\ \/ reader[f] = "good" /\ Resolved(f, KeyOf(conf[f]), "file")
       \/ reader[f] = "bad" /\ Unavailable(f, "unresolved", "file")
    /\ UNCHANGED <<loaded, reader, reply, cache, log, outcome>>

\* resolveFile's select: either branch if both are ready, and the deadline of
\* auth.timeout_ms may pass at any time.
AwaitFile(f) ==
    /\ pc[f] = "file"
    /\ \/ reader[f] = "good" /\ Resolved(f, KeyOf(conf[f]), "file")
       \/ reader[f] = "bad" /\ Unavailable(f, "unresolved", "file")
       \/ Unavailable(f, "timeout", "file")
    /\ UNCHANGED <<loaded, reader, reply, cache, log, outcome>>

BuildPrompt(f) ==
    /\ pc[f] = "prompt"
    /\ \/ Goto(f, "call") /\ UNCHANGED result
       \/ Return(f, Failure)
    /\ UNCHANGED <<loaded, reader, cred, reply, cache, log, outcome>>

\* The client sends the request, unless its profile cannot be loaded.
CallProvider(f) ==
    /\ pc[f] = "call"
    /\ \/ Goto(f, "wait") /\ UNCHANGED result
       \/ /\ conf[f].auth = "profile"
          /\ Return(f, Fallthrough("credential_unavailable", "profile_load", "profile"))
    /\ UNCHANGED <<loaded, reader, cred, reply, cache, log, outcome>>

\* newProviderClient: whatever it does not know gets the Anthropic client.
ClientOf(provider) == IF provider \in {"openai", "gemini"} THEN provider ELSE "anthropic"

\* Slip: only the text is looked at.
SlipUnusable(r) == r.text = "blank"

\* Client.Decide: what a truncated or refused response says does not count.
Unusable(r) == r.stop # "end" \/ r.text = "blank"

\* Slip: "ask" is applied like the other strategies.
SlipApplyStrategy(r, strategy) ==
    CASE Unusable(r) -> Fallthrough("api_unusable", "", "")
      [] ~Unusable(r) /\ r.text = "garbled" -> Failure
      [] ~Unusable(r) /\ r.text \in {"allow", "deny"} -> Decided(r.text, "")
      [] OTHER -> Decided(strategy, "llm")

\* The end of Client.Decide, the last part of decide, and ApplyStrategy.
Judge(r, strategy) ==
    CASE Unusable(r) -> Fallthrough("api_unusable", "", "")
      [] ~Unusable(r) /\ r.text = "garbled" -> Failure
      [] ~Unusable(r) /\ r.text \in {"allow", "deny"} -> Decided(r.text, "")
      [] ~Unusable(r) /\ r.text \in Uncertain /\ strategy # "ask" -> Decided(strategy, "llm")
      [] OTHER -> Fallthrough("llm", "llm", "")

\* A response with another status carries no verdict.
Refusal(status) == [status |-> status, stop |-> "end", text |-> "blank"]

Replied(f, r) == reply' = [reply EXCEPT ![f] = r]

Reply(f) ==
    /\ pc[f] = "wait"
    /\ \E r \in Responses : Replied(f, r) /\ Return(f, Judge(r, conf[f].strategy))
    /\ UNCHANGED <<loaded, reader, cred, cache, log, outcome>>

\* Slip: the rejection is an error like any other.
SlipReject(f) ==
    /\ pc[f] = "wait"
    /\ Replied(f, Refusal("rejected"))
    /\ Return(f, Failure)
    /\ UNCHANGED <<loaded, reader, cred, cache, log, outcome>>

\* 401 or 403.  A key from the environment cannot be renewed: that is an error.
Reject(f) ==
    /\ pc[f] = "wait"
    /\ Replied(f, Refusal("rejected"))
    /\ CASE conf[f].auth = "env" -> Return(f, Failure)
         [] conf[f].auth = "exec" -> Goto(f, "invalidate") /\ UNCHANGED result
         [] OTHER -> Return(f, Fallthrough("credential_unavailable", "provider_auth", cred[f].source))
    /\ UNCHANGED <<loaded, reader, cred, cache, log, outcome>>

\* Slip: every scope's file is removed.
SlipInvalidateAuthCache(f) ==
    /\ pc[f] = "invalidate"
    /\ cache' = [s \in Scopes |-> None]
    /\ Return(f, Fallthrough("credential_unavailable", "provider_auth", cred[f].source))
    /\ UNCHANGED <<loaded, reader, cred, reply, log, outcome>>

\* invalidateAuthCache, whose own failure is only logged.
InvalidateAuthCache(f) ==
    /\ pc[f] = "invalidate"
    /\ \/ cache' = [cache EXCEPT ![CacheFingerprint(conf[f])] = None]
       \/ UNCHANGED cache
    /\ Return(f, Fallthrough("credential_unavailable", "provider_auth", cred[f].source))
    /\ UNCHANGED <<loaded, reader, cred, reply, log, outcome>>

\* Any other API error, a broken transport, a signal.
CallFails(f) ==
    /\ pc[f] = "wait"
    /\ Replied(f, Refusal("error"))
    /\ Return(f, Failure)
    /\ UNCHANGED <<loaded, reader, cred, cache, log, outcome>>

\* Slip: the test for 0, no timeout, is the wrong way round.
SlipCallTimesOut(f) == pc[f] = "wait" /\ ~conf[f].bounded /\ CallFails(f)

\* The deadline of provider.timeout_ms, which spans the retries.
CallTimesOut(f) == pc[f] = "wait" /\ conf[f].bounded /\ CallFails(f)

\* Slip: every decision is marked as forced.
SlipBuildMetricsEntry(r) ==
    [decision |-> IF r.failed THEN "error" ELSE IF r.behavior # "none" THEN r.behavior ELSE "fallthrough",
     kind |-> r.kind,
     forced |-> r.behavior # "none",
     reason |-> r.reason,
     source |-> IF r.kind = "credential_unavailable" THEN r.source ELSE ""]

BuildMetricsEntry(r) ==
    [decision |-> IF r.failed THEN "error" ELSE IF r.behavior # "none" THEN r.behavior ELSE "fallthrough",
     kind |-> r.kind,
     forced |-> r.behavior # "none" /\ r.kind = "llm",
     reason |-> r.reason,
     source |-> IF r.kind = "credential_unavailable" THEN r.source ELSE ""]

\* aggregate, without the days, tools and inputs it groups by: what it counts
\* of the fires with an entry, except those ccgate had no say in.
Counted == {f \in Fires : log[f] # None /\ log[f].kind # "user_interaction"}
Aggregate ==
    LET Decision(d) == {f \in Counted : log[f].decision = d}
        Forced(d) == {f \in Decision(d) : log[f].forced}
    IN  [total       |-> Cardinality(Counted),
         allow       |-> Cardinality(Decision("allow")),
         deny        |-> Cardinality(Decision("deny")),
         fall        |-> Cardinality(Decision("fallthrough")),
         errors      |-> Cardinality(Decision("error")),
         forcedAllow |-> Cardinality(Forced("allow")),
         forcedDeny  |-> Cardinality(Forced("deny")),
         topFall     |-> Cardinality({f \in Counted : log[f].kind = "llm"}),
         topDeny     |-> Cardinality(Decision("deny") \ Forced("deny"))]

\* The rows of the report's credential failures for these sources and reasons.
CredentialFailures(sources, reasons) ==
    Cardinality({f \in Counted : /\ log[f].kind = "credential_unavailable"
                                 /\ log[f].source \in sources /\ log[f].reason \in reasons})

\* Slip: the entry is left to a goroutine that the exit may overtake.
SlipRecord(f) ==
    /\ pc[f] = "record"
    /\ Goto(f, "emit")
    /\ UNCHANGED <<loaded, reader, cred, reply, result, cache, log, outcome>>

\* The metrics entry, written before the answer unless metrics are off.  A
\* write that fails is only logged: Run goes on with what it has decided.
Record(f) ==
    /\ pc[f] = "record"
    /\ \/ /\ conf[f].metrics
          /\ log' = [log EXCEPT ![f] = BuildMetricsEntry(result[f])]
          /\ Goto(f, "emit")
       \/ /\ Goto(f, IF conf[f].metrics THEN "unlogged" ELSE "emit")
          /\ UNCHANGED log
    /\ UNCHANGED <<loaded, reader, cred, reply, result, cache, outcome>>

\* The end of Run: exit code, and the answer on stdout if there is one to
\* give and the host tool still reads it.
Emit(f) ==
    /\ pc[f] \in {"emit", "unlogged"}
    /\ LET silent == result[f].behavior = "none" IN
       \/ /\ exit' = [exit EXCEPT ![f] = IF result[f].failed THEN 1 ELSE 0]
          /\ answer' = [answer EXCEPT ![f] = IF silent THEN None ELSE result[f].behavior]
       \/ ~silent /\ exit' = [exit EXCEPT ![f] = 1] /\ UNCHANGED answer
    /\ Goto(f, "over")
    /\ UNCHANGED <<loaded, reader, cred, reply, result, cache, log>>

-----------------------------------------------------------------------------

\* The host tool gives up on the hook and kills it.  What the process knew is
\* lost; the model keeps it for a fire that has left an entry in the metrics.
Crash(f) ==
    /\ pc[f] \notin {"idle", "over", "crashed"}
    /\ Cardinality({g \in Fires : pc[g] = "crashed"}) < MaxCrashes
    /\ Goto(f, "crashed")
    /\ \/ log[f] # None /\ UNCHANGED <<req, reader, cred, reply, result>>
       \/ /\ log[f] = None
          /\ req' = [req EXCEPT ![f] = None] /\ reader' = [reader EXCEPT ![f] = None]
          /\ cred' = [cred EXCEPT ![f] = None] /\ reply' = [reply EXCEPT ![f] = None]
          /\ result' = [result EXCEPT ![f] = None]
    /\ UNCHANGED <<conf, cache, log, outcome>>

\* The steps a fire takes by itself.  Credential resolution is among them:
\* auth.timeout_ms bounds it.
Step(f) ==
    \/ Gate(f) \/ ResolveAPIKey(f) \/ AwaitFile(f) \/ BuildPrompt(f) \/ CallProvider(f)
    \/ CallTimesOut(f) \/ InvalidateAuthCache(f) \/ Record(f) \/ Emit(f)

Next ==
    \E f \in Fires :
        \/ Step(f)
        \/ Start(f) \/ DropDamaged(f) \/ ReaderEnds(f)
        \/ Reply(f) \/ Reject(f) \/ CallFails(f) \/ Crash(f)

Spec == Init /\ [][Next]_vars

\* Processes are scheduled; the provider may never answer, and a file may
\* never be read.
FairSpec == Spec /\ \A f \in Fires : WF_vars(Step(f))

=============================================================================
