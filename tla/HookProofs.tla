----------------------------- MODULE HookProofs -----------------------------
(***************************************************************************)
(* Proofs about Hook, for any number of fires, any configurations and      *)
(* requests, and any number of kills.                                      *)
(***************************************************************************)
EXTENDS HookProps, TLAPS

Holding == {"prompt", "call", "wait", "invalidate"}
Deciding == {"idle", "gate", "resolve", "file"} \union Holding
Reporting == {"record", "emit", "unlogged"}

\* What a fire has at each stage of the pipeline.
StageInv ==
    \A f \in Fires :
        /\ pc[f] = "idle" => conf[f] = None
        /\ pc[f] \in (Deciding \ {"idle"}) \union Reporting =>
              conf[f] \in Configs /\ req[f] \in Requests
        /\ pc[f] = "file" => conf[f].auth = "file"
        /\ pc[f] \in {"file"} \union Holding => conf[f].provider \in Known
        /\ pc[f] \in {"idle", "gate", "resolve", "file"} => cred[f] = None
        /\ pc[f] \in Holding => cred[f] \in Credential
        /\ pc[f] \in Deciding \ {"invalidate"} => reply[f] = None
        /\ pc[f] = "invalidate" => reply[f] = Refusal("rejected") /\ conf[f].auth = "exec"
        /\ pc[f] \in Deciding => result[f] = None
        /\ pc[f] \in Reporting => result[f] \in Result
        /\ pc[f] \in Deciding \union Reporting => answer[f] = None
        /\ result[f] # None => (result[f].failed => result[f].behavior = "none")

TypeInv == TypeOK /\ StageInv

-----------------------------------------------------------------------------
\* The results decide builds are results, and only Failure is a failure.
LEMMA FailureIsResult == Failure \in Result /\ Failure.failed /\ Failure.behavior = "none"
  BY DEF Failure, Result, Kinds, Sources, Reasons

LEMMA FallthroughIsResult ==
    ASSUME NEW kind \in Kinds, NEW source \in Sources, NEW reason \in Reasons
    PROVE  /\ Fallthrough(kind, reason, source) \in Result
           /\ ~Fallthrough(kind, reason, source).failed
           /\ Fallthrough(kind, reason, source).behavior = "none"
  BY DEF Fallthrough, Result

\* A response of another status than "ok" says nothing.
LEMMA RefusalIsResponse ==
    ASSUME NEW status \in {"rejected", "error"}
    PROVE  /\ Refusal(status) \in Response /\ Refusal(status) # None
           /\ Refusal(status).status = status
  BY NoneAssumption DEF Refusal, Response

\* Judging a response gives a decision only if that is what it says, or if it
\* is uncertain under the strategy that says so.
LEMMA JudgeIsBacked ==
    ASSUME NEW r \in Response, r.status = "ok", NEW s \in Strategies
    PROVE  /\ Judge(r, s) \in Result
           /\ Judge(r, s).failed => Judge(r, s).behavior = "none"
           /\ \/ Judge(r, s).behavior = "none"
              \/ Said(r, {Judge(r, s).behavior})
              \/ Said(r, Uncertain) /\ Judge(r, s).behavior = s
<1>1. r # None
  BY NoneAssumption
<1>2. CASE Unusable(r)
  <2>1. Judge(r, s) = Fallthrough("api_unusable", "", "")
    BY <1>2 DEF Judge, Unusable
  <2> QED
    BY <2>1, FallthroughIsResult DEF Kinds, Sources, Reasons, Said
<1>3. CASE ~Unusable(r) /\ r.text = "garbled"
  BY <1>3, FailureIsResult DEF Judge, Unusable, Uncertain, Said
<1>4. CASE ~Unusable(r) /\ r.text \in {"allow", "deny"}
  <2>1. Judge(r, s) = Decided(r.text, "")
    BY <1>4 DEF Judge, Unusable, Uncertain
  <2>2. Decided(r.text, "") \in Result /\ Decided(r.text, "").behavior = r.text
        /\ ~Decided(r.text, "").failed
    BY <1>4 DEF Decided, Result, Kinds, Sources, Reasons
  <2> QED
    BY <1>1, <1>4, <2>1, <2>2 DEF Said, Unusable
<1>5. CASE ~Unusable(r) /\ r.text \in Uncertain /\ s # "ask"
  <2>1. Judge(r, s) = Decided(s, "llm")
    BY <1>5 DEF Judge, Unusable, Uncertain
  <2>2. Decided(s, "llm") \in Result /\ Decided(s, "llm").behavior = s
        /\ ~Decided(s, "llm").failed
    BY <1>5 DEF Decided, Result, Kinds, Sources, Reasons, Strategies
  <2> QED
    BY <1>1, <1>5, <2>1, <2>2 DEF Said, Unusable
<1>6. CASE ~Unusable(r) /\ r.text \in Uncertain /\ s = "ask"
  <2>1. Judge(r, s) = Fallthrough("llm", "llm", "")
    BY <1>6 DEF Judge, Unusable, Uncertain
  <2> QED
    BY <2>1, FallthroughIsResult DEF Kinds, Sources, Reasons
<1>7. ~Unusable(r) => r.text \in {"allow", "deny", "garbled"} \union Uncertain
  BY DEF Unusable, Response, Uncertain
<1> QED
  BY <1>2, <1>3, <1>4, <1>5, <1>6, <1>7

\* An entry repeats the decision it records.
LEMMA EntryTells ==
    ASSUME NEW r \in Result
    PROVE  /\ BuildMetricsEntry(r) \in Entry
           /\ ~r.failed /\ r.behavior # "none" => BuildMetricsEntry(r).decision = r.behavior
  BY DEF BuildMetricsEntry, Result, Entry, Kinds, Sources, Reasons

\* The key resolved for a configuration of a known provider.
LEMMA KeyIsKey ==
    ASSUME NEW c \in Configs, c.provider \in Known
    PROVE  KeyOf(c) \in Key /\ CacheFingerprint(c) \in Scopes
  BY HookAssumption DEF KeyOf, Key, CacheFingerprint, Scopes, Config

\* Resolving finds a credential, hands the request back, or waits for a file.
LEMMA ResolveOutcome ==
    ASSUME TypeInv, NEW f \in Fires, ResolveAPIKey(f) \/ AwaitFile(f)
    PROVE  /\ UNCHANGED <<loaded, reply, log, outcome>>
           /\ reader' \in [Fires -> {"reading", "good", "bad", None}]
           /\ \/ /\ pc[f] = "resolve" \/ (pc[f] = "file" /\ UNCHANGED cache)
                 /\ conf[f].provider \in Known
                 /\ \E key \in Key, source \in Sources :
                       /\ Resolved(f, key, source)
                       /\ \/ key = KeyOf(conf[f])
                          \/ /\ conf[f].auth = "exec" /\ key = cache[CacheFingerprint(conf[f])]
                             /\ UNCHANGED cache
                 /\ \/ UNCHANGED cache
                    \/ /\ conf[f].auth = "exec"
                       /\ cache' = [cache EXCEPT ![CacheFingerprint(conf[f])] = KeyOf(conf[f])]
              \/ /\ pc[f] \in {"resolve", "file"} /\ UNCHANGED <<cred, cache>>
                 /\ \E r \in Result : ~r.failed /\ r.behavior = "none" /\ Return(f, r)
              \/ /\ pc[f] = "resolve" /\ Goto(f, "file") /\ UNCHANGED <<cred, result, cache>>
                 /\ conf[f].auth = "file" /\ conf[f].provider \in Known
<1> DEFINE c == conf[f]
<1>1. pc[f] \in {"resolve", "file"} /\ UNCHANGED <<loaded, reply, log, outcome>>
  BY DEF ResolveAPIKey, AwaitFile
<1>2. c \in Configs
  BY <1>1 DEF TypeInv, StageInv, Deciding
<1>3. ASSUME NEW kind \in Kinds, NEW source \in Sources, NEW reason \in Reasons,
             Unresolved(f, kind, reason, source), UNCHANGED cache
      PROVE  /\ UNCHANGED <<cred, cache>>
             /\ \E r \in Result : ~r.failed /\ r.behavior = "none" /\ Return(f, r)
  BY <1>3, FallthroughIsResult DEF Unresolved
<1>4. ASSUME NEW source \in Sources, NEW reason \in {"unresolved", "timeout"},
             Unavailable(f, reason, source), UNCHANGED cache
      PROVE  /\ UNCHANGED <<cred, cache>>
             /\ \E r \in Result : ~r.failed /\ r.behavior = "none" /\ Return(f, r)
  BY <1>3, <1>4 DEF Unavailable, Kinds, Reasons
<1>5. reader' \in [Fires -> {"reading", "good", "bad", None}]
  <2>1. UNCHANGED reader \/ reader' = [reader EXCEPT ![f] = "reading"]
    BY DEF ResolveAPIKey, AwaitFile, ResolveFile
  <2> QED
    BY <2>1 DEF TypeInv, TypeOK
<1>6. CASE AwaitFile(f)
  <2>1. pc[f] = "file" /\ UNCHANGED cache /\ c.provider \in Known
    BY <1>6 DEF AwaitFile, TypeInv, StageInv
  <2>2. KeyOf(c) \in Key
    BY <1>2, <2>1, KeyIsKey
  <2>3. \/ Resolved(f, KeyOf(c), "file")
        \/ \E reason \in {"unresolved", "timeout"} : Unavailable(f, reason, "file")
    BY <1>6 DEF AwaitFile
  <2> QED
    BY <1>1, <1>4, <1>5, <2>1, <2>2, <2>3 DEF Sources
<1>7. CASE pc[f] = "resolve" /\ c.provider \notin Known /\ ResolveAPIKey(f)
  BY <1>1, <1>3, <1>5, <1>7 DEF ResolveAPIKey, Kinds, Sources, Reasons
<1>8. CASE pc[f] = "resolve" /\ c.provider \in Known /\ c.auth = "exec" /\ ResolveAPIKey(f)
  <2>1. CacheFingerprint(c) \in Scopes /\ KeyOf(c) \in Key
    BY <1>2, <1>8, KeyIsKey
  <2>2. ResolveCommand(f)
    BY <1>8 DEF ResolveAPIKey
  <2>3. CASE cache[CacheFingerprint(c)] # None /\ Resolved(f, cache[CacheFingerprint(c)], "cache")
             /\ UNCHANGED cache
    <3>1. cache[CacheFingerprint(c)] \in Key
      BY <2>1, <2>3 DEF TypeInv, TypeOK
    <3> QED
      BY <1>1, <1>5, <1>8, <2>3, <3>1 DEF Sources
  <2>4. CASE /\ Resolved(f, KeyOf(c), "exec")
             /\ \/ cache' = [cache EXCEPT ![CacheFingerprint(c)] = KeyOf(c)]
                \/ UNCHANGED cache
    BY <1>1, <1>5, <1>8, <2>1, <2>4 DEF Sources
  <2>5. CASE /\ \/ \E s \in {"cache", "lock", "exec"} : Unavailable(f, "unresolved", s)
                \/ Unavailable(f, "timeout", "exec")
             /\ UNCHANGED cache
    BY <1>1, <1>4, <1>5, <1>8, <2>5 DEF Sources
  <2> QED
    BY <2>2, <2>3, <2>4, <2>5 DEF ResolveCommand
<1>9. CASE pc[f] = "resolve" /\ c.provider \in Known /\ c.auth = "file" /\ ResolveAPIKey(f)
  <2>1. ResolveFile(f)
    BY <1>9 DEF ResolveAPIKey
  <2> QED
    BY <1>1, <1>4, <1>5, <1>9, <2>1 DEF ResolveFile, Sources
<1>10. CASE pc[f] = "resolve" /\ c.provider \in Known /\ c.auth \in {"profile", "env"}
            /\ ResolveAPIKey(f)
  <2>1. KeyOf(c) \in Key
    BY <1>2, <1>10, KeyIsKey
  <2>2. /\ UNCHANGED cache
        /\ \/ \E source \in {"profile", ""} : Resolved(f, KeyOf(c), source)
           \/ Unresolved(f, "no_apikey", "", "")
    BY <1>10 DEF ResolveAPIKey
  <2> QED
    BY <1>1, <1>3, <1>5, <1>10, <2>1, <2>2 DEF Kinds, Sources, Reasons
<1>11. c.auth \in AuthTypes
  BY <1>2, HookAssumption DEF Config
<1>12. AwaitFile(f) \/ (pc[f] = "resolve" /\ ResolveAPIKey(f))
  BY DEF ResolveAPIKey
<1> QED
  BY <1>6, <1>7, <1>8, <1>9, <1>10, <1>11, <1>12 DEF AuthTypes

\* What every provider answer that ends the call does: one result, one reply.
LEMMA CallOutcome ==
    ASSUME TypeInv, NEW f \in Fires, Reply(f) \/ CallFails(f) \/ CallTimesOut(f)
    PROVE  /\ pc[f] = "wait" /\ UNCHANGED <<loaded, reader, cred, cache, log, outcome>>
           /\ \E v \in Response, r \in Result :
                 /\ Replied(f, v) /\ Return(f, r)
                 /\ v # None /\ v.status # "rejected"
                 /\ r.failed => r.behavior = "none"
                 /\ \/ r.behavior = "none"
                    \/ Said(v, {r.behavior})
                    \/ Said(v, Uncertain) /\ r.behavior = conf[f].strategy
<1>1. CASE Reply(f)
  <2>1. conf[f].strategy \in Strategies
    BY <1>1, HookAssumption DEF Reply, TypeInv, StageInv, Config, Deciding, Holding
  <2>2. PICK v \in Responses : Replied(f, v) /\ Return(f, Judge(v, conf[f].strategy))
    BY <1>1 DEF Reply
  <2>3. v \in Response /\ v # None /\ v.status = "ok"
    BY HookAssumption, NoneAssumption
  <2>4. /\ Judge(v, conf[f].strategy) \in Result
        /\ Judge(v, conf[f].strategy).failed => Judge(v, conf[f].strategy).behavior = "none"
        /\ \/ Judge(v, conf[f].strategy).behavior = "none"
           \/ Said(v, {Judge(v, conf[f].strategy).behavior})
           \/ Said(v, Uncertain) /\ Judge(v, conf[f].strategy).behavior = conf[f].strategy
    BY <2>1, <2>3, JudgeIsBacked
  <2> QED
    BY <1>1, <2>2, <2>3, <2>4 DEF Reply
<1>2. CASE CallFails(f) \/ CallTimesOut(f)
  BY <1>2, FailureIsResult, RefusalIsResponse DEF CallFails, CallTimesOut
<1> QED
  BY <1>1, <1>2

\* A rejection either goes to the cache or ends the call without a decision;
\* it fails only for a key from the environment.
LEMMA RejectOutcome ==
    ASSUME TypeInv, NEW f \in Fires, Reject(f)
    PROVE  /\ pc[f] = "wait" /\ UNCHANGED <<loaded, reader, cred, cache, log, outcome>>
           /\ Replied(f, Refusal("rejected"))
           /\ \/ conf[f].auth = "exec" /\ Goto(f, "invalidate") /\ UNCHANGED result
              \/ \E r \in Result : /\ Return(f, r) /\ r.behavior = "none"
                                   /\ r.failed => conf[f].auth = "env"
<1>1. pc[f] = "wait" /\ Replied(f, Refusal("rejected")) /\ UNCHANGED <<loaded, reader, cred, cache, log, outcome>>
  BY DEF Reject
<1>2. cred[f].source \in Sources
  BY <1>1 DEF TypeInv, StageInv, Holding, Credential
<1>3. CASE conf[f].auth = "env"
  BY <1>1, <1>3, FailureIsResult DEF Reject
<1>4. CASE conf[f].auth = "exec"
  BY <1>1, <1>4 DEF Reject
<1>5. CASE conf[f].auth \notin {"env", "exec"}
  <2>1. Return(f, Fallthrough("credential_unavailable", "provider_auth", cred[f].source))
    BY <1>5 DEF Reject
  <2> QED
    BY <1>1, <1>2, <2>1, FallthroughIsResult DEF Kinds, Reasons
<1> QED
  BY <1>3, <1>4, <1>5

\* The steps around the call that may end it without a reply.
LEMMA EndOutcome ==
    ASSUME TypeInv, NEW f \in Fires,
           Gate(f) \/ BuildPrompt(f) \/ CallProvider(f) \/ InvalidateAuthCache(f)
    PROVE  /\ UNCHANGED <<loaded, reader, cred, reply, log, outcome>>
           /\ \/ \E r \in Result : /\ Return(f, r) /\ r.behavior = "none"
                                   /\ r.failed => pc[f] = "prompt"
              \/ /\ UNCHANGED result
                 /\ \/ pc[f] = "gate" /\ Goto(f, "resolve")
                    \/ pc[f] = "prompt" /\ Goto(f, "call")
                    \/ pc[f] = "call" /\ Goto(f, "wait")
           /\ pc[f] \in {"gate", "prompt", "call", "invalidate"}
           /\ \/ UNCHANGED cache
              \/ /\ pc[f] = "invalidate"
                 /\ cache' = [cache EXCEPT ![CacheFingerprint(conf[f])] = None]
<1>1. CASE Gate(f)
  <2>1. ASSUME NEW kind \in {"user_interaction", "bypass", "dontask"}
        PROVE  /\ Fallthrough(kind, "", "") \in Result
               /\ ~Fallthrough(kind, "", "").failed
               /\ Fallthrough(kind, "", "").behavior = "none"
    <3>1. kind \in Kinds /\ "" \in Sources /\ "" \in Reasons
      BY DEF Kinds, Sources, Reasons
    <3> QED
      BY <3>1, FallthroughIsResult
  <2>2. pc[f] = "gate" /\ UNCHANGED <<loaded, reader, cred, reply, cache, log, outcome>>
    BY <1>1 DEF Gate
  <2>3. \/ \E kind \in {"user_interaction", "bypass", "dontask"} :
              Return(f, Fallthrough(kind, "", ""))
        \/ Goto(f, "resolve") /\ UNCHANGED result
    BY <1>1 DEF Gate
  <2> QED
    BY <2>1, <2>2, <2>3
<1>2. CASE BuildPrompt(f)
  BY <1>2, FailureIsResult DEF BuildPrompt
<1>3. CASE CallProvider(f)
  BY <1>3, FallthroughIsResult DEF CallProvider, Kinds, Sources, Reasons
<1>4. CASE InvalidateAuthCache(f)
  <2>1. cred[f].source \in Sources
    BY <1>4 DEF InvalidateAuthCache, TypeInv, StageInv, Holding, Credential
  <2> QED
    BY <1>4, <2>1, FallthroughIsResult DEF InvalidateAuthCache, Kinds, Reasons
<1> QED
  BY <1>1, <1>2, <1>3, <1>4

-----------------------------------------------------------------------------
LEMMA TypeInit == Init => TypeInv
  BY NoneAssumption DEF Init, TypeInv, TypeOK, StageInv, Locations, Holding, Deciding, Reporting

LEMMA TypeStep == TypeInv /\ [Next]_vars => TypeInv'
<1> SUFFICES ASSUME TypeInv, [Next]_vars PROVE TypeInv'
  OBVIOUS
<1> USE DEF TypeInv, TypeOK, StageInv, Locations, Holding, Deciding, Reporting, loaded, outcome,
            Goto, Return, Replied
<1>1. ASSUME NEW f \in Fires, Start(f) PROVE TypeInv'
  BY <1>1 DEF Start
<1>2. ASSUME NEW f \in Fires,
             Gate(f) \/ BuildPrompt(f) \/ CallProvider(f) \/ InvalidateAuthCache(f)
      PROVE  TypeInv'
  <2>1. PICK r \in Result \union {None} :
           /\ \/ /\ r \in Result /\ r.behavior = "none"
                 /\ result' = [result EXCEPT ![f] = r] /\ pc' = [pc EXCEPT ![f] = "record"]
              \/ /\ UNCHANGED result
                 /\ \/ pc[f] = "gate" /\ pc' = [pc EXCEPT ![f] = "resolve"]
                    \/ pc[f] = "prompt" /\ pc' = [pc EXCEPT ![f] = "call"]
                    \/ pc[f] = "call" /\ pc' = [pc EXCEPT ![f] = "wait"]
    BY <1>2, EndOutcome
  <2>2. /\ UNCHANGED <<conf, req, reader, cred, reply, log, answer, exit>>
        /\ pc[f] \in {"gate", "prompt", "call", "invalidate"}
    BY <1>2, EndOutcome
  <2>3. cache' \in [Scopes -> Key \union {None}]
    BY <1>2, EndOutcome
  <2> QED
    BY <2>1, <2>2, <2>3
<1>3. ASSUME NEW f \in Fires, ResolveAPIKey(f) \/ AwaitFile(f) PROVE TypeInv'
  <2>1. /\ pc[f] \in {"resolve", "file"} /\ UNCHANGED <<conf, req, reply, log, answer, exit>>
        /\ reader' \in [Fires -> {"reading", "good", "bad", None}]
    BY <1>3, ResolveOutcome
  <2>2. CASE /\ conf[f].provider \in Known
             /\ \E key \in Key, source \in Sources : Resolved(f, key, source)
    <3>1. PICK c \in Credential : cred' = [cred EXCEPT ![f] = c]
      BY <2>2 DEF Resolved, Credential
    <3>2. pc' = [pc EXCEPT ![f] = "prompt"] /\ UNCHANGED result
      BY <2>2 DEF Resolved
    <3>3. cache' \in [Scopes -> Key \union {None}]
      <4>1. UNCHANGED cache \/ \E s \in Scopes, k \in Key : cache' = [cache EXCEPT ![s] = k]
        BY <1>3, <2>1, ResolveOutcome, KeyIsKey
      <4> QED
        BY <4>1
    <3> QED
      BY <2>1, <2>2, <3>1, <3>2, <3>3
  <2>3. CASE /\ UNCHANGED <<cred, cache>>
             /\ \E r \in Result : ~r.failed /\ r.behavior = "none" /\ Return(f, r)
    BY <2>1, <2>3
  <2>4. CASE /\ pc[f] = "resolve" /\ Goto(f, "file") /\ UNCHANGED <<cred, result, cache>>
             /\ conf[f].auth = "file" /\ conf[f].provider \in Known
    BY <2>1, <2>4
  <2> QED
    BY <1>3, <2>2, <2>3, <2>4, ResolveOutcome
<1>4. ASSUME NEW f \in Fires, Reply(f) \/ CallFails(f) \/ CallTimesOut(f) PROVE TypeInv'
  <2>1. pc[f] = "wait" /\ UNCHANGED <<conf, req, reader, cred, cache, log, answer, exit>>
    BY <1>4, CallOutcome
  <2>2. PICK v \in Response, r \in Result :
           Replied(f, v) /\ Return(f, r) /\ (r.failed => r.behavior = "none")
    BY <1>4, CallOutcome DEF Said
  <2> QED
    BY <2>1, <2>2
<1>5. ASSUME NEW f \in Fires, Reject(f) PROVE TypeInv'
  <2>1. /\ pc[f] = "wait" /\ UNCHANGED <<conf, req, reader, cred, cache, log, answer, exit>>
        /\ Replied(f, Refusal("rejected")) /\ Refusal("rejected") \in Response
        /\ \/ conf[f].auth = "exec" /\ Goto(f, "invalidate") /\ UNCHANGED result
           \/ \E r \in Result : Return(f, r) /\ r.behavior = "none"
    BY <1>5, RejectOutcome, RefusalIsResponse
  <2> QED
    BY <2>1
<1>6. ASSUME NEW f \in Fires, Record(f) PROVE TypeInv'
  <2>1. result[f] \in Result
    BY <1>6 DEF Record
  <2>2. BuildMetricsEntry(result[f]) \in Entry
    BY <2>1, EntryTells
  <2> QED
    BY <1>6, <2>2 DEF Record
<1>7. ASSUME NEW f \in Fires, Emit(f) PROVE TypeInv'
  <2>1. result[f].behavior \in {"allow", "deny", "none"}
    BY <1>7 DEF Emit, Result
  <2> QED
    BY <1>7, <2>1 DEF Emit
<1>8. ASSUME NEW f \in Fires, Crash(f) PROVE TypeInv'
  BY <1>8, NoneAssumption DEF Crash
<1>9. ASSUME NEW f \in Fires, DropDamaged(f) PROVE TypeInv'
  BY <1>9 DEF DropDamaged
<1>10. ASSUME NEW f \in Fires, ReaderEnds(f) PROVE TypeInv'
  BY <1>10 DEF ReaderEnds
<1>11. CASE UNCHANGED vars
  BY <1>11 DEF vars
<1> QED
  BY <1>1, <1>2, <1>3, <1>4, <1>5, <1>6, <1>7, <1>8, <1>9, <1>10, <1>11 DEF Next, Step

\* Every variable stays within its type, whatever the configurations.
THEOREM HookTypeCorrect == Spec => []TypeOK
<1>1. TypeInv => TypeOK
  BY DEF TypeInv
<1> QED
  BY <1>1, TypeInit, TypeStep, PTL DEF Spec

-----------------------------------------------------------------------------
\* The reply that stands behind a decision d of fire f.
Backed(f, d) ==
    \/ Said(reply[f], {d})
    \/ Said(reply[f], Uncertain) /\ conf[f].strategy = d

\* What decide has returned is backed as soon as it has returned it.
VerdictInv ==
    \A f \in Fires :
        /\ result[f] # None =>
              result[f].behavior = "none" \/ Backed(f, result[f].behavior)
        /\ answer[f] # None => Backed(f, answer[f])

LEMMA VerdictStep == TypeInv /\ VerdictInv /\ [Next]_vars => VerdictInv'
<1> SUFFICES ASSUME TypeInv, VerdictInv, [Next]_vars PROVE VerdictInv'
  OBVIOUS
<1> USE DEF TypeInv, TypeOK, StageInv, Holding, Deciding, Reporting, loaded, outcome,
            Goto, Return, Replied, VerdictInv, Backed
<1>1. ASSUME NEW f \in Fires, Start(f) PROVE VerdictInv'
  BY <1>1, NoneAssumption DEF Start
<1>2. ASSUME NEW f \in Fires,
             Gate(f) \/ BuildPrompt(f) \/ CallProvider(f) \/ InvalidateAuthCache(f)
      PROVE  VerdictInv'
  <2>1. /\ UNCHANGED <<conf, reply, answer>>
        /\ \/ \E r \in Result : result' = [result EXCEPT ![f] = r] /\ r.behavior = "none"
           \/ UNCHANGED result
    BY <1>2, EndOutcome
  <2> QED
    BY <2>1
<1>3. ASSUME NEW f \in Fires, ResolveAPIKey(f) \/ AwaitFile(f) PROVE VerdictInv'
  <2>1. /\ UNCHANGED <<conf, reply, answer>>
        /\ \/ \E r \in Result : result' = [result EXCEPT ![f] = r] /\ r.behavior = "none"
           \/ UNCHANGED result
    BY <1>3, ResolveOutcome DEF Resolved
  <2> QED
    BY <2>1
<1>4. ASSUME NEW f \in Fires, Reply(f) \/ CallFails(f) \/ CallTimesOut(f) PROVE VerdictInv'
  <2>1. /\ pc[f] = "wait" /\ UNCHANGED <<conf, answer>>
        /\ \E v \in Response, r \in Result :
              /\ reply' = [reply EXCEPT ![f] = v] /\ result' = [result EXCEPT ![f] = r]
              /\ \/ r.behavior = "none"
                 \/ Said(v, {r.behavior})
                 \/ Said(v, Uncertain) /\ r.behavior = conf[f].strategy
    BY <1>4, CallOutcome DEF Said
  <2> QED
    BY <2>1
<1>5. ASSUME NEW f \in Fires, Reject(f) PROVE VerdictInv'
  <2>1. /\ pc[f] = "wait" /\ UNCHANGED <<conf, answer>>
        /\ \E v \in Response : reply' = [reply EXCEPT ![f] = v]
        /\ \/ UNCHANGED result
           \/ \E r \in Result : result' = [result EXCEPT ![f] = r] /\ r.behavior = "none"
    BY <1>5, RejectOutcome, RefusalIsResponse
  <2> QED
    BY <2>1
<1>6. ASSUME NEW f \in Fires, Record(f) PROVE VerdictInv'
  BY <1>6 DEF Record, Said
<1>7. ASSUME NEW f \in Fires, Emit(f) PROVE VerdictInv'
  <2>1. result[f] # None
    BY <1>7, NoneAssumption DEF Emit
  <2> QED
    BY <1>7, <2>1 DEF Emit
<1>8. ASSUME NEW f \in Fires, Crash(f) PROVE VerdictInv'
  <2>1. answer[f] = None /\ UNCHANGED <<conf, answer>>
    BY <1>8 DEF Crash, Locations
  <2>2. \/ UNCHANGED <<reply, result>>
        \/ /\ reply' = [reply EXCEPT ![f] = None]
           /\ result' = [result EXCEPT ![f] = None]
    BY <1>8 DEF Crash
  <2> QED
    BY <2>1, <2>2 DEF Said
<1>9. ASSUME NEW f \in Fires, DropDamaged(f) PROVE VerdictInv'
  BY <1>9 DEF DropDamaged
<1>10. ASSUME NEW f \in Fires, ReaderEnds(f) PROVE VerdictInv'
  BY <1>10 DEF ReaderEnds
<1>11. CASE UNCHANGED vars
  BY <1>11 DEF vars
<1> QED
  BY <1>1, <1>2, <1>3, <1>4, <1>5, <1>6, <1>7, <1>8, <1>9, <1>10, <1>11 DEF Next, Step

\* No decision reaches the host tool without the model's word for it, or its
\* uncertainty and a strategy that settles it.
THEOREM AutomationIsBacked == Spec => []AutomatesOnlyOnVerdict
<1>1. Init => VerdictInv
  BY NoneAssumption DEF Init, VerdictInv, Backed
<1>2. VerdictInv => AutomatesOnlyOnVerdict
  BY DEF VerdictInv, Backed, AutomatesOnlyOnVerdict
<1> QED
  BY <1>1, <1>2, TypeInit, TypeStep, VerdictStep, PTL DEF Spec

-----------------------------------------------------------------------------
\* Each cache file holds a key of its scope, and each credential in hand is
\* one of the fire's own configuration.
OwnerInv ==
    /\ \A c \in Configs : c.provider \in Known /\ cache[CacheFingerprint(c)] # None =>
          cache[CacheFingerprint(c)] = [provider |-> c.provider, salt |-> c.salt, from |-> "exec"]
    /\ \A f \in Fires : pc[f] \in Holding =>
          conf[f].provider \in Known /\ cred[f].key = KeyOf(conf[f])

LEMMA OwnerStep == TypeInv /\ OwnerInv /\ [Next]_vars => OwnerInv'
<1> SUFFICES ASSUME TypeInv, OwnerInv, [Next]_vars PROVE OwnerInv'
  OBVIOUS
<1> USE DEF TypeInv, TypeOK, StageInv, Holding, Deciding, Reporting, loaded, outcome,
            Goto, Return, Replied, OwnerInv
<1>1. ASSUME NEW f \in Fires, Start(f) PROVE OwnerInv'
  BY <1>1 DEF Start
<1>2. ASSUME NEW f \in Fires,
             Gate(f) \/ BuildPrompt(f) \/ CallProvider(f) \/ InvalidateAuthCache(f)
      PROVE  OwnerInv'
  <2>1. /\ UNCHANGED <<conf, cred>>
        /\ \A g \in Fires : pc'[g] \in Holding => pc[g] \in Holding
    BY <1>2, EndOutcome
  <2>2. \A s \in Scopes : cache'[s] \in {cache[s], None}
    BY <1>2, EndOutcome
  <2>3. \A c \in Configs : c.provider \in Known => CacheFingerprint(c) \in Scopes
    BY KeyIsKey
  <2> QED
    BY <2>1, <2>2, <2>3
<1>3. ASSUME NEW f \in Fires, ResolveAPIKey(f) \/ AwaitFile(f) PROVE OwnerInv'
  <2>1. pc[f] \in {"resolve", "file"} /\ conf[f] \in Configs /\ UNCHANGED conf
    BY <1>3, ResolveOutcome
  <2>2. CASE /\ conf[f].provider \in Known
             /\ \E key \in Key, source \in Sources :
                   /\ Resolved(f, key, source)
                   /\ \/ key = KeyOf(conf[f])
                      \/ conf[f].auth = "exec" /\ key = cache[CacheFingerprint(conf[f])]
             /\ \/ UNCHANGED cache
                \/ /\ conf[f].auth = "exec"
                   /\ cache' = [cache EXCEPT ![CacheFingerprint(conf[f])] = KeyOf(conf[f])]
    <3>1. PICK key \in Key, source \in Sources :
             /\ Resolved(f, key, source)
             /\ \/ key = KeyOf(conf[f])
                \/ conf[f].auth = "exec" /\ key = cache[CacheFingerprint(conf[f])]
      BY <2>2
    <3>2. key = KeyOf(conf[f])
      <4>1. CASE conf[f].auth = "exec" /\ key = cache[CacheFingerprint(conf[f])]
        <5>1. cache[CacheFingerprint(conf[f])] # None
          BY <3>1, <4>1, NoneAssumption
        <5>2. key = [provider |-> conf[f].provider, salt |-> conf[f].salt, from |-> "exec"]
          BY <2>1, <2>2, <4>1, <5>1
        <5> QED
          BY <4>1, <5>2 DEF KeyOf
      <4> QED
        BY <3>1, <4>1
    <3>3. /\ pc' = [pc EXCEPT ![f] = "prompt"]
          /\ cred' = [cred EXCEPT ![f] = [key |-> KeyOf(conf[f]), source |-> source]]
      BY <3>1, <3>2 DEF Resolved
    <3>4. \A g \in Fires : pc'[g] \in Holding =>
             conf'[g].provider \in Known /\ cred'[g].key = KeyOf(conf'[g])
      BY <2>1, <2>2, <3>3
    <3>5. ASSUME NEW c \in Configs, c.provider \in Known, cache'[CacheFingerprint(c)] # None
          PROVE  cache'[CacheFingerprint(c)] =
                    [provider |-> c.provider, salt |-> c.salt, from |-> "exec"]
      <4>1. CASE UNCHANGED cache
        BY <3>5, <4>1
      <4>2. CASE /\ conf[f].auth = "exec"
                 /\ cache' = [cache EXCEPT ![CacheFingerprint(conf[f])] = KeyOf(conf[f])]
        <5>1. CacheFingerprint(c) \in Scopes
          BY <3>5, KeyIsKey
        <5>2. CASE CacheFingerprint(c) = CacheFingerprint(conf[f])
          BY <4>2, <5>1, <5>2 DEF KeyOf, CacheFingerprint
        <5>3. CASE CacheFingerprint(c) # CacheFingerprint(conf[f])
          BY <3>5, <4>2, <5>1, <5>3
        <5> QED
          BY <5>2, <5>3
      <4> QED
        BY <2>2, <4>1, <4>2
    <3> QED
      BY <3>4, <3>5 DEF CacheFingerprint
  <2>3. CASE /\ UNCHANGED <<cred, cache>>
             /\ \E r \in Result : ~r.failed /\ r.behavior = "none" /\ Return(f, r)
    BY <2>1, <2>3
  <2>4. CASE Goto(f, "file") /\ UNCHANGED <<cred, result, cache>>
    BY <2>1, <2>4
  <2> QED
    BY <1>3, <2>2, <2>3, <2>4, ResolveOutcome
<1>4. ASSUME NEW f \in Fires, Reply(f) \/ CallFails(f) \/ CallTimesOut(f) PROVE OwnerInv'
  <2>1. UNCHANGED <<conf, cred, cache>> /\ pc' = [pc EXCEPT ![f] = "record"]
    BY <1>4, CallOutcome
  <2> QED
    BY <2>1
<1>5. ASSUME NEW f \in Fires, Reject(f) PROVE OwnerInv'
  <2>1. /\ pc[f] = "wait" /\ UNCHANGED <<conf, cred, cache>>
        /\ \E where \in {"invalidate", "record"} : pc' = [pc EXCEPT ![f] = where]
    BY <1>5, RejectOutcome
  <2> QED
    BY <2>1
<1>6. ASSUME NEW f \in Fires, Record(f) PROVE OwnerInv'
  BY <1>6 DEF Record
<1>7. ASSUME NEW f \in Fires, Emit(f) PROVE OwnerInv'
  BY <1>7 DEF Emit
<1>8. ASSUME NEW f \in Fires, Crash(f) PROVE OwnerInv'
  BY <1>8 DEF Crash
<1>9. ASSUME NEW f \in Fires, DropDamaged(f) PROVE OwnerInv'
  BY <1>9, KeyIsKey DEF DropDamaged
<1>10. ASSUME NEW f \in Fires, ReaderEnds(f) PROVE OwnerInv'
  BY <1>10 DEF ReaderEnds
<1>11. CASE UNCHANGED vars
  BY <1>11 DEF vars
<1> QED
  BY <1>1, <1>2, <1>3, <1>4, <1>5, <1>6, <1>7, <1>8, <1>9, <1>10, <1>11 DEF Next, Step

\* A key is only ever sent to the provider it belongs to, from the scope and
\* the place the configuration names.
THEOREM KeysStayHome == Spec => []KeyGoesToItsOwner
<1>1. Init => OwnerInv
  <2>1. \A c \in Configs : c.provider \in Known => CacheFingerprint(c) \in Scopes
    BY KeyIsKey
  <2> QED
    BY <2>1 DEF Init, OwnerInv, Holding
<1>2. OwnerInv => KeyGoesToItsOwner
  <2> SUFFICES ASSUME OwnerInv, NEW f \in Fires, pc[f] = "wait"
               PROVE  /\ cred[f].key.provider = ClientOf(conf[f].provider)
                      /\ cred[f].key.salt = conf[f].salt
                      /\ cred[f].key.from = conf[f].auth
    BY DEF KeyGoesToItsOwner
  <2>1. conf[f].provider \in Known /\ cred[f].key = KeyOf(conf[f])
    BY DEF OwnerInv, Holding
  <2>2. ClientOf(conf[f].provider) = conf[f].provider
    BY <2>1 DEF ClientOf, Known
  <2> QED
    BY <2>1, <2>2 DEF KeyOf
<1> QED
  BY <1>1, <1>2, TypeInit, TypeStep, OwnerStep, PTL DEF Spec

-----------------------------------------------------------------------------
\* A step of fire f seen through the mapping to CredentialSlots.
LEMMA Moves ==
    ASSUME NEW f \in Fires, TypeOK, UNCHANGED conf,
           NEW w, pc' = [pc EXCEPT ![f] = w],
           NEW k, cred' = [cred EXCEPT ![f] = k]
    PROVE  /\ UNCHANGED Works
           /\ Slots!Becomes(f, PhaseOf(w, Works[f]), HandOf(PhaseOf(w, Works[f]), k))
<1> USE DEF TypeOK
<1>1. UNCHANGED Works /\ \A g \in Fires : Works[g] = ScopeOf(conf[g])
  BY DEF Works
<1>2. Phases' = [g \in Fires |-> PhaseOf(pc'[g], Works[g])]
  BY <1>1 DEF Phases
<1>3. Hands' = [g \in Fires |-> HandOf(PhaseOf(pc'[g], Works[g]), cred'[g])]
  BY <1>1 DEF Hands
<1>4. \A g \in Fires : /\ pc'[g] = IF g = f THEN w ELSE pc[g]
                       /\ cred'[g] = IF g = f THEN k ELSE cred[g]
  OBVIOUS
<1>5. Phases' = [Phases EXCEPT ![f] = PhaseOf(w, Works[f])]
  BY <1>1, <1>2, <1>4 DEF Phases
<1>6. Hands' = [Hands EXCEPT ![f] = HandOf(PhaseOf(w, Works[f]), k)]
  BY <1>1, <1>3, <1>4 DEF Hands
<1> QED
  BY <1>1, <1>5, <1>6 DEF Slots!Becomes

\* Such a step that keeps the phase and the credential is not seen.
LEMMA Unseen ==
    ASSUME NEW f \in Fires, TypeOK, UNCHANGED <<conf, cred, cache>>,
           NEW w, pc' = [pc EXCEPT ![f] = w],
           PhaseOf(w, Works[f]) = Phases[f]
    PROVE  UNCHANGED Slots!vars
<1>1. cred' = [cred EXCEPT ![f] = cred[f]]
  BY DEF TypeOK
<1>2. UNCHANGED Works /\ Slots!Becomes(f, Phases[f], HandOf(Phases[f], cred[f]))
  BY <1>1, Moves
<1>3. Hands[f] = HandOf(Phases[f], cred[f])
  BY DEF Hands, Phases
<1>4. UNCHANGED <<Phases, Hands>>
  BY <1>2, <1>3 DEF Slots!Becomes, Phases, Hands
<1> QED
  BY <1>2, <1>4 DEF Slots!vars

\* A step out of the phases with a slot is a departure, or not seen.
LEMMA Leaves ==
    ASSUME NEW f \in Fires, TypeOK, UNCHANGED <<conf, cache>>,
           NEW w, pc' = [pc EXCEPT ![f] = w],
           NEW k, cred' = [cred EXCEPT ![f] = k],
           PhaseOf(w, Works[f]) = "left"
    PROVE  [Slots!Next]_(Slots!vars)
<1>1. UNCHANGED Works /\ Slots!Becomes(f, "left", None)
  <2>1. HandOf("left", k) = None
    BY DEF HandOf
  <2>2. UNCHANGED Works /\ Slots!Becomes(f, PhaseOf(w, Works[f]), HandOf(PhaseOf(w, Works[f]), k))
    BY Moves
  <2> QED
    BY <2>1, <2>2
<1>2. CASE Phases[f] # "left"
  BY <1>1, <1>2 DEF Slots!Next, Slots!Leave
<1>3. CASE Phases[f] = "left"
  <2>1. Hands[f] = None
    BY <1>3 DEF Hands, Phases, HandOf
  <2>2. UNCHANGED <<Phases, Hands>>
    BY <1>1, <1>3, <2>1 DEF Slots!Becomes, Phases, Hands
  <2> QED
    BY <1>1, <2>2 DEF Slots!vars
<1> QED
  BY <1>2, <1>3

\* The same for a step that keeps the credential.
LEMMA LeavesKeeping ==
    ASSUME NEW f \in Fires, TypeOK, UNCHANGED <<conf, cred, cache>>,
           NEW w, pc' = [pc EXCEPT ![f] = w], PhaseOf(w, Works[f]) = "left"
    PROVE  [Slots!Next]_(Slots!vars)
<1>1. cred' = [cred EXCEPT ![f] = cred[f]]
  BY DEF TypeOK
<1> QED
  BY <1>1, Leaves

\* The scope of a fire that uses the cache names its cache file.
LEMMA WorksWhere ==
    ASSUME NEW f \in Fires, conf[f] \in Configs,
           conf[f].auth = "exec", conf[f].provider \in Known
    PROVE  /\ Works[f] = CacheFingerprint(conf[f])
           /\ Works[f] \in Scopes /\ Works[f] # None
<1>1. conf[f] # None
  BY HookAssumption, NoneAssumption
<1>2. Works[f] = CacheFingerprint(conf[f])
  BY <1>1 DEF Works, ScopeOf, CacheFingerprint
<1> QED
  BY <1>2, KeyIsKey, NoneAssumption

LEMMA StartIsJoin ==
    ASSUME TypeInv, NEW f \in Fires, Start(f)
    PROVE  [Slots!Next]_(Slots!vars)
<1> USE DEF TypeInv
<1>1. pc[f] = "idle" /\ conf[f] = None /\ UNCHANGED <<cred, cache>>
  BY DEF Start, StageInv
<1>2. CASE Goto(f, "over") /\ UNCHANGED loaded
  <2>1. PhaseOf("over", Works[f]) = "left"
    BY DEF PhaseOf
  <2> QED
    BY <1>1, <1>2, <2>1, LeavesKeeping DEF Goto, loaded
<1>3. CASE /\ Goto(f, "gate")
           /\ \E c \in Configs, r \in Requests :
                 conf' = [conf EXCEPT ![f] = c] /\ req' = [req EXCEPT ![f] = r]
  <2>1. PICK c \in Configs : conf' = [conf EXCEPT ![f] = c]
    BY <1>3
  <2>2. pc' = [pc EXCEPT ![f] = "gate"]
    BY <1>3 DEF Goto
  <2>3. \A g \in Fires : /\ conf'[g] = IF g = f THEN c ELSE conf[g]
                         /\ pc'[g] = IF g = f THEN "gate" ELSE pc[g]
                         /\ cred'[g] = cred[g]
    BY <1>1, <2>1, <2>2 DEF TypeOK
  <2>4. Works' = [Works EXCEPT ![f] = ScopeOf(c)]
    BY <2>3 DEF Works
  <2>5. \A s : PhaseOf("gate", s) = "asking" /\ PhaseOf("idle", s) = "asking"
    BY DEF PhaseOf
  <2>6. UNCHANGED Phases
    <3>1. Phases' = [g \in Fires |-> PhaseOf(pc'[g], ScopeOf(conf'[g]))]
      BY DEF Phases
    <3> QED
      BY <1>1, <2>3, <2>5, <3>1 DEF Phases
  <2>7. UNCHANGED Hands
    <3>1. Hands' = [g \in Fires |-> HandOf(PhaseOf(pc'[g], ScopeOf(conf'[g])), cred'[g])]
      BY DEF Hands
    <3>2. \A k : HandOf("asking", k) = None
      BY DEF HandOf
    <3> QED
      BY <1>1, <2>3, <2>5, <3>1, <3>2 DEF Hands
  <2>8. Works[f] = None /\ Phases[f] = "asking"
    BY <1>1, <2>5 DEF Works, ScopeOf, Phases
  <2>9. CASE ScopeOf(c) = None
    <3>1. UNCHANGED Works
      BY <2>4, <2>8, <2>9 DEF Works
    <3> QED
      BY <1>1, <2>6, <2>7, <3>1 DEF Slots!vars
  <2>10. CASE ScopeOf(c) # None
    <3>1. ScopeOf(c) \in Scopes
      BY <2>10, KeyIsKey DEF ScopeOf, CacheFingerprint
    <3> QED
      BY <1>1, <2>4, <2>6, <2>7, <2>8, <3>1 DEF Slots!Next, Slots!Join
  <2> QED
    BY <2>9, <2>10
<1> QED
  BY <1>2, <1>3 DEF Start

LEMMA ResolveIsTakeOrMake ==
    ASSUME TypeInv, NEW f \in Fires, ResolveAPIKey(f) \/ AwaitFile(f)
    PROVE  [Slots!Next]_(Slots!vars)
<1> USE DEF TypeInv
<1>1. UNCHANGED conf
  BY ResolveOutcome DEF loaded
<1>2. \A s : PhaseOf("record", s) = "left" /\ PhaseOf("file", s) = "left"
  BY DEF PhaseOf
<1>3. CASE UNCHANGED <<cred, cache>> /\ (Goto(f, "record") \/ Goto(f, "file"))
  BY <1>1, <1>2, <1>3, LeavesKeeping DEF Goto
<1>4. CASE /\ conf[f].auth # "exec" /\ UNCHANGED cache
           /\ \E key \in Key, source \in Sources : Resolved(f, key, source)
  <2>1. PICK k \in Credential : cred' = [cred EXCEPT ![f] = k]
    BY <1>4 DEF Resolved, Credential
  <2>2. pc' = [pc EXCEPT ![f] = "prompt"]
    BY <1>4 DEF Resolved, Goto
  <2>3. PhaseOf("prompt", Works[f]) = "left"
    BY <1>4 DEF Works, ScopeOf, PhaseOf
  <2> QED
    BY <1>1, <1>4, <2>1, <2>2, <2>3, Leaves
<1>5. CASE /\ pc[f] = "resolve" /\ conf[f].auth = "exec" /\ conf[f].provider \in Known
           /\ \E key \in Key, source \in Sources :
                 /\ Resolved(f, key, source)
                 /\ \/ key = cache[CacheFingerprint(conf[f])] /\ UNCHANGED cache
                    \/ /\ key = KeyOf(conf[f])
                       /\ \/ UNCHANGED cache
                          \/ cache' = [cache EXCEPT ![CacheFingerprint(conf[f])] = KeyOf(conf[f])]
  <2>1. conf[f] \in Configs
    BY <1>5 DEF StageInv, Deciding
  <2>2. Works[f] = CacheFingerprint(conf[f]) /\ Works[f] \in Scopes /\ Works[f] # None
    BY <1>5, <2>1, WorksWhere
  <2>3. PICK key \in Key, source \in Sources :
           /\ Resolved(f, key, source)
           /\ \/ key = cache[Works[f]] /\ UNCHANGED cache
              \/ cache' \in {cache, [cache EXCEPT ![Works[f]] = key]}
    BY <1>5, <2>2
  <2>4. pc' = [pc EXCEPT ![f] = "prompt"]
        /\ cred' = [cred EXCEPT ![f] = [key |-> key, source |-> source]]
    BY <2>3 DEF Resolved, Goto
  <2>5. PhaseOf("prompt", Works[f]) = "holding" /\ HandOf("holding", [key |-> key, source |-> source]) = key
    BY <2>2 DEF PhaseOf, HandOf
  <2>6. UNCHANGED Works /\ Slots!Becomes(f, "holding", key)
    <3>1. UNCHANGED Works /\ Slots!Becomes(f, PhaseOf("prompt", Works[f]),
                                HandOf(PhaseOf("prompt", Works[f]), [key |-> key, source |-> source]))
      BY <1>1, <2>4, Moves
    <3> QED
      BY <2>5, <3>1
  <2>7. Slots!Asking(f)
    BY <1>5, <2>2 DEF Slots!Asking, Phases, PhaseOf
  <2>8. CASE key = cache[Works[f]] /\ UNCHANGED cache
    <3>1. key # None
      BY NoneAssumption
    <3> QED
      BY <2>6, <2>7, <2>8, <3>1 DEF Slots!Next, Slots!Take
  <2>9. CASE cache' \in {cache, [cache EXCEPT ![Works[f]] = key]}
    BY <2>6, <2>7, <2>9 DEF Slots!Next, Slots!Make
  <2> QED
    BY <2>3, <2>8, <2>9
<1>6. pc[f] = "file" => conf[f].auth # "exec"
  BY DEF StageInv
<1> QED
  BY <1>3, <1>4, <1>5, <1>6, ResolveOutcome DEF Return

LEMMA EndIsLeaveOrDiscard ==
    ASSUME TypeInv, NEW f \in Fires,
           Gate(f) \/ BuildPrompt(f) \/ CallProvider(f) \/ InvalidateAuthCache(f)
    PROVE  [Slots!Next]_(Slots!vars)
<1> USE DEF TypeInv
<1>1. UNCHANGED <<conf, cred>>
  BY EndOutcome DEF loaded
<1>2. \A s : PhaseOf("record", s) = "left"
  BY DEF PhaseOf
<1>3. CASE Goto(f, "record") /\ UNCHANGED cache
  BY <1>1, <1>2, <1>3, LeavesKeeping DEF Goto
<1>4. CASE /\ UNCHANGED cache
           /\ \/ pc[f] = "gate" /\ Goto(f, "resolve")
              \/ pc[f] = "prompt" /\ Goto(f, "call")
              \/ pc[f] = "call" /\ Goto(f, "wait")
  <2>1. PICK w \in {"resolve", "call", "wait"} :
           pc' = [pc EXCEPT ![f] = w] /\ PhaseOf(w, Works[f]) = PhaseOf(pc[f], Works[f])
    BY <1>4 DEF Goto, PhaseOf
  <2>2. Phases[f] = PhaseOf(pc[f], Works[f])
    BY DEF Phases, Works
  <2> QED
    BY <1>1, <1>4, <2>1, <2>2, Unseen
<1>5. CASE /\ pc[f] = "invalidate" /\ Goto(f, "record")
           /\ cache' = [cache EXCEPT ![CacheFingerprint(conf[f])] = None]
  <2>1. conf[f] \in Configs /\ conf[f].auth = "exec"
    BY <1>5 DEF StageInv, Deciding, Holding
  <2>2. CASE conf[f].provider \in Known
    <3>1. Works[f] = CacheFingerprint(conf[f]) /\ Works[f] # None
      BY <2>1, <2>2, WorksWhere
    <3>2. cred' = [cred EXCEPT ![f] = cred[f]]
      BY <1>1 DEF TypeOK
    <3>3. UNCHANGED Works /\ Slots!Becomes(f, PhaseOf("record", Works[f]),
                                HandOf(PhaseOf("record", Works[f]), cred[f]))
      BY <1>1, <1>5, <3>2, Moves DEF Goto
    <3>4. HandOf("left", cred[f]) = None
      BY DEF HandOf
    <3>5. Phases[f] = "holding"
      BY <1>5, <3>1 DEF Phases, PhaseOf, Works
    <3> QED
      BY <1>2, <1>5, <3>1, <3>3, <3>4, <3>5 DEF Slots!Next, Slots!Discard
  <2>3. CASE conf[f].provider \notin Known
    BY <1>5, <2>3 DEF StageInv, Holding
  <2> QED
    BY <2>2, <2>3
<1> QED
  BY <1>3, <1>4, <1>5, EndOutcome DEF Return

LEMMA CallIsLeave ==
    ASSUME TypeInv, NEW f \in Fires,
           Reply(f) \/ CallFails(f) \/ CallTimesOut(f) \/ Reject(f) \/ Record(f) \/ Emit(f)
    PROVE  [Slots!Next]_(Slots!vars)
<1> USE DEF TypeInv
<1>1. UNCHANGED <<conf, cred, cache>>
  BY DEF Reply, CallFails, CallTimesOut, Reject, Record, Emit, loaded
<1>2. \/ \E w \in {"record", "emit", "unlogged", "over"} : pc' = [pc EXCEPT ![f] = w]
      \/ pc[f] = "wait" /\ pc' = [pc EXCEPT ![f] = "invalidate"]
  BY DEF Reply, CallFails, CallTimesOut, Reject, Record, Emit, Return, Goto
<1>3. \A w \in {"record", "emit", "unlogged", "over"} : PhaseOf(w, Works[f]) = "left"
  BY DEF PhaseOf
<1>4. PhaseOf("invalidate", Works[f]) = PhaseOf("wait", Works[f])
  BY DEF PhaseOf
<1>5. Phases[f] = PhaseOf(pc[f], Works[f])
  BY DEF Phases, Works
<1>6. CASE \E w \in {"record", "emit", "unlogged", "over"} : pc' = [pc EXCEPT ![f] = w]
  BY <1>1, <1>3, <1>6, LeavesKeeping
<1>7. CASE pc[f] = "wait" /\ pc' = [pc EXCEPT ![f] = "invalidate"]
  BY <1>1, <1>4, <1>5, <1>7, Unseen
<1> QED
  BY <1>2, <1>6, <1>7

LEMMA CrashIsLeave ==
    ASSUME TypeInv, NEW f \in Fires, Crash(f)
    PROVE  [Slots!Next]_(Slots!vars)
<1>1. PhaseOf("crashed", Works[f]) = "left" /\ pc' = [pc EXCEPT ![f] = "crashed"]
  BY DEF PhaseOf, Crash, Goto
<1>2. UNCHANGED <<conf, cache>>
  BY DEF Crash
<1>3. \E k : cred' = [cred EXCEPT ![f] = k]
  <2>1. UNCHANGED cred \/ cred' = [cred EXCEPT ![f] = None]
    BY DEF Crash
  <2>2. cred = [cred EXCEPT ![f] = cred[f]]
    BY DEF TypeInv, TypeOK
  <2> QED
    BY <2>1, <2>2
<1>4. PICK k : cred' = [cred EXCEPT ![f] = k]
  BY <1>3
<1> QED
  BY <1>1, <1>2, <1>4, Leaves DEF TypeInv

\* The steps of the cache's and the file's readers.
LEMMA DropIsClear ==
    ASSUME TypeInv, NEW f \in Fires, DropDamaged(f) \/ ReaderEnds(f)
    PROVE  [Slots!Next]_(Slots!vars)
<1>1. UNCHANGED <<pc, conf, cred>>
  BY DEF DropDamaged, ReaderEnds, loaded
<1>2. UNCHANGED <<Works, Phases, Hands>>
  BY <1>1 DEF Works, Phases, Hands
<1>3. CASE ReaderEnds(f)
  BY <1>2, <1>3 DEF ReaderEnds, Slots!vars
<1>4. CASE DropDamaged(f)
  <2>1. conf[f] \in Configs
    BY <1>4 DEF DropDamaged, TypeInv, StageInv, Deciding
  <2>2. Works[f] = CacheFingerprint(conf[f]) /\ Works[f] # None
    BY <1>4, <2>1, WorksWhere DEF DropDamaged
  <2>3. Slots!Asking(f)
    BY <1>4, <2>2 DEF DropDamaged, Slots!Asking, Phases, PhaseOf
  <2> QED
    BY <1>2, <1>4, <2>2, <2>3 DEF DropDamaged, Slots!Next, Slots!Clear
<1> QED
  BY <1>3, <1>4

\* The fires together use the cache as CredentialSlots allows, whatever the
\* configurations: no scope's entry is read, filled or emptied for another.
THEOREM HookImplementsSlots == Spec => ImplementsSlots
<1>1. Init => Slots!Init
  <2> SUFFICES ASSUME Init PROVE Slots!Init
    OBVIOUS
  <2>1. Works = [f \in Fires |-> None]
    BY DEF Init, Works, ScopeOf
  <2>2. Phases = [f \in Fires |-> "asking"] /\ Hands = [f \in Fires |-> None]
    BY DEF Init, Phases, PhaseOf, Hands, HandOf
  <2> QED
    BY <2>1, <2>2 DEF Init, Slots!Init
<1>2. TypeInv /\ [Next]_vars => [Slots!Next]_(Slots!vars)
  <2> SUFFICES ASSUME TypeInv, [Next]_vars PROVE [Slots!Next]_(Slots!vars)
    OBVIOUS
  <2>1. CASE UNCHANGED vars
    BY <2>1 DEF vars, Slots!vars, Works, Phases, Hands
  <2> QED
    BY <2>1, StartIsJoin, ResolveIsTakeOrMake, EndIsLeaveOrDiscard, CallIsLeave, CrashIsLeave,
       DropIsClear DEF Next, Step
<1> QED
  BY <1>1, <1>2, TypeInit, TypeStep, PTL DEF Spec, Slots!Spec, ImplementsSlots

-----------------------------------------------------------------------------
\* A configured credential that fire f could not get, or was refused with.
Trouble(f) ==
    /\ conf[f] # None
    /\ conf[f].auth # "env" /\ (cred[f] = None \/ Rejected(reply[f]))

\* In trouble, decide returns neither a decision nor an error.
TroubleInv ==
    \A f \in Fires :
        /\ result[f] # None /\ Trouble(f) => ~result[f].failed /\ result[f].behavior = "none"
        /\ pc[f] = "over" /\ Trouble(f) => exit[f] = 0 /\ answer[f] = None

LEMMA TroubleStep == TypeInv /\ TroubleInv /\ [Next]_vars => TroubleInv'
<1> SUFFICES ASSUME TypeInv, TroubleInv, [Next]_vars PROVE TroubleInv'
  OBVIOUS
<1> USE DEF TypeInv, TypeOK, StageInv, Holding, Deciding, Reporting, loaded, outcome,
            Goto, Return, Replied, TroubleInv, Trouble, Rejected
<1>1. ASSUME NEW f \in Fires, Start(f) PROVE TroubleInv'
  BY <1>1 DEF Start
<1>2. ASSUME NEW f \in Fires,
             Gate(f) \/ BuildPrompt(f) \/ CallProvider(f) \/ InvalidateAuthCache(f)
      PROVE  TroubleInv'
  <2>1. /\ UNCHANGED <<conf, cred, reply, answer, exit>>
        /\ pc[f] \in {"gate", "prompt", "call", "invalidate"}
        /\ \/ \E r \in Result : /\ result' = [result EXCEPT ![f] = r]
                               /\ pc' = [pc EXCEPT ![f] = "record"]
                               /\ r.behavior = "none" /\ (r.failed => pc[f] = "prompt")
           \/ /\ UNCHANGED result
              /\ \E where \in {"resolve", "call", "wait"} : pc' = [pc EXCEPT ![f] = where]
    BY <1>2, EndOutcome
  <2>2. pc[f] = "prompt" => ~Trouble(f)
    BY NoneAssumption
  <2> QED
    BY <2>1, <2>2
<1>3. ASSUME NEW f \in Fires, ResolveAPIKey(f) \/ AwaitFile(f) PROVE TroubleInv'
  <2>1. /\ pc[f] \in {"resolve", "file"} /\ UNCHANGED <<conf, reply, answer, exit>>
        /\ \/ \E r \in Result : /\ result' = [result EXCEPT ![f] = r] /\ UNCHANGED cred
                               /\ pc' = [pc EXCEPT ![f] = "record"]
                               /\ r.behavior = "none" /\ ~r.failed
           \/ /\ UNCHANGED result /\ pc' = [pc EXCEPT ![f] = "prompt"]
              /\ \E c \in Credential : cred' = [cred EXCEPT ![f] = c]
           \/ UNCHANGED <<cred, result>> /\ pc' = [pc EXCEPT ![f] = "file"]
    BY <1>3, ResolveOutcome DEF Resolved, Credential
  <2> QED
    BY <2>1
<1>4. ASSUME NEW f \in Fires, Reply(f) \/ CallFails(f) \/ CallTimesOut(f) PROVE TroubleInv'
  <2>1. /\ pc[f] = "wait" /\ UNCHANGED <<conf, cred, answer, exit>>
        /\ pc' = [pc EXCEPT ![f] = "record"]
        /\ \E v \in Response, r \in Result :
              /\ reply' = [reply EXCEPT ![f] = v] /\ result' = [result EXCEPT ![f] = r]
              /\ v.status # "rejected"
    BY <1>4, CallOutcome DEF Said
  <2>2. ~Trouble(f)'
    BY <2>1, NoneAssumption
  <2> QED
    BY <2>1, <2>2
<1>5. ASSUME NEW f \in Fires, Reject(f) PROVE TroubleInv'
  <2>1. /\ pc[f] = "wait" /\ UNCHANGED <<conf, cred, answer, exit>>
        /\ \E v \in Response : reply' = [reply EXCEPT ![f] = v]
        /\ \/ UNCHANGED result /\ pc' = [pc EXCEPT ![f] = "invalidate"]
           \/ \E r \in Result : /\ result' = [result EXCEPT ![f] = r]
                               /\ pc' = [pc EXCEPT ![f] = "record"]
                               /\ r.behavior = "none" /\ (r.failed => conf[f].auth = "env")
    BY <1>5, RejectOutcome, RefusalIsResponse
  <2> QED
    BY <2>1
<1>6. ASSUME NEW f \in Fires, Record(f) PROVE TroubleInv'
  BY <1>6 DEF Record
<1>7. ASSUME NEW f \in Fires, Emit(f) PROVE TroubleInv'
  <2>1. result[f] # None
    BY <1>7, NoneAssumption DEF Emit
  <2>2. UNCHANGED <<conf, cred, reply, result>> /\ pc' = [pc EXCEPT ![f] = "over"]
    BY <1>7 DEF Emit
  <2>3. ASSUME Trouble(f) PROVE exit'[f] = 0 /\ answer'[f] = None
    BY <1>7, <2>1, <2>3 DEF Emit
  <2>4. \A g \in Fires \ {f} : exit'[g] = exit[g] /\ answer'[g] = answer[g]
    BY <1>7 DEF Emit
  <2> QED
    BY <2>2, <2>3, <2>4
<1>8. ASSUME NEW f \in Fires, Crash(f) PROVE TroubleInv'
  BY <1>8, NoneAssumption DEF Crash
<1>9. ASSUME NEW f \in Fires, DropDamaged(f) PROVE TroubleInv'
  BY <1>9 DEF DropDamaged
<1>10. ASSUME NEW f \in Fires, ReaderEnds(f) PROVE TroubleInv'
  BY <1>10 DEF ReaderEnds
<1>11. CASE UNCHANGED vars
  BY <1>11 DEF vars
<1> QED
  BY <1>1, <1>2, <1>3, <1>4, <1>5, <1>6, <1>7, <1>8, <1>9, <1>10, <1>11 DEF Next, Step

\* A missing or rejected configured credential hands the request back to the
\* user with exit code 0.
THEOREM TroubleAsks == Spec => []CredentialTroubleAsks
<1>1. Init => TroubleInv
  BY DEF Init, TroubleInv, Trouble
<1>2. TroubleInv => CredentialTroubleAsks
  BY DEF TroubleInv, Trouble, CredentialTroubleAsks
<1> QED
  BY <1>1, <1>2, TypeInit, TypeStep, TroubleStep, PTL DEF Spec

-----------------------------------------------------------------------------
\* A fire about to answer with its metrics in order has its own entry there.
LogInv ==
    \A f \in Fires : pc[f] = "emit" /\ conf[f].metrics => log[f] = BuildMetricsEntry(result[f])

LEMMA LogStep == TypeInv /\ LogInv /\ [Next]_vars => LogInv'
<1> SUFFICES ASSUME TypeInv, LogInv, [Next]_vars PROVE LogInv'
  OBVIOUS
<1> USE DEF TypeInv, TypeOK, loaded, outcome, Goto, Return, Replied, LogInv
<1>1. ASSUME NEW f \in Fires, NEW where \in Locations \ {"emit"},
             pc' = [pc EXCEPT ![f] = where], UNCHANGED log,
             \A g \in Fires \ {f} : conf'[g] = conf[g] /\ result'[g] = result[g]
      PROVE  LogInv'
  BY <1>1
<1>2. ASSUME NEW f \in Fires, Start(f) PROVE LogInv'
  BY <1>2 DEF Start
<1>3. ASSUME NEW f \in Fires,
             Gate(f) \/ BuildPrompt(f) \/ CallProvider(f) \/ InvalidateAuthCache(f)
      PROVE  LogInv'
  <2>1. /\ UNCHANGED <<conf, log>>
        /\ \E where \in {"record", "resolve", "call", "wait"} : pc' = [pc EXCEPT ![f] = where]
        /\ \A g \in Fires \ {f} : result'[g] = result[g]
    BY <1>3, EndOutcome
  <2> QED
    BY <1>1, <2>1 DEF Locations
<1>4. ASSUME NEW f \in Fires, ResolveAPIKey(f) \/ AwaitFile(f) PROVE LogInv'
  <2>1. /\ UNCHANGED <<conf, log>>
        /\ \E where \in {"record", "prompt", "file"} : pc' = [pc EXCEPT ![f] = where]
        /\ \A g \in Fires \ {f} : result'[g] = result[g]
    BY <1>4, ResolveOutcome DEF Resolved
  <2> QED
    BY <1>1, <2>1 DEF Locations
<1>5. ASSUME NEW f \in Fires, Reply(f) \/ CallFails(f) \/ CallTimesOut(f) PROVE LogInv'
  <2>1. /\ UNCHANGED <<conf, log>> /\ pc' = [pc EXCEPT ![f] = "record"]
        /\ \A g \in Fires \ {f} : result'[g] = result[g]
    BY <1>5, CallOutcome DEF Said
  <2> QED
    BY <1>1, <2>1 DEF Locations
<1>6. ASSUME NEW f \in Fires, Reject(f) PROVE LogInv'
  <2>1. /\ UNCHANGED <<conf, log>>
        /\ \E where \in {"record", "invalidate"} : pc' = [pc EXCEPT ![f] = where]
        /\ \A g \in Fires \ {f} : result'[g] = result[g]
    BY <1>6, RejectOutcome
  <2> QED
    BY <1>1, <2>1 DEF Locations
<1>7. ASSUME NEW f \in Fires, Record(f) PROVE LogInv'
  BY <1>7 DEF Record
<1>8. ASSUME NEW f \in Fires, Emit(f) \/ Crash(f) PROVE LogInv'
  BY <1>8 DEF Emit, Crash
<1>9. ASSUME NEW f \in Fires, DropDamaged(f) \/ ReaderEnds(f) PROVE LogInv'
  BY <1>9 DEF DropDamaged, ReaderEnds
<1>10. CASE UNCHANGED vars
  BY <1>10 DEF vars
<1> QED
  BY <1>2, <1>3, <1>4, <1>5, <1>6, <1>7, <1>8, <1>9, <1>10 DEF Next, Step

\* The entry is in the metrics file before the host tool hears the decision,
\* and says the same.
THEOREM AnswersLogged == Spec => AnswersAreLogged
<1> DEFINE Told ==
      \A f \in Fires : answer'[f] # answer[f] =>
          \/ log[f] # None /\ log[f].decision = answer'[f]
          \/ ~conf[f].metrics
          \/ pc[f] = "unlogged"
<1>1. Init => LogInv
  BY DEF Init, LogInv
<1>2. ASSUME TypeInv, LogInv, [Next]_vars PROVE [Told]_vars
  <2> SUFFICES ASSUME NEW g \in Fires, answer'[g] # answer[g], conf[g].metrics, pc[g] # "unlogged"
               PROVE  log[g] # None /\ log[g].decision = answer'[g]
    BY <1>2 DEF TypeInv, TypeOK
  <2>1. ~UNCHANGED answer
    OBVIOUS
  <2>2. PICK f \in Fires :
           \/ Gate(f) \/ BuildPrompt(f) \/ CallProvider(f) \/ InvalidateAuthCache(f)
           \/ ResolveAPIKey(f) \/ AwaitFile(f) \/ Reply(f) \/ CallFails(f) \/ CallTimesOut(f)
           \/ Reject(f) \/ Start(f) \/ Record(f) \/ Emit(f) \/ Crash(f)
           \/ DropDamaged(f) \/ ReaderEnds(f)
    BY <1>2, <2>1 DEF Next, Step, vars
  <2>3. Emit(f)
    BY <1>2, <2>1, <2>2, EndOutcome, ResolveOutcome, CallOutcome, RejectOutcome
       DEF outcome, Start, Record, Crash, DropDamaged, ReaderEnds
  <2>4. f = g /\ pc[f] = "emit" /\ answer'[f] = result[f].behavior /\ result[f].behavior # "none"
    <3>1. answer[f] = None
      BY <1>2, <2>3 DEF Emit, TypeInv, StageInv, Reporting
    <3> QED
      BY <1>2, <2>3, <3>1 DEF Emit, TypeInv, TypeOK
  <2>5. result[f] \in Result /\ ~result[f].failed
    BY <1>2, <2>4, NoneAssumption DEF TypeInv, StageInv, Reporting
  <2>6. log[f] = BuildMetricsEntry(result[f])
    BY <1>2, <2>4 DEF LogInv
  <2> QED
    BY <2>4, <2>5, <2>6, EntryTells, NoneAssumption
<1> QED
  BY <1>1, <1>2, TypeInit, TypeStep, LogStep, PTL DEF Spec, AnswersAreLogged

=============================================================================
