-------------------------- MODULE HookReportProofs --------------------------
(***************************************************************************)
(* The metrics report tells what happened, for any finite number of fires: *)
(* an entry determines, column by column, what the host tool asked, what   *)
(* the configuration said and what the provider replied.                   *)
(***************************************************************************)
EXTENDS HookProofs, FiniteSetTheorems

Asks(q) == q.tool \notin Interactive /\ q.mode \in {"default", "plan"}

\* The ways in which decide comes to return r: the request q, the
\* configuration c, the credential k and the reply v that stand behind it.
Unasked(q, v, r) ==
    /\ v = None /\ ~Asks(q)
    /\ r \in {Fallthrough(kind, "", "") : kind \in {"user_interaction", "bypass", "dontask"}}
Keyless(q, c, v, r) ==
    /\ v = None /\ Asks(q)
    /\ \/ c.provider \notin Known /\ r = Fallthrough("unknown_provider", "", "")
       \/ c.provider \in Known /\ c.auth = "env" /\ r = Fallthrough("no_apikey", "", "")
       \/ /\ c.provider \in Known /\ c.auth # "env"
          /\ \E reason \in {"unresolved", "timeout", "profile_load"}, s \in Sources :
                r = Fallthrough("credential_unavailable", reason, s)
Promptless(q, v, r) == v = None /\ Asks(q) /\ r = Failure
Judged(q, c, v, r) ==
    v \in Responses /\ Asks(q) /\ c.provider \in Known /\ r = Judge(v, c.strategy)
Broken(q, v, r) == v = Refusal("error") /\ Asks(q) /\ r = Failure
Turned(q, c, k, v, r) ==
    /\ v = Refusal("rejected") /\ Asks(q) /\ c.provider \in Known
    /\ \/ c.auth = "env" /\ r = Failure
       \/ /\ c.auth # "env" /\ k \in Credential
          /\ r = Fallthrough("credential_unavailable", "provider_auth", k.source)

Behind(q, c, k, v, r) ==
    \/ Unasked(q, v, r) \/ Keyless(q, c, v, r) \/ Promptless(q, v, r)
    \/ Judged(q, c, v, r) \/ Broken(q, v, r) \/ Turned(q, c, k, v, r)

BehindOf(f) == Behind(req[f], conf[f], cred[f], reply[f], result[f])

\* What stands behind a result is there from decide's return to the entry,
\* and for a fire with an entry for good.
Tell(f) ==
    /\ pc[f] \in Deciding \ {"idle", "gate"} => Asks(req[f])
    /\ pc[f] \in Reporting => BehindOf(f)
    /\ log[f] # None =>
          /\ pc[f] \in {"emit", "over", "crashed"}
          /\ conf[f] \in Configs /\ req[f] \in Requests /\ result[f] \in Result
          /\ BehindOf(f)
          /\ log[f] = BuildMetricsEntry(result[f])
TellInv == \A f \in Fires : Tell(f)

-----------------------------------------------------------------------------
\* A step of one fire leaves what the others tell alone.
OthersKept(f) ==
    \A g \in Fires \ {f} :
        /\ pc'[g] = pc[g] /\ conf'[g] = conf[g] /\ req'[g] = req[g] /\ cred'[g] = cred[g]
        /\ reply'[g] = reply[g] /\ result'[g] = result[g] /\ log'[g] = log[g]

LEMMA OneTells ==
    ASSUME TellInv, NEW f \in Fires, OthersKept(f), Tell(f)'
    PROVE  TellInv'
<1> SUFFICES ASSUME NEW g \in Fires, g # f PROVE Tell(g)'
  BY DEF TellInv
<1>1. Tell(g)
  BY DEF TellInv
<1> QED
  BY <1>1 DEF OthersKept, Tell, BehindOf

\* decide returns for a reason that stands behind what it returns.
LEMMA ReturnTells ==
    ASSUME TypeInv, TellInv, NEW f \in Fires, pc[f] \in Deciding, NEW r, Return(f, r),
           NEW k, NEW v, cred' = [cred EXCEPT ![f] = k], reply' = [reply EXCEPT ![f] = v],
           UNCHANGED <<loaded, log>>, Behind(req[f], conf[f], k, v, r)
    PROVE  TellInv'
<1> USE DEF TypeInv, TypeOK, Return, Goto, loaded
<1>1. OthersKept(f)
  BY DEF OthersKept
<1>2. log[f] = None
  BY DEF TellInv, Tell, Deciding, Holding
<1>3. pc'[f] = "record" /\ result'[f] = r /\ cred'[f] = k /\ reply'[f] = v
  OBVIOUS
<1>4. BehindOf(f)'
  BY <1>3 DEF BehindOf
<1>5. Tell(f)'
  BY <1>2, <1>3, <1>4 DEF Tell, Deciding, Holding
<1> QED
  BY <1>1, <1>5, OneTells

\* Going on without a result needs only that the request is one decide asks about.
LEMMA GoTells ==
    ASSUME TypeInv, TellInv, NEW f \in Fires, pc[f] \in Deciding,
           NEW w \in Deciding, Goto(f, w), w \notin {"idle", "gate"} => Asks(req'[f]),
           UNCHANGED <<result, log>>,
           \A g \in Fires \ {f} : /\ conf'[g] = conf[g] /\ req'[g] = req[g]
                                  /\ cred'[g] = cred[g] /\ reply'[g] = reply[g]
    PROVE  TellInv'
<1> USE DEF TypeInv, TypeOK, Goto
<1>1. OthersKept(f)
  BY DEF OthersKept
<1>2. log[f] = None
  BY DEF TellInv, Tell, Deciding, Holding
<1>3. pc'[f] = w /\ w \notin Reporting
  BY DEF Deciding, Holding, Reporting
<1>4. Tell(f)'
  BY <1>2, <1>3 DEF Tell
<1> QED
  BY <1>1, <1>4, OneTells

LEMMA ResolutionTells ==
    ASSUME TypeInv, TellInv, NEW f \in Fires, ResolveAPIKey(f) \/ AwaitFile(f)
    PROVE  TellInv'
<1> DEFINE c == conf[f]
<1>1. /\ pc[f] \in {"resolve", "file"} /\ UNCHANGED <<loaded, reply, log>>
      /\ reply[f] = None /\ cred[f] = None
  BY ResolveOutcome DEF ResolveAPIKey, AwaitFile, TypeInv, StageInv, Deciding, outcome
<1>2. Asks(req[f]) /\ pc[f] \in Deciding
  BY <1>1 DEF TellInv, Tell, Deciding
<1>3. /\ cred \in [Fires -> Credential \union {None}] /\ reply \in [Fires -> Response \union {None}]
      /\ reply' = [reply EXCEPT ![f] = None]
  BY <1>1 DEF TypeInv, TypeOK
<1>4. ASSUME NEW kind, NEW reason, NEW source, Unresolved(f, kind, reason, source),
             Keyless(req[f], c, None, Fallthrough(kind, reason, source))
      PROVE  TellInv'
  <2>1. cred' = [cred EXCEPT ![f] = None] /\ Return(f, Fallthrough(kind, reason, source))
    BY <1>1, <1>3, <1>4 DEF Unresolved
  <2> QED
    BY <1>1, <1>2, <1>3, <1>4, <2>1, ReturnTells DEF Behind
<1>5. ASSUME NEW reason \in {"unresolved", "timeout"}, NEW source \in Sources,
             Unavailable(f, reason, source), c.provider \in Known, c.auth # "env"
      PROVE  TellInv'
  BY <1>2, <1>4, <1>5 DEF Unavailable, Keyless
<1>6. ASSUME NEW w \in {"prompt", "file"}, Goto(f, w), UNCHANGED result,
             \A g \in Fires \ {f} : cred'[g] = cred[g]
      PROVE  TellInv'
  <2>1. w \in Deciding
    BY DEF Deciding, Holding
  <2> QED
    BY <1>1, <1>2, <1>6, <2>1, GoTells DEF loaded
<1>7. ASSUME NEW key, NEW source, Resolved(f, key, source)
      PROVE  TellInv'
  <2>1. \A g \in Fires \ {f} : cred'[g] = cred[g]
    BY <1>3, <1>7 DEF Resolved
  <2> QED
    BY <1>6, <1>7, <2>1 DEF Resolved
<1>8. CASE AwaitFile(f)
  <2>1. pc[f] = "file" /\ c.auth = "file" /\ c.provider \in Known
    BY <1>8 DEF AwaitFile, TypeInv, StageInv
  <2> QED
    BY <1>5, <1>7, <1>8, <2>1 DEF AwaitFile, Sources
<1>9. CASE ResolveAPIKey(f) /\ c.provider \notin Known
  BY <1>2, <1>4, <1>9 DEF ResolveAPIKey, Keyless
<1>10. CASE ResolveAPIKey(f) /\ c.provider \in Known /\ c.auth = "exec"
  <2>1. ResolveCommand(f)
    BY <1>10 DEF ResolveAPIKey
  <2> QED
    BY <1>5, <1>7, <1>10, <2>1 DEF ResolveCommand, Sources
<1>11. CASE ResolveAPIKey(f) /\ c.provider \in Known /\ c.auth = "file"
  <2>1. ResolveFile(f)
    BY <1>11 DEF ResolveAPIKey
  <2> QED
    BY <1>5, <1>6, <1>11, <2>1 DEF ResolveFile, Sources
<1>12. CASE ResolveAPIKey(f) /\ c.provider \in Known /\ c.auth \notin {"exec", "file"}
  <2>1. CASE \E key, source : Resolved(f, key, source)
    BY <1>7, <2>1
  <2>2. CASE c.auth = "env" /\ Unresolved(f, "no_apikey", "", "")
    BY <1>2, <1>4, <1>12, <2>2 DEF Keyless
  <2> QED
    BY <1>12, <2>1, <2>2 DEF ResolveAPIKey
<1> QED
  BY <1>8, <1>9, <1>10, <1>11, <1>12

\* The steps around the call.
LEMMA CallTells ==
    ASSUME TypeInv, TellInv, NEW f \in Fires,
           \/ Gate(f) \/ BuildPrompt(f) \/ CallProvider(f) \/ InvalidateAuthCache(f)
           \/ Reply(f) \/ CallFails(f) \/ CallTimesOut(f) \/ Reject(f)
    PROVE  TellInv'
<1> DEFINE q == req[f]
           c == conf[f]
           k == cred[f]
<1>1. /\ pc[f] \in {"gate"} \union Holding /\ UNCHANGED <<conf, req, cred, log>>
      /\ pc[f] \in Deciding
  BY DEF Gate, BuildPrompt, CallProvider, InvalidateAuthCache, Reply, CallFails, CallTimesOut,
         Reject, Holding, Deciding, loaded
<1>2. /\ c \in Configs /\ q \in Requests
      /\ pc[f] \in Holding => Asks(q) /\ c.provider \in Known /\ k \in Credential
      /\ pc[f] # "invalidate" => reply[f] = None
      /\ pc[f] = "invalidate" => reply[f] = Refusal("rejected") /\ c.auth = "exec"
  BY <1>1 DEF TypeInv, StageInv, TellInv, Tell, Deciding, Holding
<1>3. /\ cred' = [cred EXCEPT ![f] = k]
      /\ reply' = reply => reply' = [reply EXCEPT ![f] = reply[f]]
  BY <1>1 DEF TypeInv, TypeOK
<1>4. ASSUME NEW r, NEW v, Return(f, r), reply' = [reply EXCEPT ![f] = v], Behind(q, c, k, v, r)
      PROVE  TellInv'
  BY <1>1, <1>3, <1>4, ReturnTells DEF loaded
<1>5. ASSUME NEW w \in Holding \union {"resolve"}, Goto(f, w), UNCHANGED result, Asks(q),
             \A g \in Fires \ {f} : reply'[g] = reply[g]
      PROVE  TellInv'
  <2>1. w \in Deciding
    BY DEF Deciding
  <2> QED
    BY <1>1, <1>5, <2>1, GoTells
<1>6. CASE Gate(f)
  <2>1. q \in Request /\ UNCHANGED reply /\ pc[f] = "gate"
    BY <1>2, <1>6, HookAssumption DEF Gate
  <2>2. CASE Goto(f, "resolve") /\ UNCHANGED result /\ Asks(q)
    BY <1>5, <2>1, <2>2
  <2>3. CASE ~Asks(q) /\ \E kind \in {"user_interaction", "bypass", "dontask"} :
                            Return(f, Fallthrough(kind, "", ""))
    BY <1>2, <1>3, <1>4, <2>1, <2>3 DEF Behind, Unasked
  <2> QED
    BY <1>6, <2>1, <2>2, <2>3 DEF Gate, Asks
<1>7. CASE BuildPrompt(f)
  <2>1. pc[f] = "prompt" /\ UNCHANGED reply /\ Asks(q)
    BY <1>2, <1>7 DEF BuildPrompt, Holding
  <2>2. Behind(q, c, k, None, Failure)
    BY <2>1 DEF Behind, Promptless
  <2> QED
    BY <1>2, <1>3, <1>4, <1>5, <1>7, <2>1, <2>2 DEF BuildPrompt, Holding
<1>8. CASE CallProvider(f)
  <2>1. pc[f] = "call" /\ UNCHANGED reply /\ Asks(q) /\ c.provider \in Known
    BY <1>2, <1>8 DEF CallProvider, Holding
  <2>2. c.auth = "profile" =>
           Behind(q, c, k, None, Fallthrough("credential_unavailable", "profile_load", "profile"))
    BY <2>1 DEF Behind, Keyless, Sources
  <2> QED
    BY <1>2, <1>3, <1>4, <1>5, <1>8, <2>1, <2>2 DEF CallProvider, Holding
<1>9. CASE InvalidateAuthCache(f)
  <2>1. pc[f] = "invalidate" /\ UNCHANGED reply
    BY <1>9 DEF InvalidateAuthCache
  <2>2. Behind(q, c, k, Refusal("rejected"),
               Fallthrough("credential_unavailable", "provider_auth", k.source))
    BY <1>2, <2>1 DEF Behind, Turned, Holding
  <2> QED
    BY <1>2, <1>3, <1>4, <1>9, <2>1, <2>2 DEF InvalidateAuthCache
<1>10. CASE Reply(f)
  <2>1. PICK v \in Responses : Replied(f, v) /\ Return(f, Judge(v, c.strategy))
    BY <1>10 DEF Reply
  <2>2. Behind(q, c, k, v, Judge(v, c.strategy))
    BY <1>2, <1>10 DEF Reply, Holding, Behind, Judged
  <2> QED
    BY <1>4, <2>1, <2>2 DEF Replied
<1>11. CASE CallFails(f) \/ CallTimesOut(f)
  <2>1. pc[f] = "wait" /\ Replied(f, Refusal("error")) /\ Return(f, Failure)
    BY <1>11 DEF CallFails, CallTimesOut
  <2>2. Behind(q, c, k, Refusal("error"), Failure)
    BY <1>2, <2>1 DEF Holding, Behind, Broken
  <2> QED
    BY <1>4, <2>1, <2>2 DEF Replied
<1>12. CASE Reject(f)
  <2>1. pc[f] = "wait" /\ Replied(f, Refusal("rejected"))
    BY <1>12 DEF Reject
  <2>2. \A g \in Fires \ {f} : reply'[g] = reply[g]
    BY <2>1 DEF Replied, TypeInv, TypeOK
  <2>3. CASE c.auth = "exec"
    BY <1>2, <1>5, <1>12, <2>1, <2>2, <2>3 DEF Reject, Holding
  <2>4. CASE c.auth = "env"
    <3>1. Behind(q, c, k, Refusal("rejected"), Failure)
      BY <1>2, <2>1, <2>4 DEF Holding, Behind, Turned
    <3> QED
      BY <1>4, <1>12, <2>1, <2>4, <3>1 DEF Reject, Replied
  <2>5. CASE c.auth \notin {"exec", "env"}
    <3>1. Behind(q, c, k, Refusal("rejected"),
                 Fallthrough("credential_unavailable", "provider_auth", k.source))
      BY <1>2, <2>1, <2>5 DEF Holding, Behind, Turned
    <3> QED
      BY <1>4, <1>12, <2>1, <2>5, <3>1 DEF Reject, Replied
  <2> QED
    BY <2>3, <2>4, <2>5
<1> QED
  BY <1>6, <1>7, <1>8, <1>9, <1>10, <1>11, <1>12

LEMMA TellStep == TypeInv /\ TellInv /\ [Next]_vars => TellInv'
<1> SUFFICES ASSUME TypeInv, TellInv, [Next]_vars PROVE TellInv'
  OBVIOUS
<1> USE DEF TypeInv, TypeOK, Goto, loaded, outcome
<1>1. ASSUME NEW f \in Fires, Start(f) PROVE TellInv'
  <2>1. pc[f] = "idle" /\ log[f] = None
    BY <1>1 DEF Start, TellInv, Tell
  <2>2. OthersKept(f)
    BY <1>1 DEF Start, OthersKept
  <2>3. pc'[f] \in {"gate", "over"} /\ log'[f] = None
    BY <1>1, <2>1 DEF Start
  <2>4. Tell(f)'
    BY <2>3 DEF Tell, Deciding, Holding, Reporting
  <2> QED
    BY <2>2, <2>4, OneTells
<1>2. ASSUME NEW f \in Fires, Record(f) PROVE TellInv'
  <2>1. /\ pc[f] = "record" /\ UNCHANGED <<conf, req, cred, reply, result>>
        /\ conf[f] \in Configs /\ req[f] \in Requests /\ result[f] \in Result
    BY <1>2 DEF Record, StageInv, Reporting, Deciding
  <2>2. log[f] = None /\ BehindOf(f) /\ Tell(f)
    BY <2>1 DEF TellInv, Tell, Reporting
  <2>3. OthersKept(f)
    BY <1>2, <2>1 DEF Record, OthersKept
  <2>4. /\ pc'[f] \in {"emit", "unlogged"}
        /\ log'[f] = None \/ (log'[f] = BuildMetricsEntry(result[f]) /\ pc'[f] = "emit")
    BY <1>2, <2>1, <2>2 DEF Record
  <2>5. BehindOf(f)'
    BY <2>1, <2>2 DEF BehindOf
  <2>6. Tell(f)'
    BY <2>1, <2>4, <2>5 DEF Tell, Deciding, Holding
  <2> QED
    BY <2>3, <2>6, OneTells
<1>3. ASSUME NEW f \in Fires, Emit(f) PROVE TellInv'
  <2>1. UNCHANGED <<conf, req, cred, reply, result, log>> /\ pc'[f] = "over"
    BY <1>3 DEF Emit
  <2>2. OthersKept(f)
    BY <1>3, <2>1 DEF Emit, OthersKept
  <2>3. Tell(f) /\ (BehindOf(f) => BehindOf(f)')
    BY <2>1 DEF TellInv, BehindOf
  <2>4. Tell(f)'
    BY <2>1, <2>3 DEF Tell, Deciding, Holding, Reporting
  <2> QED
    BY <2>2, <2>4, OneTells
<1>4. ASSUME NEW f \in Fires, Crash(f) PROVE TellInv'
  <2>1. UNCHANGED <<conf, log>> /\ pc'[f] = "crashed"
    BY <1>4 DEF Crash
  <2>2. OthersKept(f)
    BY <1>4, <2>1 DEF Crash, OthersKept
  <2>3. log[f] # None => UNCHANGED <<req, cred, reply, result>>
    BY <1>4 DEF Crash
  <2>4. Tell(f) /\ (log[f] # None /\ BehindOf(f) => BehindOf(f)')
    BY <2>1, <2>3 DEF TellInv, BehindOf
  <2>5. Tell(f)'
    BY <2>1, <2>3, <2>4 DEF Tell, Deciding, Holding, Reporting
  <2> QED
    BY <2>2, <2>5, OneTells
<1>5. CASE UNCHANGED <<pc, conf, req, cred, reply, result, log>>
  <2> SUFFICES ASSUME NEW f \in Fires PROVE Tell(f)'
    BY DEF TellInv
  <2>1. Tell(f)
    BY DEF TellInv
  <2> QED
    BY <1>5, <2>1 DEF Tell, BehindOf
<1>6. ASSUME NEW f \in Fires, DropDamaged(f) \/ ReaderEnds(f) PROVE TellInv'
  BY <1>5, <1>6 DEF DropDamaged, ReaderEnds
<1>7. CASE UNCHANGED vars
  BY <1>5, <1>7 DEF vars
<1> QED
  BY <1>1, <1>2, <1>3, <1>4, <1>6, <1>7, ResolutionTells, CallTells DEF Next, Step

-----------------------------------------------------------------------------
\* The columns an entry falls into, and what puts it there.
AskedOf(q, c) ==
    /\ q.tool \notin Interactive /\ q.mode \in {"default", "plan"}
    /\ c.provider \in Known /\ c.auth # "env"

Columns(q, c, k, v, r, e) ==
    /\ e.decision \in {"allow", "deny", "fallthrough", "error"}
    /\ \A d \in {"allow", "deny"} :
          /\ (e.kind # "user_interaction" /\ e.decision = d /\ e.forced)
                <=> (Said(v, Uncertain) /\ c.strategy = d)
          /\ (e.kind # "user_interaction" /\ e.decision = d /\ ~e.forced) <=> Said(v, {d})
    /\ e.kind = "llm" <=> Said(v, Uncertain)
    /\ (e.kind = "credential_unavailable" /\ e.source \in Sources /\ e.reason \in Reasons)
          <=> (AskedOf(q, c) /\ ((v = None /\ ~r.failed) \/ Rejected(v)))
    /\ \A s \in Sources :
          (e.kind = "credential_unavailable" /\ e.source = s /\ e.reason = "provider_auth")
             <=> (AskedOf(q, c) /\ Rejected(v) /\ k.source = s)

\* What a reply that is not a response says.
LEMMA SilentReplies ==
    /\ \A texts : ~Said(None, texts) /\ ~Rejected(None)
    /\ \A texts : ~Said(Refusal("rejected"), texts) /\ Rejected(Refusal("rejected"))
    /\ \A texts : ~Said(Refusal("error"), texts) /\ ~Rejected(Refusal("error"))
    /\ Refusal("rejected") # None /\ Refusal("error") # None
  BY RefusalIsResponse DEF Said, Rejected

LEMMA JudgedColumns ==
    ASSUME NEW q, NEW c \in Configs, NEW k, NEW v, NEW r, Judged(q, c, v, r)
    PROVE  Columns(q, c, k, v, r, BuildMetricsEntry(r))
<1> DEFINE e == BuildMetricsEntry(r)
<1>1. v \in Response /\ v # None /\ v.status = "ok" /\ c.strategy \in Strategies
  BY HookAssumption, NoneAssumption DEF Judged, Config
<1>2. ~Rejected(v)
  BY <1>1 DEF Rejected
<1>3. CASE Unusable(v)
  <2>1. r = Fallthrough("api_unusable", "", "")
    BY <1>3 DEF Judged, Judge, Unusable
  <2>2. ~Said(v, Uncertain) /\ ~Said(v, {"allow"}) /\ ~Said(v, {"deny"})
    BY <1>3 DEF Said, Unusable, Uncertain
  <2>3. e.decision = "fallthrough" /\ e.kind = "api_unusable" /\ ~e.forced
    BY <2>1 DEF BuildMetricsEntry, Fallthrough
  <2> QED
    BY <1>1, <1>2, <2>2, <2>3 DEF Columns
<1>4. CASE ~Unusable(v) /\ v.text = "garbled"
  <2>1. r = Failure
    BY <1>4 DEF Judged, Judge, Unusable, Uncertain
  <2>2. ~Said(v, Uncertain) /\ ~Said(v, {"allow"}) /\ ~Said(v, {"deny"})
    BY <1>4 DEF Said, Uncertain
  <2>3. e.decision = "error" /\ e.kind = "" /\ ~e.forced
    BY <2>1 DEF BuildMetricsEntry, Failure
  <2> QED
    BY <1>1, <1>2, <2>2, <2>3 DEF Columns
<1>5. CASE ~Unusable(v) /\ v.text \in {"allow", "deny"}
  <2>1. r = Decided(v.text, "")
    BY <1>5 DEF Judged, Judge, Unusable, Uncertain
  <2>2. ~Said(v, Uncertain) /\ \A d \in {"allow", "deny"} : Said(v, {d}) <=> d = v.text
    BY <1>1, <1>5 DEF Said, Unusable, Uncertain
  <2>3. e.decision = v.text /\ e.kind = "" /\ ~e.forced
    BY <1>5, <2>1 DEF BuildMetricsEntry, Decided
  <2> QED
    BY <1>1, <1>2, <1>5, <2>2, <2>3 DEF Columns
<1>6. CASE ~Unusable(v) /\ v.text \in Uncertain
  <2>1. Said(v, Uncertain) /\ ~Said(v, {"allow"}) /\ ~Said(v, {"deny"})
    BY <1>1, <1>6 DEF Said, Unusable, Uncertain
  <2>2. CASE c.strategy = "ask"
    <3>1. r = Fallthrough("llm", "llm", "")
      BY <1>6, <2>2 DEF Judged, Judge, Unusable, Uncertain
    <3>2. e.decision = "fallthrough" /\ e.kind = "llm" /\ ~e.forced
      BY <3>1 DEF BuildMetricsEntry, Fallthrough
    <3> QED
      BY <1>1, <1>2, <2>1, <2>2, <3>2 DEF Columns
  <2>3. CASE c.strategy \in {"allow", "deny"}
    <3>1. r = Decided(c.strategy, "llm")
      BY <1>6, <2>3 DEF Judged, Judge, Unusable, Uncertain
    <3>2. e.decision = c.strategy /\ e.kind = "llm" /\ e.forced
      BY <2>3, <3>1 DEF BuildMetricsEntry, Decided
    <3> QED
      BY <1>1, <1>2, <2>1, <2>3, <3>2 DEF Columns
  <2> QED
    BY <1>1, <2>2, <2>3 DEF Strategies
<1>7. ~Unusable(v) => v.text \in {"allow", "deny", "garbled"} \union Uncertain
  BY <1>1 DEF Unusable, Response, Uncertain
<1> QED
  BY <1>3, <1>4, <1>5, <1>6, <1>7

\* An entry falls into the columns its history says.
LEMMA EntryColumns ==
    ASSUME NEW q \in Request, NEW c \in Configs, NEW k, NEW v, NEW r, Behind(q, c, k, v, r)
    PROVE  Columns(q, c, k, v, r, BuildMetricsEntry(r))
<1> DEFINE e == BuildMetricsEntry(r)
<1>1. CASE Unasked(q, v, r)
  <2>1. PICK kind \in {"user_interaction", "bypass", "dontask"} : r = Fallthrough(kind, "", "")
    BY <1>1 DEF Unasked
  <2>2. e.decision = "fallthrough" /\ e.kind = kind /\ ~e.forced
    BY <2>1 DEF BuildMetricsEntry, Fallthrough
  <2>3. ~AskedOf(q, c)
    BY <1>1 DEF Unasked, Asks, AskedOf
  <2> QED
    BY <1>1, <2>2, <2>3, SilentReplies DEF Unasked, Columns
<1>2. CASE Keyless(q, c, v, r)
  <2>1. v = None /\ (AskedOf(q, c) <=> c.provider \in Known /\ c.auth # "env")
    BY <1>2 DEF Keyless, Asks, AskedOf
  <2>2. CASE \/ c.provider \notin Known /\ r = Fallthrough("unknown_provider", "", "")
             \/ c.auth = "env" /\ r = Fallthrough("no_apikey", "", "")
    <3>1. e.decision = "fallthrough" /\ e.kind \in {"unknown_provider", "no_apikey"} /\ ~e.forced
      <4>1. PICK kind \in {"unknown_provider", "no_apikey"} : r = Fallthrough(kind, "", "")
        BY <2>2
      <4> QED
        BY <4>1 DEF BuildMetricsEntry, Fallthrough
    <3>2. ~AskedOf(q, c)
      BY <2>1, <2>2 DEF AskedOf
    <3>3. ~Said(v, Uncertain) /\ \A d \in {"allow", "deny"} : ~Said(v, {d})
      BY <2>1, SilentReplies
    <3> QED
      BY <3>1, <3>2, <3>3 DEF Columns
  <2>3. CASE /\ c.provider \in Known /\ c.auth # "env"
             /\ \E reason \in {"unresolved", "timeout", "profile_load"}, s \in Sources :
                   r = Fallthrough("credential_unavailable", reason, s)
    <3>1. PICK reason \in {"unresolved", "timeout", "profile_load"}, s \in Sources :
             r = Fallthrough("credential_unavailable", reason, s)
      BY <2>3
    <3>2. /\ e.decision = "fallthrough" /\ e.kind = "credential_unavailable" /\ ~e.forced
          /\ e.source = s /\ e.reason = reason /\ ~r.failed
      BY <3>1 DEF BuildMetricsEntry, Fallthrough
    <3>3. reason \in Reasons /\ reason # "provider_auth"
      BY DEF Reasons
    <3> QED
      BY <2>1, <2>3, <3>2, <3>3, SilentReplies DEF Columns
  <2> QED
    BY <1>2, <2>2, <2>3 DEF Keyless
<1>3. CASE Promptless(q, v, r) \/ Broken(q, v, r)
  <2>1. e.decision = "error" /\ e.kind = "" /\ ~e.forced /\ r.failed
    <3>1. r = Failure
      BY <1>3 DEF Promptless, Broken
    <3> QED
      BY <3>1 DEF BuildMetricsEntry, Failure
  <2>2. v = None \/ v = Refusal("error")
    BY <1>3 DEF Promptless, Broken
  <2>3. ~Rejected(v) /\ ~Said(v, Uncertain) /\ \A d \in {"allow", "deny"} : ~Said(v, {d})
    BY <2>2, SilentReplies
  <2>4. v = None => r.failed
    BY <2>1
  <2> QED
    BY <2>1, <2>3, <2>4 DEF Columns
<1>4. CASE Judged(q, c, v, r)
  BY <1>4, JudgedColumns
<1>5. CASE Turned(q, c, k, v, r)
  <2>1. v = Refusal("rejected") /\ (AskedOf(q, c) <=> c.auth # "env")
    BY <1>5 DEF Turned, Asks, AskedOf
  <2>2. CASE c.auth = "env" /\ r = Failure
    <3>1. e.decision = "error" /\ e.kind = "" /\ ~e.forced
      BY <2>2 DEF BuildMetricsEntry, Failure
    <3> QED
      BY <2>1, <2>2, <3>1, SilentReplies DEF Columns
  <2>3. CASE /\ c.auth # "env" /\ k \in Credential
             /\ r = Fallthrough("credential_unavailable", "provider_auth", k.source)
    <3>1. /\ e.decision = "fallthrough" /\ e.kind = "credential_unavailable" /\ ~e.forced
          /\ e.source = k.source /\ e.reason = "provider_auth"
      BY <2>3 DEF BuildMetricsEntry, Fallthrough
    <3>2. k.source \in Sources /\ "provider_auth" \in Reasons
      BY <2>3 DEF Credential, Reasons
    <3> QED
      BY <2>1, <2>3, <3>1, <3>2, SilentReplies DEF Columns
  <2> QED
    BY <1>5, <2>2, <2>3 DEF Turned
<1> QED
  BY <1>1, <1>2, <1>3, <1>4, <1>5 DEF Behind

\* Two columns without a fire in common add up.
LEMMA AddsUp ==
    ASSUME NEW A \in SUBSET Fires, NEW B \in SUBSET Fires, A \intersect B = {}
    PROVE  /\ Cardinality(A \union B) = Cardinality(A) + Cardinality(B)
           /\ Cardinality(A) \in Nat /\ Cardinality(B) \in Nat
<1>1. IsFiniteSet(A) /\ IsFiniteSet(B)
  BY FiresAssumption, FS_Subset
<1>2. Cardinality(A \intersect B) = 0
  BY FS_EmptySet
<1>3. Cardinality(A \union B) = Cardinality(A) + Cardinality(B) - Cardinality(A \intersect B)
  BY <1>1, FS_Union
<1>4. Cardinality(A) \in Nat /\ Cardinality(B) \in Nat
  BY <1>1, FS_CardinalityType
<1> QED
  BY <1>2, <1>3, <1>4

\* The report counts what happened, and counts nothing twice.
THEOREM ReportTellsHistory == Spec => []ReportMatchesHistory
<1>1. Init => TellInv
  BY DEF Init, TellInv, Tell, Deciding, Holding, Reporting
<1>2. TypeInv /\ TellInv => ReportMatchesHistory
  <2> SUFFICES ASSUME TypeInv, TellInv PROVE ReportMatchesHistory
    OBVIOUS
  <2> DEFINE Logged == {f \in Fires : log[f] # None}
             Saying(texts) == {f \in Logged : Said(reply[f], texts)}
             Promoted(d) == {f \in Saying(Uncertain) : conf[f].strategy = d}
             Asked == {f \in Logged : /\ req[f].tool \notin Interactive
                                      /\ req[f].mode \in {"default", "plan"}
                                      /\ conf[f].provider \in Known /\ conf[f].auth # "env"}
             Refused == {f \in Asked : Rejected(reply[f])}
             Stopped == {f \in Asked : reply[f] = None /\ ~result[f].failed} \union Refused
             Decision(d) == {f \in Counted : log[f].decision = d}
             Forced(d) == {f \in Decision(d) : log[f].forced}
  <2>1. ASSUME NEW f \in Logged
        PROVE  Columns(req[f], conf[f], cred[f], reply[f], result[f], log[f])
    <3>1. /\ conf[f] \in Configs /\ req[f] \in Request /\ BehindOf(f)
          /\ log[f] = BuildMetricsEntry(result[f])
      BY HookAssumption DEF TellInv, Tell
    <3> QED
      BY <3>1, EntryColumns DEF BehindOf
  <2>2. Counted = {f \in Logged : log[f].kind # "user_interaction"}
    BY DEF Counted
  <2>3. ASSUME NEW d \in {"allow", "deny"}
        PROVE  /\ Forced(d) = Promoted(d) /\ Decision(d) \ Forced(d) = Saying({d})
               /\ Decision(d) = Saying({d}) \union Promoted(d)
               /\ Saying({d}) \intersect Promoted(d) = {}
    <3>1. Forced(d) = Promoted(d)
      BY <2>1, <2>2 DEF Columns
    <3>2. Decision(d) \ Forced(d) = Saying({d})
      BY <2>1, <2>2 DEF Columns
    <3> QED
      BY <3>1, <3>2
  <2>4. {f \in Counted : log[f].kind = "llm"} = Saying(Uncertain)
    BY <2>1, <2>2 DEF Columns
  <2>5. {f \in Counted : /\ log[f].kind = "credential_unavailable"
                         /\ log[f].source \in Sources /\ log[f].reason \in Reasons} = Stopped
    BY <2>1, <2>2 DEF Columns, AskedOf
  <2>6. ASSUME NEW s \in Sources
        PROVE  {f \in Counted : /\ log[f].kind = "credential_unavailable"
                               /\ log[f].source \in {s} /\ log[f].reason \in {"provider_auth"}}
                  = {f \in Refused : cred[f].source = s}
    BY <2>1, <2>2 DEF Columns, AskedOf
  <2>7. ASSUME NEW d \in {"allow", "deny"}
        PROVE  Cardinality(Decision(d)) = Cardinality(Saying({d})) + Cardinality(Promoted(d))
    <3>1. Saying({d}) \in SUBSET Fires /\ Promoted(d) \in SUBSET Fires
      OBVIOUS
    <3> HIDE DEF Saying, Promoted, Decision
    <3> QED
      BY <2>3, <3>1, AddsUp
  <2>8. Cardinality(Counted) = Cardinality(Decision("allow")) + Cardinality(Decision("deny"))
                               + Cardinality(Decision("fallthrough")) + Cardinality(Decision("error"))
    <3> DEFINE A == Decision("allow")
               D == Decision("deny")
               F == Decision("fallthrough")
               E == Decision("error")
    <3>1. Counted = A \union (D \union (F \union E))
      BY <2>1, <2>2 DEF Columns
    <3>2. /\ A \in SUBSET Fires /\ D \in SUBSET Fires /\ F \in SUBSET Fires /\ E \in SUBSET Fires
          /\ F \intersect E = {} /\ D \intersect (F \union E) = {}
          /\ A \intersect (D \union (F \union E)) = {}
      BY DEF Counted
    <3> HIDE DEF A, D, F, E
    <3>3. Cardinality(F \union E) = Cardinality(F) + Cardinality(E)
      BY <3>2, AddsUp
    <3>4. Cardinality(D \union (F \union E)) = Cardinality(D) + Cardinality(F \union E)
      BY <3>2, AddsUp
    <3>5. Cardinality(Counted) = Cardinality(A) + Cardinality(D \union (F \union E))
      BY <3>1, <3>2, AddsUp
    <3>6. /\ Cardinality(A) \in Nat /\ Cardinality(D) \in Nat
          /\ Cardinality(F) \in Nat /\ Cardinality(E) \in Nat
      BY <3>2, AddsUp
    <3>7. Cardinality(Counted) = Cardinality(A) + Cardinality(D) + Cardinality(F) + Cardinality(E)
      BY <3>3, <3>4, <3>5, <3>6
    <3> QED
      BY <3>7 DEF A, D, F, E
  <2>9. /\ Aggregate.total = Cardinality(Counted)
        /\ Aggregate.allow = Cardinality(Decision("allow"))
        /\ Aggregate.deny = Cardinality(Decision("deny"))
        /\ Aggregate.fall = Cardinality(Decision("fallthrough"))
        /\ Aggregate.errors = Cardinality(Decision("error"))
        /\ Aggregate.forcedAllow = Cardinality(Forced("allow"))
        /\ Aggregate.forcedDeny = Cardinality(Forced("deny"))
        /\ Aggregate.topFall = Cardinality({f \in Counted : log[f].kind = "llm"})
        /\ Aggregate.topDeny = Cardinality(Decision("deny") \ Forced("deny"))
    BY DEF Aggregate
  <2>10. /\ CredentialFailures(Sources, Reasons) = Cardinality(Stopped)
         /\ \A s \in Sources : CredentialFailures({s}, {"provider_auth"})
                                   = Cardinality({f \in Refused : cred[f].source = s})
    BY <2>5, <2>6 DEF CredentialFailures
  <2>11. /\ Aggregate.forcedAllow = Cardinality(Promoted("allow"))
         /\ Aggregate.forcedDeny = Cardinality(Promoted("deny"))
         /\ Aggregate.topFall = Cardinality(Saying(Uncertain))
         /\ Aggregate.topDeny = Cardinality(Saying({"deny"}))
    <3> HIDE DEF Saying, Promoted, Decision, Forced
    <3> QED
      BY <2>3, <2>4, <2>9
  <2>12. /\ Aggregate.allow = Cardinality(Saying({"allow"})) + Aggregate.forcedAllow
         /\ Aggregate.deny = Cardinality(Saying({"deny"})) + Aggregate.forcedDeny
         /\ Aggregate.total = Aggregate.allow + Aggregate.deny + Aggregate.fall + Aggregate.errors
    <3> HIDE DEF Saying, Promoted, Decision, Forced
    <3> QED
      BY <2>7, <2>8, <2>9, <2>11
  <2> QED
    BY <2>10, <2>11, <2>12 DEF ReportMatchesHistory
<1> QED
  BY <1>1, <1>2, TypeInit, TypeStep, TellStep, PTL DEF Spec

=============================================================================
