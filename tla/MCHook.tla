------------------------------- MODULE MCHook -------------------------------
(***************************************************************************)
(* TLC instance of HookProps.  The configurations pair each auth type with *)
(* the strategy that makes a mistake about it visible; exec comes with two *)
(* providers and two salts, so that scopes differ in one part at a time.   *)
(***************************************************************************)
EXTENDS HookProps

Conf(provider, auth, salt, strategy) ==
    [provider |-> provider, auth |-> auth, salt |-> salt, strategy |-> strategy,
     metrics |-> TRUE, bounded |-> TRUE]

MCConfigs == {
    Conf("anthropic", "exec", "a", "allow"),
    Conf("openai", "exec", "a", "deny"),
    [Conf("openai", "exec", "b", "ask") EXCEPT !.metrics = FALSE],
    Conf("anthropic", "profile", "a", "allow"),
    Conf("gemini", "file", "a", "deny"),
    [Conf("openai", "env", "a", "allow") EXCEPT !.bounded = FALSE],
    Conf("unknown", "exec", "a", "allow")}

MCRequests == [tool : {"Bash"}, mode : {"default", "bypassPermissions"}]
                  \union [tool : {"AskUserQuestion"}, mode : {"default"}]

\* What Judge treats alike comes once: "other" is like "fallthrough", and a
\* blank or refused response like one that is cut.
Says(stop, text) == [status |-> "ok", stop |-> stop, text |-> text]
MCResponses ==
    {Says("end", t) : t \in {"allow", "deny", "fallthrough", "garbled"}} \union {Says("cut", "allow")}

MCLogged == {c \in MCConfigs : c.metrics}
MCPlain == [tool : {"Bash"}, mode : {"default"}]
=============================================================================
