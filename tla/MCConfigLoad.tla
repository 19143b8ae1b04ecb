---------------------------- MODULE MCConfigLoad ----------------------------
(***************************************************************************)
(* TLC instance of ConfigProps.  The contents set and omit every field,    *)
(* with a provider block that is valid alone and one that is not.          *)
(***************************************************************************)
EXTENDS ConfigProps

Empty == [provider |-> None, off |-> None, path |-> None, allow |-> None, append |-> <<>>]
Provider(name, auth) == [name |-> name, auth |-> auth]

MCDefaultBlock == Provider("anthropic", "env")
MCEmbedded == [Empty EXCEPT !.provider = MCDefaultBlock, !.allow = <<"base">>]

MCContents == {
    Empty,
    [Empty EXCEPT !.provider = Provider("padded", "profile"), !.append = <<"extra">>],
    [Empty EXCEPT !.provider = Provider("anthropic", "env"), !.off = FALSE, !.allow = <<>>],
    [Empty EXCEPT !.provider = Provider("gemini", "profile"), !.path = "p"],
    [Empty EXCEPT !.off = TRUE, !.allow = <<"own">>, !.append = <<"more">>]}

=============================================================================
