----------------------------- MODULE MCKeystore -----------------------------
(***************************************************************************)
(* TLC instances of Keystore.                                              *)
(***************************************************************************)
EXTENDS KeystoreRefinement, TLC

Symmetry == Permutations(Fires)

OldEntry(exp) == [key |-> OldKey, exp |-> exp]
\* What an earlier session leaves: nothing, an entry that gets stale while the
\* fires run, or a file without the fields, cut off, or unreadable for good.
MCLeft == {None, OldEntry(2), Corrupt}
\* An intact file that is stale at once or later, or none.
MCHealthy == {None, OldEntry(1), OldEntry(3)}
MCCorrupt == {Corrupt}
MCNoKeys == {}
MCOldKey == {OldKey}
=============================================================================
