---------------------------- MODULE MCOidcTokens ----------------------------
(* Instances of OidcTokens for TLC.                                        *)
EXTENDS OidcTokens, TLC

Symmetric == Permutations(Procs)
=============================================================================
