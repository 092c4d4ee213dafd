---------------------------- MODULE MCOAuthTokens ----------------------------
(* OAuthTokens on small sets.  Clients, token ids and calls are             *)
(* interchangeable, and no property checked under Symmetric is temporal.    *)
EXTENDS OAuthTokens, TLC

Symmetric == Permutations(Clients) \cup Permutations(TokenIds)
               \cup Permutations(Calls)
=============================================================================
