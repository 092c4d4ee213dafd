--------------------------- MODULE MCOAuthSessions ---------------------------
(***************************************************************************)
(* An instance of OAuthSessions: the session outlives its PINs, and one of *)
(* the two clients has registered one redirect URI only.                    *)
(***************************************************************************)
EXTENDS OAuthSessions, TLC

CONSTANTS c1, c2

Registered == c1 :> Uris @@ c2 :> {"there"}
=============================================================================
