---------------------------- MODULE MCComponents -----------------------------
(***************************************************************************)
(* A small instance of Components: two requests to the auth service from   *)
(* two addresses, for one account, of which one may go on.                 *)
(***************************************************************************)
EXTENDS Components, TLC

CONSTANTS h1, h2, address1, address2, account

MCKeysOf == h1 :> <<address1, account>> @@ h2 :> <<address2, account>>

=============================================================================
