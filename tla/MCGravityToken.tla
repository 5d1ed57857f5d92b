--------------------------- MODULE MCGravityToken ---------------------------
(***************************************************************************)
(* Constants of the model-checking runs of GravityToken.                   *)
(***************************************************************************)
EXTENDS GravityToken

CONSTANTS a, b, p, r

\* The pool spends a's allowance, as a router contract would.
OneGrant == {<<a, p>>}
=============================================================================
