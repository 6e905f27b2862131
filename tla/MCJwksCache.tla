---------------------------- MODULE MCJwksCache -----------------------------
(***************************************************************************)
(* A small instance of JwksCache for TLC: a key that is replaced by        *)
(* another while both are published for a while, and a kid nobody has.     *)
(***************************************************************************)
EXTENDS JwksCache, TLC

CONSTANTS old, new, invented

PublishedFrom == old :> 0 @@ new :> 3 @@ invented :> 0
PublishedUntil == old :> 5 @@ new :> 99 @@ invented :> 0

=============================================================================
