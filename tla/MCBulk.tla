------------------------------- MODULE MCBulk -------------------------------
(* Small instances of BulkOrchestration. *)
EXTENDS BulkProperties, TLC

CONSTANTS s1, s2, s3, b1, b2, a1

\* One agent with two benches; the first has one site, the second two.
TwoBenches == s1 :> b1 @@ s2 :> b2 @@ s3 :> b2
OneAgent == b1 :> a1 @@ b2 :> a1
OneSite == <<<<s1>>>>
ThreeSites == <<<<s1, s2, s3>>>>
Rivals == <<<<s1>>, <<s1>>>>
=============================================================================
