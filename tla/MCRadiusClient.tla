--------------------------- MODULE MCRadiusClient ---------------------------
(* Instances of RadiusClient for TLC: configurations of the BSSs.          *)
EXTENDS RadiusClient

CONSTANTS ap1, ap2, key1, key2

\* A BSS with a second server, of another secret or of the same, and a BSS with
\* one server; a reload may go from either configuration to the other.
MCMixed == {(ap1 :> <<key1, key2>>) @@ (ap2 :> <<key1>>),
            (ap1 :> <<key1, key1>>) @@ (ap2 :> <<key2>>)}

\* One BSS: one server, or two that have the same secret.
MCSingle == {ap1 :> <<key1>>}
MCSame == {ap1 :> <<key1, key1>>}

\* Stations are told apart by their place in sta_list only.
MCSymmetry == Permutations(Sta)
=============================================================================
