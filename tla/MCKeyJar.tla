------------------------------ MODULE MCKeyJar ------------------------------
(* KeyJar on a small instance: two bundle objects, the issuers "",        *)
(* "https://op" and "https://op/", one endpoint whose second key set      *)
(* holds an unsupported kty, a local JWK file f1 and a file f2 whose key  *)
(* set does not decode.                                                    *)
EXTENDS KeyJar, TLC

CONSTANTS b1, b2, u1, f1, f2, m1, iS, iA, iAs

MCBundles == {b1, b2}
MCUrls == {u1}
MCFiles == {f1, f2}
MCMaterial == {m1}
MCIssuers == {iS, iA, iAs}
MCAlt == (iA :> iAs) @@ (iAs :> iA)

JK(t, u, m) == [kty |-> t, use |-> u, key |-> m]

MCJwks ==
    [u \in MCUrls |->
        <<  << JK("rsa", "sig", m1), JK("rsa", "enc", m1) >>,
            << JK("ec", "sig", m1), JK("dsa", "sig", m1) >> >>]

MCFileJwks == (f1 :> << JK("rsa", "sig", m1) >>) @@ (f2 :> << JK("dsa", "sig", m1) >>)

MCSource == [b \in MCBundles |-> u1]

(* b1 and b2 are built from the same endpoint, and iA and iAs differ only *)
(* by which of them Alt maps to the other, so swapping either pair maps a *)
(* behaviour to a behaviour; the only choice of a bundle id, the fresh ids *)
(* Register takes, picks among ids no state tells apart.                   *)
MCSymmetry == {p @@ q : p \in Permutations(MCBundles), q \in Permutations({iA, iAs})}
=============================================================================
