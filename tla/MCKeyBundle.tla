----------------------------- MODULE MCKeyBundle -----------------------------
(* KeyBundle on a small instance: one endpoint that publishes three key   *)
(* sets (the second holds an unsupported kty after a good key), one local *)
(* JWK file, and a remote and a local bundle.                              *)
EXTENDS KeyBundle, TLC

CONSTANTS b1, b2, u1, f1, m1, m2, m3

MCBundles == {b1, b2}
MCUrls == {u1}
MCFiles == {f1}
MCMaterial == {m1, m2, m3}

K(t, u, m) == [kty |-> t, use |-> u, key |-> m]

MCJwks ==
    [u \in MCUrls |->
        <<  << K("rsa", "sig", m1), K("rsa", "enc", m2) >>,
            << K("rsa", "sig", m2), K("dsa", "sig", m3), K("ec", "enc", m1) >>,
            << K("ec", "sig", m3) >> >>]

MCFileJwks == [f \in MCFiles |-> << K("hmac", "sig", m3) >>]

MCSource == (b1 :> u1) @@ (b2 :> f1)
=============================================================================
