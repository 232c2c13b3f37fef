CONSTANTS
    b1 = b1
    b2 = b2
    u1 = u1
    f1 = f1
    m1 = m1
    m2 = m2
    m3 = m3
    NoSource = NoSource
    Bundles <- MCBundles
    Urls <- MCUrls
    Files <- MCFiles
    Material <- MCMaterial
    Jwks <- MCJwks
    FileJwks <- MCFileJwks
    Source <- MCSource
    CacheTime = 2
    MaxTime = 6
    MaxVersion = 3

SPECIFICATION Spec

INVARIANT NoPartialKeySet
