CONSTANTS
    b1 = b1
    b2 = b2
    u1 = u1
    f1 = f1
    f2 = f2
    m1 = m1
    iS = iS
    iA = iA
    iAs = iAs
    NoSource = NoSource
    Bundles <- MCBundles
    Urls <- MCUrls
    Files <- MCFiles
    Material <- MCMaterial
    Jwks <- MCJwks
    FileJwks <- MCFileJwks
    Source <- MCSource
    Issuers <- MCIssuers
    Self = iS
    Alt <- MCAlt
    CacheTime = 1
    MaxTime = 3
    MaxVersion = 2
    MaxRefs = 2

SPECIFICATION JarSpec
SYMMETRY MCSymmetry

INVARIANT JarTypeOK
INVARIANT CollectedFresh
