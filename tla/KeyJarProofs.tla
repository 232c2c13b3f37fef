---------------------------- MODULE KeyJarProofs ----------------------------
(***************************************************************************)
(* Proofs about the KeyJar for every value of the constants: type          *)
(* correctness of the jar and of the call in progress, and freshness of    *)
(* what get() and x_keys() collect, through the inductive invariant JarInv.*)
(* The bundle-level facts come from KeyBundleProofs: a refetch inside a    *)
(* get() is a KeyBundle Get step and a remove_key iteration a Remove step. *)
(***************************************************************************)
EXTENDS KeyJar, KeyBundleProofs, WellFoundedInduction, TLAPS

USE ConstantsAssumption, JarAssumption

(* The shape of issuer_keys: issuers mapped to lists of bundles of S.     *)
IssuerMap(m, S) ==
    /\ DOMAIN m \subseteq Issuers
    /\ \A i \in DOMAIN m : m[i] \in Seq(S)

(* The inductive invariant: the types, the freshness of every bundle      *)
(* (KeyBundleProofs), the call began no later than now, remove_key's      *)
(* issuer stays in the jar, and what the call has collected is fresh.      *)
JarInv ==
    /\ JarTypeOK
    /\ \A b \in Bundles : BundleFresh(b)
    /\ t0 <= now
    /\ pc = "rm" => rarg.iss \in DOMAIN ik
    /\ CollectedFresh

-----------------------------------------------------------------------------
(* Lemmas about the operators the jar is built from.                       *)

LEMMA SeqMono ==
    ASSUME NEW S, NEW T, S \subseteq T, NEW s \in Seq(S)
    PROVE  s \in Seq(T)
  OBVIOUS

LEMMA IssuerMapMono ==
    ASSUME NEW m, NEW S, NEW T, S \subseteq T, IssuerMap(m, S)
    PROVE  IssuerMap(m, T)
  BY SeqMono DEF IssuerMap

(* issuer_keys[i].append(b), or issuer_keys[i] = [b].                      *)
LEMMA AppendToMap ==
    ASSUME NEW m, NEW S, IssuerMap(m, S), NEW i \in Issuers, NEW b \in S
    PROVE  IssuerMap(AppendTo(m, i, b), S)
  BY DEF IssuerMap, AppendTo, Put

(* issuer_keys[i] = s.                                                      *)
LEMMA OverrideMap ==
    ASSUME NEW m, NEW S, IssuerMap(m, S), NEW i \in Issuers, NEW s \in Seq(S)
    PROVE  IssuerMap(Put(m, i, s), S)
  BY DEF IssuerMap, Put

(* list.remove(e) keeps a list of bundles a list of bundles.              *)
LEMMA RemoveFirstType ==
    ASSUME NEW S, NEW s \in Seq(S), NEW e
    PROVE  RemoveFirst(s, e) \in Seq(S)
<1>1. CASE \E j \in 1..Len(s) : s[j] = e
  <2>. DEFINE k == CHOOSE n \in 1..Len(s) : s[n] = e /\ \A j \in 1..(n - 1) : s[j] # e
  <2>1. k \in 1..Len(s)
    <3>1. \E k0 \in 1..Len(s) : s[k0] = e /\ \A j \in 1..(k0 - 1) : s[j] # e
      <4>. DEFINE T == {j \in 1..Len(s) : s[j] = e}
      <4>1. T \subseteq Nat /\ T # {}
        BY <1>1
      <4>2. \E x \in T : \A y \in T : ~(<<y, x>> \in OpToRel(<, Nat))
        BY <4>1, NatLessThanWellFounded, WFMin
      <4>3. PICK k0 \in T : \A y \in T : ~(<<y, k0>> \in OpToRel(<, Nat))
        BY <4>2
      <4>4. \A y \in T : ~(y < k0)
        BY <4>1, <4>3 DEF OpToRel
      <4>. QED  BY <4>4
    <3>. QED  BY <3>1
  <2>2. [j \in 1..(Len(s) - 1) |-> IF j < k THEN s[j] ELSE s[j + 1]] \in Seq(S)
    BY <2>1
  <2>. QED  BY <1>1, <2>2 DEF RemoveFirst
<1>2. CASE ~\E j \in 1..Len(s) : s[j] = e
  BY <1>2 DEF RemoveFirst
<1>. QED  BY <1>1, <1>2

(* The ids a construction takes are ids never constructed before.          *)
LEMMA FreshIdsProps ==
    ASSUME NEW n \in Nat, HasFreshIds(n)
    PROVE  /\ FreshIds(n) \in [1..n -> Bundles \ used]
           /\ IsInjective(FreshIds(n))
  BY DEF HasFreshIds, FreshIds

LEMMA OneFreshId ==
    ASSUME used \subseteq Bundles, used # Bundles
    PROVE  /\ FreshIds(1) \in [1..1 -> Bundles \ used]
           /\ FreshIds(1)[1] \in Bundles \ used
<1>1. PICK b \in Bundles : b \notin used
  <2>1. SUFFICES ASSUME \A b \in Bundles : b \in used PROVE FALSE
    BY Zenon
  <2>2. used = Bundles
    BY <2>1
  <2>. QED  BY <2>2
<1>2. [j \in 1..1 |-> b] \in [1..1 -> Bundles \ used]
  BY <1>1
<1>3. IsInjective([j \in 1..1 |-> b])
  BY DEF IsInjective
<1>4. HasFreshIds(1)
  BY <1>2, <1>3 DEF HasFreshIds
<1>5. FreshIds(1) \in [1..1 -> Bundles \ used]
  BY <1>4, FreshIdsProps, Zenon
<1>. QED  BY <1>5

-----------------------------------------------------------------------------
(* The jar's own part of JarTypeOK, and the lists as an IssuerMap.         *)
LEMMA JarTypeParts ==
    JarTypeOK <=> /\ TypeOK
                  /\ used \subseteq Bundles
                  /\ IssuerMap(ik, used)
                  /\ pc \in Pcs
                  /\ lst \in Seq(used)
                  /\ idx \in Nat
                  /\ res \subseteq Key
                  /\ use \in Uses
                  /\ t0 \in 1..MaxTime
                  /\ rarg \in [iss : Issuers, typ : Kty, key : Material \cup {NoSource}]
  BY DEF JarTypeOK, IssuerMap

(* A step that constructs bundles: every bundle is left as it was or is a *)
(* new one, with time_out 0 and, when remote, no keys yet.                 *)
Builds ==
    /\ kb' \in [Bundles -> BundleRec]
    /\ \A b \in Bundles :
          \/ kb'[b] = kb[b]
          \/ kb'[b].timeout = 0 /\ (Remote(kb'[b]) => kb'[b].keys = {})

LEMMA BuildsFresh ==
    ASSUME TypeOK, \A b \in Bundles : BundleFresh(b), Builds,
           now' = now, srv_ver' = srv_ver, pub_at' = pub_at
    PROVE  TypeOK' /\ \A b \in Bundles : BundleFresh(b)'
<1>1. TypeOK'
  BY DEF TypeOK, Builds
<1>2. ASSUME NEW b \in Bundles PROVE BundleFresh(b)'
  <2>1. CASE kb'[b] = kb[b]
    BY <2>1, UntouchedFresh
  <2>2. CASE kb'[b].timeout = 0 /\ (Remote(kb'[b]) => kb'[b].keys = {})
    BY <2>2 DEF BundleFresh, TypeOK
  <2>. QED  BY <2>1, <2>2 DEF Builds
<1>. QED  BY <1>1, <1>2

(* KeyBundle(source=src) on a source a jar call builds from.              *)
LEMMA NewBundleType ==
    ASSUME NEW src \in Sources
    PROVE  /\ NewBundle(src) \in BundleRec
           /\ NewBundle(src).timeout = 0
           /\ Remote(NewBundle(src)) => NewBundle(src).keys = {}
<1>1. CASE src \in Files
  <2>1. DoKeys(FileJwks[src]) \subseteq Key
    BY <1>1, DoKeysType
  <2>. QED  BY <1>1, <2>1 DEF NewBundle, BundleRec, Remote
<1>2. CASE src \notin Files
  BY <1>2 DEF NewBundle, BundleRec, Remote
<1>. QED  BY <1>1, <1>2

(* One new bundle nb taken from the ids never used, appended to issuer   *)
(* i's list of the map m.                                                  *)
LEMMA BuildOne ==
    ASSUME TypeOK, used \subseteq Bundles, used # Bundles,
           NEW m, IssuerMap(m, used), NEW i \in Issuers,
           NEW nb \in BundleRec, nb.timeout = 0, Remote(nb) => nb.keys = {},
           kb' = [kb EXCEPT ![FreshIds(1)[1]] = nb],
           ik' = AppendTo(m, i, FreshIds(1)[1]),
           used' = used \cup {FreshIds(1)[1]}
    PROVE  /\ Builds
           /\ used \subseteq used' /\ used' \subseteq Bundles
           /\ IssuerMap(ik', used')
<1>. DEFINE b == FreshIds(1)[1]
<1>1. b \in Bundles \ used
  BY OneFreshId
<1>2. IssuerMap(m, used')
  BY IssuerMapMono
<1>3. IssuerMap(AppendTo(m, i, b), used')
  BY <1>2, AppendToMap
<1>4. Builds
  BY <1>1 DEF Builds, TypeOK
<1>. QED  BY <1>1, <1>3, <1>4

(* The add() of src to issuer i's list of the map m.                       *)
LEMMA RegisterStep ==
    ASSUME TypeOK, used \subseteq Bundles,
           NEW m, IssuerMap(m, used), NEW i \in Issuers, NEW src \in Urls \cup Files,
           Register(m, i, src)
    PROVE  /\ Builds
           /\ used \subseteq used' /\ used' \subseteq Bundles
           /\ IssuerMap(ik', used')
<1>1. CASE src \in Files /\ DoKeysRaises(FileJwks[src])
  <2>1. ik' = m /\ kb' = kb /\ used' = used
    BY <1>1 DEF Register
  <2>. QED  BY <2>1 DEF Builds, TypeOK
<1>2. CASE ~(src \in Files /\ DoKeysRaises(FileJwks[src]))
  <2>1. /\ used # Bundles
        /\ kb' = [kb EXCEPT ![FreshIds(1)[1]] = NewBundle(src)]
        /\ ik' = AppendTo(m, i, FreshIds(1)[1])
        /\ used' = used \cup {FreshIds(1)[1]}
    BY <1>2 DEF Register
  <2>2. /\ NewBundle(src) \in BundleRec
        /\ NewBundle(src).timeout = 0
        /\ Remote(NewBundle(src)) => NewBundle(src).keys = {}
    BY NewBundleType DEF Sources
  <2>. QED  BY <2>1, <2>2, BuildOne
<1>. QED  BY <1>1, <1>2

(* What every jar call that constructs bundles does: it runs while no     *)
(* other call is in progress, builds bundles from ids never used and      *)
(* leaves the lists over bundles constructed so far.                       *)
Construct ==
    /\ Builds
    /\ used \subseteq used' /\ used' \subseteq Bundles
    /\ IssuerMap(ik', used')
    /\ Idle
    /\ UNCHANGED <<now, srv_ver, pub_at>>
    /\ UNCHANGED callVars

(* The bundles add_hmac builds: one HMAC bundle per use of the usage.    *)
LEMMA HmacBundleType ==
    ASSUME NEW key \in Material, NEW u \in Uses
    PROVE  /\ HmacBundle(key, u) \in BundleRec
           /\ HmacBundle(key, u).timeout = 0
           /\ ~Remote(HmacBundle(key, u))
  BY DEF HmacBundle, BundleRec, Key, Kty, Remote, Sources

LEMMA AddHmacStep ==
    ASSUME JarTypeOK, NEW i \in Issuers, NEW key \in Material, NEW usage \in Usages,
           AddHmac(i, key, usage)
    PROVE  Construct
<1>. DEFINE ik1 == IF i \in DOMAIN ik THEN ik ELSE Put(ik, i, <<>>)
            n   == Len(usage)
<1>1. IssuerMap(ik1, used) /\ used \subseteq Bundles /\ TypeOK
  <2>1. IssuerMap(ik, used) /\ used \subseteq Bundles /\ TypeOK
    BY JarTypeParts
  <2>2. <<>> \in Seq(used)
    OBVIOUS
  <2>3. IssuerMap(Put(ik, i, <<>>), used)
    BY <2>1, <2>2, OverrideMap
  <2>. QED  BY <2>1, <2>3
<1>2. Idle /\ UNCHANGED <<now, srv_ver, pub_at>> /\ UNCHANGED callVars
  BY DEF AddHmac
<1>3. CASE Self \notin DOMAIN ik1
  <2>1. ik' = ik1 /\ kb' = kb /\ used' = used
    BY <1>3 DEF AddHmac
  <2>. QED  BY <1>1, <1>2, <2>1 DEF Construct, Builds, TypeOK
<1>4. CASE Self \in DOMAIN ik1
  <2>. DEFINE ids == FreshIds(n)
  <2>1. /\ HasFreshIds(n)
        /\ kb' = [b \in Bundles |->
                    IF b \in Range(ids)
                    THEN HmacBundle(key, usage[CHOOSE j \in 1..n : ids[j] = b])
                    ELSE kb[b]]
        /\ ik' = [ik1 EXCEPT ![Self] = @ \o ids]
        /\ used' = used \cup Range(ids)
    BY <1>4 DEF AddHmac
  <2>2. n \in Nat /\ \A j \in 1..n : usage[j] \in Uses
    BY DEF Usages, Uses
  <2>3. ids \in [1..n -> Bundles \ used]
    BY <2>1, <2>2, FreshIdsProps
  <2>4. used \subseteq used' /\ used' \subseteq Bundles
    BY <1>1, <2>1, <2>3 DEF Range
  <2>5. IssuerMap(ik', used')
    <3>1. IssuerMap(ik1, used')
      BY <1>1, <2>4, IssuerMapMono
    <3>2. ids \in Seq(used')
      BY <2>1, <2>2, <2>3 DEF Range
    <3>3. ik1[Self] \o ids \in Seq(used')
      BY <1>4, <3>1, <3>2 DEF IssuerMap
    <3>. QED  BY <2>1, <3>1, <3>3 DEF IssuerMap
  <2>6. ASSUME NEW b \in Range(ids)
        PROVE  usage[CHOOSE j \in 1..n : ids[j] = b] \in Uses
    <3>1. \E j \in 1..n : ids[j] = b
      BY <2>3 DEF Range
    <3>. QED  BY <3>1, <2>2
  <2>7. Builds
    <3>1. ASSUME NEW b \in Bundles
          PROVE  /\ kb'[b] \in BundleRec
                 /\ \/ kb'[b] = kb[b]
                    \/ kb'[b].timeout = 0 /\ (Remote(kb'[b]) => kb'[b].keys = {})
      <4>1. CASE b \in Range(ids)
        BY <2>1, <2>6, <4>1, HmacBundleType
      <4>2. CASE b \notin Range(ids)
        BY <1>1, <2>1, <4>2 DEF TypeOK
      <4>. QED  BY <4>1, <4>2
    <3>. QED  BY <2>1, <3>1 DEF Builds
  <2>. QED  BY <1>2, <2>4, <2>5, <2>7 DEF Construct
<1>. QED  BY <1>3, <1>4

LEMMA AddStep ==
    ASSUME JarTypeOK, NEW i \in Issuers, NEW src \in Urls \cup Files, Add(i, src)
    PROVE  Construct
<1>1. IssuerMap(ik, used) /\ used \subseteq Bundles /\ TypeOK
  BY JarTypeParts
<1>. QED  BY <1>1, RegisterStep DEF Add, Construct

LEMMA LoadKeysStep ==
    ASSUME JarTypeOK, NEW i \in Issuers, NEW src \in Urls \cup Files \cup {NoSource},
           NEW replace \in BOOLEAN, LoadKeys(i, src, replace)
    PROVE  Construct
<1>. DEFINE ik1 == IF i \notin DOMAIN ik \/ replace THEN Put(ik, i, <<>>) ELSE ik
<1>1. IssuerMap(ik1, used) /\ used \subseteq Bundles /\ TypeOK
  <2>1. IssuerMap(ik, used) /\ used \subseteq Bundles /\ TypeOK
    BY JarTypeParts
  <2>2. <<>> \in Seq(used)
    OBVIOUS
  <2>3. IssuerMap(Put(ik, i, <<>>), used)
    BY <2>1, <2>2, OverrideMap
  <2>. QED  BY <2>1, <2>3
<1>2. Idle /\ UNCHANGED <<now, srv_ver, pub_at>> /\ UNCHANGED callVars
  BY DEF LoadKeys
<1>3. CASE src = NoSource
  <2>1. ik' = ik1 /\ kb' = kb /\ used' = used
    BY <1>3 DEF LoadKeys, Sources
  <2>. QED  BY <1>1, <1>2, <2>1 DEF Construct, Builds, TypeOK
<1>4. CASE src # NoSource
  <2>1. Register(ik1, i, src)
    BY <1>4 DEF LoadKeys
  <2>. QED  BY <1>1, <1>2, <1>4, <2>1, RegisterStep DEF Construct
<1>. QED  BY <1>3, <1>4

LEMMA KeyExportStep ==
    ASSUME JarTypeOK, NEW m \in Material, NEW uses \in SUBSET Uses, KeyExport(m, uses)
    PROVE  Construct
<1>1. IssuerMap(ik, used) /\ used \subseteq Bundles /\ TypeOK
  BY JarTypeParts
<1>2. /\ SetupBundle(m, uses) \in BundleRec
      /\ SetupBundle(m, uses).timeout = 0
      /\ ~Remote(SetupBundle(m, uses))
  BY DEF SetupBundle, BundleRec, Key, Kty, Remote, Sources
<1>3. /\ used # Bundles
      /\ kb' = [kb EXCEPT ![FreshIds(1)[1]] = SetupBundle(m, uses)]
      /\ ik' = AppendTo(ik, Self, FreshIds(1)[1])
      /\ used' = used \cup {FreshIds(1)[1]}
      /\ Idle /\ UNCHANGED <<now, srv_ver, pub_at>> /\ UNCHANGED callVars
  BY DEF KeyExport
<1>. QED  BY <1>1, <1>2, <1>3, BuildOne DEF Construct

(* add_kb, __setitem__ and update(kj) only rearrange the lists.           *)
LEMMA RelistSteps ==
    ASSUME JarTypeOK,
           \/ \E i \in Issuers, b \in Bundles : AddKb(i, b) \/ SetItem(i, b)
           \/ \E S \in (SUBSET Issuers) \ {{}}, b \in Bundles : MergeJar(S, b)
    PROVE  Construct
<1>1. IssuerMap(ik, used) /\ used \subseteq Bundles /\ TypeOK
  BY JarTypeParts
<1>2. kb' = kb => Builds
  BY <1>1 DEF Builds, TypeOK
<1>3. ASSUME NEW i \in Issuers, NEW b \in Bundles, AddKb(i, b) PROVE Construct
  <2>1. IssuerMap(AppendTo(ik, i, b), used)
    BY <1>1, <1>3, AppendToMap DEF AddKb
  <2>. QED  BY <1>1, <1>2, <1>3, <2>1 DEF AddKb, Construct, Builds
<1>4. ASSUME NEW i \in Issuers, NEW b \in Bundles, SetItem(i, b) PROVE Construct
  <2>1. <<b>> \in Seq(used)
    BY <1>4 DEF SetItem
  <2>2. IssuerMap(Put(ik, i, <<b>>), used)
    BY <1>1, <2>1, OverrideMap
  <2>. QED  BY <1>1, <1>2, <1>4, <2>2 DEF SetItem, Construct, Builds
<1>5. ASSUME NEW S \in (SUBSET Issuers) \ {{}}, NEW b \in Bundles, MergeJar(S, b)
      PROVE  Construct
  <2>1. b \in used
    BY <1>5 DEF MergeJar
  <2>2. ASSUME NEW j \in DOMAIN ik \cup S
        PROVE  (IF j \in DOMAIN ik THEN ik[j] ELSE <<>>) \o (IF j \in S THEN <<b>> ELSE <<>>)
                  \in Seq(used)
    BY <1>1, <2>1 DEF IssuerMap
  <2>3. IssuerMap(ik', used)
    BY <1>1, <1>5, <2>2 DEF MergeJar, IssuerMap
  <2>. QED  BY <1>1, <1>2, <1>5, <2>3 DEF MergeJar, Construct, Builds
<1>. QED  BY <1>3, <1>4, <1>5

(* Every step of the jar: a call that runs while none is in progress and  *)
(* may construct bundles, the clock or an endpoint, or a step of a call.  *)
LEMMA Classify ==
    ASSUME JarTypeOK, [JarNext]_allVars
    PROVE  \/ Construct
           \/ JarTick
           \/ \E u \in Urls : JarRotate(u)
           \/ \E i \in Issuers, u \in UseArgs : StartGet(i, u)
           \/ \E part \in Issuers, u \in {"sig", "enc"} : StartX(part, u)
           \/ ReadBundle
           \/ \E r \in Responses, h \in BOOLEAN : FetchBundle(r, h)
           \/ GetDone
           \/ FirstDone
           \/ \E i \in Issuers, typ \in Kty, key \in Material \cup {NoSource} :
                 StartRemove(i, typ, key)
           \/ RemoveStep
           \/ RemoveDone
           \/ UNCHANGED allVars
<1>0. SUFFICES ASSUME JarNext
               PROVE  \/ Construct
                      \/ JarTick
                      \/ \E u \in Urls : JarRotate(u)
                      \/ \E i \in Issuers, u \in UseArgs : StartGet(i, u)
                      \/ \E part \in Issuers, u \in {"sig", "enc"} : StartX(part, u)
                      \/ ReadBundle
                      \/ \E r \in Responses, h \in BOOLEAN : FetchBundle(r, h)
                      \/ GetDone
                      \/ FirstDone
                      \/ \E i \in Issuers, typ \in Kty, key \in Material \cup {NoSource} :
                            StartRemove(i, typ, key)
                      \/ RemoveStep
                      \/ RemoveDone
  OBVIOUS
<1>1. (\E i \in Issuers, src \in Urls \cup Files : Add(i, src)) => Construct
  BY AddStep
<1>2. (\E i \in Issuers, key \in Material, usage \in Usages : AddHmac(i, key, usage))
         => Construct
  BY AddHmacStep
<1>3. (\E i \in Issuers, src \in Urls \cup Files \cup {NoSource}, replace \in BOOLEAN :
          LoadKeys(i, src, replace))
         => Construct
  BY LoadKeysStep
<1>4. (\E m \in Material, uses \in SUBSET Uses : KeyExport(m, uses)) => Construct
  BY KeyExportStep
<1>5. (\E i \in Issuers, b \in Bundles : AddKb(i, b) \/ SetItem(i, b)) => Construct
  BY RelistSteps
<1>6. (\E S \in (SUBSET Issuers) \ {{}}, b \in Bundles : MergeJar(S, b)) => Construct
  BY RelistSteps
<1>7. (\E r \in Responses, h \in BOOLEAN : (h => r = "200") /\ FetchBundle(r, h))
         => \E r \in Responses, h \in BOOLEAN : FetchBundle(r, h)
  OBVIOUS
<1>. QED  BY <1>0, <1>1, <1>2, <1>3, <1>4, <1>5, <1>6, <1>7 DEF JarNext

-----------------------------------------------------------------------------
(* Every jar step keeps the bundles well typed and fresh: the clock, the  *)
(* rotations, a refetch inside get() and a remove_key iteration are steps *)
(* of the KeyBundle specification (NextTypeOK, NextFreshness), and the   *)
(* other calls construct new bundles or leave the bundles alone.          *)
LEMMA BundleStep ==
    ASSUME JarInv, [JarNext]_allVars
    PROVE  TypeOK' /\ \A b \in Bundles : BundleFresh(b)'
<1>0. /\ JarTypeOK /\ TypeOK /\ \A b \in Bundles : BundleFresh(b)
      /\ lst \in Seq(used) /\ idx \in Nat /\ used \subseteq Bundles
      /\ IssuerMap(ik, used)
      /\ rarg \in [iss : Issuers, typ : Kty, key : Material \cup {NoSource}]
  BY JarTypeParts DEF JarInv
<1>1. ASSUME [Next]_vars PROVE TypeOK' /\ \A b \in Bundles : BundleFresh(b)'
  <2>1. FreshnessInv
    BY <1>0, FreshnessInvDef
  <2>2. FreshnessInv'
    BY <1>1, <2>1, NextFreshness
  <2>. QED  BY <2>2 DEF FreshnessInv, BundleFresh
<1>2. ASSUME Construct PROVE TypeOK' /\ \A b \in Bundles : BundleFresh(b)'
  BY <1>0, <1>2, BuildsFresh DEF Construct
<1>3. ASSUME UNCHANGED <<now, srv_ver, pub_at, kb>>
      PROVE  TypeOK' /\ \A b \in Bundles : BundleFresh(b)'
  BY <1>1, <1>3 DEF vars
<1>4. ASSUME NEW r \in Responses, NEW h \in BOOLEAN, FetchBundle(r, h)
      PROVE  [Next]_vars
  <2>0. idx < Len(lst)
    BY <1>4, Zenon DEF FetchBundle
  <2>1. idx + 1 \in 1..Len(lst)
    BY <1>0, <2>0
  <2>2. lst[idx + 1] \in Bundles
    BY <1>0, <2>1
  <2>3. Get(lst[idx + 1])
    BY <1>4 DEF FetchBundle, Get
  <2>. QED  BY <2>2, <2>3 DEF Next
<1>5. ASSUME RemoveStep PROVE [Next]_vars
  <2>1. rarg.iss \in DOMAIN ik /\ idx + 1 \in 1..Len(ik[rarg.iss])
    BY <1>0, <1>5 DEF JarInv, RemoveStep
  <2>2. ik[rarg.iss][idx + 1] \in Bundles
    BY <1>0, <2>1 DEF IssuerMap
  <2>3. Remove(ik[rarg.iss][idx + 1], rarg.typ, rarg.key)
    BY <1>5 DEF RemoveStep, Remove
  <2>. QED  BY <1>0, <2>2, <2>3 DEF Next
<1>6. CASE JarTick
  BY <1>1, <1>6 DEF JarTick, Next
<1>7. ASSUME NEW u \in Urls, JarRotate(u) PROVE [Next]_vars
  BY <1>7 DEF JarRotate, Next
<1>8. CASE \/ \E i \in Issuers, u \in UseArgs : StartGet(i, u)
          \/ \E part \in Issuers, u \in {"sig", "enc"} : StartX(part, u)
          \/ ReadBundle \/ GetDone \/ FirstDone \/ RemoveDone
          \/ \E i \in Issuers, typ \in Kty, key \in Material \cup {NoSource} :
                StartRemove(i, typ, key)
          \/ UNCHANGED allVars
  <2>1. UNCHANGED <<now, srv_ver, pub_at, kb>>
    BY <1>8 DEF StartGet, StartX, ReadBundle, GetDone, FirstDone, RemoveDone,
                StartRemove, allVars
  <2>. QED  BY <2>1, <1>3
<1>9. CASE \E r \in Responses, h \in BOOLEAN : FetchBundle(r, h)
  BY <1>9, <1>4, <1>1
<1>10. CASE RemoveStep
  BY <1>10, <1>5, <1>1
<1>11. CASE \E u \in Urls : JarRotate(u)
  BY <1>11, <1>7, <1>1
<1>. QED  BY <1>2, <1>6, <1>8, <1>9, <1>10, <1>11, <1>0, Classify

-----------------------------------------------------------------------------
(* The conjuncts of JarInv about the jar and the call in progress.        *)
CallOK ==
    /\ used \subseteq Bundles
    /\ IssuerMap(ik, used)
    /\ pc \in Pcs
    /\ lst \in Seq(used)
    /\ idx \in Nat
    /\ res \subseteq Key
    /\ use \in Uses
    /\ t0 \in 1..MaxTime
    /\ rarg \in [iss : Issuers, typ : Kty, key : Material \cup {NoSource}]
    /\ t0 <= now
    /\ pc = "rm" => rarg.iss \in DOMAIN ik

LEMMA JarInvParts == JarInv <=> TypeOK /\ (\A b \in Bundles : BundleFresh(b)) /\ CallOK /\ CollectedFresh
  BY JarTypeParts DEF JarInv, CallOK

(* The list get() resolves for an issuer is one of the jar's lists.       *)
LEMMA ResolveType ==
    ASSUME IssuerMap(ik, used), NEW i \in Issuers
    PROVE  Resolve(i) \in Seq(used)
<1>1. i # Self => Alt[i] \in Issuers
  OBVIOUS
<1>. QED  BY <1>1 DEF Resolve, IssuerMap

(* A call that returns or raises leaves the jar with no call in progress. *)
LEMMA EndCallOK ==
    ASSUME TypeOK, CallOK, EndCall,
           now' = now, ik' = ik, used' = used
    PROVE  CallOK'
  BY DEF EndCall, CallOK, Pcs, TypeOK, Kty, Uses, IssuerMap

(* A step of get() that collects keys and moves to the next bundle.       *)
LEMMA CollectFrame ==
    ASSUME CallOK, res' \subseteq Key, idx' \in Nat,
           UNCHANGED <<now, ik, used, pc, lst, use, t0, rarg>>
    PROVE  CallOK'
  BY DEF CallOK, IssuerMap

(* What a bundle read collects are keys.                                  *)
LEMMA PickKeys ==
    ASSUME NEW ks \in SUBSET Key, NEW u
    PROVE  Pick(ks, u) \subseteq ks
  BY DEF Pick

LEMMA CallStep ==
    ASSUME JarInv, [JarNext]_allVars
    PROVE  CallOK'
<1>0. TypeOK /\ CallOK /\ TypeOK'
  BY BundleStep, JarInvParts
<1>1. CASE Construct
  <2>1. lst \in Seq(used')
    BY <1>0, <1>1, SeqMono DEF Construct, CallOK
  <2>. QED  BY <1>0, <1>1, <2>1 DEF Construct, CallOK, Idle, callVars
<1>2. CASE JarTick
  BY <1>0, <1>2 DEF JarTick, Tick, CallOK, callVars, TypeOK
<1>3. ASSUME NEW u \in Urls, JarRotate(u) PROVE CallOK'
  BY <1>0, <1>3 DEF JarRotate, Rotate, CallOK, callVars
<1>4. ASSUME NEW i \in Issuers, NEW u \in UseArgs, StartGet(i, u) PROVE CallOK'
  <2>1. Resolve(i) \in Seq(used) /\ Norm(u) \in Uses
    BY <1>0, ResolveType DEF CallOK, UseArgs, Norm, Uses
  <2>. QED  BY <1>0, <1>4, <2>1 DEF StartGet, CallOK, Pcs, TypeOK
<1>5. ASSUME NEW part \in Issuers, NEW u \in {"sig", "enc"}, StartX(part, u) PROVE CallOK'
  <2>1. Resolve(part) \in Seq(used)
    BY <1>0, ResolveType DEF CallOK
  <2>. QED  BY <1>0, <1>5, <2>1 DEF StartX, CallOK, Pcs, TypeOK, Uses
<1>6. CASE ReadBundle
  <2>0. idx < Len(lst)
    BY <1>6, Zenon DEF ReadBundle
  <2>1. idx + 1 \in 1..Len(lst)
    BY <1>0, <2>0 DEF CallOK
  <2>2. kb[lst[idx + 1]] \in BundleRec
    BY <1>0, <2>1 DEF CallOK, TypeOK
  <2>3. Pick(kb[lst[idx + 1]].keys, use) \subseteq Key
    BY <2>2, PickKeys DEF BundleRec
  <2>4. /\ res' = res \cup Pick(kb[lst[idx + 1]].keys, use)
        /\ idx' = idx + 1
        /\ UNCHANGED <<now, ik, used, pc, lst, use, t0, rarg>>
    BY <1>6 DEF ReadBundle
  <2>5. res' \subseteq Key
    BY <1>0, <2>3, <2>4, Zenon DEF CallOK
  <2>6. idx \in Nat
    BY <1>0 DEF CallOK
  <2>7. idx' \in Nat
    BY <2>4, <2>6
  <2>. QED  BY <1>0, <2>4, <2>5, <2>7, CollectFrame, Zenon
<1>7. ASSUME NEW r \in Responses, NEW h \in BOOLEAN, FetchBundle(r, h) PROVE CallOK'
  <2>0. idx < Len(lst) /\ Stale(kb[lst[idx + 1]])
    BY <1>7, Zenon DEF FetchBundle
  <2>1. idx + 1 \in 1..Len(lst)
    BY <1>0, <2>0 DEF CallOK
  <2>2. kb[lst[idx + 1]] \in BundleRec /\ Remote(kb[lst[idx + 1]])
    BY <1>0, <2>0, <2>1 DEF CallOK, TypeOK, Stale
  <2>3. RemoteReload(kb[lst[idx + 1]], r, h) \in BundleRec
    BY <1>0, <2>2, RemoteReloadProps
  <2>4. Pick(RemoteReload(kb[lst[idx + 1]], r, h).keys, use) \subseteq Key
    BY <2>3, PickKeys DEF BundleRec
  <2>5. CASE RemoteRaises(kb[lst[idx + 1]], r)
    <3>1. EndCall /\ now' = now /\ ik' = ik /\ used' = used
      BY <1>7, <2>5 DEF FetchBundle
    <3>. QED  BY <1>0, <3>1, EndCallOK
  <2>6. CASE ~RemoteRaises(kb[lst[idx + 1]], r)
    <3>1. /\ res' = res \cup Pick(RemoteReload(kb[lst[idx + 1]], r, h).keys, use)
          /\ idx' = idx + 1
          /\ UNCHANGED <<pc, lst, use, t0, rarg, now, ik, used>>
      BY <1>7, <2>6 DEF FetchBundle
    <3>2. res' \subseteq Key
      BY <1>0, <2>4, <3>1, Zenon DEF CallOK
    <3>3. idx' \in Nat
      BY <1>0, <3>1 DEF CallOK
    <3>. QED  BY <1>0, <3>1, <3>2, <3>3, CollectFrame, Zenon
  <2>. QED  BY <2>5, <2>6
<1>8. CASE GetDone \/ RemoveDone
  <2>1. EndCall /\ now' = now /\ ik' = ik /\ used' = used
    BY <1>8 DEF GetDone, RemoveDone
  <2>. QED  BY <1>0, <2>1, EndCallOK
<1>9. CASE FirstDone
  <2>1. CASE Self \in DOMAIN ik
    <3>1. /\ pc' = "x2" /\ lst' = ik[Self] /\ idx' = 0
          /\ UNCHANGED <<res, use, t0, rarg, now, ik, used>>
      BY <1>9, <2>1 DEF FirstDone
    <3>. QED  BY <1>0, <2>1, <3>1 DEF CallOK, IssuerMap, Pcs
  <2>2. CASE Self \notin DOMAIN ik
    <3>1. EndCall /\ now' = now /\ ik' = ik /\ used' = used
      BY <1>9, <2>2 DEF FirstDone
    <3>. QED  BY <1>0, <3>1, EndCallOK
  <2>. QED  BY <2>1, <2>2
<1>10. ASSUME NEW i \in Issuers, NEW typ \in Kty, NEW key \in Material \cup {NoSource},
              StartRemove(i, typ, key)
       PROVE  CallOK'
  BY <1>0, <1>10 DEF StartRemove, CallOK, Pcs
<1>11. CASE RemoveStep
  <2>. DEFINE iss == rarg.iss
  <2>1. iss \in DOMAIN ik /\ idx + 1 \in 1..Len(ik[iss])
    BY <1>0, <1>11 DEF RemoveStep, CallOK
  <2>2. ik[iss] \in Seq(used)
    BY <1>0, <2>1 DEF CallOK, IssuerMap
  <2>3. RemoveFirst(ik[iss], ik[iss][idx + 1]) \in Seq(used)
    BY <2>2, RemoveFirstType
  <2>4. IssuerMap(ik', used)
    BY <1>0, <1>11, <2>1, <2>2, <2>3 DEF RemoveStep, CallOK, IssuerMap
  <2>5. DOMAIN ik' = DOMAIN ik
    BY <1>11 DEF RemoveStep
  <2>. QED  BY <1>0, <1>11, <2>1, <2>4, <2>5 DEF RemoveStep, CallOK
<1>12. CASE UNCHANGED allVars
  BY <1>0, <1>12 DEF allVars, CallOK
<1>. QED  BY <1>1, <1>2, <1>3, <1>4, <1>5, <1>6, <1>7, <1>8, <1>9, <1>10, <1>11, <1>12,
             <1>0, Classify DEF JarInv

-----------------------------------------------------------------------------
(* A collected key stays fresh while the endpoints stand still and the    *)
(* jar's bundles keep their sources and, when local, their keys.           *)
LEMMA FreshSinceKept ==
    ASSUME NEW k, NEW t, FreshSince(k, t),
           used \subseteq used', srv_ver' = srv_ver, pub_at' = pub_at,
           \A b \in used : /\ kb'[b].src = kb[b].src
                           /\ ~Remote(kb[b]) => kb'[b].keys = kb[b].keys
    PROVE  FreshSince(k, t)'
<1>1. PICK b \in used :
         /\ ~Remote(kb[b]) => k \in kb[b].keys
         /\ Remote(kb[b]) =>
               \E v \in 1..srv_ver[kb[b].src] :
                  /\ k \in Entries(Jwks[kb[b].src][v])
                  /\ v = srv_ver[kb[b].src] \/ t <= pub_at[kb[b].src][v + 1] + CacheTime
  BY DEF FreshSince
<1>2. Remote(kb'[b]) <=> Remote(kb[b])
  BY <1>1 DEF Remote
<1>. QED  BY <1>1, <1>2 DEF FreshSince

(* A rotation keeps a collected key fresh for a call that began no later *)
(* than now: the version it came from was current, and is now replaced    *)
(* at time now, or it was replaced before and stays so.                   *)
LEMMA FreshSinceRotate ==
    ASSUME TypeOK, NEW u \in Urls, Rotate(u), used' = used,
           NEW k, NEW t \in Nat, t <= now, FreshSince(k, t)
    PROVE  FreshSince(k, t)'
<1>1. PICK b \in used :
         /\ ~Remote(kb[b]) => k \in kb[b].keys
         /\ Remote(kb[b]) =>
               \E v \in 1..srv_ver[kb[b].src] :
                  /\ k \in Entries(Jwks[kb[b].src][v])
                  /\ v = srv_ver[kb[b].src] \/ t <= pub_at[kb[b].src][v + 1] + CacheTime
  BY DEF FreshSince
<1>0. /\ now \in Nat
      /\ srv_ver \in [Urls -> Versions]
      /\ pub_at \in [Urls -> [Versions -> 0..MaxTime]]
  BY DEF TypeOK
<1>2. kb' = kb /\ now' = now
  BY DEF Rotate
<1>3. CASE ~Remote(kb[b])
  BY <1>1, <1>2, <1>3 DEF FreshSince
<1>4. CASE Remote(kb[b])
  <2>. DEFINE src0 == kb[b].src
  <2>1. src0 \in Urls
    BY <1>4 DEF Remote
  <2>2. PICK v0 \in 1..srv_ver[src0] :
           /\ k \in Entries(Jwks[src0][v0])
           /\ v0 = srv_ver[src0] \/ t <= pub_at[src0][v0 + 1] + CacheTime
    BY <1>1, <1>4
  <2>3. /\ v0 \in 1..srv_ver'[src0]
        /\ v0 = srv_ver'[src0] \/ t <= pub_at'[src0][v0 + 1] + CacheTime
    <3>1. CASE src0 # u
      BY <2>1, <2>2, <3>1 DEF Rotate, TypeOK
    <3>2. CASE src0 = u
      <4>1. srv_ver[u] \in Versions /\ srv_ver[u] < MaxVersion
        BY DEF Rotate, TypeOK
      <4>2. srv_ver'[u] = srv_ver[u] + 1 /\ pub_at'[u][srv_ver[u] + 1] = now
        BY <4>1 DEF Rotate, TypeOK, Versions
      <4>3. \A v \in 1..(srv_ver[u] - 1) : pub_at'[u][v + 1] = pub_at[u][v + 1]
        BY <4>1 DEF Rotate, TypeOK, Versions
      <4>4. v0 \in 1..srv_ver[u]
        BY <2>2, <3>2
      <4>5. v0 \in 1..srv_ver'[u]
        BY <4>1, <4>2, <4>4 DEF Versions
      <4>6. CASE v0 = srv_ver[u]
        <5>1. t <= pub_at'[u][v0 + 1] + CacheTime
          BY <1>0, <4>2, <4>6
        <5>. QED  BY <3>2, <4>5, <5>1
      <4>7. CASE v0 # srv_ver[u]
        <5>1. v0 \in 1..(srv_ver[u] - 1)
          BY <4>1, <4>4, <4>7 DEF Versions
        <5>2. pub_at'[u][v0 + 1] = pub_at[u][v0 + 1]
          BY <4>3, <5>1
        <5>3. t <= pub_at[u][v0 + 1] + CacheTime
          BY <2>2, <3>2, <4>7
        <5>. QED  BY <3>2, <4>5, <5>2, <5>3
      <4>. QED  BY <4>6, <4>7
    <3>. QED  BY <3>1, <3>2
  <2>4. Remote(kb'[b]) /\ kb'[b].src = src0
    BY <1>2, <1>4
  <2>. QED  BY <1>1, <2>2, <2>3, <2>4 DEF FreshSince
<1>. QED  BY <1>3, <1>4

(* A key that a bundle read returns without refetching is fresh for a    *)
(* call that began no later than now: _uptodate() found now <= time_out,  *)
(* and the bundle's keys were served no earlier than cache_time before    *)
(* that time_out (BundleFresh).                                            *)
LEMMA ReadFresh ==
    ASSUME TypeOK, NEW b \in used, used \subseteq Bundles, BundleFresh(b),
           ~Stale(kb[b]), NEW t \in Nat, t <= now, NEW k \in kb[b].keys
    PROVE  FreshSince(k, t)
<1>1. CASE ~Remote(kb[b])
  BY <1>1 DEF FreshSince
<1>2. CASE Remote(kb[b])
  <2>. DEFINE src0 == kb[b].src
  <2>1. now <= kb[b].timeout /\ kb[b].timeout \in Nat
    BY <1>2 DEF Stale, TypeOK, BundleRec
  <2>2. PICK v0 \in 1..srv_ver[src0] :
           /\ k \in Entries(Jwks[src0][v0])
           /\ v0 = srv_ver[src0] \/ kb[b].timeout <= pub_at[src0][v0 + 1] + CacheTime
    BY <1>2 DEF BundleFresh
  <2>3. v0 = srv_ver[src0] \/ t <= pub_at[src0][v0 + 1] + CacheTime
    <3>1. src0 \in Urls /\ v0 \in Versions
      BY <1>2 DEF Remote, TypeOK, Versions
    <3>2. v0 # srv_ver[src0] => pub_at[src0][v0 + 1] \in Nat
      BY <3>1 DEF TypeOK, Versions
    <3>. QED  BY <2>1, <2>2, <3>2 DEF TypeOK
  <2>. QED  BY <1>2, <2>2, <2>3 DEF FreshSince
<1>. QED  BY <1>1, <1>2

(* A key a refetch inside get() installs is from the key set its         *)
(* endpoint serves now.                                                    *)
LEMMA FetchFresh ==
    ASSUME TypeOK, NEW b \in used, used \subseteq Bundles, Remote(kb[b]),
           NEW r \in Responses, NEW h \in BOOLEAN,
           kb'[b] = RemoteReload(kb[b], r, h),
           srv_ver' = srv_ver, pub_at' = pub_at, used' = used,
           NEW k \in kb'[b].keys, NEW t
    PROVE  FreshSince(k, t)'
<1>. DEFINE src0 == kb[b].src
<1>1. kb[b] \in BundleRec /\ src0 \in Urls
  BY DEF TypeOK, Remote
<1>2. /\ kb'[b].src = src0
      /\ kb'[b].keys \in {{}, DoKeys(Jwks[src0][srv_ver[src0]])}
  BY <1>1, RemoteReloadProps
<1>3. srv_ver[src0] \in Versions /\ Jwks[src0][srv_ver[src0]] \in Seq(Entry)
  BY <1>1 DEF TypeOK
<1>4. k \in Entries(Jwks[src0][srv_ver[src0]])
  BY <1>2, <1>3, DoKeysType
<1>5. srv_ver[src0] \in 1..srv_ver[src0] /\ Remote(kb'[b])
  BY <1>1, <1>2, <1>3 DEF Versions, Remote
<1>. QED  BY <1>2, <1>4, <1>5 DEF FreshSince

(* The keys a call has collected stay fresh through every jar step.       *)
LEMMA CollectStep ==
    ASSUME JarInv, [JarNext]_allVars
    PROVE  CollectedFresh'
<1>0. /\ TypeOK /\ CallOK /\ CollectedFresh /\ \A b \in Bundles : BundleFresh(b)
      /\ t0 \in Nat /\ t0 <= now /\ lst \in Seq(used) /\ idx \in Nat
      /\ used \subseteq Bundles
  BY JarInvParts DEF CallOK
<1>. SUFFICES ASSUME Scanning', NEW k \in res' PROVE FreshSince(k, t0)'
  BY DEF CollectedFresh
<1>1. CASE Construct
  BY <1>1 DEF Construct, Idle, callVars, Scanning
<1>2. CASE \/ \E i \in Issuers, u \in UseArgs : StartGet(i, u)
          \/ \E part \in Issuers, u \in {"sig", "enc"} : StartX(part, u)
  BY <1>2 DEF StartGet, StartX
<1>3. CASE \/ GetDone \/ RemoveDone \/ RemoveStep
          \/ \E i \in Issuers, typ \in Kty, key \in Material \cup {NoSource} :
                StartRemove(i, typ, key)
  BY <1>3 DEF GetDone, RemoveDone, RemoveStep, StartRemove, EndCall, Scanning
(* Steps that leave the collected keys, t0 and the state FreshSince reads. *)
<1>4. ASSUME k \in res, t0' = t0, used' = used, Scanning,
             srv_ver' = srv_ver, pub_at' = pub_at,
             \A b \in used : /\ kb'[b].src = kb[b].src
                             /\ ~Remote(kb[b]) => kb'[b].keys = kb[b].keys
      PROVE  FreshSince(k, t0)'
  <2>1. FreshSince(k, t0)
    BY <1>0, <1>4 DEF CollectedFresh
  <2>. QED  BY <1>4, <2>1, FreshSinceKept
<1>5. CASE JarTick
  <2>1. k \in res /\ Scanning
    BY <1>5 DEF JarTick, callVars, Scanning
  <2>. QED  BY <1>4, <1>5, <2>1 DEF JarTick, Tick, callVars
<1>6. ASSUME NEW u \in Urls, JarRotate(u) PROVE FreshSince(k, t0)'
  <2>1. k \in res /\ Scanning /\ t0' = t0 /\ used' = used
    BY <1>6 DEF JarRotate, callVars, Scanning
  <2>2. FreshSince(k, t0)
    BY <1>0, <2>1 DEF CollectedFresh
  <2>. QED  BY <1>0, <1>6, <2>1, <2>2, FreshSinceRotate DEF JarRotate
<1>7. CASE ReadBundle
  <2>0. idx < Len(lst) /\ ~Stale(kb[lst[idx + 1]])
    BY <1>7, Zenon DEF ReadBundle
  <2>1. lst[idx + 1] \in used
    BY <1>0, <2>0
  <2>2. /\ res' = res \cup Pick(kb[lst[idx + 1]].keys, use)
        /\ UNCHANGED <<kb, used, srv_ver, pub_at, t0, pc>>
    BY <1>7 DEF ReadBundle
  <2>3. CASE k \in res
    BY <1>4, <1>7, <2>2, <2>3 DEF ReadBundle
  <2>4. CASE k \in Pick(kb[lst[idx + 1]].keys, use)
    <3>1. k \in kb[lst[idx + 1]].keys
      BY <2>4 DEF Pick
    <3>2. FreshSince(k, t0)
      BY <1>0, <2>0, <2>1, <3>1, ReadFresh
    <3>. QED  BY <2>2, <3>2 DEF FreshSince, Remote
  <2>. QED  BY <2>2, <2>3, <2>4
<1>8. ASSUME NEW r \in Responses, NEW h \in BOOLEAN, FetchBundle(r, h)
      PROVE  FreshSince(k, t0)'
  <2>0. idx < Len(lst) /\ Stale(kb[lst[idx + 1]])
    BY <1>8, Zenon DEF FetchBundle
  <2>1. lst[idx + 1] \in used /\ Remote(kb[lst[idx + 1]])
    BY <1>0, <2>0 DEF Stale
  <2>2. kb' = [kb EXCEPT ![lst[idx + 1]] = RemoteReload(kb[lst[idx + 1]], r, h)]
    BY <1>8 DEF FetchBundle
  <2>3. UNCHANGED <<srv_ver, pub_at, used>>
    BY <1>8 DEF FetchBundle
  <2>4. CASE RemoteRaises(kb[lst[idx + 1]], r)
    <3>1. EndCall
      BY <1>8, <2>4 DEF FetchBundle
    <3>. QED  BY <3>1 DEF EndCall, Scanning
  <2>5. CASE ~RemoteRaises(kb[lst[idx + 1]], r)
    <3>1. /\ res' = res \cup Pick(RemoteReload(kb[lst[idx + 1]], r, h).keys, use)
          /\ UNCHANGED <<pc, t0>>
      BY <1>8, <2>5 DEF FetchBundle
    <3>2. kb'[lst[idx + 1]] = RemoteReload(kb[lst[idx + 1]], r, h)
      BY <1>0, <2>1, <2>2 DEF TypeOK
    <3>3. CASE k \in res
      <4>1. ASSUME NEW b \in used
            PROVE  /\ kb'[b].src = kb[b].src
                   /\ ~Remote(kb[b]) => kb'[b].keys = kb[b].keys
        <5>1. CASE b = lst[idx + 1]
          <6>1. kb[b] \in BundleRec
            BY <1>0, <5>1 DEF TypeOK
          <6>2. RemoteReload(kb[b], r, h).src = kb[b].src
            BY <1>0, <2>1, <5>1, <6>1, RemoteReloadProps
          <6>3. Remote(kb[b])
            BY <2>1, <5>1
          <6>. QED  BY <3>2, <5>1, <6>2, <6>3
        <5>2. CASE b # lst[idx + 1]
          BY <2>2, <5>2
        <5>. QED  BY <5>1, <5>2
      <4>2. Scanning /\ t0' = t0
        BY <3>1 DEF Scanning
      <4>. QED  BY <1>4, <2>3, <3>3, <4>1, <4>2
    <3>4. CASE k \in Pick(RemoteReload(kb[lst[idx + 1]], r, h).keys, use)
      <4>1. k \in kb'[lst[idx + 1]].keys
        BY <3>2, <3>4 DEF Pick
      <4>2. \A t : FreshSince(k, t)'
        BY <1>0, <2>1, <2>3, <3>2, <4>1, FetchFresh, Zenon
      <4>. QED  BY <3>1, <4>2
    <3>. QED  BY <3>1, <3>3, <3>4
  <2>. QED  BY <2>4, <2>5
<1>9. CASE FirstDone
  <2>1. CASE Self \in DOMAIN ik
    <3>1. UNCHANGED <<res, t0, kb, used, srv_ver, pub_at>> /\ pc = "x1"
      BY <1>9, <2>1 DEF FirstDone
    <3>2. k \in res /\ Scanning
      BY <3>1 DEF Scanning
    <3>. QED  BY <1>4, <3>1, <3>2
  <2>2. CASE Self \notin DOMAIN ik
    BY <1>9, <2>2 DEF FirstDone, EndCall, Scanning
  <2>. QED  BY <2>1, <2>2
<1>10. CASE UNCHANGED allVars
  BY <1>4, <1>10 DEF allVars, Scanning
<1>. QED  BY <1>1, <1>2, <1>3, <1>5, <1>6, <1>7, <1>8, <1>9, <1>10, <1>0, Classify DEF JarInv

-----------------------------------------------------------------------------
LEMMA JarInitInv == JarInit => JarInv
<1>. SUFFICES ASSUME JarInit PROVE JarInv
  OBVIOUS
<1>1. Unused \in BundleRec /\ ~Remote(Unused)
  BY NewBundleType DEF Unused, Sources, NewBundle, Remote
<1>2. TypeOK /\ \A b \in Bundles : BundleFresh(b)
  BY <1>1 DEF JarInit, TypeOK, Versions, BundleFresh
<1>3. CallOK
  BY DEF JarInit, CallOK, IssuerMap, Pcs, Uses, Kty
<1>4. CollectedFresh
  BY DEF JarInit, CollectedFresh, Scanning
<1>. QED  BY <1>2, <1>3, <1>4, JarInvParts

LEMMA JarNextInv == JarInv /\ [JarNext]_allVars => JarInv'
<1>. SUFFICES ASSUME JarInv, [JarNext]_allVars PROVE JarInv'
  OBVIOUS
<1>1. TypeOK' /\ (\A b \in Bundles : BundleFresh(b))'
  BY BundleStep
<1>2. CallOK'
  BY CallStep
<1>3. CollectedFresh'
  BY CollectStep
<1>. QED  BY <1>1, <1>2, <1>3 DEF JarInv, JarTypeOK, CallOK, IssuerMap

(* The inductive invariant holds in every reachable state of the jar.     *)
THEOREM JarInvariant == JarSpec => []JarInv
  BY JarInitInv, JarNextInv, PTL DEF JarSpec

(* Every reachable state of the jar is well typed: issuer_keys maps       *)
(* issuers to lists of constructed bundles, and the call in progress       *)
(* (get(), x_keys() or remove_key()) holds a list of those bundles, keys  *)
(* and arguments of the right kinds.                                       *)
THEOREM JarTypeCorrect == JarSpec => []JarTypeOK
  BY JarInvariant, PTL DEF JarInv

(* What get() and x_keys() return is fresh, for every jar, every number   *)
(* of bundles, issuers and endpoint versions and every cache_time: each   *)
(* key the call in progress has collected, through whichever refetches,   *)
(* clock ticks and endpoint rotations happened between its per-bundle     *)
(* _uptodate() calls, is held by a local bundle of the jar or was served   *)
(* by the endpoint of a remote one at most cache_time before the call      *)
(* began.                                                                   *)
THEOREM CollectedFreshTheorem == JarSpec => []CollectedFresh
  BY JarInvariant, PTL DEF JarInv

====
