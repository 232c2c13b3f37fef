--------------------------- MODULE KeyBundleProofs ---------------------------
(***************************************************************************)
(* Proofs about the KeyBundle cache for every value of the constants:      *)
(* type correctness, and bounded staleness of what a read serves without  *)
(* refetching, through the inductive invariant FreshnessInv.              *)
(***************************************************************************)
EXTENDS KeyBundle, TLAPS

USE ConstantsAssumption

(* do_keys yields decoded Keys, each taken from the key set it read.       *)
LEMMA DoKeysType ==
    ASSUME NEW es \in Seq(Entry)
    PROVE  /\ DoKeys(es) \subseteq Key
           /\ DoKeys(es) \subseteq Entries(es)
<1>1. ASSUME NEW n \in DecodedPrefix(es) PROVE es[n] \in Key
  <2>1. n \in 1..Len(es) /\ es[n].kty \in Kty
    BY DEF DecodedPrefix
  <2>2. es[n] \in Entry
    BY <2>1
  <2>. QED  BY <2>1, <2>2 DEF Entry, Key
<1>2. DoKeys(es) \subseteq Entries(es)
  BY DEF DoKeys, DecodedPrefix, Entries
<1>. QED  BY <1>1, <1>2 DEF DoKeys

(* What update() makes of a remote bundle: its source stays, its time_out *)
(* either stays or becomes now + cache_time, and its keys are either gone *)
(* or what do_keys decoded from the key set the endpoint serves now.      *)
LEMMA RemoteReloadProps ==
    ASSUME TypeOK, NEW bs \in BundleRec, Remote(bs),
           NEW r \in Responses, NEW hdr \in BOOLEAN
    PROVE  /\ RemoteReload(bs, r, hdr) \in BundleRec
           /\ RemoteReload(bs, r, hdr).src = bs.src
           /\ RemoteReload(bs, r, hdr).timeout \in {bs.timeout, now + CacheTime}
           /\ RemoteReload(bs, r, hdr).keys \in {{}, DoKeys(Jwks[bs.src][srv_ver[bs.src]])}
<1>. DEFINE v == srv_ver[bs.src]
            es == Jwks[bs.src][v]
<1>1. v \in Versions /\ es \in Seq(Entry)
  BY DEF TypeOK, Remote
<1>2. DoKeys(es) \subseteq Key
  BY <1>1, DoKeysType
<1>3. now + CacheTime \in 0..(MaxTime + CacheTime)
  BY DEF TypeOK
<1>4. CASE r = "304"  BY <1>3, <1>4 DEF RemoteReload, BundleRec
<1>5. CASE r = "200"
  <2>. DEFINE tag == IF hdr /\ ~DoKeysRaises(es) THEN v ELSE bs.etag
  <2>1. RemoteReload(bs, r, hdr) =
          [bs EXCEPT !.keys = DoKeys(es), !.timeout = now + CacheTime, !.etag = tag]
    BY <1>5 DEF RemoteReload
  <2>2. tag \in 0..MaxVersion
    BY <1>1 DEF BundleRec, Versions
  <2>. QED  BY <1>2, <1>3, <2>1, <2>2 DEF BundleRec
<1>6. CASE r \in {"5xx", "exception"}  BY <1>6 DEF RemoteReload, BundleRec
<1>. QED  BY <1>4, <1>5, <1>6 DEF Responses

(* A forced reload keeps a bundle's type and source.                       *)
LEMMA ReloadType ==
    ASSUME TypeOK, NEW bs \in BundleRec,
           NEW r \in Responses, NEW hdr \in BOOLEAN
    PROVE  /\ Reload(bs, r, hdr) \in BundleRec
           /\ Reload(bs, r, hdr).src = bs.src
<1>1. CASE Remote(bs)
  <2>1. Reload(bs, r, hdr) = RemoteReload(bs, r, hdr)
    BY <1>1 DEF Reload, Remote
  <2>. QED  BY <1>1, <2>1, RemoteReloadProps
<1>2. CASE ~Remote(bs) /\ bs.src \in Files
  <2>1. DoKeys(FileJwks[bs.src]) \subseteq Key
    BY <1>2, DoKeysType
  <2>. QED  BY <1>2, <2>1 DEF Reload, BundleRec
<1>3. CASE ~Remote(bs) /\ bs.src \notin Files
  BY <1>3 DEF Reload
<1>. QED  BY <1>1, <1>2, <1>3

LEMMA RemoveKeysType ==
    ASSUME NEW bs \in BundleRec, NEW typ, NEW val
    PROVE  /\ RemoveKeys(bs, typ, val) \in BundleRec
           /\ RemoveKeys(bs, typ, val).src = bs.src
           /\ RemoveKeys(bs, typ, val).timeout = bs.timeout
           /\ RemoveKeys(bs, typ, val).keys \subseteq bs.keys
  BY DEF RemoveKeys, BundleRec

-----------------------------------------------------------------------------
(* Type correctness of every reachable state.                             *)
LEMMA InitTypeOK == Init => TypeOK
<1>. SUFFICES ASSUME Init PROVE TypeOK
  OBVIOUS
<1>1. ASSUME NEW b \in Bundles PROVE NewBundle(Source[b]) \in BundleRec
  <2>1. CASE Source[b] \in Files
    <3>1. DoKeys(FileJwks[Source[b]]) \subseteq Key
      BY <2>1, DoKeysType
    <3>. QED  BY <2>1, <3>1 DEF NewBundle, BundleRec, Sources
  <2>2. CASE Source[b] \notin Files
    BY <2>2 DEF NewBundle, BundleRec, Sources
  <2>. QED  BY <2>1, <2>2
<1>. QED  BY <1>1 DEF Init, TypeOK, Versions

LEMMA NextTypeOK == TypeOK /\ [Next]_vars => TypeOK'
<1>. SUFFICES ASSUME TypeOK, [Next]_vars PROVE TypeOK'
  OBVIOUS
<1>1. CASE Tick
  BY <1>1 DEF Tick, TypeOK
<1>2. ASSUME NEW u \in Urls, Rotate(u) PROVE TypeOK'
  BY <1>2 DEF Rotate, TypeOK, Versions
<1>3. ASSUME NEW b \in Bundles, Get(b) PROVE TypeOK'
  <2>1. PICK r \in Responses, hdr \in BOOLEAN :
              kb' = [kb EXCEPT ![b] = RemoteReload(@, r, hdr)]
    BY <1>3 DEF Get
  <2>2. RemoteReload(kb[b], r, hdr) \in BundleRec
    BY <1>3, RemoteReloadProps DEF Get, Stale, TypeOK
  <2>. QED  BY <1>3, <2>1, <2>2 DEF Get, TypeOK
<1>4. ASSUME NEW b \in Bundles, Update(b) PROVE TypeOK'
  <2>1. PICK r \in Responses, hdr \in BOOLEAN :
              kb' = [kb EXCEPT ![b] = Reload(@, r, hdr)]
    BY <1>4 DEF Update
  <2>2. Reload(kb[b], r, hdr) \in BundleRec
    BY ReloadType DEF TypeOK
  <2>. QED  BY <1>4, <2>1, <2>2 DEF Update, TypeOK
<1>5. ASSUME NEW b \in Bundles, NEW typ \in Kty, NEW val \in Material \cup {NoSource},
             Remove(b, typ, val)
      PROVE  TypeOK'
  <2>1. RemoveKeys(kb[b], typ, val) \in BundleRec
    BY RemoveKeysType DEF TypeOK
  <2>. QED  BY <1>5, <2>1 DEF Remove, TypeOK
<1>6. CASE UNCHANGED vars
  BY <1>6 DEF vars, TypeOK
<1>. QED  BY <1>1, <1>2, <1>3, <1>4, <1>5, <1>6 DEF Next

(* Every reachable state is well typed.                                     *)
THEOREM TypeCorrect == Spec => []TypeOK
  BY InitTypeOK, NextTypeOK, PTL DEF Spec

-----------------------------------------------------------------------------
(* FreshnessInv for one bundle.                                            *)
BundleFresh(b) ==
    Remote(kb[b]) =>
       /\ kb[b].timeout <= now + CacheTime
       /\ \A k \in kb[b].keys :
             \E v \in 1..srv_ver[kb[b].src] :
                /\ k \in Entries(Jwks[kb[b].src][v])
                /\ \/ v = srv_ver[kb[b].src]
                   \/ kb[b].timeout <= pub_at[kb[b].src][v + 1] + CacheTime

LEMMA FreshnessInvDef == FreshnessInv <=> TypeOK /\ \A b \in Bundles : BundleFresh(b)
  BY DEF FreshnessInv, BundleFresh

LEMMA InitFreshness == Init => FreshnessInv
<1>. SUFFICES ASSUME Init PROVE \A b \in Bundles : BundleFresh(b)
  BY InitTypeOK, FreshnessInvDef
<1>. TAKE b \in Bundles
<1>1. kb[b] = NewBundle(Source[b])
  BY DEF Init
<1>2. Remote(kb[b]) => kb[b].keys = {} /\ kb[b].timeout = 0
  BY <1>1 DEF NewBundle, Remote
<1>. QED  BY <1>2 DEF BundleFresh, Init

(* A bundle the step leaves alone stays fresh when the clock and the      *)
(* endpoints are left alone too.                                           *)
LEMMA UntouchedFresh ==
    ASSUME NEW b \in Bundles, BundleFresh(b),
           kb'[b] = kb[b], now' = now, srv_ver' = srv_ver, pub_at' = pub_at
    PROVE  BundleFresh(b)'
  BY DEF BundleFresh, Remote

(* A bundle after update(): its keys are gone or were just decoded from    *)
(* the version its endpoint serves, and its time_out stays or is now + T. *)
LEMMA ReloadedFresh ==
    ASSUME TypeOK, NEW b \in Bundles, BundleFresh(b),
           NEW r \in Responses, NEW hdr \in BOOLEAN,
           now' = now, srv_ver' = srv_ver, pub_at' = pub_at,
           kb'[b] = Reload(kb[b], r, hdr)
    PROVE  BundleFresh(b)'
<1>. SUFFICES ASSUME Remote(kb'[b]) PROVE BundleFresh(b)'
  BY DEF BundleFresh
<1>. DEFINE u == kb[b].src
            es == Jwks[u][srv_ver[u]]
<1>1. kb[b] \in BundleRec /\ Remote(kb[b])
  BY ReloadType DEF TypeOK, Remote
<1>2. kb'[b] = RemoteReload(kb[b], r, hdr)
  BY <1>1 DEF Reload, Remote
<1>3. /\ RemoteReload(kb[b], r, hdr).src = kb[b].src
      /\ RemoteReload(kb[b], r, hdr).timeout \in {kb[b].timeout, now + CacheTime}
      /\ RemoteReload(kb[b], r, hdr).keys \in {{}, DoKeys(Jwks[kb[b].src][srv_ver[kb[b].src]])}
  BY <1>1, RemoteReloadProps
<1>4. kb'[b].timeout <= now + CacheTime
  <2>1. kb[b].timeout <= now + CacheTime
    BY <1>1 DEF BundleFresh
  <2>2. now \in Nat /\ kb[b].timeout \in Nat
    BY <1>1 DEF TypeOK, BundleRec
  <2>. QED  BY <1>2, <1>3, <2>1, <2>2
<1>5. u \in Urls
  BY <1>1 DEF Remote
<1>6. srv_ver[u] \in Versions
  BY <1>5 DEF TypeOK
<1>7. es \in Seq(Entry)
  BY <1>5, <1>6
<1>8. DoKeys(es) \subseteq Entries(es)
  BY <1>7, DoKeysType
<1>9. srv_ver[u] \in 1..srv_ver[u]
  BY <1>6 DEF Versions
<1>. QED  BY <1>2, <1>3, <1>4, <1>8, <1>9 DEF BundleFresh

LEMMA NextFreshness == FreshnessInv /\ [Next]_vars => FreshnessInv'
<1>. SUFFICES ASSUME TypeOK, \A b \in Bundles : BundleFresh(b), [Next]_vars
              PROVE  \A b \in Bundles : BundleFresh(b)'
  <2>. SUFFICES ASSUME FreshnessInv, [Next]_vars,
                       (\A b \in Bundles : BundleFresh(b))'
                PROVE  FreshnessInv'
    BY DEF FreshnessInv, BundleFresh
  <2>1. TypeOK'
    BY NextTypeOK DEF FreshnessInv
  <2>. QED  BY <2>1 DEF FreshnessInv, BundleFresh
<1>1. CASE Tick
  <2>. TAKE b \in Bundles
  <2>1. now \in Nat /\ kb[b].timeout \in Nat
    BY DEF TypeOK, BundleRec
  <2>2. kb' = kb /\ now' = now + 1 /\ srv_ver' = srv_ver /\ pub_at' = pub_at
    BY <1>1 DEF Tick
  <2>. QED  BY <2>1, <2>2 DEF BundleFresh, Remote
<1>2. ASSUME NEW u \in Urls, Rotate(u) PROVE \A b \in Bundles : BundleFresh(b)'
  <2>. TAKE b \in Bundles
  <2>. SUFFICES ASSUME Remote(kb[b]) PROVE BundleFresh(b)'
    BY <1>2 DEF Rotate, BundleFresh
  <2>1. CASE kb[b].src # u
    BY <1>2, <2>1 DEF Rotate, BundleFresh, TypeOK
  <2>2. CASE kb[b].src = u
    <3>. DEFINE w == srv_ver[u]
    <3>1. w \in Versions /\ w < MaxVersion
      BY <1>2 DEF Rotate, TypeOK
    <3>2. srv_ver'[u] = w + 1 /\ pub_at'[u][w + 1] = now
      BY <1>2, <3>1 DEF Rotate, TypeOK, Versions
    <3>3. \A v \in 1..(w - 1) : pub_at'[u][v + 1] = pub_at[u][v + 1]
      BY <1>2, <3>1 DEF Rotate, TypeOK, Versions
    <3>4. kb' = kb /\ now' = now
      BY <1>2 DEF Rotate
    <3>5. kb[b].timeout <= now + CacheTime
      BY DEF BundleFresh
    <3>6. ASSUME NEW k \in kb[b].keys
          PROVE  \E v \in 1..srv_ver'[u] :
                    /\ k \in Entries(Jwks[u][v])
                    /\ \/ v = srv_ver'[u]
                       \/ kb[b].timeout <= pub_at'[u][v + 1] + CacheTime
      <4>1. PICK v \in 1..w :
                 /\ k \in Entries(Jwks[u][v])
                 /\ \/ v = w
                    \/ kb[b].timeout <= pub_at[u][v + 1] + CacheTime
        BY <2>2 DEF BundleFresh
      <4>2. CASE v = w
        <5>1. w \in 1..srv_ver'[u]
          BY <3>1, <3>2 DEF Versions
        <5>2. kb[b].timeout <= pub_at'[u][w + 1] + CacheTime
          BY <3>2, <3>5
        <5>. QED  BY <4>1, <4>2, <5>1, <5>2
      <4>3. CASE v # w
        <5>1. v \in 1..(w - 1) /\ v \in 1..srv_ver'[u]
          BY <3>1, <3>2, <4>3 DEF Versions
        <5>2. kb[b].timeout <= pub_at'[u][v + 1] + CacheTime
          BY <3>3, <4>1, <4>3, <5>1
        <5>. QED  BY <4>1, <5>1, <5>2
      <4>. QED  BY <4>2, <4>3
    <3>. QED  BY <2>2, <3>4, <3>5, <3>6 DEF BundleFresh
  <2>. QED  BY <2>1, <2>2
<1>3. ASSUME NEW b0 \in Bundles, Get(b0) PROVE \A b \in Bundles : BundleFresh(b)'
  <2>1. PICK r \in Responses, hdr \in BOOLEAN :
              kb' = [kb EXCEPT ![b0] = RemoteReload(@, r, hdr)]
    BY <1>3 DEF Get
  <2>2. kb'[b0] = Reload(kb[b0], r, hdr)
    <3>1. Remote(kb[b0])
      BY <1>3 DEF Get, Stale
    <3>2. Reload(kb[b0], r, hdr) = RemoteReload(kb[b0], r, hdr)
      BY <3>1 DEF Reload, Remote
    <3>3. kb'[b0] = RemoteReload(kb[b0], r, hdr)
      BY <2>1 DEF TypeOK
    <3>. QED  BY <3>2, <3>3
  <2>. TAKE b \in Bundles
  <2>3. CASE b = b0
    BY <1>3, <2>2, <2>3, ReloadedFresh DEF Get
  <2>4. CASE b # b0
    BY <1>3, <2>1, <2>4, UntouchedFresh DEF Get, TypeOK
  <2>. QED  BY <2>3, <2>4
<1>4. ASSUME NEW b0 \in Bundles, Update(b0) PROVE \A b \in Bundles : BundleFresh(b)'
  <2>1. PICK r \in Responses, hdr \in BOOLEAN :
              kb' = [kb EXCEPT ![b0] = Reload(@, r, hdr)]
    BY <1>4 DEF Update
  <2>. TAKE b \in Bundles
  <2>3. CASE b = b0
    BY <1>4, <2>1, <2>3, ReloadedFresh DEF Update, TypeOK
  <2>4. CASE b # b0
    BY <1>4, <2>1, <2>4, UntouchedFresh DEF Update, TypeOK
  <2>. QED  BY <2>3, <2>4
<1>5. ASSUME NEW b0 \in Bundles, NEW typ \in Kty, NEW val \in Material \cup {NoSource},
             Remove(b0, typ, val)
      PROVE  \A b \in Bundles : BundleFresh(b)'
  <2>. TAKE b \in Bundles
  <2>3. CASE b = b0
    <3>1. /\ kb'[b].src = kb[b].src
          /\ kb'[b].timeout = kb[b].timeout
          /\ kb'[b].keys \subseteq kb[b].keys
      BY <1>5, <2>3, RemoveKeysType DEF Remove, TypeOK
    <3>. QED  BY <1>5, <3>1 DEF Remove, BundleFresh, Remote
  <2>4. CASE b # b0
    BY <1>5, <2>4, UntouchedFresh DEF Remove, TypeOK
  <2>. QED  BY <2>3, <2>4
<1>6. CASE UNCHANGED vars
  <2>. TAKE b \in Bundles
  <2>. QED  BY <1>6, UntouchedFresh DEF vars
<1>. QED  BY <1>1, <1>2, <1>3, <1>4, <1>5, <1>6 DEF Next

(* The inductive invariant holds in every reachable state: every remote  *)
(* bundle's time_out is at most cache_time ahead of the clock, and every  *)
(* key update() left in it was served by its endpoint no earlier than     *)
(* cache_time before that time_out.                                        *)
THEOREM FreshnessInvariant == Spec => []FreshnessInv
  BY InitFreshness, NextFreshness, PTL DEF Spec

(* Bounded staleness: in every reachable state, the keys a read of a      *)
(* remote bundle returns without refetching (_uptodate sees time_out not   *)
(* passed) were published by its endpoint and served by it no more than    *)
(* cache_time ago.                                                         *)
THEOREM ServedKeysFreshTheorem == Spec => []ServedKeysFresh
<1>1. FreshnessInv => ServedKeysFresh
  <2>. SUFFICES ASSUME FreshnessInv, NEW b \in Bundles, Remote(kb[b]), ~Stale(kb[b]),
                       NEW k \in kb[b].keys
                PROVE  \E v \in 1..srv_ver[kb[b].src] :
                          k \in Entries(Jwks[kb[b].src][v]) /\ Recent(kb[b].src, v)
    BY DEF ServedKeysFresh
  <2>1. now <= kb[b].timeout
    BY DEF Stale, FreshnessInv, TypeOK, BundleRec
  <2>2. PICK v \in 1..srv_ver[kb[b].src] :
             /\ k \in Entries(Jwks[kb[b].src][v])
             /\ \/ v = srv_ver[kb[b].src]
                \/ kb[b].timeout <= pub_at[kb[b].src][v + 1] + CacheTime
    BY DEF FreshnessInv
  <2>3. Recent(kb[b].src, v)
    <3>1. pub_at[kb[b].src][v + 1] \in Nat \/ v = srv_ver[kb[b].src]
      <4>1. kb[b].src \in Urls
        BY DEF Remote
      <4>2. srv_ver[kb[b].src] \in Versions
           /\ pub_at[kb[b].src] \in [Versions -> 0..MaxTime]
        BY <4>1 DEF FreshnessInv, TypeOK
      <4>3. v = srv_ver[kb[b].src] \/ v + 1 \in Versions
        BY <4>2 DEF Versions
      <4>. QED  BY <4>2, <4>3
    <3>. QED  BY <2>1, <2>2, <3>1 DEF Recent, FreshnessInv, TypeOK, BundleRec
  <2>. QED  BY <2>2, <2>3
<1>. QED  BY <1>1, FreshnessInvariant, PTL

-----------------------------------------------------------------------------
(* CacheHoldsOneVersion for one bundle.                                    *)
OneVersion(b) ==
    Remote(kb[b]) =>
       \E v \in 1..srv_ver[kb[b].src] : kb[b].keys \subseteq Entries(Jwks[kb[b].src][v])

LEMMA OneVersionDef == CacheHoldsOneVersion <=> \A b \in Bundles : OneVersion(b)
  BY DEF CacheHoldsOneVersion, OneVersion

(* A reloaded remote bundle holds nothing, or one decoded key set of the   *)
(* version its endpoint serves.                                            *)
LEMMA ReloadedOneVersion ==
    ASSUME TypeOK, NEW b \in Bundles,
           NEW r \in Responses, NEW hdr \in BOOLEAN,
           srv_ver' = srv_ver, kb'[b] = Reload(kb[b], r, hdr)
    PROVE  OneVersion(b)'
<1>. SUFFICES ASSUME Remote(kb'[b]) PROVE OneVersion(b)'
  BY DEF OneVersion
<1>. DEFINE u == kb[b].src
<1>1. kb[b] \in BundleRec /\ Remote(kb[b])
  BY ReloadType DEF TypeOK, Remote
<1>2. kb'[b] = RemoteReload(kb[b], r, hdr)
  BY <1>1 DEF Reload, Remote
<1>3. /\ RemoteReload(kb[b], r, hdr).src = u
      /\ RemoteReload(kb[b], r, hdr).keys \in {{}, DoKeys(Jwks[u][srv_ver[u]])}
  BY <1>1, RemoteReloadProps
<1>4. u \in Urls /\ srv_ver[u] \in Versions
  BY <1>1 DEF Remote, TypeOK
<1>5. DoKeys(Jwks[u][srv_ver[u]]) \subseteq Entries(Jwks[u][srv_ver[u]])
  BY <1>4, DoKeysType
<1>6. srv_ver[u] \in 1..srv_ver[u]
  BY <1>4 DEF Versions
<1>. QED  BY <1>2, <1>3, <1>5, <1>6 DEF OneVersion

LEMMA InitOneVersion == Init => CacheHoldsOneVersion
<1>. SUFFICES ASSUME Init PROVE \A b \in Bundles : OneVersion(b)
  BY OneVersionDef
<1>. TAKE b \in Bundles
<1>1. Remote(kb[b]) => kb[b].keys = {} /\ srv_ver[kb[b].src] = 1
  BY DEF Init, NewBundle, Remote
<1>. QED  BY <1>1 DEF OneVersion

LEMMA NextOneVersion ==
    TypeOK /\ CacheHoldsOneVersion /\ [Next]_vars => CacheHoldsOneVersion'
<1>. SUFFICES ASSUME TypeOK, \A b \in Bundles : OneVersion(b), [Next]_vars
              PROVE  \A b \in Bundles : OneVersion(b)'
  BY DEF CacheHoldsOneVersion, OneVersion
<1>. TAKE c \in Bundles
<1>1. CASE Tick \/ UNCHANGED vars
  BY <1>1 DEF Tick, vars, OneVersion, Remote
<1>2. ASSUME NEW u \in Urls, Rotate(u) PROVE OneVersion(c)'
  <2>1. kb' = kb /\ srv_ver' = [srv_ver EXCEPT ![u] = @ + 1]
    BY <1>2 DEF Rotate
  <2>2. SUFFICES ASSUME Remote(kb[c])
                 PROVE  \E v \in 1..srv_ver'[kb[c].src] :
                           kb[c].keys \subseteq Entries(Jwks[kb[c].src][v])
    BY <2>1 DEF OneVersion, Remote
  <2>3. PICK v \in 1..srv_ver[kb[c].src] : kb[c].keys \subseteq Entries(Jwks[kb[c].src][v])
    BY <2>2 DEF OneVersion
  <2>4. kb[c].src \in Urls /\ srv_ver[kb[c].src] \in Versions
    BY <2>2 DEF Remote, TypeOK
  <2>5. v \in 1..srv_ver'[kb[c].src]
    BY <2>1, <2>4 DEF Versions
  <2>. QED  BY <2>3, <2>5
<1>3. ASSUME NEW b \in Bundles, Get(b) PROVE OneVersion(c)'
  <2>1. PICK r \in Responses, hdr \in BOOLEAN :
              kb' = [kb EXCEPT ![b] = RemoteReload(@, r, hdr)]
    BY <1>3 DEF Get
  <2>2. CASE c = b
    <3>1. Reload(kb[b], r, hdr) = RemoteReload(kb[b], r, hdr)
      BY <1>3 DEF Get, Stale, Reload, Remote
    <3>. QED  BY <1>3, <2>1, <2>2, <3>1, ReloadedOneVersion DEF Get, TypeOK
  <2>3. CASE c # b
    BY <1>3, <2>1, <2>3 DEF Get, OneVersion, Remote, TypeOK
  <2>. QED  BY <2>2, <2>3
<1>4. ASSUME NEW b \in Bundles, Update(b) PROVE OneVersion(c)'
  <2>1. PICK r \in Responses, hdr \in BOOLEAN :
              kb' = [kb EXCEPT ![b] = Reload(@, r, hdr)]
    BY <1>4 DEF Update
  <2>2. CASE c = b
    BY <1>4, <2>1, <2>2, ReloadedOneVersion DEF Update, TypeOK
  <2>3. CASE c # b
    BY <1>4, <2>1, <2>3 DEF Update, OneVersion, Remote, TypeOK
  <2>. QED  BY <2>2, <2>3
<1>5. ASSUME NEW b \in Bundles, NEW typ \in Kty, NEW val \in Material \cup {NoSource},
             Remove(b, typ, val)
      PROVE  OneVersion(c)'
  <2>1. /\ RemoveKeys(kb[b], typ, val).src = kb[b].src
        /\ RemoveKeys(kb[b], typ, val).keys \subseteq kb[b].keys
    BY RemoveKeysType DEF TypeOK
  <2>2. kb'[c] = IF c = b THEN RemoveKeys(kb[b], typ, val) ELSE kb[c]
    BY <1>5 DEF Remove, TypeOK
  <2>. QED  BY <1>5, <2>1, <2>2 DEF Remove, OneVersion, Remote
<1>. QED  BY <1>1, <1>2, <1>3, <1>4, <1>5 DEF Next

(* A remote bundle never holds keys of two key sets, for every number of   *)
(* bundles, endpoints and versions: update() replaces _keys, never merges. *)
THEOREM OneVersionTheorem == Spec => []CacheHoldsOneVersion
<1>1. Spec => [](TypeOK /\ CacheHoldsOneVersion)
  BY InitTypeOK, InitOneVersion, NextTypeOK, NextOneVersion, PTL DEF Spec
<1>. QED  BY <1>1, PTL

-----------------------------------------------------------------------------
(* Refinement: the bundle implements the abstract cache KeyCache.          *)

(* update() only ever fills a remote bundle together with a full cache    *)
(* period: keys come from a 200, which also sets time_out.                 *)
LEMMA RemoteReloadFills ==
    ASSUME NEW bs \in BundleRec, NEW r \in Responses, NEW hdr
    PROVE  RemoteReload(bs, r, hdr).keys # {} =>
              RemoteReload(bs, r, hdr).timeout = now + CacheTime
<1>1. CASE r = "304"  BY <1>1 DEF RemoteReload, BundleRec
<1>2. CASE r = "200"  BY <1>2 DEF RemoteReload, BundleRec
<1>3. CASE r \in {"5xx", "exception"}  BY <1>3 DEF RemoteReload, BundleRec
<1>. QED  BY <1>1, <1>2, <1>3 DEF Responses

(* A step that replaces bundle b by nb maps to a step replacing the       *)
(* abstract bundle b by nb without its etag.                               *)
LEMMA AbsCacheExcept ==
    ASSUME TypeOK, NEW b \in Bundles, NEW nb, kb' = [kb EXCEPT ![b] = nb]
    PROVE  /\ AbsCache' = [AbsCache EXCEPT ![b] = [keys |-> nb.keys, src |-> nb.src,
                                                   timeout |-> nb.timeout]]
           /\ AbsCache[b] = [keys |-> kb[b].keys, src |-> kb[b].src, timeout |-> kb[b].timeout]
  BY DEF AbsCache, TypeOK

(* A reload of remote bundle b, with the clock and endpoints unchanged, is *)
(* a Fetch of KeyCache.                                                    *)
LEMMA FetchStep ==
    ASSUME TypeOK, NEW b \in Bundles, Remote(kb[b]),
           NEW r \in Responses, NEW hdr \in BOOLEAN,
           kb' = [kb EXCEPT ![b] = RemoteReload(kb[b], r, hdr)],
           now' = now, srv_ver' = srv_ver, pub_at' = pub_at
    PROVE  Cache!Fetch(b)
<1>. DEFINE u  == kb[b].src
            nb == RemoteReload(kb[b], r, hdr)
            ks == nb.keys
            t  == nb.timeout
<1>1. kb[b] \in BundleRec /\ u \in Urls /\ srv_ver[u] \in Versions
  BY DEF TypeOK, Remote
<1>2. /\ nb \in BundleRec
      /\ nb.src = u
      /\ t \in {kb[b].timeout, now + CacheTime}
      /\ ks \in {{}, DoKeys(Jwks[u][srv_ver[u]])}
  BY <1>1, RemoteReloadProps
<1>3. ks # {} => t = now + CacheTime
  BY <1>1, RemoteReloadFills
<1>9. kb' = [kb EXCEPT ![b] = nb]
  OBVIOUS
<1>. HIDE DEF nb
<1>4. AbsCache[b].src = u /\ AbsCache[b].timeout = kb[b].timeout
  BY DEF AbsCache
<1>5. [u2 \in Urls |-> [v \in Versions |-> DoKeys(Jwks[u2][v])]][u][srv_ver[u]]
        = DoKeys(Jwks[u][srv_ver[u]])
  BY <1>1
<1>6. AbsCache' = [AbsCache EXCEPT ![b] = [@ EXCEPT !.keys = ks, !.timeout = t]]
  <2>1. /\ AbsCache' = [AbsCache EXCEPT ![b] = [keys |-> ks, src |-> nb.src, timeout |-> t]]
        /\ AbsCache[b] = [keys |-> kb[b].keys, src |-> u, timeout |-> kb[b].timeout]
    BY <1>9, AbsCacheExcept
  <2>2. [AbsCache[b] EXCEPT !.keys = ks, !.timeout = t] = [keys |-> ks, src |-> u, timeout |-> t]
    <3>0. [AbsCache[b] EXCEPT !.keys = ks]
            = [[keys |-> kb[b].keys, src |-> u, timeout |-> kb[b].timeout] EXCEPT !.keys = ks]
      BY <2>1
    <3>1. [AbsCache[b] EXCEPT !.keys = ks] = [keys |-> ks, src |-> u, timeout |-> kb[b].timeout]
      BY <3>0
    <3>2. [[keys |-> ks, src |-> u, timeout |-> kb[b].timeout] EXCEPT !.timeout = t]
            = [keys |-> ks, src |-> u, timeout |-> t]
      OBVIOUS
    <3>. QED  BY <3>1, <3>2
  <2>3. [keys |-> ks, src |-> nb.src, timeout |-> t] = [keys |-> ks, src |-> u, timeout |-> t]
    BY <1>2
  <2>. QED  BY <2>1, <2>2, <2>3
<1>7. /\ ks \in {{}, [u2 \in Urls |-> [v \in Versions |-> DoKeys(Jwks[u2][v])]][u][srv_ver[u]]}
      /\ t \in {AbsCache[b].timeout, now + CacheTime}
  BY <1>2, <1>4, <1>5
<1>8. \E ks2 \in {{}, [u2 \in Urls |-> [v \in Versions |-> DoKeys(Jwks[u2][v])]][u][srv_ver[u]]},
         t2 \in {AbsCache[b].timeout, now + CacheTime} :
         /\ ks2 # {} => t2 = now + CacheTime
         /\ AbsCache' = [AbsCache EXCEPT ![b] = [@ EXCEPT !.keys = ks2, !.timeout = t2]]
  BY <1>3, <1>6, <1>7, Zenon
<1>. QED  BY <1>1, <1>4, <1>8 DEF Cache!Fetch

LEMMA InitRefines == Init => Cache!Init
<1>. SUFFICES ASSUME Init PROVE Cache!Init
  OBVIOUS
<1>1. \A b \in Bundles :
         AbsCache[b] = [keys |-> IF Source[b] \in Files THEN DoKeys(FileJwks[Source[b]]) ELSE {},
                        src |-> Source[b], timeout |-> 0]
  BY DEF Init, AbsCache, NewBundle
<1>2. AbsCache = [b \in Bundles |->
                   [keys |-> IF Source[b] \in Files
                             THEN [f \in Files |-> DoKeys(FileJwks[f])][Source[b]] ELSE {},
                    src |-> Source[b], timeout |-> 0]]
  BY <1>1 DEF AbsCache
<1>. QED  BY <1>2 DEF Init, Cache!Init, Versions

LEMMA NextRefines == TypeOK /\ [Next]_vars => [Cache!Next]_Cache!cvars
<1>. SUFFICES ASSUME TypeOK, [Next]_vars PROVE [Cache!Next]_Cache!cvars
  OBVIOUS
<1>1. CASE Tick
  BY <1>1 DEF Tick, Cache!Tick, Cache!Next, AbsCache
<1>2. ASSUME NEW u \in Urls, Rotate(u) PROVE [Cache!Next]_Cache!cvars
  BY <1>2 DEF Rotate, Cache!Rotate, Cache!Next, AbsCache
<1>3. ASSUME NEW b \in Bundles, Get(b) PROVE [Cache!Next]_Cache!cvars
  <2>1. PICK r \in Responses, hdr \in BOOLEAN :
              kb' = [kb EXCEPT ![b] = RemoteReload(kb[b], r, hdr)]
    BY <1>3 DEF Get
  <2>2. Cache!Fetch(b)
    BY <1>3, <2>1, FetchStep DEF Get, Stale
  <2>. QED  BY <2>2 DEF Cache!Next
<1>4. ASSUME NEW b \in Bundles, Update(b) PROVE [Cache!Next]_Cache!cvars
  <2>1. PICK r \in Responses, hdr \in BOOLEAN :
              kb' = [kb EXCEPT ![b] = Reload(kb[b], r, hdr)]
    BY <1>4 DEF Update
  <2>2. kb[b] \in BundleRec /\ kb[b].src \in Sources
    BY DEF TypeOK, BundleRec
  <2>3. CASE Remote(kb[b])
    <3>1. Reload(kb[b], r, hdr) = RemoteReload(kb[b], r, hdr)
      BY <2>3 DEF Reload, Remote
    <3>2. Cache!Fetch(b)
      BY <1>4, <2>1, <2>3, <3>1, FetchStep DEF Update
    <3>. QED  BY <3>2 DEF Cache!Next
  <2>4. CASE kb[b].src \in Files
    <3>1. ~Remote(kb[b])
      BY <2>4 DEF Remote
    <3>2. Reload(kb[b], r, hdr) = [kb[b] EXCEPT !.keys = DoKeys(FileJwks[kb[b].src])]
      BY <2>4, <3>1 DEF Reload, Remote
    <3>3. AbsCache' = [AbsCache EXCEPT ![b].keys = DoKeys(FileJwks[kb[b].src])]
      <4>1. /\ AbsCache' = [AbsCache EXCEPT ![b] =
                              [keys |-> DoKeys(FileJwks[kb[b].src]), src |-> kb[b].src,
                               timeout |-> kb[b].timeout]]
            /\ AbsCache[b] = [keys |-> kb[b].keys, src |-> kb[b].src, timeout |-> kb[b].timeout]
        BY <2>1, <2>2, <3>2, AbsCacheExcept DEF BundleRec
      <4>2. [AbsCache[b] EXCEPT !.keys = DoKeys(FileJwks[kb[b].src])]
              = [keys |-> DoKeys(FileJwks[kb[b].src]), src |-> kb[b].src,
                 timeout |-> kb[b].timeout]
        BY <4>1
      <4>. QED  BY <4>1, <4>2
    <3>4. Cache!FileReload(b)
      BY <1>4, <2>4, <3>3 DEF Update, Cache!FileReload, AbsCache
    <3>. QED  BY <3>4 DEF Cache!Next
  <2>. QED  BY <1>4, <2>2, <2>3, <2>4 DEF Update, Sources, Remote
<1>5. ASSUME NEW b \in Bundles, NEW typ \in Kty, NEW val \in Material \cup {NoSource},
             Remove(b, typ, val)
      PROVE  [Cache!Next]_Cache!cvars
  <2>. DEFINE nb == RemoveKeys(kb[b], typ, val)
  <2>1. /\ nb.keys \subseteq kb[b].keys
        /\ nb = [kb[b] EXCEPT !.keys = nb.keys]
    BY DEF RemoveKeys, TypeOK, BundleRec
  <2>2. AbsCache' = [AbsCache EXCEPT ![b].keys = nb.keys]
    <3>1. /\ AbsCache' = [AbsCache EXCEPT ![b] =
                            [keys |-> nb.keys, src |-> kb[b].src, timeout |-> kb[b].timeout]]
          /\ AbsCache[b] = [keys |-> kb[b].keys, src |-> kb[b].src, timeout |-> kb[b].timeout]
      <4>1. kb' = [kb EXCEPT ![b] = nb]
        BY <1>5 DEF Remove
      <4>2. nb.src = kb[b].src /\ nb.timeout = kb[b].timeout
        BY RemoveKeysType DEF TypeOK
      <4>. HIDE DEF nb
      <4>3. AbsCache' = [AbsCache EXCEPT ![b] = [keys |-> nb.keys, src |-> nb.src,
                                                 timeout |-> nb.timeout]]
        BY <4>1, AbsCacheExcept
      <4>4. AbsCache[b] = [keys |-> kb[b].keys, src |-> kb[b].src, timeout |-> kb[b].timeout]
        BY DEF AbsCache
      <4>. QED  BY <4>2, <4>3, <4>4
    <3>2. [AbsCache[b] EXCEPT !.keys = nb.keys]
            = [keys |-> nb.keys, src |-> kb[b].src, timeout |-> kb[b].timeout]
      BY <3>1
    <3>. QED  BY <3>1, <3>2
  <2>3. Cache!Drop(b)
    BY <1>5, <2>1, <2>2 DEF Remove, Cache!Drop, AbsCache
  <2>. QED  BY <2>3 DEF Cache!Next
<1>6. CASE UNCHANGED vars
  BY <1>6 DEF vars, Cache!cvars, AbsCache
<1>. QED  BY <1>1, <1>2, <1>3, <1>4, <1>5, <1>6 DEF Next

(* For every value of the constants, the KeyBundle code implements the   *)
(* abstract cache: its Etag/304 protocol and its error paths only ever    *)
(* replace a bundle's keys wholesale, by nothing or by the current key set.*)
THEOREM Refinement == Spec => ImplementsKeyCache
<1>1. Spec => []TypeOK
  BY TypeCorrect
<1>. QED  BY <1>1, InitRefines, NextRefines, PTL DEF Spec, ImplementsKeyCache, Cache!Spec

=============================================================================
