------------------------------ MODULE KeyBundle ------------------------------
(***************************************************************************)
(* The KeyBundle class of src/oic/utils/keyio.py: the keys loaded from one *)
(* source (an in-memory list, a local JWK file or a remote JWKS URL) and,  *)
(* for a remote source, the cache state time_out and etag that decide when *)
(* a read refetches the key set.  The remote endpoints, which rotate their *)
(* key sets, and the clock are the environment.                            *)
(*                                                                         *)
(* A bundle's _keys list is abstracted to the set of its keys: no property *)
(* of this project tells two orders of one bundle's keys apart, and the    *)
(* only use the code makes of the list's length is len(kc._keys) == 0.     *)
(***************************************************************************)
EXTENDS Naturals, Sequences, FiniteSets

CONSTANTS
    Bundles,     \* identities of KeyBundle objects
    Urls,        \* http:// and https:// sources of remote key sets
    Files,       \* file:// sources holding a JWK set
    NoSource,    \* self.source = None: a bundle built from a list of keys
    Material,    \* opaque key material (the .key attribute of a Key)
    Jwks,        \* Jwks[u][v]: the "keys" array endpoint u serves at version v
    FileJwks,    \* FileJwks[f]: the "keys" array of the local file f
    CacheTime,   \* KeyBundle.cache_time, in clock ticks
    MaxTime,     \* the last instant of the clock the model explores
    MaxVersion,  \* the number of key sets an endpoint publishes
    Source       \* Source[b]: the source the standalone bundle b is built from

(* K2C: the kty values do_keys can construct a Key for.  Any other kty    *)
(* (here "dsa") makes K2C[typ] raise KeyError.                            *)
Kty == {"rsa", "ec", "hmac"}
KtyTag == Kty \cup {"dsa"}
Uses == {"sig", "enc"}
Versions == 1..MaxVersion

(* A key object of a JWK set, and a decoded Key (kty, use, key).           *)
Entry == [kty : KtyTag, use : Uses, key : Material]
Key == [kty : Kty, use : Uses, key : Material]

Sources == Urls \cup Files \cup {NoSource}

(* The fields of a KeyBundle this model keeps: _keys, source, time_out and *)
(* etag (0 stands for the empty etag "").  remote is source \in Urls.     *)
BundleRec == [keys : SUBSET Key, src : Sources,
              timeout : 0..(MaxTime + CacheTime), etag : 0..MaxVersion]

ASSUME ConstantsAssumption ==
    /\ CacheTime \in Nat \ {0}
    /\ MaxTime \in Nat \ {0}
    /\ MaxVersion \in Nat \ {0}
    /\ NoSource \notin Urls \cup Files
    /\ Urls \cap Files = {}
    /\ Jwks \in [Urls -> [Versions -> Seq(Entry)]]
    /\ FileJwks \in [Files -> Seq(Entry)]
    /\ Source \in [Bundles -> Urls \cup Files]

VARIABLES
    now,      \* time.time()
    srv_ver,  \* srv_ver[u]: the version of the key set u currently serves
    pub_at,   \* pub_at[u][v]: the instant version v of u was published
    kb        \* kb[b]: the state of KeyBundle b

vars == <<now, srv_ver, pub_at, kb>>

-----------------------------------------------------------------------------
(* do_keys(keys): for each key object in order, K2C[typ] applied to it and *)
(* append; an unsupported kty raises KeyError after the objects before it  *)
(* were appended.  DecodedPrefix is the set of positions do_keys reaches.  *)
DecodedPrefix(es) == {n \in 1..Len(es) : \A j \in 1..n : es[j].kty \in Kty}

(* Mutation: decoding that keeps every key object, supported or not.     *)
DoKeysUnchecked(es) == {es[n] : n \in 1..Len(es)}

DoKeys(es) == {es[n] : n \in DecodedPrefix(es)}

DoKeysRaises(es) == \E j \in 1..Len(es) : es[j].kty \notin Kty

(* The keys of a JWK set, whichever version they are read from.            *)
Entries(es) == {es[i] : i \in 1..Len(es)}

Remote(bs) == bs.src \in Urls

(* KeyBundle(source=src): a remote bundle starts empty with time_out 0; a  *)
(* file:// bundle reads its file at once (do_local_jwk).                   *)
NewBundle(src) ==
    [keys |-> IF src \in Files THEN DoKeys(FileJwks[src]) ELSE {},
     src |-> src, timeout |-> 0, etag |-> 0]

(* The outcomes of request("GET", source, ...) that do_remote tells apart: *)
(* 200, 304, any other status, and an exception (timeout, connection).     *)
Responses == {"200", "304", "5xx", "exception"}

(* The endpoint answers 304 only to an If-None-Match carrying the etag of  *)
(* the version it serves; an empty etag sends no If-None-Match header.     *)
CanRespond(bs, r) == r = "304" => bs.etag = srv_ver[bs.src]

(* Mutation: update() without self._keys = [], so a 200 merges the new    *)
(* key set into the old one.                                               *)
RemoteReloadMerging(bs, r, hdr) ==
    LET v == srv_ver[bs.src]
        es == Jwks[bs.src][v]
    IN  CASE r = "304" -> [bs EXCEPT !.timeout = now + CacheTime]
          [] r = "200" -> [bs EXCEPT !.keys = @ \cup DoKeys(es),
                                     !.timeout = now + CacheTime,
                                     !.etag = IF hdr /\ ~DoKeysRaises(es)
                                              THEN v ELSE @]
          [] OTHER     -> bs

(* Mutation: an off-by-one in the new time_out of a 200.                  *)
RemoteReloadLongTtl(bs, r, hdr) ==
    LET v == srv_ver[bs.src]
        es == Jwks[bs.src][v]
    IN  CASE r = "304" -> [bs EXCEPT !.keys = {}, !.timeout = now + CacheTime]
          [] r = "200" -> [bs EXCEPT !.keys = DoKeys(es),
                                     !.timeout = now + CacheTime + 1,
                                     !.etag = IF hdr /\ ~DoKeysRaises(es)
                                              THEN v ELSE @]
          [] OTHER     -> [bs EXCEPT !.keys = {}]

(* update() on a remote bundle: self._keys = [] and then do_remote().  A   *)
(* 304 only advances time_out; a 200 advances time_out, decodes the body  *)
(* and, when do_keys did not raise, takes the Etag header if there is one *)
(* (hdr); any other outcome leaves only the cleared list behind.          *)
RemoteReload(bs, r, hdr) ==
    LET v == srv_ver[bs.src]
        es == Jwks[bs.src][v]
    IN  CASE r = "304" -> [bs EXCEPT !.keys = {}, !.timeout = now + CacheTime]
          [] r = "200" -> [bs EXCEPT !.keys = DoKeys(es),
                                     !.timeout = now + CacheTime,
                                     !.etag = IF hdr /\ ~DoKeysRaises(es)
                                              THEN v ELSE @]
          [] OTHER     -> [bs EXCEPT !.keys = {}]

(* update(): a forced reload.  A local file is read again; a bundle with  *)
(* no source is left alone.                                                *)
Reload(bs, r, hdr) ==
    CASE Remote(bs)       -> RemoteReload(bs, r, hdr)
      [] bs.src \in Files -> [bs EXCEPT !.keys = DoKeys(FileJwks[bs.src])]
      [] OTHER            -> bs

(* Mutation: an off-by-one in the expiry test.                            *)
StaleLate(bs) == Remote(bs) /\ now > bs.timeout + 1

(* _uptodate(): "self._keys is not []" is always true, so only a remote   *)
(* bundle whose time_out has passed is reloaded.                          *)
Stale(bs) == Remote(bs) /\ now > bs.timeout

(* remove(typ, val): drop the keys of kind typ, or only those of kind typ *)
(* whose material is val.  NoSource doubles as val = None.                 *)
RemoveKeys(bs, typ, val) ==
    [bs EXCEPT !.keys = {k \in @ : ~(k.kty = typ /\ (val = NoSource \/ k.key = val))}]

-----------------------------------------------------------------------------
(* Environment: the clock advances; an endpoint publishes a new key set.  *)
Tick ==
    /\ now < MaxTime
    /\ now' = now + 1
    /\ UNCHANGED <<srv_ver, pub_at, kb>>

Rotate(u) ==
    /\ srv_ver[u] < MaxVersion
    /\ srv_ver' = [srv_ver EXCEPT ![u] = @ + 1]
    /\ pub_at' = [pub_at EXCEPT ![u][srv_ver[u] + 1] = now]
    /\ UNCHANGED <<now, kb>>

(* get(typ), keys() and jwks(): each calls _uptodate() before reading, and *)
(* only that call changes state.  A fresh bundle's read is a stutter.      *)
Get(b) ==
    /\ Stale(kb[b])
    /\ \E r \in Responses, hdr \in BOOLEAN :
          /\ CanRespond(kb[b], r)
          /\ kb' = [kb EXCEPT ![b] = RemoteReload(@, r, hdr)]
    /\ UNCHANGED <<now, srv_ver, pub_at>>

(* update(): reload whatever the cache time says.                          *)
Update(b) ==
    /\ kb[b].src # NoSource
    /\ \E r \in Responses, hdr \in BOOLEAN :
          /\ Remote(kb[b]) => CanRespond(kb[b], r)
          /\ kb' = [kb EXCEPT ![b] = Reload(@, r, hdr)]
    /\ UNCHANGED <<now, srv_ver, pub_at>>

Remove(b, typ, val) ==
    /\ kb' = [kb EXCEPT ![b] = RemoveKeys(@, typ, val)]
    /\ UNCHANGED <<now, srv_ver, pub_at>>

-----------------------------------------------------------------------------
(* The standalone specification: the bundles already exist, each built    *)
(* from a source; the first read of a remote bundle fetches (time_out 0). *)
(* A file whose JWK set does not decode makes the constructor raise, so   *)
(* the bundles that exist were built from files that decode.              *)
ASSUME SourceAssumption ==
    \A b \in Bundles : Source[b] \in Files => ~DoKeysRaises(FileJwks[Source[b]])

Init ==
    /\ now = 1
    /\ srv_ver = [u \in Urls |-> 1]
    /\ pub_at = [u \in Urls |-> [v \in Versions |-> 0]]
    /\ kb = [b \in Bundles |-> NewBundle(Source[b])]

Next ==
    \/ Tick
    \/ \E u \in Urls : Rotate(u)
    \/ \E b \in Bundles :
          \/ Get(b)
          \/ Update(b)
          \/ \E typ \in Kty, val \in Material \cup {NoSource} : Remove(b, typ, val)

Spec == Init /\ [][Next]_vars

-----------------------------------------------------------------------------
TypeOK ==
    /\ now \in 1..MaxTime
    /\ srv_ver \in [Urls -> Versions]
    /\ pub_at \in [Urls -> [Versions -> 0..MaxTime]]
    /\ kb \in [Bundles -> BundleRec]

(* A version v of u is recent when u still serves it, or stopped serving  *)
(* it no more than cache_time ago.                                         *)
Recent(u, v) == v = srv_ver[u] \/ now <= pub_at[u][v + 1] + CacheTime

(* Bounded staleness, the promise of the cache: every key a read of a     *)
(* remote bundle returns without refetching (_uptodate finds time_out not *)
(* passed) belongs to a key set its endpoint published and still served   *)
(* at most cache_time ago.                                                  *)
ServedKeysFresh ==
    \A b \in Bundles :
       Remote(kb[b]) /\ ~Stale(kb[b]) =>
          \A k \in kb[b].keys :
             \E v \in 1..srv_ver[kb[b].src] :
                k \in Entries(Jwks[kb[b].src][v]) /\ Recent(kb[b].src, v)

(* A remote bundle never mixes key sets: all its keys come from a single  *)
(* version its endpoint published (update() replaces _keys, never merges). *)
CacheHoldsOneVersion ==
    \A b \in Bundles :
       Remote(kb[b]) =>
          \E v \in 1..srv_ver[kb[b].src] : kb[b].keys \subseteq Entries(Jwks[kb[b].src][v])

(* Spec 6, 7 and 8.10: an unsupported kty fails the whole key-set load,  *)
(* so a remote bundle never holds a key that it could only have taken     *)
(* from a key set that does not decode: do_keys must not leave the        *)
(* entries before the bad one in _keys.                                    *)
NoPartialKeySet ==
    \A b \in Bundles :
       Remote(kb[b]) =>
          \A k \in kb[b].keys :
             \E v \in 1..srv_ver[kb[b].src] :
                k \in Entries(Jwks[kb[b].src][v]) /\ ~DoKeysRaises(Jwks[kb[b].src][v])

(* The inductive form of ServedKeysFresh: a remote bundle's time_out is   *)
(* never more than cache_time ahead of the clock, and each key it holds   *)
(* comes from a version its endpoint still serves, or stopped serving no  *)
(* earlier than cache_time before that time_out.                           *)
FreshnessInv ==
    /\ TypeOK
    /\ \A b \in Bundles :
          Remote(kb[b]) =>
             /\ kb[b].timeout <= now + CacheTime
             /\ \A k \in kb[b].keys :
                   \E v \in 1..srv_ver[kb[b].src] :
                      /\ k \in Entries(Jwks[kb[b].src][v])
                      /\ \/ v = srv_ver[kb[b].src]
                         \/ kb[b].timeout <= pub_at[kb[b].src][v + 1] + CacheTime

(* A step in which remote bundle b is reloaded and the endpoint answered r. *)
Refreshed(b, r) ==
    /\ Remote(kb[b])
    /\ CanRespond(kb[b], r)
    /\ \E hdr \in BOOLEAN : kb'[b] = RemoteReload(kb[b], r, hdr)

(* Spec 8.4: a refresh answered "not modified" leaves the keys as they     *)
(* were.  update() empties _keys before do_remote(), and the 304 branch   *)
(* of do_remote() does not refill them.                                    *)
NotModifiedKeepsKeys ==
    [][\A b \in Bundles : Refreshed(b, "304") => kb'[b].keys = kb[b].keys]_vars

(* Spec 7 and 8.5: a failed refresh (any other status, or a transport     *)
(* exception) does not evict the cached keys.                              *)
FailedRefreshKeepsKeys ==
    [][\A b \in Bundles, r \in {"5xx", "exception"} :
          Refreshed(b, r) => kb'[b].keys = kb[b].keys]_vars

-----------------------------------------------------------------------------
(* The refinement mapping to KeyCache: a bundle seen without its etag, and *)
(* the key sets seen through do_keys.                                      *)
AbsCache == [b \in Bundles |->
               [keys |-> kb[b].keys, src |-> kb[b].src, timeout |-> kb[b].timeout]]

Cache == INSTANCE KeyCache
           WITH cache <- AbsCache,
                Decoded <- [u \in Urls |-> [v \in Versions |-> DoKeys(Jwks[u][v])]],
                FileKeys <- [f \in Files |-> DoKeys(FileJwks[f])]

(* The bundle implements KeyCache: whatever the endpoint answers, however  *)
(* the Etag and the 304 path go, each _uptodate()/update() replaces the    *)
(* keys wholesale, by nothing or by the decode of the key set served now, *)
(* and only a decode that yields keys comes with a full cache period.      *)
ImplementsKeyCache == Cache!Spec

(* Spec 4.2 (ensure_fresh) and the elif branch of _uptodate(): a remote    *)
(* bundle with no keys is refetched by its next read, whatever time_out   *)
(* says.  The branch is dead ("self._keys is not []" is always true), so  *)
(* an emptied bundle waits for its time_out.                               *)
EmptyRemoteRefetched ==
    \A b \in Bundles : Remote(kb[b]) /\ kb[b].keys = {} => Stale(kb[b])

=============================================================================
