------------------------------- MODULE KeyJar -------------------------------
(***************************************************************************)
(* The KeyJar class of src/oic/utils/keyio.py: issuer_keys maps an issuer *)
(* to a list of KeyBundle objects.  The bundles are those of KeyBundle: a *)
(* jar call that reads a bundle (get) runs the bundle's _uptodate(), and a *)
(* remove_key runs the bundle's remove().  A bundle object is an id from  *)
(* the pool Bundles; used is the set of ids already constructed.  Two     *)
(* lists may hold the same object (add_kb, __setitem__).                   *)
(*                                                                         *)
(* A call that raises before it changes anything (get() on a missing ""  *)
(* entry, add() of a file that does not decode) is a stutter.             *)
(***************************************************************************)
EXTENDS KeyBundle

CONSTANTS
    Issuers,   \* issuer strings the callers use, Self among them
    Self,      \* the empty issuer "": the jar's own keys
    Alt,       \* Alt[i]: i with its trailing "/" added or dropped
    MaxRefs    \* bound on the bundle references all the lists hold together

ASSUME JarAssumption ==
    /\ Self \in Issuers
    /\ Alt \in [Issuers \ {Self} -> Issuers \ {Self}]
    /\ MaxRefs \in Nat \ {0}

VARIABLES
    ik,       \* issuer_keys: a function whose domain is the issuers present
    used,     \* the bundle ids constructed so far
    pc,       \* the jar call in progress: "idle", "get", "x1" and "x2" (the
              \* two get() calls of x_keys), "rm" (remove_key)
    lst,      \* the list of bundles the get() in progress iterates over
    idx,      \* the loop's position in that list (or in remove_key's list)
    res,      \* the keys the get() or x_keys() in progress has collected
    use,      \* the normalised use that call asks for
    t0,       \* time.time() when that call began
    rarg      \* remove_key's arguments: issuer, key_type and key

callVars == <<pc, lst, idx, res, use, t0, rarg>>

allVars == <<now, srv_ver, pub_at, kb, ik, used, pc, lst, idx, res, use, t0, rarg>>

(* The use arguments of get() and of its wrappers get_signing_key,        *)
(* get_verify_key, get_encrypt_key and get_decrypt_key, and their         *)
(* normalisation: dec is looked up as enc, ver as sig.                    *)
UseArgs == {"sig", "ver", "enc", "dec"}
Norm(use_) == CASE use_ = "dec" -> "enc" [] use_ = "ver" -> "sig" [] OTHER -> use_

(* The usage lists add_hmac is called with.                                *)
Usages == {<<"sig">>, <<"sig", "enc">>}

Unused == NewBundle(NoSource)

Range(s) == {s[j] : j \in DOMAIN s}

IsInjective(f) == \A x, y \in DOMAIN f : f[x] = f[y] => x = y

(* n distinct ids never constructed before.                                *)
HasFreshIds(n) == \E f \in [1..n -> Bundles \ used] : IsInjective(f)

FreshIds(n) == CHOOSE f \in [1..n -> Bundles \ used] : IsInjective(f)

(* list.remove(e): the first occurrence of e taken out.                    *)
RemoveFirst(s, e) ==
    IF \E j \in 1..Len(s) : s[j] = e
    THEN LET k == CHOOSE n \in 1..Len(s) : s[n] = e /\ \A j \in 1..(n - 1) : s[j] # e
         IN  [j \in 1..(Len(s) - 1) |-> IF j < k THEN s[j] ELSE s[j + 1]]
    ELSE s

(* issuer_keys[i] = s: the entry of issuer i set, or added.               *)
Put(m, i, s) == [j \in DOMAIN m \cup {i} |-> IF j = i THEN s ELSE m[j]]

(* Mutation: the KeyError branch stores the bundle itself, not [kc].     *)
AppendToUnwrapped(m, i, b) ==
    IF i \in DOMAIN m THEN [m EXCEPT ![i] = Append(@, b)] ELSE Put(m, i, b)

(* issuer_keys[i].append(b), or issuer_keys[i] = [b] on KeyError.          *)
AppendTo(m, i, b) ==
    IF i \in DOMAIN m THEN [m EXCEPT ![i] = Append(@, b)] ELSE Put(m, i, <<b>>)

(* The number of bundle references the lists of the map m hold.          *)
Refs(m) == Cardinality(UNION {{<<j, n>> : n \in 1..Len(m[j])} : j \in DOMAIN m})

Fits(m, n) == Refs(m) + n <= MaxRefs

(* No jar call is in progress: the library is single-threaded and its     *)
(* calls do not nest, so a call begins only when the last one has ended.  *)
Idle == pc = "idle"

(* The call in progress returns or raises: its locals are gone.           *)
EndCall ==
    /\ pc' = "idle" /\ lst' = <<>> /\ idx' = 0 /\ res' = {}
    /\ use' = "sig" /\ t0' = 1
    /\ rarg' = [iss |-> Self, typ |-> "rsa", key |-> NoSource]

-----------------------------------------------------------------------------
(* Whether _uptodate's update() of remote bundle bs raises: request()     *)
(* raises, or do_keys meets an unsupported kty in the 200 body.           *)
RemoteRaises(bs, r) ==
    \/ r = "exception"
    \/ r = "200" /\ DoKeysRaises(Jwks[bs.src][srv_ver[bs.src]])

(* The keys of one bundle get() keeps: those of the wanted use, of every  *)
(* kind (the key_type branch keeps one kind of the same set; res only     *)
(* groups them by kty).                                                    *)
Pick(keys, use_) == {k \in keys : k.use = use_}

(* The list of bundles get() scans for issuer i: issuer_keys[i], else the *)
(* same issuer with its trailing "/" dropped or added, else [].  For the  *)
(* empty issuer issuer_keys[""] is read directly (SelfMissing: KeyError). *)
Resolve(i) ==
    CASE i \in DOMAIN ik      -> ik[i]
      [] i = Self             -> <<>>
      [] Alt[i] \in DOMAIN ik -> ik[Alt[i]]
      [] OTHER                -> <<>>

SelfMissing(i) == i = Self /\ Self \notin DOMAIN ik

Scanning == pc \in {"get", "x1", "x2"}

(* get(use, key_type, issuer) begins: use is normalised and the list is    *)
(* resolved; on a missing "" entry it raises KeyError before reading a    *)
(* bundle, which changes nothing.  key_type only filters what is kept     *)
(* from each bundle and refreshes the same bundles, so "" stands for all. *)
StartGet(i, u) ==
    /\ Idle
    /\ ~SelfMissing(i)
    /\ pc' = "get" /\ lst' = Resolve(i) /\ idx' = 0 /\ res' = {}
    /\ use' = Norm(u) /\ t0' = now
    /\ UNCHANGED <<now, srv_ver, pub_at, kb, ik, used, rarg>>

(* x_keys(var, part), i.e. verify_keys(part) (use sig) or decrypt_keys(part)*)
(* (use enc), begins with its first get(), for the other party part.       *)
StartX(part, u) ==
    /\ Idle
    /\ ~SelfMissing(part)
    /\ pc' = "x1" /\ lst' = Resolve(part) /\ idx' = 0 /\ res' = {}
    /\ use' = u /\ t0' = now
    /\ UNCHANGED <<now, srv_ver, pub_at, kb, ik, used, rarg>>

(* One iteration of "for bundles in _keys": bundles.keys() runs           *)
(* _uptodate(), which leaves a bundle alone while its time_out has not     *)
(* passed, and the bundle's keys of the wanted use are collected.          *)
ReadBundle ==
    /\ Scanning
    /\ idx < Len(lst)
    /\ ~Stale(kb[lst[idx + 1]])
    /\ res' = res \cup Pick(kb[lst[idx + 1]].keys, use)
    /\ idx' = idx + 1
    /\ UNCHANGED <<now, srv_ver, pub_at, kb, ik, used, pc, lst, use, t0, rarg>>

(* Mutation: the iteration collects the keys the bundle held before its   *)
(* _uptodate() refetched it.                                               *)
FetchBundleStaleRead(r, h) ==
    LET b   == lst[idx + 1]
        nbs == RemoteReload(kb[b], r, h)
    IN  /\ Scanning
        /\ idx < Len(lst)
        /\ Stale(kb[b])
        /\ CanRespond(kb[b], r)
        /\ kb' = [kb EXCEPT ![b] = nbs]
        /\ IF RemoteRaises(kb[b], r)
           THEN EndCall
           ELSE /\ res' = res \cup Pick(kb[b].keys, use)
                /\ idx' = idx + 1
                /\ UNCHANGED <<pc, lst, use, t0, rarg>>
        /\ UNCHANGED <<now, srv_ver, pub_at, ik, used>>

(* The same iteration on a bundle whose time_out has passed: update()     *)
(* refetches it and the endpoint answers r (with an Etag header if h).    *)
(* An exception out of the refetch ends get(), and x_keys() with it;      *)
(* otherwise the refetched bundle's keys of the wanted use are collected. *)
FetchBundle(r, h) ==
    LET b   == lst[idx + 1]
        nbs == RemoteReload(kb[b], r, h)
    IN  /\ Scanning
        /\ idx < Len(lst)
        /\ Stale(kb[b])
        /\ CanRespond(kb[b], r)
        /\ kb' = [kb EXCEPT ![b] = nbs]
        /\ IF RemoteRaises(kb[b], r)
           THEN EndCall
           ELSE /\ res' = res \cup Pick(nbs.keys, use)
                /\ idx' = idx + 1
                /\ UNCHANGED <<pc, lst, use, t0, rarg>>
        /\ UNCHANGED <<now, srv_ver, pub_at, ik, used>>

(* get() returns what it collected, and so does x_keys() after its second *)
(* get(), whose lists extend the first one's.                              *)
GetDone ==
    /\ pc \in {"get", "x2"}
    /\ idx = Len(lst)
    /\ EndCall
    /\ UNCHANGED <<now, srv_ver, pub_at, kb, ik, used>>

(* x_keys()'s first get() has returned; the second, get(use, "", ""),     *)
(* reads issuer_keys[""] and raises KeyError when the jar has none.       *)
FirstDone ==
    /\ pc = "x1"
    /\ idx = Len(lst)
    /\ \/ /\ Self \in DOMAIN ik
          /\ pc' = "x2" /\ lst' = ik[Self] /\ idx' = 0
          /\ UNCHANGED <<res, use, t0, rarg>>
       \/ /\ Self \notin DOMAIN ik
          /\ EndCall
    /\ UNCHANGED <<now, srv_ver, pub_at, kb, ik, used>>

-----------------------------------------------------------------------------
(* The KeyBundle(source=src) that add() builds, appended to issuer i's    *)
(* list in the map m.  A file whose key set does not decode makes the     *)
(* constructor raise: the map stays m and no bundle is built.             *)
Register(m, i, src) ==
    \/ /\ src \in Files /\ DoKeysRaises(FileJwks[src])
       /\ ik' = m
       /\ UNCHANGED <<kb, used>>
    \/ /\ ~(src \in Files /\ DoKeysRaises(FileJwks[src]))
       /\ used # Bundles
       /\ Fits(m, 1)
       /\ LET b == FreshIds(1)[1] IN
          /\ kb' = [kb EXCEPT ![b] = NewBundle(src)]
          /\ ik' = AppendTo(m, i, b)
          /\ used' = used \cup {b}

(* add(issuer, url).                                                       *)
Add(i, src) ==
    /\ Idle
    /\ Register(ik, i, src)
    /\ UNCHANGED <<now, srv_ver, pub_at, callVars>>

(* The HMAC bundle KeyBundle([{"kty": "hmac", "key": key, "use": use}]).   *)
HmacBundle(key, u) ==
    [keys |-> {[kty |-> "hmac", use |-> u, key |-> key]},
     src |-> NoSource, timeout |-> 0, etag |-> 0]

(* add_hmac(issuer, key, usage): issuer_keys[issuer] is created if absent,*)
(* then one HMAC bundle per use is appended to issuer_keys[""], which     *)
(* raises KeyError on the first append when the jar has no "" entry.      *)
AddHmac(i, key, usage) ==
    LET ik1 == IF i \in DOMAIN ik THEN ik ELSE Put(ik, i, <<>>)
        n   == Len(usage)
    IN  /\ Idle
        /\ \/ /\ Self \notin DOMAIN ik1
              /\ ik' = ik1
              /\ UNCHANGED <<kb, used>>
           \/ /\ Self \in DOMAIN ik1
              /\ HasFreshIds(n)
              /\ Fits(ik1, n)
              /\ LET ids == FreshIds(n) IN
                 /\ kb' = [b \in Bundles |->
                             IF b \in Range(ids)
                             THEN HmacBundle(key, usage[CHOOSE j \in 1..n : ids[j] = b])
                             ELSE kb[b]]
                 /\ ik' = [ik1 EXCEPT ![Self] = @ \o ids]
                 /\ used' = used \cup Range(ids)
        /\ UNCHANGED <<now, srv_ver, pub_at, callVars>>

(* add_kb(issuer, kb): an existing bundle object appended to a list.      *)
AddKb(i, b) ==
    /\ Idle
    /\ b \in used
    /\ Fits(ik, 1)
    /\ ik' = AppendTo(ik, i, b)
    /\ UNCHANGED <<now, srv_ver, pub_at, kb, used, callVars>>

(* keyjar[issuer] = kb: the issuer's list replaced by [kb].                *)
SetItem(i, b) ==
    /\ Idle
    /\ b \in used
    /\ Refs(Put(ik, i, <<>>)) < MaxRefs
    /\ ik' = Put(ik, i, <<b>>)
    /\ UNCHANGED <<now, srv_ver, pub_at, kb, used, callVars>>

(* load_keys(pcr, issuer, replace): the issuer's list is created, or       *)
(* emptied when replace is set, and then pcr["jwks_uri"] is added; src =   *)
(* NoSource is a pcr without "jwks_uri" (KeyError, passed over).          *)
LoadKeys(i, src, replace) ==
    LET ik1 == IF i \notin DOMAIN ik \/ replace THEN Put(ik, i, <<>>) ELSE ik
    IN  /\ Idle
        /\ \/ src = NoSource /\ ik' = ik1 /\ UNCHANGED <<kb, used>>
           \/ src # NoSource /\ Register(ik1, i, src)
        /\ UNCHANGED <<now, srv_ver, pub_at, callVars>>

(* update(kj): each list of the other jar kj extends this jar's list of  *)
(* the same issuer, or becomes it.  kj is any jar whose issuers S each    *)
(* hold the one bundle object b.                                          *)
MergeJar(S, b) ==
    /\ Idle
    /\ b \in used
    /\ Fits(ik, Cardinality(S))
    /\ ik' = [j \in DOMAIN ik \cup S |->
                (IF j \in DOMAIN ik THEN ik[j] ELSE <<>>) \o (IF j \in S THEN <<b>> ELSE <<>>)]
    /\ UNCHANGED <<now, srv_ver, pub_at, kb, used, callVars>>

(* key_setup(vault, **kwargs): a KeyBundle() to which one RSA_key per use *)
(* is appended, all of them on the one key pair loaded from the vault or  *)
(* created there (m).  sig alone also yields an enc view; a use whose     *)
(* argument is None or not rsa yields nothing, so any subset can result.  *)
SetupBundle(m, uses) ==
    [keys |-> {[kty |-> "rsa", use |-> u, key |-> m] : u \in uses},
     src |-> NoSource, timeout |-> 0, etag |-> 0]

(* key_export(...): keyjar[""].append(kb), or keyjar[""] = kb on KeyError  *)
(* (__setitem__ wraps it in a list).  The export file is written from     *)
(* str(kb), whose jwks() reads a bundle without a source: no state change.*)
KeyExport(m, uses) ==
    /\ Idle
    /\ used # Bundles
    /\ Fits(ik, 1)
    /\ LET b == FreshIds(1)[1] IN
       /\ kb' = [kb EXCEPT ![b] = SetupBundle(m, uses)]
       /\ ik' = AppendTo(ik, Self, b)
       /\ used' = used \cup {b}
    /\ UNCHANGED <<now, srv_ver, pub_at, callVars>>

-----------------------------------------------------------------------------
(* remove_key(issuer, key_type, key) begins: kcs = issuer_keys[issuer];   *)
(* an absent issuer returns at once, which changes nothing.               *)
StartRemove(i, typ, key) ==
    /\ Idle
    /\ i \in DOMAIN ik
    /\ pc' = "rm" /\ idx' = 0
    /\ rarg' = [iss |-> i, typ |-> typ, key |-> key]
    /\ UNCHANGED <<now, srv_ver, pub_at, kb, ik, used, lst, res, use, t0>>

(* One iteration of "for kc in kcs" over the very list it prunes: Python's*)
(* list iterator reads kcs[idx] while idx < len(kcs), so removing the      *)
(* current bundle shifts the next one under the index.  kc.remove() runs,  *)
(* and a bundle left with no keys is removed by list.remove(kc), i.e. its  *)
(* first occurrence.                                                       *)
RemoveStep ==
    LET i  == rarg.iss
        kc == ik[i][idx + 1]
        nb == RemoveKeys(kb[kc], rarg.typ, rarg.key)
    IN  /\ pc = "rm"
        /\ idx < Len(ik[i])
        /\ kb' = [kb EXCEPT ![kc] = nb]
        /\ ik' = [ik EXCEPT ![i] = IF nb.keys = {} THEN RemoveFirst(@, kc) ELSE @]
        /\ idx' = idx + 1
        /\ UNCHANGED <<now, srv_ver, pub_at, used, pc, lst, res, use, t0, rarg>>

(* The iterator is exhausted and remove_key returns.                        *)
RemoveDone ==
    /\ pc = "rm"
    /\ idx >= Len(ik[rarg.iss])
    /\ EndCall
    /\ UNCHANGED <<now, srv_ver, pub_at, kb, ik, used>>

-----------------------------------------------------------------------------
(* The clock and the endpoints, as in KeyBundle; they move on while a jar *)
(* call is in progress too (time.time() is read at each _uptodate()).     *)
JarTick == Tick /\ UNCHANGED <<ik, used, callVars>>
JarRotate(u) == Rotate(u) /\ UNCHANGED <<ik, used, callVars>>

(* KeyJar(): an empty issuer_keys; no bundle is built yet.                 *)
JarInit ==
    /\ now = 1
    /\ srv_ver = [u \in Urls |-> 1]
    /\ pub_at = [u \in Urls |-> [v \in Versions |-> 0]]
    /\ kb = [b \in Bundles |-> Unused]
    /\ ik = [i \in {} |-> <<>>]
    /\ used = {}
    /\ pc = "idle" /\ lst = <<>> /\ idx = 0 /\ res = {}
    /\ use = "sig" /\ t0 = 1
    /\ rarg = [iss |-> Self, typ |-> "rsa", key |-> NoSource]

JarNext ==
    \/ JarTick
    \/ \E u \in Urls : JarRotate(u)
    \/ \E i \in Issuers, u \in UseArgs : StartGet(i, u)
    \/ \E part \in Issuers, u \in {"sig", "enc"} : StartX(part, u)
    \/ ReadBundle
    \/ \E r \in Responses, h \in BOOLEAN : (h => r = "200") /\ FetchBundle(r, h)
    \/ GetDone
    \/ FirstDone
    \/ \E i \in Issuers, src \in Urls \cup Files : Add(i, src)
    \/ \E i \in Issuers, key \in Material, usage \in Usages : AddHmac(i, key, usage)
    \/ \E i \in Issuers, b \in Bundles : AddKb(i, b) \/ SetItem(i, b)
    \/ \E i \in Issuers, src \in Urls \cup Files \cup {NoSource}, replace \in BOOLEAN :
          LoadKeys(i, src, replace)
    \/ \E i \in Issuers, typ \in Kty, key \in Material \cup {NoSource} :
          StartRemove(i, typ, key)
    \/ RemoveStep
    \/ RemoveDone
    \/ \E S \in (SUBSET Issuers) \ {{}}, b \in Bundles : MergeJar(S, b)
    \/ \E m \in Material, uses \in SUBSET Uses : KeyExport(m, uses)

JarSpec == JarInit /\ [][JarNext]_allVars

-----------------------------------------------------------------------------
Pcs == {"idle", "get", "x1", "x2", "rm"}

JarTypeOK ==
    /\ TypeOK
    /\ used \subseteq Bundles
    /\ DOMAIN ik \subseteq Issuers
    /\ \A i \in DOMAIN ik : ik[i] \in Seq(used)
    /\ pc \in Pcs
    /\ lst \in Seq(used)
    /\ idx \in Nat
    /\ res \subseteq Key
    /\ use \in Uses
    /\ t0 \in 1..MaxTime
    /\ rarg \in [iss : Issuers, typ : Kty, key : Material \cup {NoSource}]

(* Key k, collected by a get() that began at time t, is held by a local    *)
(* bundle of the jar, or comes from a key set that the endpoint of a       *)
(* remote bundle of the jar still served at most cache_time before t.      *)
FreshSince(k, t) ==
    \E b \in used :
       /\ ~Remote(kb[b]) => k \in kb[b].keys
       /\ Remote(kb[b]) =>
             \E v \in 1..srv_ver[kb[b].src] :
                /\ k \in Entries(Jwks[kb[b].src][v])
                /\ v = srv_ver[kb[b].src] \/ t <= pub_at[kb[b].src][v + 1] + CacheTime

(* What get() and x_keys() return is fresh: every key the call in         *)
(* progress has collected, from whichever bundle and after whichever of    *)
(* its refetches, ticks and rotations, is local or was served at most      *)
(* cache_time before the call began.  Each bundles.keys() refetches an     *)
(* expired bundle before its keys are read; x_keys() keeps the first       *)
(* get()'s keys through the second.                                        *)
CollectedFresh ==
    Scanning => \A k \in res : FreshSince(k, t0)

(* Spec 4.3 (remove): remove_key delegates to the remove() of every      *)
(* bundle of the issuer, so when it returns no bundle left in the        *)
(* issuer's list holds a key of that kind and material.                   *)
RevocationComplete ==
    [][pc = "rm" /\ pc' = "idle" =>
          \A b \in Range(ik[rarg.iss]) : \A k \in kb[b].keys :
             ~(k.kty = rarg.typ /\ (rarg.key = NoSource \/ k.key = rarg.key))]_allVars

(* Spec 4.3 and 8.9: when remove_key prunes the last bundle of an        *)
(* issuer's list, the issuer entry goes too, so that the issuer is absent *)
(* from the jar rather than mapped to an empty list.  The step is one      *)
(* iteration of the loop over kcs that takes a non-empty list to [].      *)
RevocationPrunesIssuer ==
    [][pc = "rm" /\ ik[rarg.iss] # <<>> =>
          (rarg.iss \in DOMAIN ik' => ik'[rarg.iss] # <<>>)]_allVars

(* Spec 4.3 (register_symmetric): add_hmac(issuer, ...) wraps the secret  *)
(* as one HMAC bundle per usage and appends them to that issuer's list.   *)
HmacRegisteredUnderIssuer ==
    [][\A i \in Issuers, key \in Material, usage \in Usages :
          AddHmac(i, key, usage) =>
             /\ Cardinality(used' \ used) = Len(usage)
             /\ used' \ used \subseteq Range(ik'[i])]_allVars
====
