------------------------------ MODULE KeyCache -------------------------------
(***************************************************************************)
(* What a KeyBundle promises its callers, with the conditional GET, the    *)
(* Etag and the HTTP status codes hidden.  A bundle holds a set of keys    *)
(* and a time_out.  A fetch of a remote bundle either leaves it with no    *)
(* keys, or installs the decoded key set its endpoint serves at that       *)
(* moment together with a full cache period; a local bundle can only be    *)
(* re-read from its file; a removal only drops keys.  The clock and the    *)
(* endpoints' rotations are as in KeyBundle.                               *)
(***************************************************************************)
EXTENDS Naturals

CONSTANTS
    Bundles, Urls, Files, NoSource,
    CacheTime, MaxTime, MaxVersion,
    Source,     \* Source[b]: the source bundle b is built from
    Decoded,    \* Decoded[u][v]: the keys a fetch of version v of u yields
    FileKeys    \* FileKeys[f]: the keys reading file f yields

VARIABLES now, srv_ver, pub_at, cache

cvars == <<now, srv_ver, pub_at, cache>>

Init ==
    /\ now = 1
    /\ srv_ver = [u \in Urls |-> 1]
    /\ pub_at = [u \in Urls |-> [v \in 1..MaxVersion |-> 0]]
    /\ cache = [b \in Bundles |->
                  [keys |-> IF Source[b] \in Files THEN FileKeys[Source[b]] ELSE {},
                   src |-> Source[b], timeout |-> 0]]

Tick ==
    /\ now < MaxTime
    /\ now' = now + 1
    /\ UNCHANGED <<srv_ver, pub_at, cache>>

Rotate(u) ==
    /\ srv_ver[u] < MaxVersion
    /\ srv_ver' = [srv_ver EXCEPT ![u] = @ + 1]
    /\ pub_at' = [pub_at EXCEPT ![u][srv_ver[u] + 1] = now]
    /\ UNCHANGED <<now, cache>>

(* A fetch replaces the keys wholesale: by nothing, or by the current key  *)
(* set, which then always comes with time_out = now + cache_time.          *)
Fetch(b) ==
    LET u == cache[b].src IN
    /\ u \in Urls
    /\ \E ks \in {{}, Decoded[u][srv_ver[u]]}, t \in {cache[b].timeout, now + CacheTime} :
          /\ ks # {} => t = now + CacheTime
          /\ cache' = [cache EXCEPT ![b] = [@ EXCEPT !.keys = ks, !.timeout = t]]
    /\ UNCHANGED <<now, srv_ver, pub_at>>

FileReload(b) ==
    /\ cache[b].src \in Files
    /\ cache' = [cache EXCEPT ![b].keys = FileKeys[cache[b].src]]
    /\ UNCHANGED <<now, srv_ver, pub_at>>

Drop(b) ==
    /\ \E ks \in SUBSET cache[b].keys : cache' = [cache EXCEPT ![b].keys = ks]
    /\ UNCHANGED <<now, srv_ver, pub_at>>

Next ==
    \/ Tick
    \/ \E u \in Urls : Rotate(u)
    \/ \E b \in Bundles : Fetch(b) \/ FileReload(b) \/ Drop(b)

Spec == Init /\ [][Next]_cvars

=============================================================================
