# TLA+ models of `oic.utils.keyio`

This directory holds TLA+ models of pyoidc's key handling, from
`src/src/oic/utils/keyio.py` (808 lines). Each model is checked with TLC. The
bundle's cache properties and its refinement of an abstract key cache, the
jar's type invariant and the freshness of what a jar lookup collects, and the
path properties of key export are proved with TLAPS.

## The system

`keyio.py` has three layers:

| Part | Lines | What it does |
|---|---|---|
| `Key`, `RSA_key`, `EC_key`, `HMAC_key`, `K2C` | 105-186 | One JWK. `K2C` maps `kty` to the class that decodes it. Any other `kty` raises `KeyError`. |
| `KeyBundle` | 189-362 | The keys of one source: a list of keys, a local JWK or DER file, or a remote JWKS URL. A remote bundle caches its keys until `time_out`. It sends its `etag` as `If-None-Match`. A read (`get`, `keys`, `jwks`) calls `_uptodate()`, which calls `update()` once `time_out` has passed. |
| `KeyJar` | 405-632 | Maps an issuer to a list of bundles. `get` normalises the usage and the issuer's trailing slash, then reads every bundle of that issuer (each read may refresh the bundle). `remove_key` removes keys and prunes bundles left empty. `load_keys` registers a provider's `jwks_uri`. |
| Helpers | 27-102, 364-402, 638-808 | Key comparison, PEM loading, JWKS export, key setup, path normalisation, certificate creation. These are file I/O or M2Crypto calls. |

The code is single-threaded. The concurrency in the model is the environment:
- the clock advances;
- a remote endpoint publishes a new key set at any moment;
- each HTTP request ends in one of four ways: 200, 304, another status, or a raised exception.

## Modules

### `KeyBundle.tla`: the bundle and its cache

State:
- `kb[b]`, a record per bundle. It holds:
  - `keys`: `_keys`, kept as a set;
  - `src`: `source`; `remote` is `src \in Urls`;
  - `timeout`: `time_out`;
  - `etag`: the version whose Etag was stored, where 0 is `""`.
- `now`: `time.time()`.
- `srv_ver[u]`: the key set endpoint `u` serves now.
- `pub_at[u][v]`: when version `v` was published.

Key sets are fixed sequences of key objects. `Jwks[u][v]` is the key set of endpoint `u` at version `v`, and `FileJwks[f]` is the key set of file `f`.

The list `_keys` is modelled as a set. No property in this project depends on
the order of one bundle's keys. The only use the code makes of the list's
length is `len(kc._keys) == 0`.

| Definition | Code |
|---|---|
| `DoKeys`, `DecodedPrefix`, `DoKeysRaises` | `do_keys` / `do_local_jwk` (237-251): decodes in order and stops at the first unsupported `kty`. The keys before it stay appended. |
| `NewBundle`, `Init` | `__init__` (189-235) |
| `RemoteReload` | `update()` on a remote bundle (309, then `do_remote` at 268-291). The list is emptied first. Then: a 304 only advances `time_out`; a 200 advances `time_out`, decodes the body, and stores the Etag if the header is there and `do_keys` did not raise; any other status or an exception leaves the list empty. |
| `CanRespond` | The endpoint answers 304 only to an `If-None-Match` that matches the version it serves. |
| `Reload`, `Update` | `update()` (301-317): a forced reload. A file source is read again. With no source, nothing happens. |
| `Stale`, `Get` | `_uptodate()` (293-299) as called by `get`, `keys` and `jwks`. Only a remote bundle whose `time_out` has passed is reloaded. A read of a fresh bundle changes nothing, so it is a stutter. |
| `RemoveKeys`, `Remove` | `remove(typ, val)` (339-351) |
| `Tick`, `Rotate` | The environment: the clock advances, or an endpoint publishes its next key set. |

Not modelled in this module:
- the DER file format (`do_local_der`), which is an M2Crypto load;
- `append`, which only the export helpers use;
- `cache_control`, which is stored and never read.

### `MCKeyBundle.tla` and its configurations

The instance has:
- two bundles: `b1`, remote on `u1`, and `b2`, on the local file `f1`;
- three key materials;
- `cache_time = 2`, the clock up to 6, and three versions of `u1`'s key set.

Version 2 contains a `dsa` key after a good one, so `do_keys` raises partway through. Version 3 replaces every key.

The bounds are large enough for these cases:
- a fetch, an expiry and a refetch within one run;
- rotations both inside and outside a cache period;
- a 304 after a stored Etag;
- a partial decode.

### `KeyCache.tla`: what a bundle promises

`KeyCache` is the abstract specification of a bundle, with the conditional
GET, the Etag and the HTTP status codes hidden. Its state is the clock, the
endpoints' versions, and per bundle a record of `keys`, `src` and `timeout`.
Its actions:
- `Fetch(b)`: a remote bundle's keys are replaced wholesale, by nothing or by
  the decoded key set its endpoint serves now; installed keys always come with
  `timeout = now + cache_time`;
- `FileReload(b)`: a file bundle's keys are set to the file's keys;
- `Drop(b)`: some keys are dropped;
- `Tick` and `Rotate`, as in `KeyBundle`.

`KeyBundle` defines the refinement mapping: `AbsCache` forgets `etag`.
`Decoded[u][v]` is `DoKeys(Jwks[u][v])`, the full decode or the prefix before
an unsupported `kty`. `ImplementsKeyCache` is `KeyCache`'s `Spec` under it.
The steps correspond as follows:
- `Get` and the remote `Update` are `Fetch`;
- the file `Update` is `FileReload`;
- `Remove` is `Drop`;
- the Etag-only part of a step (none exists alone) would be a stutter.

### `KeyBundleProofs.tla`

Contains the TLAPS proofs (see below).

## Runs

| Run | Properties | What it shows |
|---|---|---|
| `bundle_cache` (pass, 5850 states) | `TypeOK`, `ServedKeysFresh`, `CacheHoldsOneVersion`, `FreshnessInv` | See the list below. |
| `not_modified_keeps_keys` (violation) | `NotModifiedKeepsKeys` | Spec 8.4 says a 304 leaves the keys unchanged. The code empties them: `update()` clears `_keys` at line 309, and the 304 branch does not refill it. |
| `failed_refresh_keeps_keys` (violation) | `FailedRefreshKeepsKeys` | Spec 7 and 8.5 say a failed refresh never evicts keys. The code's failed refresh leaves the bundle empty for the same reason. |
| `bundle_refines_cache` (pass, 5850 states) | `ImplementsKeyCache` | Every behaviour of the bundle instance is a behaviour of `KeyCache`. The mutation `RemoteReloadMerging` (a reload that keeps the old keys) breaks it. |
| `empty_remote_refetched` (violation) | `EmptyRemoteRefetched` | Spec 4.2 says `ensure_fresh` refetches a remote bundle with no keys. In the code `self._keys is not []` (line 294) is always true, so its `elif` is dead. In the trace a 200, then a forced `update()` that fails, leave the bundle empty with a `time_out` in the future, and reads serve nothing until it passes. |
| `partial_decode_rejected` (violation) | `NoPartialKeySet` | Spec 6, 7 and 8.10 say an unsupported `kty` fails the whole key-set load and adds no partial key. In the code `do_keys` appends each key as it decodes it (line 248), so when `K2C["dsa"]` raises (line 246) the keys before it stay. `do_remote` has already set `time_out` (line 280) and does not take the Etag. The trace: a rotation to key set 2, whose second entry is a `dsa` key, then a read that leaves the bundle holding key set 2's first key for a whole cache period. |

What `bundle_cache` shows:
- `ServedKeysFresh`: a remote bundle read without refetching serves only keys that its endpoint published and served at most `cache_time` ago.
- `CacheHoldsOneVersion`: a bundle's keys all come from a single key set.
- `TypeOK`: no undecodable key is ever held.

Each property of `bundle_cache` is broken by a plausible mutation of the code:

| Mutation | Property it breaks |
|---|---|
| keep every key object (`DoKeysUnchecked`) | `TypeOK` |
| expiry test off by one (`StaleLate`) | `ServedKeysFresh` |
| merge instead of replace on reload (`RemoteReloadMerging`) | `CacheHoldsOneVersion` |
| `time_out` one tick too long (`RemoteReloadLongTtl`) | `FreshnessInv` |

No fairness is assumed. Every property here is a safety property. Reads are driven by callers, and the code has no timer that must fire.

## Proofs (`KeyBundleProofs.tla`)

Each theorem holds for every value of the constants. The only assumptions are `ConstantsAssumption` (types, and the sources are disjoint) and `Spec`.

- `TypeCorrect`: `Spec => []TypeOK`. It rests on these lemmas:
  - `DoKeysType`: `do_keys` yields decodable keys taken from its input;
  - `RemoteReloadProps`: a remote reload keeps the source, sets `time_out` to either its old value or `now + cache_time`, and sets the keys to either empty or the decode of the served key set;
  - `ReloadType` and `RemoveKeysType`.
- `FreshnessInvariant`: `Spec => []FreshnessInv`.
- `ServedKeysFreshTheorem`: `Spec => []ServedKeysFresh`. It is derived from `FreshnessInv`.
- `OneVersionTheorem`: `Spec => []CacheHoldsOneVersion`. `OneVersion(b)` says
  all keys of `b` were decoded from one version. `ReloadedOneVersion` shows a
  reload keeps it: the list is emptied first, and one decode fills it. `Rotate`
  and `Tick` do not touch keys, and `Remove` shrinks them.
- `Refinement`: `Spec => ImplementsKeyCache`. `InitRefines` maps the initial
  state to `KeyCache`'s. `NextRefines` shows each `Next` step is a `KeyCache`
  step or a stutter. Its fetch case, `FetchStep`, uses `RemoteReloadFills`: a
  remote reload that leaves keys also sets `time_out = now + cache_time`,
  which is the constraint `Fetch` places on its choice. `TypeCorrect` supplies
  the record types. The temporal step is `PTL`.

`ServedKeysFresh` is not inductive on its own. It speaks only of bundles whose `time_out` has not passed, so a clock tick or a rotation can invalidate its hypothesis while the state stays the same. `FreshnessInv` strengthens it in two ways:
- a remote bundle's `time_out` is at most `now + cache_time`;
- each of its keys comes from a version `v` that is either still served, or was replaced no earlier than `cache_time` before `time_out`.

The second clause is stated relative to `time_out`, not `now`. That way `Tick` preserves it, and `Rotate` preserves it because the new version is published at `now >= time_out - cache_time`.

The argument, step by step:
- `InitFreshness`: a new remote bundle is empty with `time_out` 0.
- `NextFreshness` has one case per action:
  - `Rotate` keeps the old version's clause through `pub_at' = now`;
  - `Get` and `Update` go through `ReloadedFresh`, with `RemoteReloadProps` for the fields;
  - `Remove` only shrinks the key set;
  - `UntouchedFresh` covers the bundles a step leaves alone.

TLC checks `FreshnessInv` as an invariant of the run, and a mutation breaks it.

### `KeyJar.tla`: the jar

`KeyJar` extends `KeyBundle`, so a jar call that reads a bundle runs the
bundle's own `_uptodate()` and `RemoteReload`. It adds two variables:
- `ik`, which is `issuer_keys`: a function from the issuers present to a sequence of bundle ids. The order matters to `remove_key`.
- `used`, the bundle ids constructed so far. A bundle object is an id from the pool `Bundles`. Two lists may hold the same object (`add_kb`, `__setitem__`).

`Self` is the issuer `""`. `Alt[i]` is issuer `i` with its trailing `/` added or dropped.

| Definition | Code |
|---|---|
| `JarInit` | `__init__` (408-411) |
| `Register`, `Add`, `AppendTo` | `add` (426-443). A file that does not decode makes the constructor raise, and nothing changes. |
| `AddHmac`, `HmacBundle`, `FreshIds` | `add_hmac` (445-452): creates the issuer's entry, then appends to `issuer_keys[""]`, raising `KeyError` when that is missing. |
| `AddKb`, `SetItem`, `Put` | `add_kb` (454-458), `__setitem__` (460-466). `Put(m, i, s)` is the dict assignment `m[i] = s`. |
| `Norm`, `Resolve`, `SelfMissing`, `StartGet` | `get`'s normalisation of `use` and its choice of list (468-500). A missing `""` entry raises `KeyError` before any bundle is read, so that call changes nothing and is not a step. |
| `ReadBundle`, `FetchBundle`, `Pick` | One iteration of `for bundles in _keys` (503-515). `bundles.keys()` runs `_uptodate()` (293-299): a bundle within its `time_out` is read as it is (`ReadBundle`); an expired remote bundle is refetched with `RemoteReload` and its new keys are collected (`FetchBundle`). A refresh that raises ends the call (`EndCall`). |
| `GetDone` | `return res` (517). |
| `StartX`, `FirstDone` | `x_keys` (537-548) and its wrappers `verify_keys`, `decrypt_keys`. The first `get` is for `part`. When it ends, the second starts on `issuer_keys[""]`, or raises `KeyError` without one. The keys of the first get are kept through the second. |
| `StartRemove`, `RemoveStep`, `RemoveDone`, `RemoveFirst` | `remove_key` (572-581), with Python's list iterator: it reads `kcs[idx]` while `idx < len(kcs)`, so `list.remove` (the first occurrence, `RemoveFirst`) on the list being iterated shifts the next bundle under the index. |
| `LoadKeys` | `load_keys` (611-632). A provider without `jwks_uri` is the `KeyError` that is passed over. |
| `MergeJar` | `update(kj)` (583-593): each issuer of `kj` gets its list extended by, or set to, `kj`'s list. The model's `kj` holds one bundle object under a set of issuers. |
| `SetupBundle`, `KeyExport` | `key_setup` and the jar part of `key_export` (638-703). This is a new bundle of RSA keys on one key pair, one per use, appended under `""` or made its list. |
| `JarTick`, `JarRotate` | The environment, as in `KeyBundle`. |

`get()`, `x_keys()` and `remove_key` take one bundle per step. The variables
`pc`, `lst`, `idx`, `res`, `use`, `t0` and `rarg` hold the call in progress:
its kind, the list it walks, the iterator's index, the keys collected so far,
the normalised usage, the clock when the call began, and `remove_key`'s
arguments. The library is single-threaded and its calls do not nest, so every
other jar call is guarded by `Idle`. The clock and the endpoints still move
between two iterations, as they do in the code, where each iteration may make
an HTTP request. `get`'s `key_type` only chooses what is returned, not which
bundles are read or refreshed, so the model collects the keys of every kty.

Not modelled: `add_if_unique` (it indexes a list by a string and is not
called), the sharing of `kj`'s list objects by `update(kj)`, and the read-only
`match_owner`, `__contains__`, `__getitem__`, `__str__` and `keys()`.
`keys()` has no `return`, so it always returns `None`.

The instance `MCKeyJar` has:
- two bundle objects and three issuers: `""`, `https://op` and `https://op/`;
- one endpoint, whose second key set holds an unsupported `kty`;
- two files: `f1` decodes, and `f2` does not;
- `cache_time = 1` and the clock up to 3. A bundle fetched at time 1 expires at 2 and is stale at 3, so a refetch within one call, and a call that spans an expiry, both happen;
- `MaxRefs = 2`, a bound on the bundle references all the lists hold together. Two references are enough for the skip in `remove_key`, which needs two bundles in one list, and for a scan that reads one bundle after refetching another.

`jar_lookup` uses symmetry over the two bundle ids and over the two forms
`https://op` and `https://op/`. Both bundle ids have the same endpoint as
source, and `Alt` maps each of the two issuers to the other, so swapping a
pair maps behaviours to behaviours. The one choice the model makes among
bundle ids, the fresh ids `Register` and `add_hmac` take, is among ids no
state tells apart. The violation runs use no symmetry.

The jar runs are these:

| Run | Properties | What it shows |
|---|---|---|
| `jar_lookup` (pass, 3,811,277 states up to symmetry) | `JarTypeOK`, `CollectedFresh` | Every key a `get()` or `x_keys()` in progress has collected is local, or was served by its endpoint at most `cache_time` before the call began. This holds whatever ticks, rotations and refetches happen between the iterations, and through the second `get()` of `x_keys()`. The lists only hold constructed bundles. The mutation `FetchBundleStaleRead` collects the keys a bundle held before its refetch and breaks `CollectedFresh`; `AppendToUnwrapped` stores a bare bundle id as a list and breaks `JarTypeOK`. |
| `revocation_complete` (violation) | `RevocationComplete` | `add_hmac("", s, ["sig","enc"])` makes two bundles holding `s`. `remove_key("", "hmac", s)` prunes the first, and the iterator skips the second, which keeps the revoked secret. |
| `revocation_prunes_issuer` (violation) | `RevocationPrunesIssuer` | Spec 4.3 and 8.9 say that when removal empties an issuer's list, the issuer entry goes too. The property is stated on the `remove_key` step that takes a non-empty list to `[]`. In the trace `add("", u1)` makes a remote bundle that has not been fetched, so it holds no keys; `remove_key("", "rsa", m1)` before any lookup prunes it, and `""` is left mapped to `[]`. The jwks_uri is forgotten although no key was revoked. |
| `hmac_registered_under_issuer` (violation) | `HmacRegisteredUnderIssuer` | `add_hmac` files the secret under `""` (line 450), and raises on a jar without a `""` entry. |

No fairness is assumed here either. Every jar call is made by a caller, and every property is a safety property.

### `KeyJarProofs.tla`

These theorems hold for every set of issuers, bundle ids, endpoints, files
and key material, every `cache_time`, `MaxTime`, `MaxVersion` and `MaxRefs`.
They assume `ConstantsAssumption`, `SourceAssumption` and `JarAssumption`
(`""` is an issuer, `Alt` maps the other issuers among themselves, and
`MaxRefs` is positive).

- `JarTypeCorrect`: `JarSpec => []JarTypeOK`.
- `CollectedFreshTheorem`: `JarSpec => []CollectedFresh`.
- `JarInvariant`: `JarSpec => []JarInv`, from which both follow.

`CollectedFresh` is not inductive. A key collected from a bundle is fresh
relative to the call's start `t0` only because that bundle's keys were fresh
when they were read, and that is the bundle's `FreshnessInv`. The inductive
invariant `JarInv` is the conjunction of:
- `JarTypeOK`;
- `BundleFresh(b)` for every bundle, the bundle model's inductive freshness invariant;
- `t0 <= now`;
- `pc = "rm" => rarg.iss \in DOMAIN ik`: the issuer `remove_key` walks stays present;
- `CollectedFresh`.

The argument:
- a key read from a bundle within its `time_out` (`ReadFresh`) comes from a version that is still served, or was replaced no earlier than `time_out - cache_time >= now - cache_time >= t0 - cache_time`;
- a refetch (`FetchFresh`) installs only the version the endpoint serves now;
- a key already collected stays fresh across a `Tick`, which does not move `t0` (`FreshSinceKept`), and across a `Rotate`, which publishes the next version at `now >= t0` (`FreshSinceRotate`);
- a call that starts or ends resets `res` to `{}` (`EndCallOK`, `CallStep`).

The bundle part reuses `KeyBundleProofs`: `BundleStep` shows each jar step is
a `Next` step or a stutter for the bundle records. `FetchBundle` is a `Get`,
and `RemoveStep` is a `Remove`. Every constructor (`Register`, `AddHmac`,
`LoadKeys`, `KeyExport`) only adds fresh, empty-or-local bundles (`Builds`,
`BuildsFresh`). `IssuerMap(m, S)` says a map sends issuers to lists over `S`.
`AppendToMap`, `OverrideMap` and `RemoveFirstType` show that every list
operation keeps it.

Three definitions in `KeyJar` were written so that the provers can expand them:
- `Put` replaces the `:>` and `@@` of dict assignment;
- `RemoveFirst` is a function over the index of the first occurrence, rather than `SubSeq`;
- `Pick` takes the usage only.

The jar's action properties (`RevocationComplete`, `RevocationPrunesIssuer`,
`HmacRegisteredUnderIssuer`) are violated by the code, so there is nothing to
prove about them.

`get()` on `""` for a jar with no keys of its own raises `KeyError` (line
497), where spec 7 says an unknown issuer gives an empty result. The model
takes that raise as the guard `SelfMissing` of `StartGet` and `StartX`: the
call changes no state, so no state records it, and no property checks it.

### `ProperPath.tla`: paths of key export

`ProperPath(path)` is `proper_path` (734-754). `ProperPrefix` is its if/elif chain (738-748). Its guards are written exclusive, as the elif order makes them. A TLA+ `CASE` with two true guards would choose between them, and `"./"` starts with both `"./"` and `"."`. `StripDots` is the loop that strips leading dots (744-745). It is written with `CHOOSE` over the number of leading dots, not with recursion, so that it can be proved about.
A path is a sequence over `"."`, `"/"` and one letter that stands for every
other character. `ExportDir`, `ExportFile` and `ExportUrlPath` are what
`key_export` derives from its baseurl's path and `local_path` (684-713). The
state is the pair of inputs, and nothing changes after it. With `MaxLen = 3`
there are 14 URL paths and 40 local paths, 560 states in all. This covers
every branch of `proper_path`, including empty inputs, inputs made only of dots, and a
doubled `/`.

| Run | Properties | What it shows |
|---|---|---|
| `export_url` (pass, 560 states) | `ExportUrlNamesFile` | The URL `key_export` returns (`_export_filename[1:]`) is the absolute path of the file it wrote. `key_export`'s input always starts with `/`, so `proper_path` yields `./...`. The mutation `ProperPrefixNoRoot` (no branch for a leading `/`) breaks it. |
| `proper_path_form` (violation) | `ProperPathForm` | The docstring promises `"./" <path> "/"`. But `"."` gives `"/"`, the filesystem root, and `".a"` gives `"a/"`. `key_setup(vault)` reaches these cases. |
| `export_url`, continued | `FormLostIffMangled` | The same run says exactly which paths lose the form. `Mangled(p)` holds when `p` starts with `.` but not with `./`, and no `/` closes its run of leading dots (`.`, `..`, `.a`, `..a/`). Every other path gets `"./" <path> "/"`. The mutation `StripDotsOnce` (an `if` in place of the `while`) breaks it. |

### `ProperPathProofs.tla`

These theorems hold for every `MaxLen`, so for paths of every length:
- `ExportUrlTheorem`: `Spec => []ExportUrlNamesFile`;
- `MangledTheorem`: `Spec => []FormLostIffMangled`.

The model's state never changes, so the invariant that both proofs carry is `Inputs`: the inputs are what `Init` enumerates. Each proof is a lemma about every pair of input sequences. Paths are taken in `Str == Seq(Alpha)`, a finite alphabet holding the three path characters and the letters of `jwks`. The provers handle a finite set of string literals, but not membership in `STRING`.

The lemmas:
- sequence facts: `SeqEqual`, `EmptyLen`, and `StartsWith1`, `StartsWith2`, `EndsWith1`, which turn a one- or two-character prefix or suffix test into a statement about its elements;
- `RootedPath`: `proper_path` of a path starting with `/` is `.` put in front of it;
- `BaseShape`: `key_export`'s path stays empty or rooted once its trailing `/` is removed;
- `LeadingDots`: the number of leading dots exists, as `WFMin` applied to the least non-dot index;
- `StripDotsProps`: the loop leaves a path that does not start with `.`, and that starts with `/` exactly when a `/` closes the dots;
- `PrefixForm`: one case per branch of the elif chain;
- `SlashForm`: the appended `/` gives the form exactly when the prefix is `./...` or `.`.

`SequenceTheorems` is not used, because it reaches the recursive `Folds` through `Functions`. The few sequence facts these proofs need are proved in the module itself.

## Fairness and liveness

No run assumes fairness and no property is a liveness property. Spec section 5
says no operation spawns a timer: every refresh happens inside a caller's read.
Nothing in the code must eventually happen by itself, so no fairness
condition is justified by it. The clock is bounded (`MaxTime`), but a
caller's call is always possible, so every run checks for deadlock and finds none.

## What is only model-checked

Every property of a passing run is also proved for every value of the
constants. What stays with TLC:
- deadlock freedom, which every run checks. It says some action is `ENABLED` in every reachable state, and `ENABLED` is out of the provers' reach;
- the violation runs, which are counterexamples found on the instances, not theorems.

No property is a liveness property (see above), so no fairness is left unproved.

## What is not modelled

The helpers, the file writes and key generation of the export code, and the
certificate code are left out. They are file I/O and calls into M2Crypto, with
no state the model could observe. The list `issuer_keys[issuer]` that
`update(kj)` shares with `kj` would need a model of two jars. The DER file
format is an M2Crypto load.
