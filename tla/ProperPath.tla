----------------------------- MODULE ProperPath ------------------------------
(***************************************************************************)
(* proper_path(path) of src/oic/utils/keyio.py, and the export path and    *)
(* URL key_export() derives from it.  A path is a sequence of characters   *)
(* over "." , "/" and one letter standing for any other character.  The    *)
(* state is the pair of inputs of one key_export() call: the path of its   *)
(* baseurl (urlsplit(baseurl).path: empty, or starting with "/") and its   *)
(* local_path argument, which key_setup() also gets as vault.  Nothing     *)
(* changes after the call: the specification only enumerates the inputs.   *)
(***************************************************************************)
EXTENDS Naturals, Sequences

CONSTANTS
    MaxLen    \* the longest input path the model enumerates

ASSUME MaxLenAssumption == MaxLen \in Nat

Chars == {".", "/", "a"}

Strs(n) == UNION {[1..k -> Chars] : k \in 0..n}

StartsWith(p, q) == Len(p) >= Len(q) /\ SubSeq(p, 1, Len(q)) = q

EndsWith(p, q) == Len(p) >= Len(q) /\ SubSeq(p, Len(p) - Len(q) + 1, Len(p)) = q

(* Mutation: the loop strips only the first dot, as an "if" would.       *)
StripDotsOnce(p) == IF Len(p) > 0 /\ p[1] = "." THEN Tail(p) ELSE p

(* while path.startswith("."): path = path[1:]                            *)
StripDots(p) ==
    LET n == CHOOSE n \in 0..Len(p) :
                /\ \A i \in 1..n : p[i] = "."
                /\ n < Len(p) => p[n + 1] # "."
    IN  SubSeq(p, n + 1, Len(p))

(* Mutation: the branch for a path starting with "/" is missing, so such  *)
(* a path gets "./" put in front of it like a bare name.                  *)
ProperPrefixNoRoot(path) ==
    CASE StartsWith(path, <<".", "/">>) -> path
      [] StartsWith(path, <<".">>) /\ ~StartsWith(path, <<".", "/">>) ->
            LET q == StripDots(path) IN
            IF StartsWith(q, <<"/">>) THEN <<".">> \o q ELSE q
      [] OTHER -> <<".", "/">> \o path

(* proper_path's if/elif chain: "./x" is kept, "/x" becomes "./x", a path *)
(* starting with dots loses all of them and gets "." back only before a   *)
(* "/", and anything else gets "./" in front.  The guards are exclusive,  *)
(* as the elif order makes them.                                           *)
ProperPrefix(path) ==
    CASE StartsWith(path, <<".", "/">>) -> path
      [] StartsWith(path, <<"/">>)      -> <<".">> \o path
      [] StartsWith(path, <<".">>) /\ ~StartsWith(path, <<".", "/">>) ->
            LET q == StripDots(path) IN
            IF StartsWith(q, <<"/">>) THEN <<".">> \o q ELSE q
      [] OTHER -> <<".", "/">> \o path

(* proper_path(path): the prefix fixed, then a missing trailing "/" added. *)
ProperPath(path) ==
    LET p1 == ProperPrefix(path)
    IN  IF EndsWith(p1, <<"/">>) THEN p1 ELSE Append(p1, "/")

(* The path of a baseurl as urlsplit returns it.                           *)
UrlPaths == {<<>>} \cup {<<"/">> \o p : p \in Strs(MaxLen - 1)}

(* key_export(): part.path without a trailing "/", "%s/%s" with local_path,*)
(* proper_path of that, and the file "%sjwks" in it.                       *)
ExportDir(upath, local) ==
    LET base == IF EndsWith(upath, <<"/">>) THEN SubSeq(upath, 1, Len(upath) - 1) ELSE upath
    IN  ProperPath(base \o <<"/">> \o local)

ExportFile(upath, local) == ExportDir(upath, local) \o <<"j", "w", "k", "s">>

(* The path part of the URL key_export() returns: _export_filename[1:].   *)
ExportUrlPath(upath, local) == Tail(ExportFile(upath, local))

VARIABLES upath, local

pvars == <<upath, local>>

Init == upath \in UrlPaths /\ local \in Strs(MaxLen)

Next == UNCHANGED pvars

Spec == Init /\ [][Next]_pvars

-----------------------------------------------------------------------------
(* The URL key_export() publishes names the file it wrote: dropping the   *)
(* first character of "./<dir>/jwks" leaves the absolute path "/<dir>/jwks"*)
(* where <dir> is the export directory "%s/%s" % (_path, local_path) with *)
(* one trailing "/".                                                       *)
ExportUrlNamesFile ==
    LET dir == (IF EndsWith(upath, <<"/">>) THEN SubSeq(upath, 1, Len(upath) - 1) ELSE upath)
               \o <<"/">> \o local
    IN  ExportUrlPath(upath, local) =
           (IF EndsWith(dir, <<"/">>) THEN dir ELSE Append(dir, "/")) \o <<"j", "w", "k", "s">>

(* proper_path's docstring: the result has the form "./" <path> "/", a    *)
(* directory relative to the working directory (key_setup puts the vault  *)
(* key pair "pyoidc" in it).                                               *)
ProperPathForm ==
    LET r == ProperPath(local) IN StartsWith(r, <<".", "/">>) /\ EndsWith(r, <<"/">>)

(* A path that starts with a dot but not with "./", and whose run of       *)
(* leading dots is not closed by a "/": ".", "..", ".a", "..a/".            *)
Mangled(p) ==
    /\ StartsWith(p, <<".">>)
    /\ ~StartsWith(p, <<".", "/">>)
    /\ ~\E m \in 1..Len(p) : p[m] = "/" /\ \A j \in 1..(m - 1) : p[j] = "."

(* Exactly the mangled paths lose the docstring's form: proper_path turns *)
(* every other path into "./" <path> "/", and every mangled one into a     *)
(* path outside the working directory's tree ("/" for "." and "..", "a/"  *)
(* for ".a"), because its loop strips all leading dots and puts one back  *)
(* only in front of a "/".                                                 *)
FormLostIffMangled == ProperPathForm <=> ~Mangled(local)

=============================================================================
