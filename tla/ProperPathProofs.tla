-------------------------- MODULE ProperPathProofs ---------------------------
(***************************************************************************)
(* Proofs about proper_path and key_export's URL for paths of any length: *)
(* the runs of ProperPath check them for paths of up to MaxLen characters. *)
(***************************************************************************)
EXTENDS ProperPath, WellFoundedInduction, TLAPS

(* The characters of the paths and of the file name "jwks".                *)
Alpha == Chars \cup {"j", "w", "k", "s"}

Str == Seq(Alpha)

(* Two sequences with the same length and the same elements are equal.    *)
LEMMA SeqEqual ==
    ASSUME NEW S, NEW s \in Seq(S), NEW t \in Seq(S),
           Len(s) = Len(t), \A i \in 1..Len(s) : s[i] = t[i]
    PROVE  s = t
BY SMT

(* A sequence of length 0 is the empty sequence.                          *)
LEMMA EmptyLen ==
    ASSUME NEW S, NEW s \in Seq(S), Len(s) = 0
    PROVE  s = <<>>
<1>1. <<>> \in Seq(S) /\ Len(s) = Len(<<>>)
  OBVIOUS
<1>2. \A i \in 1..Len(s) : s[i] = <<>>[i]
  OBVIOUS
<1>3. QED
  BY <1>1, <1>2, SeqEqual, Zenon

(* The prefix and suffix tests on one or two characters read the first or *)
(* last characters.                                                        *)
LEMMA StartsWith1 ==
    ASSUME NEW p \in Str, NEW c \in Alpha
    PROVE  StartsWith(p, <<c>>) <=> Len(p) >= 1 /\ p[1] = c
<1>1. ASSUME Len(p) >= 1 PROVE SubSeq(p, 1, 1) = <<p[1]>>
  <2>1. SubSeq(p, 1, 1) \in Seq(Alpha) /\ <<p[1]>> \in Seq(Alpha)
    BY <1>1 DEF Str
  <2>2. Len(SubSeq(p, 1, 1)) = Len(<<p[1]>>)
    BY <1>1 DEF Str
  <2>3. \A i \in 1..Len(SubSeq(p, 1, 1)) : SubSeq(p, 1, 1)[i] = <<p[1]>>[i]
    BY <1>1 DEF Str
  <2>4. QED
    BY <2>1, <2>2, <2>3, SeqEqual, Zenon
<1>2. ASSUME Len(p) >= 1 PROVE <<p[1]>> = <<c>> <=> p[1] = c
  OBVIOUS
<1>3. QED
  BY <1>1, <1>2 DEF StartsWith, Str

LEMMA StartsWith2 ==
    ASSUME NEW p \in Str, NEW c \in Alpha, NEW d \in Alpha
    PROVE  StartsWith(p, <<c, d>>) <=> Len(p) >= 2 /\ p[1] = c /\ p[2] = d
<1>1. ASSUME Len(p) >= 2 PROVE SubSeq(p, 1, 2) = <<p[1], p[2]>>
  <2>1. SubSeq(p, 1, 2) \in Seq(Alpha) /\ <<p[1], p[2]>> \in Seq(Alpha)
    BY <1>1 DEF Str
  <2>2. Len(SubSeq(p, 1, 2)) = Len(<<p[1], p[2]>>)
    BY <1>1 DEF Str
  <2>3. \A i \in 1..Len(SubSeq(p, 1, 2)) : SubSeq(p, 1, 2)[i] = <<p[1], p[2]>>[i]
    BY <1>1 DEF Str
  <2>4. QED
    BY <2>1, <2>2, <2>3, SeqEqual, Zenon
<1>2. ASSUME Len(p) >= 2 PROVE <<p[1], p[2]>> = <<c, d>> <=> p[1] = c /\ p[2] = d
  OBVIOUS
<1>3. QED
  BY <1>1, <1>2 DEF StartsWith, Str

LEMMA EndsWith1 ==
    ASSUME NEW p \in Str, NEW c \in Alpha
    PROVE  EndsWith(p, <<c>>) <=> Len(p) >= 1 /\ p[Len(p)] = c
<1>1. ASSUME Len(p) >= 1 PROVE SubSeq(p, Len(p), Len(p)) = <<p[Len(p)]>>
  <2>1. SubSeq(p, Len(p), Len(p)) \in Seq(Alpha) /\ <<p[Len(p)]>> \in Seq(Alpha)
    BY <1>1 DEF Str
  <2>2. Len(SubSeq(p, Len(p), Len(p))) = Len(<<p[Len(p)]>>)
    BY <1>1 DEF Str
  <2>3. \A i \in 1..Len(SubSeq(p, Len(p), Len(p))) :
           SubSeq(p, Len(p), Len(p))[i] = <<p[Len(p)]>>[i]
    BY <1>1 DEF Str
  <2>4. QED
    BY <2>1, <2>2, <2>3, SeqEqual, Zenon
<1>2. ASSUME Len(p) >= 1 PROVE <<p[Len(p)]>> = <<c>> <=> p[Len(p)] = c
  OBVIOUS
<1>3. EndsWith(p, <<c>>) <=> Len(p) >= 1 /\ SubSeq(p, Len(p), Len(p)) = <<c>>
  BY DEF EndsWith, Str
<1>4. QED
  BY <1>1, <1>2, <1>3

(* The paths the model enumerates are sequences over Alpha.                *)
LEMMA StrsType ==
    ASSUME NEW n \in Int
    PROVE  Strs(n) \subseteq Str
<1> SUFFICES ASSUME NEW k \in 0..n, NEW x \in [1..k -> Chars] PROVE x \in Seq(Alpha)
  BY DEF Strs, Str
<1>0. Chars \subseteq Alpha
  BY DEF Alpha
<1>1. x \in [1..k -> Alpha]
  BY <1>0
<1>2. QED
  BY <1>1

-----------------------------------------------------------------------------
(* key_export joins a baseurl path (empty, or starting with "/") with "/"  *)
(* and local_path, so proper_path sees a path starting with "/" and only   *)
(* prefixes it with "."; dropping that "." again gives back the joined     *)
(* path with one trailing "/".                                             *)
LEMMA RootedPath ==
    ASSUME NEW J \in Str, Len(J) >= 1, J[1] = "/"
    PROVE  Tail(ProperPath(J) \o <<"j", "w", "k", "s">>) =
              (IF EndsWith(J, <<"/">>) THEN J ELSE Append(J, "/")) \o <<"j", "w", "k", "s">>
<1> DEFINE W == <<"j", "w", "k", "s">>
<1>a. <<".">> \o J \in Str
  BY DEF Str, Alpha, Chars
<1>0. PICK DJ \in Str : DJ = <<".">> \o J
  BY <1>a
<1>1. ~StartsWith(J, <<".", "/">>) /\ StartsWith(J, <<"/">>) /\ ~StartsWith(J, <<".">>)
  BY StartsWith1, StartsWith2 DEF Alpha, Chars
<1>2. ProperPath(J) = IF EndsWith(DJ, <<"/">>) THEN DJ ELSE Append(DJ, "/")
  <2>1. ProperPrefix(J) = DJ
    BY <1>0, <1>1, Zenon DEF ProperPrefix
  <2>2. QED
    BY <2>1 DEF ProperPath
<1>3. Len(DJ) = Len(J) + 1 /\ DJ[Len(DJ)] = J[Len(J)]
  BY <1>0 DEF Str
<1>4. EndsWith(DJ, <<"/">>) <=> EndsWith(J, <<"/">>)
  <2>1. EndsWith(DJ, <<"/">>) <=> Len(DJ) >= 1 /\ DJ[Len(DJ)] = "/"
    BY EndsWith1 DEF Alpha, Chars
  <2>2. EndsWith(J, <<"/">>) <=> Len(J) >= 1 /\ J[Len(J)] = "/"
    BY EndsWith1 DEF Alpha, Chars
  <2>3. QED
    BY <1>3, <2>1, <2>2
<1>5. CASE EndsWith(J, <<"/">>)
  <2>1. Tail(DJ \o W) = J \o W
    BY <1>0 DEF Str
  <2>2. QED
    BY <1>2, <1>4, <1>5, <2>1
<1>6. CASE ~EndsWith(J, <<"/">>)
  <2>1. Tail(Append(DJ, "/") \o W) = Append(J, "/") \o W
    BY <1>0 DEF Str
  <2>2. QED
    BY <1>2, <1>4, <1>6, <2>1
<1>7. QED
  BY <1>5, <1>6

(* part.path without its trailing "/" is still empty or rooted.           *)
LEMMA BaseShape ==
    ASSUME NEW up \in Str, up = <<>> \/ up[1] = "/"
    PROVE  LET base == IF EndsWith(up, <<"/">>) THEN SubSeq(up, 1, Len(up) - 1) ELSE up
           IN  base \in Str /\ (base = <<>> \/ base[1] = "/")
<1>1. CASE EndsWith(up, <<"/">>)
  <2>1. Len(up) >= 1
    BY <1>1, EndsWith1 DEF Alpha, Chars
  <2>2. SubSeq(up, 1, Len(up) - 1) \in Str
    BY <2>1 DEF Str
  <2>3. Len(up) - 1 >= 1 => SubSeq(up, 1, Len(up) - 1)[1] = up[1]
    BY <2>1 DEF Str
  <2>4. Len(up) - 1 = 0 => SubSeq(up, 1, Len(up) - 1) = <<>>
    <3>1. Len(up) - 1 = 0 => Len(SubSeq(up, 1, Len(up) - 1)) = 0
      BY <2>1 DEF Str
    <3>2. QED
      BY <2>2, <3>1, EmptyLen DEF Str
  <2>5. up[1] = "/"
    BY <2>1
  <2>6. QED
    BY <1>1, <2>1, <2>2, <2>3, <2>4, <2>5
<1>2. CASE ~EndsWith(up, <<"/">>)
  BY <1>2
<1>3. QED
  BY <1>1, <1>2

(* key_export joins a baseurl path (empty, or starting with "/") with "/"  *)
(* and local_path, so proper_path sees a path starting with "/" and only   *)
(* prefixes it with "."; dropping that "." again gives back the joined     *)
(* path with one trailing "/".                                             *)
LEMMA ExportUrlLemma ==
    ASSUME NEW up \in Str, NEW lo \in Str, up = <<>> \/ up[1] = "/"
    PROVE  LET dir == (IF EndsWith(up, <<"/">>) THEN SubSeq(up, 1, Len(up) - 1) ELSE up)
                      \o <<"/">> \o lo
           IN  ExportUrlPath(up, lo) =
                  (IF EndsWith(dir, <<"/">>) THEN dir ELSE Append(dir, "/")) \o <<"j", "w", "k", "s">>
<1>1. PICK base \in Str : /\ base = IF EndsWith(up, <<"/">>) THEN SubSeq(up, 1, Len(up) - 1) ELSE up
                          /\ base = <<>> \/ base[1] = "/"
  BY BaseShape
<1>a. base \o <<"/">> \o lo \in Str
  BY DEF Str, Alpha, Chars
<1>2. PICK J \in Str : J = base \o <<"/">> \o lo
  BY <1>a
<1>3. Len(J) >= 1 /\ J[1] = "/"
  BY <1>1, <1>2 DEF Str
<1>4. ExportUrlPath(up, lo) = Tail(ProperPath(J) \o <<"j", "w", "k", "s">>)
  BY <1>1, <1>2 DEF ExportUrlPath, ExportFile, ExportDir
<1>5. QED
  BY <1>1, <1>2, <1>3, <1>4, RootedPath

(* The inputs the specification enumerates, and the fact that they are    *)
(* what the lemmas assume.                                                 *)
Inputs == upath \in UrlPaths /\ local \in Strs(MaxLen)

LEMMA InputsShape ==
    Inputs => /\ upath \in Str /\ (upath = <<>> \/ upath[1] = "/")
              /\ local \in Str
<1> SUFFICES ASSUME Inputs PROVE /\ upath \in Str /\ (upath = <<>> \/ upath[1] = "/")
                                  /\ local \in Str
  OBVIOUS
<1>1. local \in Str
  BY StrsType, MaxLenAssumption DEF Inputs
<1>2. CASE upath = <<>>
  BY <1>1, <1>2 DEF Str
<1>3. CASE upath # <<>>
  <2>1. PICK p \in Strs(MaxLen - 1) : upath = <<"/">> \o p
    BY <1>3 DEF Inputs, UrlPaths
  <2>2. p \in Str
    BY StrsType, MaxLenAssumption
  <2>3. QED
    BY <1>1, <2>1, <2>2 DEF Str, Alpha, Chars
<1>4. QED
  BY <1>1, <1>2, <1>3

(* The URL key_export() returns names the file it wrote, for baseurl paths *)
(* and local_path arguments of every length (ExportUrlNamesFile).          *)
THEOREM ExportUrlTheorem == Spec => []ExportUrlNamesFile
<1>1. Init => Inputs
  BY DEF Init, Inputs
<1>2. Inputs /\ [Next]_pvars => Inputs'
  BY DEF Inputs, Next, pvars
<1>3. Inputs => ExportUrlNamesFile
  BY InputsShape, ExportUrlLemma DEF ExportUrlNamesFile
<1>4. QED
  BY <1>1, <1>2, <1>3, PTL DEF Spec

-----------------------------------------------------------------------------
(* The loop "while path.startswith('.'): path = path[1:]" stops: the path  *)
(* has a number n of leading dots, the least index of a non-dot less one  *)
(* (WFMin on the naturals), and the loop leaves the rest after them.       *)
LEMMA LeadingDots ==
    ASSUME NEW p \in Str
    PROVE  \E n \in 0..Len(p) : /\ \A i \in 1..n : p[i] = "."
                                /\ n < Len(p) => p[n + 1] # "."
<1> DEFINE T == {i \in 1..Len(p) : p[i] # "."}
<1>1. CASE T = {}
  <2>1. /\ \A i \in 1..Len(p) : p[i] = "."
        /\ Len(p) < Len(p) => p[Len(p) + 1] # "."
    BY <1>1
  <2>2. Len(p) \in 0..Len(p)
    BY DEF Str
  <2>3. QED
    BY <2>1, <2>2
<1>2. CASE T # {}
  <2>0. T \subseteq Nat
    BY DEF Str
  <2>1. PICK m \in T : \A y \in T : ~(<<y, m>> \in OpToRel(<, Nat))
    <3>1. \E x \in T : \A y \in T : ~(<<y, x>> \in OpToRel(<, Nat))
      BY <1>2, <2>0, NatLessThanWellFounded, WFMin
    <3>2. QED
      BY <3>1
  <2>2. \A y \in T : ~(y < m)
    BY <2>0, <2>1 DEF OpToRel
  <2>3. /\ m - 1 \in 0..Len(p)
        /\ \A i \in 1..(m - 1) : p[i] = "."
        /\ m - 1 < Len(p) => p[m - 1 + 1] # "."
    BY <2>2 DEF Str
  <2>4. QED
    BY <2>3
<1>3. QED
  BY <1>1, <1>2

(* What the loop leaves: the path after its n leading dots, which does    *)
(* not start with a dot, and starts with "/" exactly when a "/" closes the *)
(* run of leading dots.                                                    *)
LEMMA StripDotsProps ==
    ASSUME NEW p \in Str
    PROVE  /\ StripDots(p) \in Str
           /\ StripDots(p) # <<>> => StripDots(p)[1] # "."
           /\ StartsWith(StripDots(p), <<"/">>) <=>
                 \E m \in 1..Len(p) : p[m] = "/" /\ \A j \in 1..(m - 1) : p[j] = "."
<1> DEFINE Good(k) == /\ \A i \in 1..k : p[i] = "."
                      /\ k < Len(p) => p[k + 1] # "."
<1>1. \E k \in 0..Len(p) : Good(k) /\ StripDots(p) = SubSeq(p, k + 1, Len(p))
  <2> DEFINE c == CHOOSE k \in 0..Len(p) : Good(k)
  <2>1. c \in 0..Len(p) /\ Good(c)
    BY LeadingDots
  <2>2. StripDots(p) = SubSeq(p, c + 1, Len(p))
    BY DEF StripDots
  <2>3. QED
    BY <2>1, <2>2
<1>2. PICK n \in 0..Len(p) : Good(n) /\ StripDots(p) = SubSeq(p, n + 1, Len(p))
  BY <1>1
<1>3. PICK q \in Str : q = SubSeq(p, n + 1, Len(p))
  <2>1. SubSeq(p, n + 1, Len(p)) \in Str
    BY <1>2 DEF Str
  <2>2. QED
    BY <2>1
<1>4. Len(q) = Len(p) - n /\ \A j \in 1..Len(q) : q[j] = p[n + j]
  BY <1>2, <1>3 DEF Str
<1>5. q # <<>> => q[1] # "."
  <2>1. q # <<>> => Len(q) >= 1
    BY EmptyLen
  <2>2. QED
    BY <1>2, <1>4, <2>1
<1>6. StartsWith(q, <<"/">>) <=> n < Len(p) /\ p[n + 1] = "/"
  <2>1. "/" \in Alpha
    BY DEF Alpha, Chars
  <2>2. StartsWith(q, <<"/">>) <=> Len(q) >= 1 /\ q[1] = "/"
    BY <2>1, StartsWith1
  <2>3. QED
    BY <1>2, <1>4, <2>2 DEF Str
<1>7. (n < Len(p) /\ p[n + 1] = "/") <=>
         \E m \in 1..Len(p) : p[m] = "/" /\ \A j \in 1..(m - 1) : p[j] = "."
  <2>1. ASSUME NEW m \in 1..Len(p), p[m] = "/", \A j \in 1..(m - 1) : p[j] = "."
        PROVE  n < Len(p) /\ p[n + 1] = "/"
    <3>1. m > n
      BY <1>2, <2>1
    <3>2. m = n + 1
      BY <1>2, <2>1, <3>1
    <3>3. QED
      BY <1>2, <2>1, <3>2
  <2>2. ASSUME n < Len(p), p[n + 1] = "/"
        PROVE  \E m \in 1..Len(p) : p[m] = "/" /\ \A j \in 1..(m - 1) : p[j] = "."
    <3>1. n + 1 \in 1..Len(p) /\ \A j \in 1..(n + 1 - 1) : p[j] = "."
      BY <1>2, <2>2
    <3>2. QED
      BY <2>2, <3>1
  <2>3. QED
    BY <2>1, <2>2
<1>8. QED
  BY <1>2, <1>3, <1>5, <1>6, <1>7


(* The trailing "/" proper_path adds keeps "./x" and turns "." into "./", *)
(* and it never makes the form of any other prefix.                        *)
LEMMA SlashForm ==
    ASSUME NEW P1 \in Str
    PROVE  LET r == IF EndsWith(P1, <<"/">>) THEN P1 ELSE Append(P1, "/")
           IN  (StartsWith(r, <<".", "/">>) /\ EndsWith(r, <<"/">>)) <=>
                  (StartsWith(P1, <<".", "/">>) \/ P1 = <<".">>)
<1> DEFINE r == IF EndsWith(P1, <<"/">>) THEN P1 ELSE Append(P1, "/")
<1>0. "." \in Alpha /\ "/" \in Alpha
  BY DEF Alpha, Chars
<1>1. P1 = <<".">> <=> Len(P1) = 1 /\ P1[1] = "."
  <2>1. ASSUME Len(P1) = 1, P1[1] = "." PROVE P1 = <<".">>
    <3>1. P1 \in Seq(Alpha) /\ <<".">> \in Seq(Alpha)
      BY <1>0 DEF Str
    <3>2. Len(P1) = Len(<<".">>)
      BY <2>1
    <3>3. \A i \in 1..Len(P1) : P1[i] = <<".">>[i]
      BY <2>1
    <3>4. QED
      BY <3>1, <3>2, <3>3, SeqEqual, Zenon
  <2>2. QED
    BY <2>1
<1>2. CASE EndsWith(P1, <<"/">>)
  <2>1. r = P1
    BY <1>2
  <2>2. P1 # <<".">>
    <3>1. Len(P1) >= 1 /\ P1[Len(P1)] = "/"
      BY <1>0, <1>2, EndsWith1
    <3>2. QED
      BY <1>1, <3>1
  <2>3. QED
    BY <1>2, <2>1, <2>2
<1>3. CASE ~EndsWith(P1, <<"/">>)
  <2>0. Append(P1, "/") \in Str
    BY <1>0 DEF Str
  <2>a. PICK A \in Str : A = Append(P1, "/")
    BY <2>0
  <2>b. /\ Len(A) = Len(P1) + 1
        /\ \A i \in 1..Len(P1) : A[i] = P1[i]
        /\ A[Len(P1) + 1] = "/"
    BY <2>a DEF Str
  <2>1. r = A
    BY <1>3, <2>a
  <2>2. EndsWith(A, <<"/">>)
    <3>1. Len(A) >= 1 /\ A[Len(A)] = "/"
      BY <2>a DEF Str
    <3>2. QED
      BY <1>0, <3>1, EndsWith1
  <2>3. StartsWith(A, <<".", "/">>) <=> Len(A) >= 2 /\ A[1] = "." /\ A[2] = "/"
    BY <1>0, StartsWith2
  <2>4. StartsWith(P1, <<".", "/">>) <=> Len(P1) >= 2 /\ P1[1] = "." /\ P1[2] = "/"
    BY <1>0, StartsWith2
  <2>5. (Len(A) >= 2 /\ A[1] = "." /\ A[2] = "/") <=>
           \/ Len(P1) >= 2 /\ P1[1] = "." /\ P1[2] = "/"
           \/ Len(P1) = 1 /\ P1[1] = "."
    <3>1. Len(P1) \in Nat
      BY DEF Str
    <3>2. CASE Len(P1) >= 2
      BY <2>b, <3>1, <3>2
    <3>3. CASE Len(P1) = 1
      BY <2>b, <3>1, <3>3
    <3>4. CASE Len(P1) = 0
      BY <2>b, <3>1, <3>4
    <3>5. Len(P1) >= 2 \/ Len(P1) = 1 \/ Len(P1) = 0
      <4>1. \A k \in Nat : k >= 2 \/ k = 1 \/ k = 0
        OBVIOUS
      <4>2. QED
        BY <3>1, <4>1, Zenon
    <3>6. QED
      BY <3>2, <3>3, <3>4, <3>5, Zenon
  <2>6. QED
    BY <1>1, <2>1, <2>2, <2>3, <2>4, <2>5
<1>4. QED
  BY <1>2, <1>3


(* Each branch of proper_path's if/elif chain gives a prefix "./x" or ".", *)
(* except the dot branch on a path whose leading dots no "/" closes.       *)
LEMMA PrefixForm ==
    ASSUME NEW p \in Str
    PROVE  /\ ProperPrefix(p) \in Str
           /\ (StartsWith(ProperPrefix(p), <<".", "/">>) \/ ProperPrefix(p) = <<".">>)
                 <=> ~Mangled(p)
<1> DEFINE G1 == StartsWith(p, <<".", "/">>)
           G2 == StartsWith(p, <<"/">>)
           G3 == StartsWith(p, <<".">>) /\ ~StartsWith(p, <<".", "/">>)
<1>0. "." \in Alpha /\ "/" \in Alpha
  BY DEF Alpha, Chars
<1>d. StartsWith(p, <<".">>) => ~G2
  BY <1>0, StartsWith1
<1>1. CASE G1
  <2>0. ~G2 /\ ~G3
    BY <1>0, <1>1, <1>d, StartsWith1, StartsWith2
  <2>1. ProperPrefix(p) = p
    BY <1>1, <2>0, Zenon DEF ProperPrefix
  <2>2. ~Mangled(p)
    BY <1>1 DEF Mangled
  <2>3. QED
    BY <1>1, <2>1, <2>2
<1>2. CASE G2
  <2>1. ~G1 /\ ~StartsWith(p, <<".">>) /\ Len(p) >= 1 /\ p[1] = "/"
    BY <1>0, <1>2, StartsWith1, StartsWith2
  <2>0. <<".">> \o p \in Str
    BY <1>0 DEF Str
  <2>a. PICK DP \in Str : DP = <<".">> \o p
    BY <2>0
  <2>2. ProperPrefix(p) = DP
    BY <1>2, <2>1, <2>a, Zenon DEF ProperPrefix
  <2>3. StartsWith(DP, <<".", "/">>)
    <3>1. Len(DP) >= 2 /\ DP[1] = "." /\ DP[2] = "/"
      BY <2>1, <2>a DEF Str
    <3>2. QED
      BY <1>0, <3>1, StartsWith2
  <2>4. ~Mangled(p)
    BY <2>1 DEF Mangled
  <2>5. QED
    BY <2>2, <2>3, <2>4
<1>3. CASE G3
  <2>1. ~G1 /\ ~G2
    BY <1>3, <1>d
  <2>0. StripDots(p) \in Str
    BY StripDotsProps
  <2>a. PICK q \in Str : q = StripDots(p)
    BY <2>0
  <2>2. ProperPrefix(p) = IF StartsWith(q, <<"/">>) THEN <<".">> \o q ELSE q
    BY <1>3, <2>1, <2>a, Zenon DEF ProperPrefix
  <2>3. /\ q # <<>> => q[1] # "."
        /\ StartsWith(q, <<"/">>) <=>
              \E m \in 1..Len(p) : p[m] = "/" /\ \A j \in 1..(m - 1) : p[j] = "."
    BY <2>a, StripDotsProps
  <2>4. Mangled(p) <=> ~StartsWith(q, <<"/">>)
    BY <1>3, <2>3 DEF Mangled
  <2>5. CASE StartsWith(q, <<"/">>)
    <3>1. Len(q) >= 1 /\ q[1] = "/"
      BY <1>0, <2>5, StartsWith1
    <3>0. <<".">> \o q \in Str
      BY <1>0 DEF Str
    <3>a. PICK DQ \in Str : DQ = <<".">> \o q
      BY <3>0
    <3>2. ProperPrefix(p) = DQ
      BY <2>2, <2>5, <3>a
    <3>3. StartsWith(DQ, <<".", "/">>)
      <4>1. Len(DQ) >= 2 /\ DQ[1] = "." /\ DQ[2] = "/"
        BY <3>1, <3>a DEF Str
      <4>2. QED
        BY <1>0, <4>1, StartsWith2
    <3>4. QED
      BY <2>4, <2>5, <3>2, <3>3
  <2>6. CASE ~StartsWith(q, <<"/">>)
    <3>1. ProperPrefix(p) = q
      BY <2>2, <2>6
    <3>2. ~StartsWith(q, <<".", "/">>)
      <4>1. StartsWith(q, <<".", "/">>) => Len(q) >= 2 /\ q[1] = "."
        BY <1>0, StartsWith2
      <4>2. Len(q) >= 2 => q # <<>>
        OBVIOUS
      <4>3. QED
        BY <2>3, <4>1, <4>2
    <3>3. q # <<".">>
      BY <2>3
    <3>4. QED
      BY <2>4, <2>6, <3>1, <3>2, <3>3
  <2>7. QED
    BY <2>5, <2>6
<1>4. CASE ~G1 /\ ~G2 /\ ~G3
  <2>0. <<".", "/">> \o p \in Str
    BY <1>0 DEF Str
  <2>a. PICK DP \in Str : DP = <<".", "/">> \o p
    BY <2>0
  <2>1. ProperPrefix(p) = DP
    BY <1>4, <2>a, Zenon DEF ProperPrefix
  <2>2. StartsWith(DP, <<".", "/">>)
    <3>1. Len(DP) >= 2 /\ DP[1] = "." /\ DP[2] = "/"
      BY <2>a DEF Str
    <3>2. QED
      BY <1>0, <3>1, StartsWith2
  <2>3. ~Mangled(p)
    BY <1>4 DEF Mangled
  <2>4. QED
    BY <2>1, <2>2, <2>3
<1>5. QED
  BY <1>1, <1>2, <1>3, <1>4

(* proper_path(local_path) has the docstring's form "./" <path> "/"       *)
(* exactly when local_path is not mangled.                                 *)
LEMMA FormLemma ==
    ASSUME NEW p \in Str
    PROVE  (LET r == ProperPath(p) IN StartsWith(r, <<".", "/">>) /\ EndsWith(r, <<"/">>))
              <=> ~Mangled(p)
<1>1. PICK P1 \in Str : P1 = ProperPrefix(p)
  BY PrefixForm
<1>2. ProperPath(p) = IF EndsWith(P1, <<"/">>) THEN P1 ELSE Append(P1, "/")
  BY <1>1 DEF ProperPath
<1>3. (StartsWith(P1, <<".", "/">>) \/ P1 = <<".">>) <=> ~Mangled(p)
  BY <1>1, PrefixForm
<1>4. QED
  BY <1>1, <1>2, <1>3, SlashForm

(* proper_path(local_path) loses the form its docstring promises for the  *)
(* mangled paths and for no other local_path, of every length             *)
(* (FormLostIffMangled).                                                   *)
THEOREM MangledTheorem == Spec => []FormLostIffMangled
<1>1. Init => Inputs
  BY DEF Init, Inputs
<1>2. Inputs /\ [Next]_pvars => Inputs'
  BY DEF Inputs, Next, pvars
<1>3. Inputs => FormLostIffMangled
  BY InputsShape, FormLemma DEF FormLostIffMangled, ProperPathForm
<1>4. QED
  BY <1>1, <1>2, <1>3, PTL DEF Spec

=============================================================================
