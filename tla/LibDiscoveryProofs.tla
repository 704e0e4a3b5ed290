-------------------------- MODULE LibDiscoveryProofs -------------------------
(***************************************************************************)
(* What the discovery of the library directories computes, proved for      *)
(* paths, lists and machines of every size.                                *)
(*                                                                         *)
(* Keep and Clean are recursive functions.  Each is first shown to run from *)
(* one position to the next (KeepSteps, CleanSteps); what it returns then  *)
(* follows by induction over the positions (UpTo).  The operators of the   *)
(* script and of Go follow in the order in which they use each other, up to *)
(* Discovered, which says what list comes out.                             *)
(***************************************************************************)
EXTENDS LibDiscovery, SequenceTheorems, TLAPS

WF == INSTANCE WellFoundedInduction

(* A set of numbers that is not empty has a least element. This is the      *)
(* induction the proofs below rest on: what the recursive functions of the  *)
(* discovery compute is shown for all inputs by the first position at which *)
(* it would fail.                                                           *)
LEMMA Least ==
  ASSUME NEW T \in SUBSET Nat, T # {}
  PROVE  \E n \in T : \A m \in T : n <= m
<1>1. WF!IsWellFoundedOn(WF!OpToRel(<, Nat), Nat)
  BY WF!NatLessThanWellFounded
<1>2. PICK n \in T : \A m \in T : ~(<<m, n>> \in WF!OpToRel(<, Nat))
  BY <1>1, WF!WFMin
<1>3. \A m \in T : ~(m < n)
  BY <1>2 DEF WF!OpToRel
<1>. QED  BY <1>3

(* What holds at 0 and passes from each number to the next holds up to n.   *)
LEMMA UpTo ==
  ASSUME NEW n \in Nat, NEW T, 0 \in T, \A k \in 1 .. n : k - 1 \in T => k \in T
  PROVE  \A k \in 0 .. n : k \in T
<1>. DEFINE Missed == {k \in Nat : k <= n /\ k \notin T}
<1>. SUFFICES ASSUME Missed # {} PROVE FALSE
  OBVIOUS
<1>1. PICK k \in Missed : \A l \in Missed : k <= l
  BY Least
<1>2. k \in 1 .. n
  BY <1>1
<1>3. k - 1 \in Nat /\ k - 1 <= n /\ k - 1 \notin Missed
  BY <1>1, <1>2
<1>. QED  BY <1>1, <1>2, <1>3

(* A function of the numbers up to n can be defined from one value to the next. *)
Follows(f, n, base, g) == f[0] = base /\ \A k \in 1 .. n : f[k] = g[f[k - 1]][k]

(* Such a function exists.                                                  *)
LEMMA Recursion ==
  ASSUME NEW n \in Nat, NEW D, NEW base \in D, NEW g \in [D -> [1 .. n -> D]]
  PROVE  \E f \in [0 .. n -> D] : Follows(f, n, base, g)
<1>. DEFINE Some == {m \in 0 .. n : \E f \in [0 .. m -> D] : Follows(f, m, base, g)}
<1>1. 0 \in Some
  <2>. DEFINE f == [k \in 0 .. 0 |-> base]
  <2>1. f \in [0 .. 0 -> D] /\ Follows(f, 0, base, g)
    BY DEF Follows
  <2>. HIDE DEF f
  <2>. QED  BY <2>1
<1>2. ASSUME NEW m \in 1 .. n, m - 1 \in Some PROVE m \in Some
  <2>1. PICK f \in [0 .. m - 1 -> D] : Follows(f, m - 1, base, g)
    BY <1>2
  <2>. DEFINE h == [k \in 0 .. m |-> IF k = m THEN g[f[m - 1]][m] ELSE f[k]]
  <2>2. m - 1 \in 0 .. m - 1 /\ f[m - 1] \in D /\ g[f[m - 1]][m] \in D
    OBVIOUS
  <2>3. h \in [0 .. m -> D]
    BY <2>2
  <2>4. Follows(h, m, base, g)
    <3>1. h[0] = base
      BY <2>1 DEF Follows
    <3>2. ASSUME NEW k \in 1 .. m PROVE h[k] = g[h[k - 1]][k]
      <4>1. CASE k = m
        <5>1. h[k] = g[f[m - 1]][m] /\ h[k - 1] = f[m - 1]
          BY <4>1
        <5>. QED  BY <4>1, <5>1
      <4>2. CASE k # m
        <5>1. h[k] = f[k] /\ h[k - 1] = f[k - 1] /\ k \in 1 .. m - 1
          BY <4>2
        <5>2. f[k] = g[f[k - 1]][k]
          BY <2>1, <5>1 DEF Follows
        <5>. HIDE DEF h
        <5>. QED  BY <5>1, <5>2
      <4>. QED  BY <4>1, <4>2
    <3>. QED  BY <3>1, <3>2 DEF Follows
  <2>. HIDE DEF h
  <2>. QED  BY <2>3, <2>4
<1>. HIDE DEF Some
<1>3. \A m \in 0 .. n : m \in Some
  BY <1>1, <1>2, UpTo
<1>. QED  BY <1>3 DEF Some

(* Keep runs through the sequence from the left.                            *)
LEMMA KeepSteps ==
  ASSUME NEW S, NEW s \in Seq(S), NEW T
  PROVE  \E f \in [0 .. Len(s) -> Seq(S)] :
            /\ f[0] = <<>>
            /\ \A k \in 1 .. Len(s) :
                  f[k] = IF s[k] \in T THEN Append(f[k - 1], s[k]) ELSE f[k - 1]
            /\ Keep(s, T) = f[Len(s)]
<1>. DEFINE n == Len(s)
            D == Seq(S)
            none == <<>>
            Step(d, k) == IF s[k] \in T THEN Append(d, s[k]) ELSE d
            g == [d \in D |-> [k \in 1 .. n |-> Step(d, k)]]
            Is(f) == f = [k \in 0 .. n |-> IF k = 0 THEN <<>> ELSE Step(f[k - 1], k)]
            keep == CHOOSE f : Is(f)
<1>1. n \in Nat /\ none \in D /\ g \in [D -> [1 .. n -> D]]
  OBVIOUS
<1>2. PICK f \in [0 .. n -> D] : Follows(f, n, none, g)
  <2>. HIDE DEF n, D, g, none
  <2>. QED  BY <1>1, Recursion
<1>3. ASSUME NEW k \in 1 .. n PROVE f[k] = Step(f[k - 1], k)
  <2>1. f[k - 1] \in D
    BY <1>1
  <2>. HIDE DEF n, D, Step
  <2>. QED  BY <1>2, <2>1 DEF Follows
<1>4. Is(f)
  <2>. HIDE DEF Step, n, D
  <2>1. f = [k \in 0 .. n |-> f[k]]
    OBVIOUS
  <2>2. \A k \in 0 .. n : f[k] = IF k = 0 THEN <<>> ELSE Step(f[k - 1], k)
    BY <1>1, <1>2, <1>3 DEF Follows
  <2>. QED  BY <2>1, <2>2, Zenon
<1>5. Is(keep)
  <2>. HIDE DEF Is
  <2>. QED  BY <1>4, Zenon
<1>6. Keep(s, T) = keep[n]
  BY Zenon DEF Keep
<1>7. keep[n] = f[n]
  <2>. DEFINE Same == {k \in 0 .. n : keep[k] = f[k]}
  <2>. HIDE DEF Step, n, keep
  <2>1. \A k \in 0 .. n : keep[k] = IF k = 0 THEN <<>> ELSE Step(keep[k - 1], k)
    BY <1>5, Zenon
  <2>2. 0 \in Same /\ \A k \in 1 .. n : k - 1 \in Same => k \in Same
    BY <1>1, <1>2, <1>3, <2>1 DEF Follows
  <2>3. \A k \in 0 .. n : k \in Same
    <3>. HIDE DEF Same
    <3>. QED  BY <1>1, <2>2, UpTo
  <2>. QED  BY <1>1, <2>3
<1>8. Keep(s, T) = f[n]
  BY <1>6, <1>7
<1>. HIDE DEF keep, g, Is
<1>. QED  BY <1>2, <1>3, <1>8 DEF Follows

-----------------------------------------------------------------------------
Among(x, s) == \E j \in 1 .. Len(s) : s[j] = x
Distinct(s) == \A i, j \in 1 .. Len(s) : s[i] = s[j] => i = j

(* Keep returns the elements that belong to the set, and no duplicates if   *)
(* there have been none.                                                    *)
LEMMA Kept ==
  ASSUME NEW S, NEW s \in Seq(S), NEW T
  PROVE  /\ Keep(s, T) \in Seq(S)
         /\ \A x : Among(x, Keep(s, T)) <=> Among(x, s) /\ x \in T
         /\ Distinct(s) => Distinct(Keep(s, T))
<1>1. PICK f : /\ f[0] = <<>>
               /\ \A k \in 1 .. Len(s) : f[k] = IF s[k] \in T THEN Append(f[k - 1], s[k]) ELSE f[k - 1]
               /\ Keep(s, T) = f[Len(s)]
  BY KeepSteps
<1>. DEFINE Before(x, k) == \E j \in 1 .. k : s[j] = x
            P(k) == /\ f[k] \in Seq(S)
                    /\ \A x : Among(x, f[k]) <=> x \in T /\ Before(x, k)
                    /\ Distinct(s) => Distinct(f[k])
            Good == {k \in 0 .. Len(s) : P(k)}
<1>2. Len(s) \in Nat
  OBVIOUS
<1>3. P(0)
  <2>1. Len(<<>>) = 0 /\ <<>> \in Seq(S)
    OBVIOUS
  <2>. QED  BY <1>1, <2>1 DEF Among, Distinct
<1>4. ASSUME NEW k \in 1 .. Len(s), P(k - 1) PROVE P(k)
  <2>0. \A x : Before(x, k) <=> Before(x, k - 1) \/ x = s[k]
    OBVIOUS
  <2>1. CASE s[k] \in T
    <3>. DEFINE q == f[k - 1]
    <3>0. q \in Seq(S) /\ s[k] \in S /\ f[k] = Append(q, s[k])
      <4>1. f[k] = Append(q, s[k])
        BY <1>1, <2>1
      <4>2. q \in Seq(S)
        BY <1>4
      <4>. QED  BY <4>1, <4>2
    <3>1. (\A x : Among(x, q) <=> x \in T /\ Before(x, k - 1)) /\ (Distinct(s) => Distinct(q))
      BY <1>4
    <3>. HIDE DEF q
    <3>2. /\ f[k] \in Seq(S) /\ Len(f[k]) = Len(q) + 1 /\ Len(q) \in Nat
          /\ f[k][Len(q) + 1] = s[k] /\ \A j \in 1 .. Len(q) : f[k][j] = q[j]
      BY <3>0
    <3>3. \A x : Among(x, f[k]) <=> Among(x, q) \/ x = s[k]
      BY <3>2 DEF Among
    <3>4. Distinct(s) => Distinct(f[k])
      <4>. SUFFICES ASSUME Distinct(s), NEW i \in 1 .. Len(f[k]), NEW j \in 1 .. Len(f[k]),
                           f[k][i] = f[k][j], i # j
                    PROVE  FALSE
        BY DEF Distinct
      <4>1. ~Among(s[k], q)
        BY <3>1 DEF Distinct
      <4>. QED  BY <3>1, <3>2, <4>1 DEF Distinct, Among
    <3>. HIDE DEF Before
    <3>5. \A x : Among(x, f[k]) <=> x \in T /\ Before(x, k)
      BY <2>0, <2>1, <3>1, <3>3
    <3>. QED  BY <3>2, <3>4, <3>5
  <2>2. CASE s[k] \notin T
    <3>. HIDE DEF Before
    <3>1. f[k] = f[k - 1]
      BY <1>1, <2>2
    <3>. QED  BY <1>4, <2>0, <2>2, <3>1
  <2>. QED  BY <2>1, <2>2
<1>. HIDE DEF P
<1>5. 0 \in Good /\ \A k \in 1 .. Len(s) : k - 1 \in Good => k \in Good
  BY <1>2, <1>3, <1>4
<1>. HIDE DEF Good
<1>6. \A k \in 0 .. Len(s) : k \in Good
  BY <1>2, <1>5, UpTo
<1>7. P(Len(s))
  BY <1>2, <1>6 DEF Good
<1>. QED  BY <1>1, <1>7 DEF P, Among

(* dedupePaths keeps every path once and adds none.                         *)
LEMMA Deduped ==
  ASSUME NEW S, NEW s \in Seq(S)
  PROVE  /\ dedupePaths(s) \in Seq(S) /\ Distinct(dedupePaths(s))
         /\ \A x : Among(x, dedupePaths(s)) <=> Among(x, s)
<1>. DEFINE positions == [i \in DOMAIN s |-> i]
            first == {i \in DOMAIN s : \A j \in 1 .. i - 1 : s[j] # s[i]}
            firsts == Keep(positions, first)
            paths == [k \in DOMAIN firsts |-> s[firsts[k]]]
<1>1. DOMAIN s = 1 .. Len(s) /\ Len(s) \in Nat
  OBVIOUS
<1>2. /\ positions \in Seq(1 .. Len(s)) /\ Len(positions) = Len(s)
      /\ \A i \in 1 .. Len(s) : positions[i] = i
  BY <1>1
<1>3. dedupePaths(s) = paths
  BY DEF dedupePaths
<1>4. /\ firsts \in Seq(1 .. Len(s)) /\ Distinct(firsts)
      /\ \A x : Among(x, firsts) <=> Among(x, positions) /\ x \in first
  <2>1. Distinct(positions)
    BY <1>2 DEF Distinct
  <2>. HIDE DEF positions, first
  <2>. QED  BY <1>2, <2>1, Kept
<1>5. \A x : Among(x, firsts) <=> x \in first
  BY <1>1, <1>2, <1>4 DEF Among
<1>. HIDE DEF positions, firsts
<1>6. /\ paths \in Seq(S) /\ Len(paths) = Len(firsts) /\ Len(firsts) \in Nat
      /\ \A k \in 1 .. Len(firsts) : paths[k] = s[firsts[k]] /\ firsts[k] \in first
  <2>1. DOMAIN firsts = 1 .. Len(firsts) /\ Len(firsts) \in Nat /\ \A k \in 1 .. Len(firsts) : firsts[k] \in 1 .. Len(s)
    BY <1>4
  <2>2. \A k \in 1 .. Len(firsts) : firsts[k] \in first
    BY <1>5 DEF Among
  <2>. QED  BY <2>1, <2>2
<1>7. Distinct(paths)
  <2>. SUFFICES ASSUME NEW k \in 1 .. Len(firsts), NEW l \in 1 .. Len(firsts), paths[k] = paths[l]
                PROVE  k = l
    BY <1>6 DEF Distinct
  <2>. DEFINE i == firsts[k]
              j == firsts[l]
  <2>1. i \in first /\ j \in first /\ s[i] = s[j]
    BY <1>6
  <2>2. i = j
    <3>. HIDE DEF i, j
    <3>. QED  BY <1>1, <2>1
  <2>. QED  BY <1>4, <2>2 DEF Distinct
<1>8. ASSUME NEW x, Among(x, s) PROVE Among(x, paths)
  <2>. DEFINE at == {i \in 1 .. Len(s) : s[i] = x}
  <2>1. PICK i \in at : \A j \in at : i <= j
    <3>1. at \in SUBSET Nat /\ at # {}
      BY <1>1, <1>8 DEF Among
    <3>. HIDE DEF at
    <3>. QED  BY <3>1, Least
  <2>2. i \in first
    BY <1>1, <2>1
  <2>3. PICK k \in 1 .. Len(firsts) : firsts[k] = i
    BY <1>5, <2>2 DEF Among
  <2>. HIDE DEF paths
  <2>. QED  BY <1>6, <2>1, <2>3 DEF Among
<1>9. ASSUME NEW x, Among(x, paths) PROVE Among(x, s)
  BY <1>1, <1>6, <1>9 DEF Among
<1>. HIDE DEF paths
<1>. QED  BY <1>3, <1>6, <1>7, <1>8, <1>9

-----------------------------------------------------------------------------
(* What Clean makes of the names it has and the next one. *)
CleanStep(path, d, k) ==
    CASE path[k] = "." -> d
      [] path[k] = ".." /\ d = <<"/">> -> d
      [] path[k] = ".." /\ d \notin {<<>>, <<"/">>} /\ Last(d) # ".." -> Front(d)
      [] OTHER -> Append(d, path[k])

(* A sequence without its last element.                                     *)
LEMMA FrontIs ==
  ASSUME NEW S, NEW d \in Seq(S), d # <<>>
  PROVE  /\ Front(d) \in Seq(S) /\ Len(d) \in Nat \ {0} /\ Len(Front(d)) = Len(d) - 1
         /\ \A j \in 1 .. Len(d) - 1 : Front(d)[j] = d[j]
<1>. DEFINE n == Len(d) - 1
<1>1. Len(d) \in Nat \ {0} /\ n \in Nat /\ \A j \in 1 .. n : d[j] \in S
  BY EmptySeq
<1>. HIDE DEF n
<1>2. /\ SubSeq(d, 1, n) \in Seq(S)
      /\ Len(SubSeq(d, 1, n)) = IF 1 <= n THEN n - 1 + 1 ELSE 0
      /\ \A j \in 1 .. n - 1 + 1 : SubSeq(d, 1, n)[j] = d[1 + j - 1]
  BY <1>1, SubSeqProperties
<1>3. Len(SubSeq(d, 1, n)) = n /\ \A j \in 1 .. n : SubSeq(d, 1, n)[j] = d[j]
  <2>1. n - 1 + 1 = n /\ \A j \in 1 .. n : 1 + j - 1 = j
    BY <1>1
  <2>. QED  BY <1>1, <1>2, <2>1
<1>. QED  BY <1>1, <1>2, <1>3 DEF Front, n

(* A step of Clean makes a sequence of names.                               *)
LEMMA CleanStepType ==
  ASSUME NEW S, NEW path \in Seq(S), NEW d \in Seq(S), NEW k \in 1 .. Len(path)
  PROVE  CleanStep(path, d, k) \in Seq(S)
<1>1. path[k] \in S /\ Append(d, path[k]) \in Seq(S)
  OBVIOUS
<1>2. d # <<>> => Front(d) \in Seq(S)
  BY FrontIs
<1>. QED  BY <1>1, <1>2 DEF CleanStep

(* Clean runs through the path from the left.                               *)
LEMMA CleanSteps ==
  ASSUME NEW S, NEW path \in Seq(S)
  PROVE  \E f \in [0 .. Len(path) -> Seq(S)] :
            /\ f[0] = <<>>
            /\ \A k \in 1 .. Len(path) : f[k] = CleanStep(path, f[k - 1], k)
            /\ Clean(path) = f[Len(path)]
<1>. DEFINE n == Len(path)
            D == Seq(S)
            none == <<>>
            g == [d \in D |-> [k \in 1 .. n |-> CleanStep(path, d, k)]]
            Is(f) == f = [k \in 0 .. n |-> IF k = 0 THEN <<>> ELSE CleanStep(path, f[k - 1], k)]
            clean == CHOOSE f : Is(f)
<1>1. n \in Nat /\ none \in D /\ g \in [D -> [1 .. n -> D]]
  BY CleanStepType
<1>2. PICK f \in [0 .. n -> D] : Follows(f, n, none, g)
  <2>. HIDE DEF n, D, g, none
  <2>. QED  BY <1>1, Recursion
<1>3. ASSUME NEW k \in 1 .. n PROVE f[k] = CleanStep(path, f[k - 1], k)
  <2>. HIDE DEF n, D
  <2>1. f[k - 1] \in D
    BY <1>1
  <2>. QED  BY <1>2, <2>1 DEF Follows
<1>4. Is(f)
  <2>. HIDE DEF n, D
  <2>1. f = [k \in 0 .. n |-> f[k]]
    OBVIOUS
  <2>2. \A k \in 0 .. n : f[k] = IF k = 0 THEN <<>> ELSE CleanStep(path, f[k - 1], k)
    BY <1>1, <1>2, <1>3 DEF Follows
  <2>. QED  BY <2>1, <2>2, Zenon
<1>5. Is(clean)
  <2>. HIDE DEF Is
  <2>. QED  BY <1>4, Zenon
<1>6. Clean(path) = clean[n]
  BY Zenon DEF Clean, CleanStep
<1>7. clean[n] = f[n]
  <2>. DEFINE Same == {k \in 0 .. n : clean[k] = f[k]}
  <2>. HIDE DEF n, clean
  <2>1. \A k \in 0 .. n : clean[k] = IF k = 0 THEN <<>> ELSE CleanStep(path, clean[k - 1], k)
    BY <1>5, Zenon
  <2>2. 0 \in Same /\ \A k \in 1 .. n : k - 1 \in Same => k \in Same
    BY <1>1, <1>2, <1>3, <2>1 DEF Follows
  <2>3. \A k \in 0 .. n : k \in Same
    <3>. HIDE DEF Same
    <3>. QED  BY <1>1, <2>2, UpTo
  <2>. QED  BY <1>1, <2>3
<1>8. Clean(path) = f[n]
  BY <1>6, <1>7
<1>. HIDE DEF clean, g, Is
<1>. QED  BY <1>2, <1>3, <1>8 DEF Follows

(* What Clean leaves: no ".", and ".." only in front. *)
Normal(d) == \A j \in 1 .. Len(d) : d[j] # "." /\ (d[j] = ".." => j = 1 \/ d[j - 1] = "..")

(* The "/" of an absolute path stays in front, and none is put anywhere. *)
Rooted(d, root) == IF root THEN d # <<>> /\ d[1] = "/" ELSE d = <<>> \/ d[1] # "/"

(* The path of one name "/" is the root.                                    *)
LEMMA OneName ==
  ASSUME NEW S, NEW d \in Seq(S), Len(d) = 1, d[1] = "/"
  PROVE  d = <<"/">>
OBVIOUS

(* No step of Clean destroys this.                                          *)
LEMMA CleanStepKeeps ==
  ASSUME NEW path \in Path, NEW d \in Path, Normal(d), NEW k \in 1 .. Len(path),
         k # 1 => Rooted(d, IsAbs(path)), k = 1 => d = <<>>
  PROVE  LET e == CleanStep(path, d, k)
         IN  e \in Path /\ Normal(e) /\ Rooted(e, IsAbs(path))
<1>. DEFINE e == CleanStep(path, d, k)
<1>. SUFFICES e \in Path /\ Normal(e) /\ Rooted(e, IsAbs(path))
  OBVIOUS
<1>1. d \in Seq(STRING) /\ Len(d) \in Nat /\ path \in Seq(STRING) /\ path[k] \in STRING /\ path # <<>>
  BY DEF Path
<1>2. CASE e = d
  <2>1. CASE k = 1
    <3>1. path[1] = "." \/ path[1] = ".."
      BY <1>2, <2>1, <1>1 DEF CleanStep
    <3>. QED BY <1>2, <2>1, <3>1 DEF Rooted, IsAbs, NoPath
  <2>. QED  BY <1>2, <2>1
<1>3. CASE d \notin {<<>>, <<"/">>} /\ path[k] = ".." /\ e = Front(d)
  <2>1. /\ e \in Seq(STRING) /\ Len(d) \in Nat \ {0} /\ Len(e) = Len(d) - 1
        /\ \A j \in 1 .. Len(d) - 1 : e[j] = d[j]
    BY <1>1, <1>3, FrontIs
  <2>. HIDE DEF e
  <2>2. e \in Path /\ Normal(e)
    <3>1. e \in Path
      BY <2>1 DEF Path
    <3>2. ASSUME NEW j \in 1 .. Len(e) PROVE e[j] # "." /\ (e[j] = ".." => j = 1 \/ e[j - 1] = "..")
      <4>1. e[j] = d[j] /\ (j # 1 => e[j - 1] = d[j - 1]) /\ j \in 1 .. Len(d)
        BY <2>1
      <4>. QED  BY <4>1 DEF Normal
    <3>. QED  BY <3>1, <3>2 DEF Normal
  <2>3. Rooted(e, IsAbs(path))
    <3>1. k # 1 /\ Rooted(d, IsAbs(path))
      BY <1>3
    <3>2. d[1] = "/" => Len(d) # 1
      BY <1>1, <1>3, OneName
    <3>. QED  BY <2>1, <3>1, <3>2 DEF Rooted
  <2>. QED  BY <2>2, <2>3
<1>4. CASE /\ e = Append(d, path[k]) /\ path[k] # "."
           /\ path[k] = ".." => d = <<>> \/ (d # <<"/">> /\ Last(d) = "..")
  <2>1. /\ e \in Seq(STRING) /\ Len(e) = Len(d) + 1 /\ e[Len(d) + 1] = path[k]
        /\ \A j \in 1 .. Len(d) : e[j] = d[j]
    BY <1>1, <1>4
  <2>2. d = <<>> <=> Len(d) = 0
    BY <1>1
  <2>. HIDE DEF e
  <2>3. k # 1 => path[k] # "/"
    BY DEF Path
  <2>4. e \in Path
    BY <1>1, <2>1, <2>2, <2>3 DEF Path, Rooted
  <2>5. Normal(e)
    BY <1>1, <1>4, <2>1, <2>2 DEF Normal, Last
  <2>6. Rooted(e, IsAbs(path))
    BY <1>1, <1>4, <2>1, <2>2, <2>3 DEF Rooted, IsAbs, NoPath
  <2>. QED  BY <2>4, <2>5, <2>6
<1>5. \/ e = d
      \/ d \notin {<<>>, <<"/">>} /\ path[k] = ".." /\ e = Front(d)
      \/ /\ e = Append(d, path[k]) /\ path[k] # "."
         /\ path[k] = ".." => d = <<>> \/ (d # <<"/">> /\ Last(d) = "..")
  BY DEF CleanStep
<1>. QED  BY <1>2, <1>3, <1>4, <1>5

(* Clean gives a path without ".", with ".." in front only, which is        *)
(* absolute if the given one is.                                            *)
LEMMA CleanIsNormal ==
  ASSUME NEW path \in Path
  PROVE  Clean(path) \in Path /\ Normal(Clean(path)) /\ Rooted(Clean(path), IsAbs(path))
<1>0. path \in Seq(STRING) /\ Len(path) \in Nat
  BY DEF Path
<1>1. PICK f \in [0 .. Len(path) -> Seq(STRING)] :
         /\ f[0] = <<>>
         /\ \A k \in 1 .. Len(path) : f[k] = CleanStep(path, f[k - 1], k)
         /\ Clean(path) = f[Len(path)]
  BY <1>0, CleanSteps
<1>. DEFINE P(k) == /\ f[k] \in Path /\ Normal(f[k])
                    /\ (k # 0 => Rooted(f[k], IsAbs(path)))
            Good == {k \in 0 .. Len(path) : P(k)}
<1>2. P(0)
  <2>1. <<>> \in Seq(STRING) /\ Len(<<>>) = 0
    OBVIOUS
  <2>. QED  BY <1>1, <2>1 DEF Path, Normal
<1>3. ASSUME NEW k \in 1 .. Len(path), P(k - 1) PROVE P(k)
  <2>. DEFINE d == f[k - 1]
  <2>1. /\ d \in Path /\ Normal(d) /\ (k # 1 => Rooted(d, IsAbs(path)))
        /\ (k = 1 => d = <<>>) /\ f[k] = CleanStep(path, d, k)
    BY <1>1, <1>3
  <2>. HIDE DEF d
  <2>. QED  BY <2>1, CleanStepKeeps
<1>. HIDE DEF P
<1>4. 0 \in Good /\ \A k \in 1 .. Len(path) : k - 1 \in Good => k \in Good
  BY <1>0, <1>2, <1>3
<1>. HIDE DEF Good
<1>5. \A k \in 0 .. Len(path) : k \in Good
  BY <1>0, <1>4, UpTo
<1>6. P(Len(path))
  BY <1>0, <1>5 DEF Good
<1>7. CASE Len(path) # 0
  BY <1>1, <1>6, <1>7 DEF P
<1>8. CASE Len(path) = 0
  <2>1. path = <<>>
    BY <1>0, <1>8
  <2>2. Rooted(f[0], IsAbs(path))
    BY <1>1, <2>1 DEF Rooted, IsAbs, NoPath
  <2>. QED  BY <1>1, <1>6, <1>8, <2>2 DEF P
<1>. QED  BY <1>7, <1>8

(* Clean makes no path absolute and none relative.                          *)
LEMMA CleanAbs ==
  ASSUME NEW path \in Path
  PROVE  IsAbs(Clean(path)) <=> IsAbs(path)
BY CleanIsNormal DEF Rooted, IsAbs, NoPath

(* One element more.                                                        *)
LEMMA Longer ==
  ASSUME NEW S, NEW s \in Seq(S), NEW k \in 1 .. Len(s)
  PROVE  SubSeq(s, 1, k) = Append(SubSeq(s, 1, k - 1), s[k])
BY SubSeqRecursiveSecond

(* Clean leaves a path as it is that has nothing to be cleaned.             *)
LEMMA CleanOfNormal ==
  ASSUME NEW path \in Path, Normal(path)
  PROVE  Clean(path) = path
<1>0. path \in Seq(STRING) /\ Len(path) \in Nat
  BY DEF Path
<1>1. PICK f \in [0 .. Len(path) -> Seq(STRING)] :
         /\ f[0] = <<>>
         /\ \A k \in 1 .. Len(path) : f[k] = CleanStep(path, f[k - 1], k)
         /\ Clean(path) = f[Len(path)]
  BY <1>0, CleanSteps
<1>. DEFINE Good == {k \in 0 .. Len(path) : f[k] = SubSeq(path, 1, k)}
<1>2. 0 \in Good
  <2>1. SubSeq(path, 1, 0) = <<>>
    BY SubSeqEmpty
  <2>. QED  BY <1>0, <1>1, <2>1
<1>3. ASSUME NEW k \in 1 .. Len(path), k - 1 \in Good PROVE k \in Good
  <2>. DEFINE d == f[k - 1]
  <2>1. d = SubSeq(path, 1, k - 1) /\ f[k] = CleanStep(path, d, k)
    BY <1>1, <1>3
  <2>2. /\ Len(d) = k - 1 /\ \A j \in 1 .. k - 1 : d[j] = path[j]
        /\ d \in Seq(STRING)
    <3>. DEFINE n == k - 1
    <3>1. n \in Nat /\ \A j \in 1 .. n : path[j] \in STRING
      BY <1>0
    <3>. HIDE DEF n
    <3>2. /\ SubSeq(path, 1, n) \in Seq(STRING)
          /\ Len(SubSeq(path, 1, n)) = IF 1 <= n THEN n - 1 + 1 ELSE 0
          /\ \A j \in 1 .. n - 1 + 1 : SubSeq(path, 1, n)[j] = path[1 + j - 1]
      BY <3>1, SubSeqProperties
    <3>3. n - 1 + 1 = n /\ \A j \in 1 .. n : 1 + j - 1 = j
      BY <3>1
    <3>4. Len(SubSeq(path, 1, n)) = n /\ \A j \in 1 .. n : SubSeq(path, 1, n)[j] = path[j]
      BY <3>1, <3>2, <3>3
    <3>5. d = SubSeq(path, 1, n)
      BY <2>1 DEF n
    <3>. HIDE DEF d
    <3>. QED  BY <3>1, <3>2, <3>4, <3>5 DEF n
  <2>. HIDE DEF d
  <2>3. path[k] # "." /\ (path[k] = ".." => d = <<>> \/ (d # <<"/">> /\ Last(d) = ".."))
    <3>1. path[k] # "." /\ (path[k] = ".." => k = 1 \/ path[k - 1] = "..")
      BY DEF Normal
    <3>2. k = 1 => d = <<>>
      BY <2>2
    <3>3. k # 1 /\ path[k - 1] = ".." => Last(d) = ".." /\ d # <<"/">>
      <4>. SUFFICES ASSUME k # 1, path[k - 1] = ".." PROVE Last(d) = ".." /\ d # <<"/">>
        OBVIOUS
      <4>1. Last(d) = ".." /\ d[k - 1] = ".." /\ Len(d) = k - 1
        BY <2>2 DEF Last
      <4>. QED  BY <4>1
    <3>. QED  BY <3>1, <3>2, <3>3
  <2>4. f[k] = Append(d, path[k])
    BY <2>1, <2>3 DEF CleanStep
  <2>5. f[k] = SubSeq(path, 1, k)
    BY <1>0, <2>1, <2>4, Longer
  <2>. QED  BY <2>5
<1>. HIDE DEF Good
<1>4. \A k \in 0 .. Len(path) : k \in Good
  BY <1>0, <1>2, <1>3, UpTo
<1>5. Clean(path) = SubSeq(path, 1, Len(path))
  BY <1>0, <1>1, <1>4 DEF Good
<1>. QED  BY <1>0, <1>5, SubSeqFull

(* Therefore filepath.Clean of what os.path.normpath has made changes       *)
(* nothing: the script and Go name a path alike.                            *)
THEOREM CleanOnce ==
  ASSUME NEW path \in Path
  PROVE  Clean(Clean(path)) = Clean(path)
BY CleanIsNormal, CleanOfNormal

-----------------------------------------------------------------------------
(* What Go makes of a result. *)

(* A path the sandbox can be given: clean, absolute, and there. *)
Usable(h, p) == p \in Path /\ IsAbs(p) /\ p \in DOMAIN h.files /\ Clean(p) = p

(* normalizeAbsolutePath gives a clean path that exists, or none.           *)
LEMMA NormalizedPath ==
  ASSUME NEW h, NEW p \in Path
  PROVE  LET n == normalizeAbsolutePath(h, p)
         IN  /\ n \in Path
             /\ n # NoPath <=> IsAbs(p) /\ Clean(p) \in DOMAIN h.files
             /\ n # NoPath => n = Clean(p) /\ Usable(h, n)
<1>1. NoPath \in Path
  BY DEF NoPath, Path
<1>2. Clean(p) \in Path /\ Clean(Clean(p)) = Clean(p) /\ (IsAbs(Clean(p)) <=> IsAbs(p))
  BY CleanIsNormal, CleanOnce, CleanAbs
<1>3. IsAbs(Clean(p)) => Clean(p) # NoPath
  BY DEF IsAbs
<1>. QED  BY <1>1, <1>2, <1>3 DEF normalizeAbsolutePath, Usable

(* normalize_existing gives a clean path, or none.                          *)
LEMMA ExistingPath ==
  ASSUME NEW h, NEW p \in Path
  PROVE  LET n == normalize_existing(h, p)
         IN  /\ n \in Path
             /\ n # NoPath <=> IsAbs(p) /\ p \in DOMAIN h.files
             /\ n # NoPath => n = Clean(p) /\ IsAbs(n) /\ Clean(n) = n
<1>1. NoPath \in Path
  BY DEF NoPath, Path
<1>2. Clean(p) \in Path /\ Clean(Clean(p)) = Clean(p) /\ (IsAbs(Clean(p)) <=> IsAbs(p))
  BY CleanIsNormal, CleanOnce, CleanAbs
<1>3. IsAbs(Clean(p)) => Clean(p) # NoPath
  BY DEF IsAbs
<1>. QED  BY <1>1, <1>2, <1>3 DEF normalize_existing

(* Present drops the empty paths and nothing else.                          *)
LEMMA PresentOnes ==
  ASSUME NEW S, NEW s \in Seq(S)
  PROVE  /\ Present(s) \in Seq(S)
         /\ \A x : Among(x, Present(s)) <=> Among(x, s) /\ x # NoPath
<1>1. \A x : x \in ToSet(s) <=> Among(x, s)
  BY DEF ToSet, Among
<1>2. /\ Keep(s, ToSet(s) \ {NoPath}) \in Seq(S)
      /\ \A x : Among(x, Keep(s, ToSet(s) \ {NoPath})) <=> Among(x, s) /\ x \in ToSet(s) \ {NoPath}
  BY Kept
<1>. QED  BY <1>1, <1>2 DEF Present

(* What a concatenation holds.                                              *)
LEMMA Joined ==
  ASSUME NEW S, NEW s \in Seq(S), NEW t \in Seq(S)
  PROVE  s \o t \in Seq(S) /\ \A x : Among(x, s \o t) <=> Among(x, s) \/ Among(x, t)
<1>1. /\ s \o t \in Seq(S) /\ Len(s \o t) = Len(s) + Len(t) /\ Len(s) \in Nat /\ Len(t) \in Nat
      /\ \A i \in 1 .. Len(s) + Len(t) : (s \o t)[i] = IF i <= Len(s) THEN s[i] ELSE t[i - Len(s)]
  BY ConcatProperties
<1>2. ASSUME NEW x, Among(x, t) PROVE Among(x, s \o t)
  <2>1. PICK j \in 1 .. Len(t) : t[j] = x
    BY <1>2 DEF Among
  <2>2. (s \o t)[j + Len(s)] = x /\ j + Len(s) \in 1 .. Len(s) + Len(t)
    BY <1>1, <2>1
  <2>. QED  BY <1>1, <2>2 DEF Among
<1>3. ASSUME NEW x, Among(x, s) PROVE Among(x, s \o t)
  BY <1>1, <1>3 DEF Among
<1>4. ASSUME NEW x, Among(x, s \o t) PROVE Among(x, s) \/ Among(x, t)
  <2>1. PICK j \in 1 .. Len(s) + Len(t) : (s \o t)[j] = x
    BY <1>1, <1>4 DEF Among
  <2>2. CASE j <= Len(s)
    BY <1>1, <2>1, <2>2 DEF Among
  <2>3. CASE j > Len(s)
    <3>1. j - Len(s) \in 1 .. Len(t) /\ t[j - Len(s)] = x
      BY <1>1, <2>1, <2>3
    <3>. QED  BY <3>1 DEF Among
  <2>. QED  BY <1>1, <2>2, <2>3
<1>. QED  BY <1>1, <1>2, <1>3, <1>4

(* What is left of a list when all its paths have been normalised by Go ... *)
LEMMA NormalizedOnes ==
  ASSUME NEW h, NEW s \in Seq(Path)
  PROVE  /\ Normalized(h, s) \in Seq(Path)
         /\ \A x : Among(x, Normalized(h, s)) <=>
               x # NoPath /\ \E p \in Path : Among(p, s) /\ x = normalizeAbsolutePath(h, p)
<1>. DEFINE all == [k \in DOMAIN s |-> normalizeAbsolutePath(h, s[k])]
<1>1. all \in Seq(Path) /\ Len(all) = Len(s) /\ \A k \in 1 .. Len(s) : all[k] = normalizeAbsolutePath(h, s[k])
  <2>1. DOMAIN s = 1 .. Len(s) /\ Len(s) \in Nat /\ \A k \in 1 .. Len(s) : s[k] \in Path
    OBVIOUS
  <2>2. \A k \in 1 .. Len(s) : normalizeAbsolutePath(h, s[k]) \in Path
    BY <2>1, NormalizedPath
  <2>. QED  BY <2>1, <2>2
<1>2. Normalized(h, s) = Present(all)
  BY DEF Normalized
<1>. HIDE DEF all
<1>3. \A x : Among(x, all) <=> \E p \in Path : Among(p, s) /\ x = normalizeAbsolutePath(h, p)
  BY <1>1 DEF Among
<1>4. Present(all) \in Seq(Path) /\ \A x : Among(x, Present(all)) <=> Among(x, all) /\ x # NoPath
  BY <1>1, PresentOnes
<1>. QED  BY <1>2, <1>3, <1>4

(* ... and by the script.                                                   *)
LEMMA LocatedOnes ==
  ASSUME NEW h, NEW s \in Seq(Path)
  PROVE  /\ Located(h, s) \in Seq(Path)
         /\ \A x : Among(x, Located(h, s)) <=>
               x # NoPath /\ \E p \in Path : Among(p, s) /\ x = normalize_existing(h, p)
<1>. DEFINE all == [k \in DOMAIN s |-> normalize_existing(h, s[k])]
<1>1. all \in Seq(Path) /\ Len(all) = Len(s) /\ \A k \in 1 .. Len(s) : all[k] = normalize_existing(h, s[k])
  <2>1. DOMAIN s = 1 .. Len(s) /\ Len(s) \in Nat /\ \A k \in 1 .. Len(s) : s[k] \in Path
    OBVIOUS
  <2>2. \A k \in 1 .. Len(s) : normalize_existing(h, s[k]) \in Path
    BY <2>1, ExistingPath
  <2>. QED  BY <2>1, <2>2
<1>2. Located(h, s) = Present(all)
  BY DEF Located
<1>. HIDE DEF all
<1>3. \A x : Among(x, all) <=> \E p \in Path : Among(p, s) /\ x = normalize_existing(h, p)
  BY <1>1 DEF Among
<1>4. Present(all) \in Seq(Path) /\ \A x : Among(x, Present(all)) <=> Among(x, all) /\ x # NoPath
  BY <1>1, PresentOnes
<1>. QED  BY <1>2, <1>3, <1>4

(* A result of the script. *)
IsResult(result) ==
    /\ result.Stdlib \in Path /\ result.Platstdlib \in Path /\ result.JSONRoot \in Path
    /\ result.StdlibZipPaths \in Seq(Path) /\ result.Paths \in Seq(Path)

(* Where json may come from. *)
AllowedRoot(result, p) ==
    p = result.Stdlib \/ p = result.Platstdlib \/ Among(p, result.StdlibZipPaths)

(* What the list is made from. *)
Candidate(result, systemPaths, p) ==
    \/ AllowedRoot(result, p) \/ p = result.JSONRoot
    \/ Among(p, result.Paths) \/ Among(p, systemPaths)

(* buildPythonLibPaths accepts a result exactly if the standard library     *)
(* exists and the root of json exists and is one of the allowed ones; then  *)
(* the list has every candidate that exists, once.                          *)
LEMMA Built ==
  ASSUME NEW h, NEW result, IsResult(result), NEW systemPaths \in Seq(Path)
  PROVE  LET N(p) == normalizeAbsolutePath(h, p)
             list == buildPythonLibPaths(h, result, systemPaths)
         IN  /\ list # <<>> <=>
                  /\ N(result.Stdlib) # NoPath /\ N(result.JSONRoot) # NoPath
                  /\ \E p \in Path : AllowedRoot(result, p) /\ N(p) = N(result.JSONRoot)
                  /\ isCanonicalJSONRelativePath(result.JSONRelativePath)
             /\ list # <<>> =>
                  /\ list \in Seq(Path) /\ Distinct(list)
                  /\ \A x : Among(x, list) <=>
                        x # NoPath /\ \E p \in Path : Candidate(result, systemPaths, p) /\ x = N(p)
<1>. DEFINE N(p) == normalizeAbsolutePath(h, p)
            heads == <<result.Stdlib, result.Platstdlib>> \o result.StdlibZipPaths
            allowed == dedupePaths(Normalized(h, heads))
            root == N(result.JSONRoot)
            all == allowed \o <<root>> \o Normalized(h, result.Paths) \o Normalized(h, systemPaths)
            paths == dedupePaths(all)
            list == buildPythonLibPaths(h, result, systemPaths)
<1>1. heads \in Seq(Path) /\ \A p : Among(p, heads) <=> AllowedRoot(result, p)
  <2>. DEFINE two == <<result.Stdlib, result.Platstdlib>>
  <2>1. two \in Seq(Path) /\ \A p : Among(p, two) <=> p = result.Stdlib \/ p = result.Platstdlib
    BY DEF IsResult, Among
  <2>. HIDE DEF two
  <2>2. two \o result.StdlibZipPaths \in Seq(Path)
        /\ \A p : Among(p, two \o result.StdlibZipPaths) <=> Among(p, two) \/ Among(p, result.StdlibZipPaths)
    BY <2>1, Joined DEF IsResult
  <2>. QED  BY <2>1, <2>2 DEF two, AllowedRoot
<1>. HIDE DEF heads
<1>2. /\ allowed \in Seq(Path)
      /\ \A x : Among(x, allowed) <=> x # NoPath /\ \E p \in Path : AllowedRoot(result, p) /\ x = N(p)
  <2>1. /\ Normalized(h, heads) \in Seq(Path)
        /\ \A x : Among(x, Normalized(h, heads)) <=>
               x # NoPath /\ \E p \in Path : Among(p, heads) /\ x = normalizeAbsolutePath(h, p)
    BY <1>1, NormalizedOnes
  <2>2. allowed \in Seq(Path) /\ \A x : Among(x, allowed) <=> Among(x, Normalized(h, heads))
    BY <2>1, Deduped
  <2>. QED  BY <1>1, <2>1, <2>2
<1>. HIDE DEF allowed
<1>3. /\ Normalized(h, result.Paths) \in Seq(Path) /\ Normalized(h, systemPaths) \in Seq(Path)
      /\ \A x : Among(x, Normalized(h, result.Paths)) <=>
               x # NoPath /\ \E p \in Path : Among(p, result.Paths) /\ x = N(p)
      /\ \A x : Among(x, Normalized(h, systemPaths)) <=>
               x # NoPath /\ \E p \in Path : Among(p, systemPaths) /\ x = N(p)
  BY NormalizedOnes DEF IsResult
<1>4. root \in Path
  BY NormalizedPath DEF IsResult
<1>. HIDE DEF N, root
<1>5. all \in Seq(Path) /\ \A x : Among(x, all) <=> \/ Among(x, allowed) \/ x = root
                                                    \/ Among(x, Normalized(h, result.Paths))
                                                    \/ Among(x, Normalized(h, systemPaths))
  <2>. DEFINE r == <<root>>
              P == Normalized(h, result.Paths)
              Y == Normalized(h, systemPaths)
  <2>1. r \in Seq(Path) /\ \A x : Among(x, r) <=> x = root
    BY <1>4 DEF Among
  <2>2. P \in Seq(Path) /\ Y \in Seq(Path)
    BY <1>3
  <2>. HIDE DEF r, P, Y
  <2>3. allowed \o r \in Seq(Path) /\ \A x : Among(x, allowed \o r) <=> Among(x, allowed) \/ Among(x, r)
    BY <1>2, <2>1, Joined
  <2>4. /\ (allowed \o r) \o P \in Seq(Path)
        /\ \A x : Among(x, (allowed \o r) \o P) <=> Among(x, allowed \o r) \/ Among(x, P)
    BY <2>2, <2>3, Joined
  <2>5. /\ ((allowed \o r) \o P) \o Y \in Seq(Path)
        /\ \A x : Among(x, ((allowed \o r) \o P) \o Y) <=> Among(x, (allowed \o r) \o P) \/ Among(x, Y)
    <3>. DEFINE b == (allowed \o r) \o P
    <3>1. b \in Seq(Path)
      BY <2>4
    <3>. HIDE DEF b
    <3>2. b \o Y \in Seq(Path) /\ \A x : Among(x, b \o Y) <=> Among(x, b) \/ Among(x, Y)
      BY <2>2, <3>1, Joined
    <3>. QED  BY <3>2 DEF b
  <2>6. all = ((allowed \o r) \o P) \o Y
    BY DEF r, P, Y
  <2>. QED  BY <2>1, <2>3, <2>4, <2>5, <2>6 DEF P, Y
<1>. HIDE DEF all
<1>6. /\ paths \in Seq(Path) /\ Distinct(paths)
      /\ \A x : Among(x, paths) <=> Among(x, all)
  BY <1>5, Deduped
<1>7. paths # <<>>
  <2>1. Among(root, paths)
    BY <1>5, <1>6
  <2>. QED  BY <2>1 DEF Among
<1>8. list = IF /\ N(result.Stdlib) # NoPath /\ root # NoPath /\ Among(root, allowed)
                /\ isCanonicalJSONRelativePath(result.JSONRelativePath)
             THEN paths ELSE <<>>
  BY DEF buildPythonLibPaths, N, root, allowed, heads, all, Among, Contains
<1>. HIDE DEF paths, list
<1>9. root = N(result.JSONRoot) /\ result.JSONRoot \in Path
  BY DEF root, IsResult
<1>10. list # <<>> <=> /\ N(result.Stdlib) # NoPath /\ root # NoPath
                       /\ \E p \in Path : AllowedRoot(result, p) /\ N(p) = root
                       /\ isCanonicalJSONRelativePath(result.JSONRelativePath)
  BY <1>2, <1>7, <1>8
<1>11. list # <<>> => /\ list = paths /\ root # NoPath
  BY <1>8
<1>12. ASSUME root # NoPath
       PROVE  \A x : Among(x, paths) <=>
                 x # NoPath /\ \E p \in Path : Candidate(result, systemPaths, p) /\ x = N(p)
  BY <1>2, <1>3, <1>5, <1>6, <1>9, <1>12 DEF Candidate
<1>. QED  BY <1>6, <1>9, <1>10, <1>11, <1>12 DEF N, list

(* The list of a success passes the last two checks of buildPythonLibPaths: *)
(* it holds the standard library and the root of json, whatever the machine *)
(* and the script say (python_lib_discovery.go:252-258), which is why the   *)
(* model has no step for these checks.                                      *)
THEOREM FinalChecksPass ==
  ASSUME NEW h, NEW result, IsResult(result), NEW systemPaths \in Seq(Path),
         buildPythonLibPaths(h, result, systemPaths) # <<>>
  PROVE  \A p \in {result.Stdlib, result.JSONRoot} :
            Contains(buildPythonLibPaths(h, result, systemPaths), normalizeAbsolutePath(h, p))
<1>. DEFINE list == buildPythonLibPaths(h, result, systemPaths)
<1>1. /\ normalizeAbsolutePath(h, result.Stdlib) # NoPath
      /\ normalizeAbsolutePath(h, result.JSONRoot) # NoPath
      /\ \A x : Among(x, list) <=>
            x # NoPath /\ \E p \in Path : Candidate(result, systemPaths, p) /\ x = normalizeAbsolutePath(h, p)
  BY Built
<1>. HIDE DEF list
<1>2. ASSUME NEW p \in {result.Stdlib, result.JSONRoot}
      PROVE  Among(normalizeAbsolutePath(h, p), list)
  BY <1>1, <1>2 DEF Candidate, AllowedRoot, IsResult
<1>. QED  BY <1>2 DEF Among, Contains, list

-----------------------------------------------------------------------------
(* What the script finds. *)

(* Directories and zip files of the interpreter's own standard library.     *)
OwnDir(h, i, p) == p \in {i.stdlib, i.platstdlib} /\ IsAbs(p) /\ p \in DOMAIN h.files
OwnZip(h, i, z) ==
    /\ Among(z, i.sysPath) /\ IsAbs(z) /\ z \in DOMAIN h.files /\ Last(z) \in Zips
    /\ \E d \in Path : OwnDir(h, i, d) /\ Front(h.files[z]) = Front(h.files[d])

AllRoots(h) == {Root(h, p) : p \in Path}

(* The script takes the directories of the standard library that exist ...  *)
LEMMA DirRoots ==
  ASSUME NEW h, NEW i, IsReport(h, i)
  PROVE  /\ stdlib_roots(h, i) \in Seq(AllRoots(h))
         /\ \A r : Among(r, stdlib_roots(h, i)) <=> \E p \in Path : OwnDir(h, i, p) /\ r = Root(h, p)
<1>. DEFINE S == AllRoots(h)
            two == <<i.stdlib, i.platstdlib>>
            T == {p \in {i.stdlib, i.platstdlib} : normalize_existing(h, p) # NoPath}
            there == Keep(two, T)
            roots == [k \in DOMAIN there |-> Root(h, there[k])]
<1>1. two \in Seq(Path) /\ \A p : Among(p, two) <=> p \in {i.stdlib, i.platstdlib}
  BY DEF IsReport, Among
<1>2. \A p : p \in T <=> OwnDir(h, i, p)
  BY ExistingPath DEF IsReport, OwnDir
<1>. HIDE DEF two, T
<1>3. there \in Seq(Path) /\ \A p : Among(p, there) <=> Among(p, two) /\ p \in T
  BY <1>1, Kept
<1>4. \A p : Among(p, there) <=> OwnDir(h, i, p)
  BY <1>1, <1>2, <1>3 DEF OwnDir
<1>5. stdlib_roots(h, i) = roots
  BY DEF stdlib_roots, two, T
<1>. HIDE DEF there
<1>6. roots \in Seq(S) /\ Len(roots) = Len(there) /\ \A k \in 1 .. Len(there) : roots[k] = Root(h, there[k])
  <2>1. DOMAIN there = 1 .. Len(there) /\ Len(there) \in Nat /\ \A k \in 1 .. Len(there) : there[k] \in Path
    BY <1>3
  <2>2. \A k \in 1 .. Len(there) : Root(h, there[k]) \in S
    BY <2>1 DEF AllRoots
  <2>. HIDE DEF S
  <2>. QED  BY <2>1, <2>2
<1>. HIDE DEF roots, S
<1>7. \A k \in 1 .. Len(there) : there[k] \in Path
  BY <1>3
<1>8. \A r : Among(r, roots) <=> \E p \in Path : Among(p, there) /\ r = Root(h, p)
  BY <1>6, <1>7 DEF Among
<1>. QED  BY <1>4, <1>5, <1>6, <1>8 DEF S

(* ... and the zip files beside them.                                       *)
LEMMA ZipRoots ==
  ASSUME NEW h, NEW i, IsReport(h, i)
  PROVE  /\ stdlib_zip_paths(h, i) \in Seq(AllRoots(h))
         /\ \A r : Among(r, stdlib_zip_paths(h, i)) <=> \E p \in Path : OwnZip(h, i, p) /\ r = Root(h, p)
<1>. DEFINE S == AllRoots(h)
            parents == {Front(r.real) : r \in ToSet(stdlib_roots(h, i))}
            T == {p \in ToSet(i.sysPath) :
                    /\ normalize_existing(h, p) # NoPath
                    /\ Last(Clean(p)) \in Zips
                    /\ Front(h.files[p]) \in parents}
            zips == Keep(i.sysPath, T)
            roots == [k \in DOMAIN zips |-> Root(h, zips[k])]
<1>1. i.sysPath \in Seq(Path) /\ \A p : Among(p, i.sysPath) <=> p \in ToSet(i.sysPath)
  BY DEF IsReport, Among, ToSet
<1>2. \A p : p \in T <=> OwnZip(h, i, p)
  <2>1. \A f : f \in parents <=> \E d \in Path : OwnDir(h, i, d) /\ f = Front(h.files[d])
    <3>1. \A r : r \in ToSet(stdlib_roots(h, i)) <=> \E d \in Path : OwnDir(h, i, d) /\ r = Root(h, d)
      <4>1. \A r : r \in ToSet(stdlib_roots(h, i)) <=> Among(r, stdlib_roots(h, i))
        BY DirRoots DEF ToSet, Among
      <4>2. \A r : Among(r, stdlib_roots(h, i)) <=> \E d \in Path : OwnDir(h, i, d) /\ r = Root(h, d)
        BY DirRoots, Zenon
      <4>. QED  BY <4>1, <4>2, Zenon
    <3>2. \A d : Root(h, d).real = h.files[d]
      BY DEF Root
    <3>. QED  BY <3>1, <3>2
  <2>. HIDE DEF parents
  <2>2. \A p \in ToSet(i.sysPath) :
           /\ p \in Path
           /\ normalize_existing(h, p) # NoPath <=> IsAbs(p) /\ p \in DOMAIN h.files
           /\ IsAbs(p) => (Last(p) \in Zips <=> Last(Clean(p)) \in Zips)
    <3>1. \A p \in ToSet(i.sysPath) : p \in Path
      BY <1>1 DEF ToSet
    <3>. QED  BY <3>1, ExistingPath DEF IsReport
  <2>. QED  BY <1>1, <2>1, <2>2 DEF OwnZip
<1>3. zips \in Seq(Path) /\ \A p : Among(p, zips) <=> OwnZip(h, i, p)
  <2>. HIDE DEF T
  <2>1. zips \in Seq(Path) /\ \A p : Among(p, zips) <=> Among(p, i.sysPath) /\ p \in T
    BY <1>1, Kept
  <2>. QED  BY <1>2, <2>1 DEF OwnZip
<1>5. stdlib_zip_paths(h, i) = roots
  BY DEF stdlib_zip_paths
<1>. HIDE DEF zips
<1>6. roots \in Seq(S) /\ Len(roots) = Len(zips) /\ \A k \in 1 .. Len(zips) : roots[k] = Root(h, zips[k])
  <2>1. DOMAIN zips = 1 .. Len(zips) /\ Len(zips) \in Nat /\ \A k \in 1 .. Len(zips) : zips[k] \in Path
    BY <1>3
  <2>2. \A k \in 1 .. Len(zips) : Root(h, zips[k]) \in S
    BY <2>1 DEF AllRoots
  <2>. HIDE DEF S
  <2>. QED  BY <2>1, <2>2
<1>. HIDE DEF roots, S
<1>7. \A k \in 1 .. Len(zips) : zips[k] \in Path
  BY <1>3
<1>8. \A r : Among(r, roots) <=> \E p \in Path : Among(p, zips) /\ r = Root(h, p)
  BY <1>6, <1>7 DEF Among
<1>. QED  BY <1>3, <1>5, <1>6, <1>8 DEF S

(* canonical_json_relative_path finds a file that is json's under the root, *)
(* and what it returns passes isCanonicalJSONRelativePath.                  *)
LEMMA Canonical ==
  ASSUME NEW root \in Path, NEW origin \in Path, root # NoPath
  PROVE  LET rel == canonical_json_relative_path(root, origin)
         IN  /\ rel # NoPath <=> JsonUnder(origin, root)
             /\ rel # NoPath => isCanonicalJSONRelativePath(rel)
<1>. DEFINE m == Len(root)
            n == Len(origin)
            tail == SubSeq(origin, m + 1, n)
<1>1. root \in Seq(STRING) /\ origin \in Seq(STRING) /\ m \in Nat /\ n \in Nat
  BY DEF Path
<1>2. ASSUME IsStrictPrefix(root, origin)
      PROVE  /\ m < n /\ Len(tail) = n - m /\ tail # <<>> /\ tail[1] = origin[m + 1]
             /\ tail = <<"json.py">> <=> origin = Append(root, "json.py")
  <2>1. m <= n /\ SubSeq(root, 1, m) = SubSeq(origin, 1, m) /\ root # origin
    BY <1>2 DEF IsStrictPrefix, IsPrefix
  <2>2. root = SubSeq(origin, 1, m)
    BY <1>1, <2>1, SubSeqFull
  <2>3. m # n
    BY <1>1, <2>1, <2>2, SubSeqFull
  <2>4. m < n
    BY <1>1, <2>1, <2>3
  <2>5. m + 1 \in Int /\ n \in Int /\ (\A j \in m + 1 .. n : origin[j] \in STRING) /\ m + 1 <= n
    BY <1>1, <2>4
  <2>6. /\ tail \in Seq(STRING) /\ Len(tail) = n - (m + 1) + 1
        /\ \A j \in 1 .. n - (m + 1) + 1 : tail[j] = origin[m + 1 + j - 1]
    <3>. DEFINE l == m + 1
    <3>1. l \in Int /\ n \in Int /\ l <= n /\ \A j \in l .. n : origin[j] \in STRING
      BY <2>5
    <3>. HIDE DEF l, n
    <3>2. /\ SubSeq(origin, l, n) \in Seq(STRING)
          /\ Len(SubSeq(origin, l, n)) = IF l <= n THEN n - l + 1 ELSE 0
          /\ \A j \in 1 .. n - l + 1 : SubSeq(origin, l, n)[j] = origin[l + j - 1]
      BY <3>1, SubSeqProperties
    <3>. QED  BY <3>1, <3>2 DEF l, n
  <2>. HIDE DEF tail
  <2>7. Len(tail) = n - m /\ \A j \in 1 .. n - m : tail[j] = origin[m + j]
    <3>1. n - (m + 1) + 1 = n - m /\ \A j \in 1 .. n - m : m + 1 + j - 1 = m + j
      BY <1>1
    <3>. QED  BY <2>6, <3>1
  <2>8. tail # <<>> /\ tail[1] = origin[m + 1]
    BY <1>1, <2>4, <2>7
  <2>9. \A j \in 1 .. m : root[j] = origin[j]
    <3>1. \A j \in 1 .. m : SubSeq(origin, 1, m)[j] = origin[j]
      <4>1. 1 \in Int /\ m \in Int /\ \A j \in 1 .. m : origin[j] \in STRING
        BY <1>1, <2>1
      <4>2. \A j \in 1 .. m - 1 + 1 : SubSeq(origin, 1, m)[j] = origin[1 + j - 1]
        <5>. HIDE DEF m
        <5>. QED  BY <4>1, SubSeqProperties
      <4>3. m - 1 + 1 = m /\ \A j \in 1 .. m : 1 + j - 1 = j
        BY <1>1
      <4>. QED  BY <4>2, <4>3
    <3>. QED  BY <2>2, <3>1
  <2>10. ASSUME tail = <<"json.py">> PROVE origin = Append(root, "json.py")
    <3>. DEFINE a == Append(root, "json.py")
                S == STRING \union {"json.py"}
    <3>1. root \in Seq(S) /\ a \in Seq(S) /\ Len(a) = m + 1 /\ a[m + 1] = "json.py" /\ \A j \in 1 .. m : a[j] = root[j]
      <4>1. root \in Seq(S) /\ "json.py" \in S
        BY <1>1, SeqMonotonic
      <4>. HIDE DEF S
      <4>. QED  BY <4>1, AppendProperties
    <3>2. n = m + 1 /\ origin[m + 1] = "json.py"
      BY <1>1, <2>4, <2>7, <2>8, <2>10
    <3>. HIDE DEF a
    <3>3. Len(origin) = Len(a) /\ \A j \in 1 .. Len(origin) : origin[j] = a[j]
      BY <1>1, <2>9, <3>1, <3>2
    <3>4. origin \in Seq(S)
      BY <1>1, SeqMonotonic
    <3>. HIDE DEF S
    <3>5. origin = a
      BY <3>1, <3>3, <3>4, SeqEqual
    <3>. QED  BY <3>5 DEF a
  <2>11. ASSUME origin = Append(root, "json.py") PROVE tail = <<"json.py">>
    <3>1. n = m + 1 /\ origin[m + 1] = "json.py"
      BY <1>1, <2>11
    <3>2. Len(tail) = 1 /\ tail[1] = "json.py" /\ tail \in Seq(STRING)
      BY <1>1, <2>6, <2>7, <3>1
    <3>. QED  BY <3>2
  <2>. QED  BY <1>1, <2>4, <2>7, <2>8, <2>10, <2>11
<1>3. canonical_json_relative_path(root, origin) =
         IF IsStrictPrefix(root, origin) /\ (tail = <<"json.py">> \/ tail[1] = "json") THEN tail ELSE NoPath
  BY DEF canonical_json_relative_path
<1>. HIDE DEF tail, m
<1>. QED  BY <1>2, <1>3 DEF JsonUnder, isCanonicalJSONRelativePath, NoPath, m

(* The root holds json, by its name or by its real path.                    *)
RealName(h, p) == IF p \in DOMAIN h.files THEN h.files[p] ELSE p
Holds(h, i, p) ==
    \/ JsonUnder(RealName(h, i.json), Clean(p))
    \/ JsonUnder(RealName(h, i.json), h.files[p])
OwnRoot(h, i, p) == OwnDir(h, i, p) \/ OwnZip(h, i, p)

(* The script asks this of every root.                                      *)
LEMMA RelativePath ==
  ASSUME NEW h, NEW i, IsFileSystem(h), IsReport(h, i),
         NEW p \in Path, IsAbs(p), p \in DOMAIN h.files
  PROVE  LET rel == Relative(h, i, Root(h, p))
         IN  /\ rel # NoPath <=> Holds(h, i, p)
             /\ rel # NoPath => isCanonicalJSONRelativePath(rel)
<1>. DEFINE origin == RealName(h, i.json)
            raw == Clean(p)
            real == h.files[p]
<1>1. origin = IF i.json \in DOMAIN h.files THEN h.files[i.json] ELSE Clean(i.json)
  BY DEF RealName, IsReport
<1>2. origin \in Path
  BY DEF RealName, IsReport, IsFileSystem
<1>3. raw \in Path /\ raw # NoPath
  BY CleanIsNormal, CleanAbs DEF IsAbs
<1>4. real \in Path /\ real # NoPath
  BY DEF IsFileSystem, IsAbs
<1>5. Root(h, p).raw = raw /\ Root(h, p).real = real
  BY DEF Root
<1>. HIDE DEF origin, raw, real
<1>6. /\ canonical_json_relative_path(raw, origin) # NoPath <=> JsonUnder(origin, raw)
      /\ canonical_json_relative_path(raw, origin) # NoPath =>
            isCanonicalJSONRelativePath(canonical_json_relative_path(raw, origin))
  BY <1>2, <1>3, Canonical
<1>7. /\ canonical_json_relative_path(real, origin) # NoPath <=> JsonUnder(origin, real)
      /\ canonical_json_relative_path(real, origin) # NoPath =>
            isCanonicalJSONRelativePath(canonical_json_relative_path(real, origin))
  BY <1>2, <1>4, Canonical
<1>8. Relative(h, i, Root(h, p)) = IF canonical_json_relative_path(raw, origin) # NoPath
                                   THEN canonical_json_relative_path(raw, origin)
                                   ELSE canonical_json_relative_path(real, origin)
  BY <1>1, <1>5 DEF Relative
<1>9. Holds(h, i, p) <=> JsonUnder(origin, raw) \/ JsonUnder(origin, real)
  BY DEF Holds, origin, raw, real
<1>. QED  BY <1>6, <1>7, <1>8, <1>9

(* The first of several. *)
LEMMA FirstOne ==
  ASSUME NEW n \in Nat, NEW I \in SUBSET (1 .. n), I # {}
  PROVE  Min(I) \in I
<1>1. I \in SUBSET Nat
  OBVIOUS
<1>2. \E x \in I : \A y \in I : x <= y
  BY <1>1, Least
<1>. QED  BY <1>2 DEF Min

(* json_home finds a root if one of the interpreter's own holds json.       *)
LEMMA Home ==
  ASSUME NEW h, NEW i, IsFileSystem(h), IsReport(h, i)
  PROVE  LET home == json_home(h, i)
         IN  /\ home.root # NoPath <=> IsAbs(i.json) /\ \E p \in Path : OwnRoot(h, i, p) /\ Holds(h, i, p)
             /\ home.root # NoPath =>
                  /\ isCanonicalJSONRelativePath(home.relative)
                  /\ \E p \in Path : OwnRoot(h, i, p) /\ Holds(h, i, p) /\ home.root = Clean(p)
<1>. DEFINE S == AllRoots(h)
            dirs == stdlib_roots(h, i)
            zips == stdlib_zip_paths(h, i)
            roots == dirs \o zips
            I == {k \in 1 .. Len(roots) : Relative(h, i, roots[k]) # NoPath}
            first == IF I # {} THEN Min(I) ELSE 0
            home == json_home(h, i)
<1>1. /\ dirs \in Seq(S) /\ \A r : Among(r, dirs) <=> \E p \in Path : OwnDir(h, i, p) /\ r = Root(h, p)
      /\ zips \in Seq(S) /\ \A r : Among(r, zips) <=> \E p \in Path : OwnZip(h, i, p) /\ r = Root(h, p)
  BY DirRoots, ZipRoots
<1>2. roots \in Seq(S) /\ \A r : Among(r, roots) <=> Among(r, dirs) \/ Among(r, zips)
  <2>. HIDE DEF S, dirs, zips
  <2>. QED  BY <1>1, Joined
<1>3. \A r : Among(r, roots) <=> \E p \in Path : OwnRoot(h, i, p) /\ r = Root(h, p)
  <2>. HIDE DEF S, dirs, zips, roots
  <2>. QED  BY <1>1, <1>2 DEF OwnRoot
<1>4. home = IF IsAbs(i.json) /\ first # 0
             THEN [root |-> roots[first].raw, relative |-> Relative(h, i, roots[first])]
             ELSE [root |-> NoPath, relative |-> NoPath]
  BY DEF json_home, SelectInSeq
<1>5. Len(roots) \in Nat
  <2>. HIDE DEF S, roots
  <2>. QED  BY <1>2
<1>. HIDE DEF roots
<1>6. first \in Nat /\ (first # 0 <=> I # {}) /\ (first # 0 => first \in I)
  <2>1. I # {} => Min(I) \in I
    <3>1. I \in SUBSET (1 .. Len(roots))
      OBVIOUS
    <3>. HIDE DEF I
    <3>. QED  BY <1>5, <3>1, FirstOne
  <2>. QED  BY <1>5, <2>1
<1>. HIDE DEF first
<1>7. \A p \in Path : OwnRoot(h, i, p) =>
         /\ IsAbs(p) /\ p \in DOMAIN h.files
         /\ Relative(h, i, Root(h, p)) # NoPath <=> Holds(h, i, p)
         /\ Relative(h, i, Root(h, p)) # NoPath => isCanonicalJSONRelativePath(Relative(h, i, Root(h, p)))
         /\ Clean(p) # NoPath /\ Root(h, p).raw = Clean(p)
  <2>. SUFFICES ASSUME NEW p \in Path, OwnRoot(h, i, p)
                PROVE  /\ IsAbs(p) /\ p \in DOMAIN h.files
                       /\ Relative(h, i, Root(h, p)) # NoPath <=> Holds(h, i, p)
                       /\ Relative(h, i, Root(h, p)) # NoPath => isCanonicalJSONRelativePath(Relative(h, i, Root(h, p)))
                       /\ Clean(p) # NoPath /\ Root(h, p).raw = Clean(p)
    OBVIOUS
  <2>1. IsAbs(p) /\ p \in DOMAIN h.files
    BY DEF OwnRoot, OwnDir, OwnZip
  <2>2. Clean(p) # NoPath /\ Root(h, p).raw = Clean(p)
    BY <2>1, CleanAbs DEF IsAbs, Root
  <2>. QED  BY <2>1, <2>2, RelativePath
<1>8. ASSUME IsAbs(i.json), NEW p \in Path, OwnRoot(h, i, p), Holds(h, i, p) PROVE first # 0
  <2>1. PICK k \in 1 .. Len(roots) : roots[k] = Root(h, p)
    BY <1>3, <1>8 DEF Among
  <2>. QED  BY <1>6, <1>7, <1>8, <2>1
<1>9. ASSUME first # 0
      PROVE  \E p \in Path : /\ OwnRoot(h, i, p) /\ Holds(h, i, p) /\ roots[first] = Root(h, p)
                             /\ isCanonicalJSONRelativePath(Relative(h, i, roots[first]))
                             /\ roots[first].raw = Clean(p) /\ Clean(p) # NoPath
  <2>1. first \in 1 .. Len(roots) /\ Relative(h, i, roots[first]) # NoPath
    BY <1>6, <1>9
  <2>2. PICK p \in Path : OwnRoot(h, i, p) /\ roots[first] = Root(h, p)
    BY <1>3, <2>1 DEF Among
  <2>. QED  BY <1>7, <2>1, <2>2
<1>. HIDE DEF home
<1>10. CASE IsAbs(i.json) /\ first # 0
  <2>1. home.root = roots[first].raw /\ home.relative = Relative(h, i, roots[first])
    BY <1>4, <1>10
  <2>. QED  BY <1>9, <1>10, <2>1 DEF home
<1>11. CASE ~(IsAbs(i.json) /\ first # 0)
  <2>1. home.root = NoPath
    BY <1>4, <1>11
  <2>. QED  BY <1>8, <1>11, <2>1 DEF home
<1>. QED  BY <1>10, <1>11

(* What the script prints.                                                  *)
LEMMA Script ==
  ASSUME NEW h, NEW i, IsFileSystem(h), IsReport(h, i)
  PROVE  LET result == pythonLibDiscoveryScript(h, i)
         IN  /\ IsResult(result)
             /\ result.Stdlib = i.stdlib /\ result.Platstdlib = i.platstdlib
             /\ result.JSONRoot = json_home(h, i).root
             /\ result.JSONRelativePath = json_home(h, i).relative
             /\ \A q : Among(q, result.StdlibZipPaths) <=> \E z \in Path : OwnZip(h, i, z) /\ q = Clean(z)
             /\ \A p \in Path : /\ IsAbs(p) /\ p \in DOMAIN h.files
                                /\ p = i.stdlib \/ Among(p, i.sysPath)
                                => Among(Clean(p), result.Paths)
<1>. DEFINE result == pythonLibDiscoveryScript(h, i)
            zips == stdlib_zip_paths(h, i)
            raws == [k \in DOMAIN zips |-> zips[k].raw]
            root == json_home(h, i).root
            four == <<i.stdlib, i.platstdlib, i.purelib, i.platlib>>
            all == four \o i.sysPath \o i.site \o <<root>>
<1>1. root \in Path
  <2>1. NoPath \in Path
    BY DEF NoPath, Path
  <2>. QED  BY <2>1, Home, CleanIsNormal
<1>2. zips \in Seq(AllRoots(h)) /\ \A r : Among(r, zips) <=> \E p \in Path : OwnZip(h, i, p) /\ r = Root(h, p)
  BY ZipRoots
<1>. HIDE DEF zips
<1>3. raws \in Seq(Path) /\ Len(raws) = Len(zips) /\ \A k \in 1 .. Len(zips) : raws[k] = zips[k].raw
  <2>1. DOMAIN zips = 1 .. Len(zips) /\ Len(zips) \in Nat
    BY <1>2
  <2>2. \A k \in 1 .. Len(zips) : zips[k].raw \in Path
    <3>. TAKE k \in 1 .. Len(zips)
    <3>1. PICK p \in Path : zips[k] = Root(h, p)
      BY <1>2 DEF Among
    <3>. QED  BY <3>1, CleanIsNormal DEF Root
  <2>. QED  BY <2>1, <2>2
<1>. HIDE DEF raws
<1>4. \A q : Among(q, raws) <=> \E z \in Path : OwnZip(h, i, z) /\ q = Clean(z)
  <2>1. \A q : Among(q, raws) <=> \E r : Among(r, zips) /\ q = r.raw
    BY <1>3 DEF Among
  <2>2. \A z : Root(h, z).raw = Clean(z)
    BY DEF Root
  <2>. QED  BY <1>2, <2>1, <2>2
<1>. HIDE DEF root
<1>5. all \in Seq(Path) /\ \A p : p = i.stdlib \/ Among(p, i.sysPath) => Among(p, all)
  <2>. DEFINE last == <<root>>
  <2>1. four \in Seq(Path) /\ Among(i.stdlib, four)
    <3>1. four \in Seq(Path) /\ Len(four) = 4 /\ four[1] = i.stdlib
      BY DEF IsReport
    <3>. HIDE DEF four
    <3>. QED  BY <3>1 DEF Among
  <2>2. last \in Seq(Path)
    BY <1>1
  <2>3. i.sysPath \in Seq(Path) /\ i.site \in Seq(Path)
    BY DEF IsReport
  <2>. HIDE DEF four, last
  <2>4. /\ four \o i.sysPath \in Seq(Path)
        /\ \A p : Among(p, four \o i.sysPath) <=> Among(p, four) \/ Among(p, i.sysPath)
    BY <2>1, <2>3, Joined
  <2>. DEFINE b == four \o i.sysPath
  <2>5. b \in Seq(Path) /\ \A p : p = i.stdlib \/ Among(p, i.sysPath) => Among(p, b)
    BY <2>1, <2>4
  <2>. HIDE DEF b
  <2>6. b \o i.site \in Seq(Path) /\ \A p : Among(p, b \o i.site) <=> Among(p, b) \/ Among(p, i.site)
    BY <2>3, <2>5, Joined
  <2>. DEFINE c == b \o i.site
  <2>7. c \in Seq(Path) /\ \A p : Among(p, b) => Among(p, c)
    BY <2>6
  <2>. HIDE DEF c
  <2>8. c \o last \in Seq(Path) /\ \A p : Among(p, c \o last) <=> Among(p, c) \/ Among(p, last)
    BY <2>2, <2>7, Joined
  <2>9. all = c \o last
    BY DEF c, b, last
  <2>. QED  BY <2>5, <2>7, <2>8, <2>9
<1>6. result = [Paths |-> Located(h, all), Stdlib |-> i.stdlib, Platstdlib |-> i.platstdlib,
                StdlibZipPaths |-> raws, JSONRelativePath |-> json_home(h, i).relative, JSONRoot |-> root]
  BY DEF pythonLibDiscoveryScript, raws, zips, root
<1>. HIDE DEF all, result
<1>7. /\ Located(h, all) \in Seq(Path)
      /\ \A x : Among(x, Located(h, all)) <=>
               x # NoPath /\ \E p \in Path : Among(p, all) /\ x = normalize_existing(h, p)
  BY <1>5, LocatedOnes
<1>8. /\ result.Paths = Located(h, all) /\ result.Stdlib = i.stdlib /\ result.Platstdlib = i.platstdlib
      /\ result.StdlibZipPaths = raws /\ result.JSONRoot = root
      /\ result.JSONRelativePath = json_home(h, i).relative
  BY <1>6
<1>9. IsResult(result)
  BY <1>1, <1>3, <1>7, <1>8 DEF IsResult, IsReport
<1>10. ASSUME NEW p \in Path, IsAbs(p), p \in DOMAIN h.files, p = i.stdlib \/ Among(p, i.sysPath)
       PROVE  Among(Clean(p), result.Paths)
  <2>1. normalize_existing(h, p) # NoPath /\ normalize_existing(h, p) = Clean(p)
    BY <1>10, ExistingPath
  <2>. QED  BY <1>5, <1>7, <1>8, <1>10, <2>1
<1>. QED  BY <1>4, <1>8, <1>9, <1>10 DEF result, root

-----------------------------------------------------------------------------
(* What the discovery does: its list is not empty exactly if the standard   *)
(* library is there and json is part of it ...                              *)
THEOREM Discovered ==
  ASSUME NEW h, NEW i, IsFileSystem(h), IsReport(h, i), NEW systemPaths \in Seq(Path)
  PROVE  LET list == buildPythonLibPaths(h, pythonLibDiscoveryScript(h, i), systemPaths)
         IN  /\ list # <<>> <=>
                  /\ IsAbs(i.stdlib) /\ i.stdlib \in DOMAIN h.files /\ IsAbs(i.json)
                  /\ \E p \in Path : OwnRoot(h, i, p) /\ Holds(h, i, p)
             /\ list # <<>> =>
                  /\ list \in Seq(Path) /\ Distinct(list)
                  /\ \A x : Among(x, list) => Usable(h, x)
                  /\ \A p \in Path : /\ IsAbs(p) /\ p \in DOMAIN h.files
                                     /\ p = i.stdlib \/ Among(p, i.sysPath)
                                     => Among(Clean(p), list)
                  /\ \E p \in Path : OwnRoot(h, i, p) /\ Holds(h, i, p) /\ Among(Clean(p), list)
<1>. DEFINE result == pythonLibDiscoveryScript(h, i)
            list == buildPythonLibPaths(h, result, systemPaths)
            N(p) == normalizeAbsolutePath(h, p)
            home == json_home(h, i)
<1>1. /\ IsResult(result)
      /\ result.Stdlib = i.stdlib /\ result.Platstdlib = i.platstdlib
      /\ result.JSONRoot = home.root /\ result.JSONRelativePath = home.relative
      /\ \A q : Among(q, result.StdlibZipPaths) <=> \E z \in Path : OwnZip(h, i, z) /\ q = Clean(z)
      /\ \A p \in Path : /\ IsAbs(p) /\ p \in DOMAIN h.files
                         /\ p = i.stdlib \/ Among(p, i.sysPath)
                         => Among(Clean(p), result.Paths)
  BY Script
<1>2. /\ home.root # NoPath <=> IsAbs(i.json) /\ \E p \in Path : OwnRoot(h, i, p) /\ Holds(h, i, p)
      /\ home.root # NoPath =>
            /\ isCanonicalJSONRelativePath(home.relative)
            /\ \E p \in Path : OwnRoot(h, i, p) /\ Holds(h, i, p) /\ home.root = Clean(p)
  BY Home
<1>. HIDE DEF result, home
<1>3. /\ list # <<>> <=>
            /\ N(result.Stdlib) # NoPath /\ N(result.JSONRoot) # NoPath
            /\ \E p \in Path : AllowedRoot(result, p) /\ N(p) = N(result.JSONRoot)
            /\ isCanonicalJSONRelativePath(result.JSONRelativePath)
      /\ list # <<>> =>
            /\ list \in Seq(Path) /\ Distinct(list)
            /\ \A x : Among(x, list) <=>
                  x # NoPath /\ \E p \in Path : Candidate(result, systemPaths, p) /\ x = N(p)
  BY <1>1, Built
<1>. HIDE DEF list
<1>4. i.stdlib \in Path /\ i.platstdlib \in Path /\ \A p : Among(p, i.sysPath) => p \in Path
  BY DEF IsReport, Among
<1>5. ASSUME NEW p \in Path, p \in {i.stdlib, i.platstdlib} \/ Among(p, i.sysPath)
      PROVE  IsAbs(p) => (p \in DOMAIN h.files <=> Clean(p) \in DOMAIN h.files)
  BY <1>5 DEF IsReport, ToSet, Among
<1>6. ASSUME NEW p \in Path, OwnRoot(h, i, p)
      PROVE  IsAbs(p) /\ p \in DOMAIN h.files /\ (p \in {i.stdlib, i.platstdlib} \/ Among(p, i.sysPath))
  BY <1>6 DEF OwnRoot, OwnDir, OwnZip
<1>7. ASSUME NEW p \in Path, IsAbs(p), p \in DOMAIN h.files, p \in {i.stdlib, i.platstdlib} \/ Among(p, i.sysPath)
      PROVE  /\ N(p) = Clean(p) /\ N(Clean(p)) = Clean(p) /\ Clean(p) # NoPath /\ Clean(p) \in Path
  <2>1. Clean(p) \in DOMAIN h.files /\ Clean(p) \in Path /\ IsAbs(Clean(p)) /\ Clean(Clean(p)) = Clean(p)
    BY <1>5, <1>7, CleanIsNormal, CleanAbs, CleanOnce
  <2>2. N(p) # NoPath /\ N(p) = Clean(p)
    BY <1>7, <2>1, NormalizedPath
  <2>3. N(Clean(p)) # NoPath /\ N(Clean(p)) = Clean(Clean(p))
    BY <2>1, NormalizedPath
  <2>. QED  BY <2>1, <2>2, <2>3
<1>8. N(i.stdlib) # NoPath <=> IsAbs(i.stdlib) /\ i.stdlib \in DOMAIN h.files
  BY <1>4, <1>5, NormalizedPath
<1>9. ~IsAbs(NoPath) /\ NoPath \in Path /\ N(NoPath) = NoPath
  <2>1. NoPath \in Path /\ ~IsAbs(NoPath)
    BY DEF NoPath, Path, IsAbs
  <2>. QED  BY <2>1, NormalizedPath
<1>10. ASSUME NEW p \in Path, OwnRoot(h, i, p)
       PROVE  \E q \in Path : AllowedRoot(result, q) /\ N(q) = Clean(p)
  <2>1. CASE OwnDir(h, i, p)
    BY <1>1, <1>6, <1>7, <1>10, <2>1 DEF AllowedRoot, OwnDir
  <2>2. CASE OwnZip(h, i, p)
    BY <1>1, <1>6, <1>7, <1>10, <2>2 DEF AllowedRoot
  <2>. QED  BY <1>10, <2>1, <2>2 DEF OwnRoot
<1>11. home.root # NoPath => /\ N(home.root) = home.root
                             /\ \E q \in Path : AllowedRoot(result, q) /\ N(q) = home.root
  BY <1>2, <1>6, <1>7, <1>10
<1>12. list # <<>> <=> /\ IsAbs(i.stdlib) /\ i.stdlib \in DOMAIN h.files
                       /\ home.root # NoPath
  <2>. HIDE DEF N
  <2>. QED  BY <1>1, <1>2, <1>3, <1>8, <1>9, <1>11
<1>13. ASSUME NEW p \in Path, IsAbs(p), p \in DOMAIN h.files, p = i.stdlib \/ Among(p, i.sysPath), list # <<>>
       PROVE  Among(Clean(p), list)
  <2>1. Among(Clean(p), result.Paths) /\ N(Clean(p)) = Clean(p) /\ Clean(p) # NoPath /\ Clean(p) \in Path
    BY <1>1, <1>7, <1>13
  <2>. HIDE DEF N
  <2>. QED  BY <1>3, <1>13, <2>1 DEF Candidate
<1>14. ASSUME list # <<>> PROVE \E p \in Path : OwnRoot(h, i, p) /\ Holds(h, i, p) /\ Among(Clean(p), list)
  <2>1. PICK p \in Path : OwnRoot(h, i, p) /\ Holds(h, i, p) /\ home.root = Clean(p)
    BY <1>2, <1>12, <1>14
  <2>2. N(Clean(p)) = Clean(p) /\ Clean(p) # NoPath /\ Clean(p) \in Path
    BY <1>6, <1>7, <2>1
  <2>. HIDE DEF N
  <2>3. Among(Clean(p), list)
    BY <1>1, <1>3, <1>14, <2>1, <2>2 DEF Candidate
  <2>. QED  BY <2>1, <2>3
<1>15. ASSUME list # <<>>, NEW x, Among(x, list) PROVE Usable(h, x)
  BY <1>3, <1>15, NormalizedPath
<1>. QED  BY <1>2, <1>3, <1>12, <1>13, <1>14, <1>15 DEF list, result
=============================================================================
