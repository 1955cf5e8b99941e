-------------------------- MODULE ModuleLoader_proof --------------------------
(***************************************************************************)
(* Proofs about ModuleLoader for every set of programs, with files that    *)
(* import any number of others, and every limit of the stack.              *)
(*                                                                         *)
(* The properties speak of the tree of imports, the steps of one import.   *)
(* Found and Walk are recursive functions of the depth that is left: the   *)
(* first part shows that they have the values their definitions say        *)
(* (FoundIs, WalkIs) and what the first imports of a file add to the walk  *)
(* (Begun), and then uses the tree only through sets and functions of the  *)
(* files (NativeAt, MissingAt, JsonAt, LeadsTo, FitAt).                    *)
(*                                                                         *)
(* The invariant: the frames and the modules fit together (Base), and      *)
(* either nothing has failed, and what has run is the beginning of the     *)
(* walk that the frames have come to (Going), or the program is not a good *)
(* one and the entry module will fail (Doomed).                            *)
(***************************************************************************)
EXTENDS ModuleLoader, SequenceTheorems, WellFoundedInduction, TLAPS

(* A file and how the path to it is spelled.                                *)
Keys == Files \X Spellings

-----------------------------------------------------------------------------
(* A non-empty set of natural numbers has a least element.                  *)
LEMMA Least ==
    ASSUME NEW T \in SUBSET Nat, T # {}
    PROVE  \E x \in T : \A y \in T : x <= y
<1> DEFINE R == OpToRel(<, Nat)
<1>1. IsWellFoundedOn(R, Nat)
  BY NatLessThanWellFounded
<1>2. ASSUME NEW x \in Nat, NEW y \in Nat, x < y PROVE <<x, y>> \in R
  BY <1>2 DEF OpToRel
<1> HIDE DEF R
<1>3. PICK x \in T : \A y \in T : ~ (<<y, x>> \in R)
  BY <1>1, WFMin
<1>4. \A y \in T : x \in Nat /\ y \in Nat /\ ~ (y < x)
  BY <1>2, <1>3
<1> QED BY <1>4

(* What a set of numbers below n holds when it holds 0 and goes up by one.  *)
LEMMA Climb ==
    ASSUME NEW n \in Nat, NEW T, 0 \in T,
           \A k \in 1 .. n : k - 1 \in T => k \in T
    PROVE  \A k \in 0 .. n : k \in T
<1> SUFFICES ASSUME \E k \in 0 .. n : k \notin T PROVE FALSE
  OBVIOUS
<1> DEFINE U == {k \in 0 .. n : k \notin T}
<1>1. U \in SUBSET Nat /\ U # {}
  OBVIOUS
<1>2. PICK x \in U : \A y \in U : x <= y
  BY <1>1, Least
<1>3. x \in 1 .. n /\ x - 1 \in 0 .. n /\ ~ (x <= x - 1)
  BY <1>2
<1>4. x - 1 \in T
  BY <1>2, <1>3
<1> QED BY <1>2, <1>3, <1>4

(* Sequences put together in either way are the same.                       *)
LEMMA Associative ==
    ASSUME NEW T
    PROVE  \A x, y, z \in Seq(T) : (x \o y) \o z = x \o (y \o z)
BY ConcatAssociative

(* A sequence is a function on 1 .. Len(s).                                 *)
LEMMA SeqFacts ==
    ASSUME NEW S, NEW s \in Seq(S)
    PROVE  Len(s) \in Nat /\ DOMAIN s = 1 .. Len(s) /\ \A i \in 1 .. Len(s) : s[i] \in S
OBVIOUS

(* The pieces put together one after the other.                             *)
Joins(u, s) ==
    /\ u[0] = <<>>
    /\ \A k \in 1 .. Len(s) : u[k] = u[k - 1] \o s[k]

(* There is such a sequence of beginnings, ...                              *)
LEMMA JoinExists ==
    ASSUME NEW S, NEW s \in Seq(Seq(S))
    PROVE  \E u \in [0 .. Len(s) -> Seq(S)] : Joins(u, s)
<1> DEFINE P(m) == \E u \in [0 .. m -> Seq(S)] :
                       u[0] = <<>> /\ \A k \in 1 .. m : u[k] = u[k - 1] \o s[k]
<1>1. PICK n \in Nat : n = Len(s) /\ \A k \in 1 .. n : s[k] \in Seq(S)
  OBVIOUS
<1>2. P(0)
  <2>1. [k \in 0 .. 0 |-> <<>>] \in [0 .. 0 -> Seq(S)]
    BY EmptySeq
  <2>2. [k \in 0 .. 0 |-> <<>>][0] = <<>> /\ \A k \in 1 .. 0 : FALSE
    OBVIOUS
  <2> QED BY <2>1, <2>2
<1>3. ASSUME NEW m \in 1 .. n, P(m - 1) PROVE P(m)
  <2>1. PICK u \in [0 .. m - 1 -> Seq(S)] :
           u[0] = <<>> /\ \A k \in 1 .. m - 1 : u[k] = u[k - 1] \o s[k]
    BY <1>3
  <2> DEFINE v == [k \in 0 .. m |-> IF k = m THEN u[m - 1] \o s[m] ELSE u[k]]
  <2>2. m - 1 \in 0 .. m - 1 /\ m \in Nat /\ m # 0
    OBVIOUS
  <2>3. u[m - 1] \o s[m] \in Seq(S)
    BY <1>1, <2>1, <2>2, ConcatProperties
  <2>4. v \in [0 .. m -> Seq(S)] /\ v[0] = <<>>
    BY <2>1, <2>2, <2>3
  <2>5. ASSUME NEW k \in 1 .. m PROVE v[k] = v[k - 1] \o s[k]
    <3>1. k - 1 \in 0 .. m - 1 /\ k - 1 # m /\ k \in 0 .. m
      BY <2>2
    <3>2. v[k - 1] = u[k - 1]
      BY <3>1
    <3>3. CASE k = m
      BY <3>1, <3>2, <3>3
    <3>4. CASE k # m
      <4>1. k \in 1 .. m - 1
        BY <2>2, <3>4
      <4> QED BY <2>1, <3>1, <3>2, <3>4, <4>1
    <3> QED BY <3>3, <3>4
  <2> HIDE DEF v
  <2> QED BY <2>4, <2>5
<1> HIDE DEF P
<1>4. P(n)
  <2> DEFINE T == {m \in 0 .. n : P(m)}
  <2>1. 0 \in T /\ \A m \in 1 .. n : m - 1 \in T => m \in T
    BY <1>2, <1>3
  <2> HIDE DEF T
  <2>2. \A m \in 0 .. n : m \in T
    BY <2>1, Climb
  <2> QED BY <2>2 DEF T
<1> QED BY <1>1, <1>4 DEF P, Joins

(* ... and its last is what FlattenSeq gives.                               *)
LEMMA JoinIsFlatten ==
    ASSUME NEW S, NEW s \in Seq(Seq(S)), NEW u \in [0 .. Len(s) -> Seq(S)], Joins(u, s)
    PROVE  u[Len(s)] = FlattenSeq(s)
<1> DEFINE n == Len(s)
<1>1. n \in Nat /\ \A k \in 1 .. n : s[k] \in Seq(S)
  OBVIOUS
<1>4. PICK m \in Nat : m = n
  BY <1>1
<1>2. CASE n = 0
  <2>1. s = <<>>
    BY <1>2, EmptySeq
  <2> QED BY <1>2, <2>1 DEF FlattenSeq, Joins
<1>3. CASE n # 0
  <2> DEFINE g == [i \in 1 .. n |-> u[i]]
             Step(v, i) == IF i = 1 THEN s[i] ELSE v[i - 1] \o s[i]
  <2>1. ASSUME NEW i \in 1 .. n PROVE g[i] = Step(g, i)
    <3>1. u[i] = u[i - 1] \o s[i] /\ s[i] \in Seq(S)
      BY <1>1 DEF Joins
    <3>2. CASE i = 1
      <4>1. u[i - 1] = <<>>
        BY <3>2 DEF Joins
      <4> QED BY <3>1, <3>2, <4>1, ConcatEmptySeq
    <3>3. CASE i # 1
      <4>1. i - 1 \in 1 .. n
        BY <1>1, <3>3
      <4> QED BY <3>1, <3>3, <4>1
    <3> QED BY <3>2, <3>3
  <2>2. g = [i \in 1 .. n |-> Step(g, i)]
    <3> HIDE DEF Step
    <3> QED BY <2>1
  <2>3. PICK f : f = CHOOSE v : v = [i \in 1 .. n |-> IF i = 1 THEN s[i] ELSE v[i - 1] \o s[i]]
    OBVIOUS
  <2>4. f = [i \in 1 .. n |-> IF i = 1 THEN s[i] ELSE f[i - 1] \o s[i]]
    <3> HIDE DEF g
    <3> QED BY <2>2, <2>3
  <2>5. FlattenSeq(s) = f[n]
    BY <1>3, <2>3 DEF FlattenSeq
  <2> DEFINE T == {k \in 0 .. m : k = 0 \/ f[k] = u[k]}
  <2>6. 0 \in T
    BY <1>4
  <2>7. ASSUME NEW k \in 1 .. m, k - 1 \in T PROVE k \in T
    <3>1. f[k] = (IF k = 1 THEN s[k] ELSE f[k - 1] \o s[k])
      BY <1>4, <2>4
    <3>2. u[k] = u[k - 1] \o s[k] /\ (k = 1 => u[k] = s[k])
      <4>1. k \in 1 .. n
        BY <1>4
      <4>2. g[k] = Step(g, k) /\ g[k] = u[k]
        BY <2>1, <4>1
      <4> QED BY <4>1, <4>2 DEF Joins
    <3>3. k # 1 => f[k - 1] = u[k - 1]
      BY <1>4, <2>7
    <3>4. f[k] = u[k]
      BY <3>1, <3>2, <3>3
    <3> QED BY <3>4
  <2> HIDE DEF T
  <2>8. \A k \in 0 .. m : k \in T
    BY <1>4, <2>6, <2>7, Climb
  <2>9. f[m] = u[m]
    BY <1>3, <1>4, <2>8 DEF T
  <2> QED BY <1>4, <2>5, <2>9
<1> QED BY <1>2, <1>3

(* A beginning is one of the whole.                                         *)
LEMMA JoinPrefix ==
    ASSUME NEW S, NEW s \in Seq(Seq(S)), NEW u \in [0 .. Len(s) -> Seq(S)], Joins(u, s),
           NEW k \in 0 .. Len(s)
    PROVE  \E r \in Seq(S) : u[Len(s)] = u[k] \o r
<1>0. \A x, y, z \in Seq(S) : (x \o y) \o z = x \o (y \o z)
  BY Associative
<1> DEFINE P(m) == \E r \in Seq(S) : u[k + m] = u[k] \o r
<1>1. PICK n \in Nat : /\ n = Len(s) /\ k \in Nat /\ n - k \in Nat
                       /\ \A i \in 1 .. n : s[i] \in Seq(S)
  OBVIOUS
<1>2. P(0)
  <2>1. k + 0 = k /\ u[k] \in Seq(S)
    BY <1>1
  <2>2. u[k] = u[k] \o <<>> /\ <<>> \in Seq(S)
    BY <2>1, ConcatEmptySeq, EmptySeq
  <2> QED BY <2>1, <2>2
<1>3. ASSUME NEW m \in 1 .. n - k, P(m - 1) PROVE P(m)
  <2>1. PICK r \in Seq(S) : u[k + (m - 1)] = u[k] \o r
    BY <1>3
  <2>2. k + m \in 1 .. n /\ (k + m) - 1 = k + (m - 1)
    BY <1>1
  <2>3. u[k] \in Seq(S) /\ s[k + m] \in Seq(S)
    BY <1>1, <2>2
  <2>4. PICK a \in Seq(S), b \in Seq(S) : a = u[k] /\ b = s[k + m]
    BY <2>3
  <2>5. u[k + m] = u[(k + m) - 1] \o s[k + m]
    BY <1>1, <2>2 DEF Joins
  <2>6. u[k + m] = (a \o r) \o b
    BY <2>1, <2>2, <2>4, <2>5
  <2>7. (a \o r) \o b = a \o (r \o b)
    <3>2. a \in Seq(S) /\ r \in Seq(S) /\ b \in Seq(S)
      BY <2>1, <2>4
    <3> QED BY <1>0, <3>2, Zenon
  <2>8. r \o b \in Seq(S)
    BY <2>1, <2>4, ConcatProperties
  <2> QED BY <2>4, <2>6, <2>7, <2>8
<1> HIDE DEF P
<1>4. P(n - k)
  <2> DEFINE T == {m \in 0 .. n - k : P(m)}
  <2>1. 0 \in T /\ \A m \in 1 .. n - k : m - 1 \in T => m \in T
    BY <1>1, <1>2, <1>3
  <2> HIDE DEF T
  <2>2. \A m \in 0 .. n - k : m \in T
    BY <1>1, <2>1, Climb
  <2> QED BY <1>1, <2>2 DEF T
<1>5. k + (n - k) = n
  BY <1>1
<1> QED BY <1>1, <1>4, <1>5 DEF P
-----------------------------------------------------------------------------
(* What an import can be.                                                   *)
LEMMA CandidatesFinite == ASSUME NEW n PROVE Len(Candidates(n)) \in Nat
<1> DEFINE S == {<<n, x>> : x \in STRING \cup {""}}
<1>1. PICK a : a = <<n, "">>
  OBVIOUS
<1>2. PICK r : r = [i \in DOMAIN ResolveSuffixes |-> <<n, ResolveSuffixes[i]>>]
  OBVIOUS
<1>3. a \in S /\ r \in Seq(S)
  <2>2. PICK m \in Nat : DOMAIN ResolveSuffixes = 1 .. m /\ \A i \in 1 .. m : ResolveSuffixes[i] \in STRING
    BY NamesAssumption, SeqFacts
  <2>3. r \in [1 .. m -> S]
    BY <1>2, <2>2
  <2>4. a \in S
    BY <1>1
  <2>5. [1 .. m -> S] \subseteq Seq(S)
    <3> HIDE DEF S
    <3> QED OBVIOUS
  <2> QED BY <2>3, <2>4, <2>5
<1> HIDE DEF S
<1>4. <<a>> \in Seq(S)
  BY <1>3
<1>5. PICK c \in Seq(S) : c = <<a>> \o r
  BY <1>3, <1>4, ConcatProperties
<1>6. Len(c) \in Nat
  OBVIOUS
<1>7. Candidates(n) = c
  BY <1>1, <1>2, <1>5 DEF Candidates
<1> QED BY <1>6, <1>7

(* What a name resolves to is a file.                                       *)
LEMMA ResolveOnDisk == ASSUME NEW n, Loads(n) PROVE Resolve(n) \in Files
<1> DEFINE C == Candidates(n)
           I == {i \in 1 .. Len(C) : IsOnDisk(C[i])}
<1>1. I # {} /\ Resolve(n) = C[Min(I)]
  BY DEF Loads, Exists, Resolve, SelectInSeq
<1>2. I \in SUBSET Nat
  BY CandidatesFinite
<1>3. \E x \in I : \A y \in I : x <= y
  <2> HIDE DEF I
  <2> QED BY <1>1, <1>2, Least
<1>4. Min(I) \in I
  BY <1>3 DEF Min
<1> QED BY <1>1, <1>4 DEF IsOnDisk, Files

(* The imports of a file are a sequence.                                    *)
Specifiers == Seq([name : STRING, as : Spellings])

LEMMA ImportsType ==
    ASSUME program \in Programs, NEW f \in Files
    PROVE  /\ Imports(f) \in Specifiers
           /\ Len(Imports(f)) \in Nat /\ DOMAIN Imports(f) = 1 .. Len(Imports(f))
           /\ \A i \in DOMAIN Imports(f) : Imports(f)[i].as \in Spellings
<1>1. Imports(f) \in Specifiers
  <2>1. CASE f = Entry
    <3>1. PICK r : r = [name |-> Main, as |-> ""]
      OBVIOUS
    <3>2. r \in [name : STRING, as : Spellings]
      BY <3>1, NamesAssumption DEF Spellings
    <3>3. <<r>> \in Specifiers
      BY <3>2 DEF Specifiers
    <3> QED BY <2>1, <3>1, <3>3 DEF Imports
  <2>2. CASE f # Entry
    BY <2>2, ProgramsAssumption DEF Files, Imports, Specifiers
  <2> QED BY <2>1, <2>2
<1>2. PICK s \in Specifiers : s = Imports(f)
  BY <1>1
<1>3. PICK T : T = [name : STRING, as : Spellings]
  OBVIOUS
<1>5. \A r \in T : r.as \in Spellings
  BY <1>3
<1>4. Len(s) \in Nat /\ DOMAIN s = 1 .. Len(s) /\ \A i \in 1 .. Len(s) : s[i] \in T
  BY <1>3, SeqFacts DEF Specifiers
<1> QED BY <1>1, <1>2, <1>4, <1>5

-----------------------------------------------------------------------------
(* What the functions of the tree compute.                                  *)

(* Import i of f is there when d more levels are allowed.                   *)
Fits(X, d, f, i) ==
    LET name == Imports(f)[i].name
    IN  \/ name = Native
        \/ /\ Loads(name)
           /\ IsJson(Resolve(name)) \/ (d > 0 /\ X[d - 1][Resolve(name)])

(* What Found is for d, from what it is for d - 1.                          *)
FoundStep(X, d) == [f \in Files |-> \A i \in DOMAIN Imports(f) : Fits(X, d, f, i)]

(* It depends on X only at d - 1.                                           *)
LEMMA FoundStepSame ==
    ASSUME NEW X, NEW Y, NEW d, d > 0 => X[d - 1] = Y[d - 1]
    PROVE  FoundStep(X, d) = FoundStep(Y, d)
<1>1. \A f, i : Fits(X, d, f, i) <=> Fits(Y, d, f, i)
  BY DEF Fits
<1> QED BY <1>1 DEF FoundStep

(* What import i of f adds to the walk.                                     *)
Piece(X, d, f, i) ==
    LET name == Imports(f)[i].name
        file == Resolve(name)
    IN  IF name = Native \/ ~ Loads(name) THEN <<>>
        ELSE (IF IsJson(file) \/ d = 0 THEN <<>> ELSE X[d - 1][file])
             \o <<<<file, Imports(f)[i].as>>>>
(* What each of its imports adds, and what Walk is for d.                   *)
Pieces(X, d, f) == [i \in DOMAIN Imports(f) |-> Piece(X, d, f, i)]
WalkStep(X, d) == [f \in Files |-> FlattenSeq(Pieces(X, d, f))]

(* It depends on X only at d - 1.                                           *)
LEMMA WalkStepSame ==
    ASSUME NEW X, NEW Y, NEW d, d # 0 => X[d - 1] = Y[d - 1]
    PROVE  WalkStep(X, d) = WalkStep(Y, d)
<1>1. \A f, i : Piece(X, d, f, i) = Piece(Y, d, f, i)
  BY DEF Piece
<1>2. \A f : Pieces(X, d, f) = Pieces(Y, d, f)
  BY <1>1 DEF Pieces
<1> QED BY <1>2 DEF WalkStep

(* The recursive definition of Found has the value it says.                 *)
LEMMA FoundIs == \A d \in 0 .. StackLimit : Found[d] = FoundStep(Found, d)
<1> DEFINE P(m) == \E X : X = [d \in 0 .. m |-> FoundStep(X, d)]
<1>1. P(0)
  <2> DEFINE X == [d \in 0 .. 0 |-> FoundStep(<<>>, d)]
  <2>1. \A d \in 0 .. 0 : FoundStep(<<>>, d) = FoundStep(X, d)
    BY FoundStepSame
  <2>2. X = [d \in 0 .. 0 |-> FoundStep(X, d)]
    BY <2>1
  <2> QED BY <2>2
<1>2. ASSUME NEW m \in 1 .. StackLimit, P(m - 1) PROVE P(m)
  <2>1. PICK X : X = [d \in 0 .. m - 1 |-> FoundStep(X, d)]
    BY <1>2
  <2> DEFINE Y == [d \in 0 .. m |-> FoundStep(X, d)]
  <2>2. \A d \in 0 .. m - 1 : X[d] = Y[d]
    <3>1. \A d \in 0 .. m - 1 : X[d] = FoundStep(X, d)
      BY <2>1
    <3>2. \A d \in 0 .. m - 1 : d \in 0 .. m
      BY LimitAssumption
    <3>3. \A d \in 0 .. m : Y[d] = FoundStep(X, d)
      OBVIOUS
    <3> HIDE DEF Y
    <3> QED BY <3>1, <3>2, <3>3
  <2>3. \A d \in 0 .. m : FoundStep(X, d) = FoundStep(Y, d)
    <3> TAKE d \in 0 .. m
    <3>1. d > 0 => d - 1 \in 0 .. m - 1
      BY LimitAssumption
    <3>2. d # 0 => d > 0
      BY LimitAssumption
    <3> HIDE DEF Y
    <3>3. d > 0 => X[d - 1] = Y[d - 1]
      BY <2>2, <3>1
    <3> QED BY <3>2, <3>3, FoundStepSame
  <2>4. Y = [d \in 0 .. m |-> FoundStep(Y, d)]
    BY <2>3
  <2> QED BY <2>4
<1> HIDE DEF P
<1>3. P(StackLimit)
  <2> DEFINE T == {m \in 0 .. StackLimit : P(m)}
  <2>1. 0 \in T /\ \A m \in 1 .. StackLimit : m - 1 \in T => m \in T
    BY <1>1, <1>2, LimitAssumption
  <2> HIDE DEF T
  <2>2. \A m \in 0 .. StackLimit : m \in T
    BY <2>1, Climb, LimitAssumption
  <2> QED BY <2>2, LimitAssumption DEF T
<1>4. PICK Z : Z = CHOOSE X : X = [d \in 0 .. StackLimit |-> FoundStep(X, d)]
  OBVIOUS
<1>5. Z = [d \in 0 .. StackLimit |-> FoundStep(Z, d)]
  BY <1>3, <1>4 DEF P
<1>6. Found = CHOOSE X : X = [d \in 0 .. StackLimit |-> FoundStep(X, d)]
  BY DEF Found, FoundStep, Fits
<1> QED BY <1>4, <1>5, <1>6

(* The recursive definition of Walk has the value it says.                  *)
LEMMA WalkIs == \A d \in 0 .. StackLimit : Walk[d] = WalkStep(Walk, d)
<1> DEFINE P(m) == \E X : X = [d \in 0 .. m |-> WalkStep(X, d)]
<1>1. P(0)
  <2> DEFINE X == [d \in 0 .. 0 |-> WalkStep(<<>>, d)]
  <2>1. \A d \in 0 .. 0 : WalkStep(<<>>, d) = WalkStep(X, d)
    BY WalkStepSame
  <2>2. X = [d \in 0 .. 0 |-> WalkStep(X, d)]
    BY <2>1
  <2> QED BY <2>2
<1>2. ASSUME NEW m \in 1 .. StackLimit, P(m - 1) PROVE P(m)
  <2>1. PICK X : X = [d \in 0 .. m - 1 |-> WalkStep(X, d)]
    BY <1>2
  <2> DEFINE Y == [d \in 0 .. m |-> WalkStep(X, d)]
  <2>2. \A d \in 0 .. m - 1 : X[d] = Y[d]
    <3>1. \A d \in 0 .. m - 1 : X[d] = WalkStep(X, d)
      BY <2>1
    <3>2. \A d \in 0 .. m - 1 : d \in 0 .. m
      BY LimitAssumption
    <3>3. \A d \in 0 .. m : Y[d] = WalkStep(X, d)
      OBVIOUS
    <3> HIDE DEF Y
    <3> QED BY <3>1, <3>2, <3>3
  <2>3. \A d \in 0 .. m : WalkStep(X, d) = WalkStep(Y, d)
    <3> TAKE d \in 0 .. m
    <3>1. d > 0 => d - 1 \in 0 .. m - 1
      BY LimitAssumption
    <3>2. d # 0 => d > 0
      BY LimitAssumption
    <3> HIDE DEF Y
    <3>3. d > 0 => X[d - 1] = Y[d - 1]
      BY <2>2, <3>1
    <3> QED BY <3>2, <3>3, WalkStepSame
  <2>4. Y = [d \in 0 .. m |-> WalkStep(Y, d)]
    BY <2>3
  <2> QED BY <2>4
<1> HIDE DEF P
<1>3. P(StackLimit)
  <2> DEFINE T == {m \in 0 .. StackLimit : P(m)}
  <2>1. 0 \in T /\ \A m \in 1 .. StackLimit : m - 1 \in T => m \in T
    BY <1>1, <1>2, LimitAssumption
  <2> HIDE DEF T
  <2>2. \A m \in 0 .. StackLimit : m \in T
    BY <2>1, Climb, LimitAssumption
  <2> QED BY <2>2, LimitAssumption DEF T
<1>4. PICK Z : Z = CHOOSE X : X = [d \in 0 .. StackLimit |-> WalkStep(X, d)]
  OBVIOUS
<1>5. Z = [d \in 0 .. StackLimit |-> WalkStep(Z, d)]
  BY <1>3, <1>4 DEF P
<1>6. Walk = CHOOSE X : X = [d \in 0 .. StackLimit |-> WalkStep(X, d)]
  BY DEF Walk, WalkStep, Pieces, Piece
<1> QED BY <1>4, <1>5, <1>6

(* An import that is found adds a file with its spelling, ...               *)
LEMMA KeyType ==
    ASSUME program \in Programs, NEW f \in Files, NEW i \in DOMAIN Imports(f),
           Loads(Imports(f)[i].name)
    PROVE  <<Resolve(Imports(f)[i].name), Imports(f)[i].as>> \in Keys
BY ResolveOnDisk, ImportsType DEF Keys

(* ... and the walk of that file: a sequence of them.                       *)
LEMMA PieceType ==
    ASSUME program \in Programs, NEW d, NEW f \in Files, NEW i \in DOMAIN Imports(f),
           d # 0 => \A g \in Files : Walk[d - 1][g] \in Seq(Keys)
    PROVE  Piece(Walk, d, f, i) \in Seq(Keys)
<1> DEFINE name == Imports(f)[i].name
           file == Resolve(name)
<1>1. CASE name = Native \/ ~ Loads(name)
  <2>1. Piece(Walk, d, f, i) = <<>>
    BY <1>1 DEF Piece
  <2> QED BY <2>1, EmptySeq
<1>2. CASE ~ (name = Native \/ ~ Loads(name))
  <2>1. PICK b : b = (IF IsJson(file) \/ d = 0 THEN <<>> ELSE Walk[d - 1][file])
    OBVIOUS
  <2>2. PICK k \in Keys : k = <<file, Imports(f)[i].as>>
    BY <1>2, KeyType
  <2>3. b \in Seq(Keys)
    BY <1>2, <2>1, ResolveOnDisk, EmptySeq
  <2>4. Piece(Walk, d, f, i) = b \o <<k>>
    BY <1>2, <2>1, <2>2 DEF Piece
  <2>5. <<k>> \in Seq(Keys)
    OBVIOUS
  <2> QED BY <2>3, <2>4, <2>5, ConcatProperties
<1> QED BY <1>1, <1>2

(* There is a piece for each import, ...                                    *)
LEMMA PiecesType ==
    ASSUME program \in Programs, NEW d, NEW f \in Files,
           d # 0 => \A g \in Files : Walk[d - 1][g] \in Seq(Keys)
    PROVE  /\ Pieces(Walk, d, f) \in Seq(Seq(Keys))
           /\ Len(Pieces(Walk, d, f)) = Len(Imports(f))
           /\ \A i \in 1 .. Len(Imports(f)) : Pieces(Walk, d, f)[i] = Piece(Walk, d, f, i)
<1>1. PICK n \in Nat : n = Len(Imports(f)) /\ DOMAIN Imports(f) = 1 .. n
  BY ImportsType
<1>2. PICK s : s = Pieces(Walk, d, f)
  OBVIOUS
<1>3. \A i \in 1 .. n : Piece(Walk, d, f, i) \in Seq(Keys)
  BY <1>1, PieceType
<1>4. s = [i \in 1 .. n |-> Piece(Walk, d, f, i)]
  BY <1>1, <1>2 DEF Pieces
<1>5. s \in [1 .. n -> Seq(Keys)]
  BY <1>3, <1>4
<1>6. s \in Seq(Seq(Keys)) /\ Len(s) = n
  BY <1>5
<1> QED BY <1>1, <1>2, <1>4, <1>6

(* ... and the walk is a sequence of keys at every depth.                   *)
LEMMA WalkType ==
    ASSUME program \in Programs
    PROVE  \A d \in 0 .. StackLimit : \A f \in Files : Walk[d][f] \in Seq(Keys)
<1> DEFINE T == {d \in 0 .. StackLimit : \A f \in Files : Walk[d][f] \in Seq(Keys)}
<1>1. ASSUME NEW d \in 0 .. StackLimit, d # 0 => \A g \in Files : Walk[d - 1][g] \in Seq(Keys)
      PROVE  d \in T
  <2> SUFFICES ASSUME NEW f \in Files PROVE Walk[d][f] \in Seq(Keys)
    OBVIOUS
  <2>1. PICK s \in Seq(Seq(Keys)) : s = Pieces(Walk, d, f)
    BY <1>1, PiecesType
  <2>2. PICK u \in [0 .. Len(s) -> Seq(Keys)] : Joins(u, s)
    BY JoinExists
  <2>3. Walk[d][f] = FlattenSeq(s)
    BY <2>1, WalkIs DEF WalkStep
  <2>4. Walk[d][f] = u[Len(s)]
    BY <2>2, <2>3, JoinIsFlatten
  <2>5. Len(s) \in 0 .. Len(s)
    BY <2>1, LenProperties
  <2> QED BY <2>2, <2>4, <2>5
<1>2. 0 \in T
  BY <1>1, LimitAssumption
<1>3. ASSUME NEW d \in 1 .. StackLimit, d - 1 \in T PROVE d \in T
  <2>1. d \in 0 .. StackLimit
    BY LimitAssumption
  <2>2. \A g \in Files : Walk[d - 1][g] \in Seq(Keys)
    BY <1>3
  <2> QED BY <1>1, <2>1, <2>2
<1> HIDE DEF T
<1>4. \A d \in 0 .. StackLimit : d \in T
  BY <1>2, <1>3, Climb, LimitAssumption
<1> QED BY <1>4 DEF T

(* What the first k imports of f add to the walk, for each k.               *)
Upto(d, f) == CHOOSE u \in [0 .. Len(Imports(f)) -> Seq(Keys)] : Joins(u, Pieces(Walk, d, f))

(* Upto goes from nothing to the whole walk, one piece at a time.           *)
LEMMA UptoIs ==
    ASSUME program \in Programs, NEW d \in 0 .. StackLimit, NEW f \in Files
    PROVE  /\ Upto(d, f) \in [0 .. Len(Imports(f)) -> Seq(Keys)]
           /\ Upto(d, f)[0] = <<>>
           /\ \A k \in 1 .. Len(Imports(f)) :
                  Upto(d, f)[k] = Upto(d, f)[k - 1] \o Piece(Walk, d, f, k)
           /\ Upto(d, f)[Len(Imports(f))] = Walk[d][f]
           /\ \A k \in 0 .. Len(Imports(f)) :
                  \E r \in Seq(Keys) : Walk[d][f] = Upto(d, f)[k] \o r
<1>1. PICK n \in Nat : n = Len(Imports(f))
  BY ImportsType
<1>2. d # 0 => \A g \in Files : Walk[d - 1][g] \in Seq(Keys)
  <2>1. d # 0 => d - 1 \in 0 .. StackLimit
    BY LimitAssumption
  <2> QED BY <2>1, WalkType
<1>3. PICK s \in Seq(Seq(Keys)) :
        s = Pieces(Walk, d, f) /\ Len(s) = n /\ \A k \in 1 .. n : s[k] = Piece(Walk, d, f, k)
  BY <1>1, <1>2, PiecesType
<1>4. \E u \in [0 .. n -> Seq(Keys)] : Joins(u, s)
  BY <1>3, JoinExists
<1>5. PICK u \in [0 .. n -> Seq(Keys)] : u = Upto(d, f) /\ Joins(u, s)
  BY <1>1, <1>3, <1>4 DEF Upto
<1>6. u[0] = <<>> /\ \A k \in 1 .. n : u[k] = u[k - 1] \o s[k]
  BY <1>3, <1>5 DEF Joins
<1>7. u[n] = Walk[d][f]
  <2>1. Walk[d][f] = FlattenSeq(s)
    BY <1>3, WalkIs DEF WalkStep
  <2> QED BY <1>3, <1>5, <2>1, JoinIsFlatten
<1>8. \A k \in 0 .. n : \E r \in Seq(Keys) : u[n] = u[k] \o r
  <2> SUFFICES ASSUME NEW k \in 0 .. n PROVE \E r \in Seq(Keys) : u[n] = u[k] \o r
    OBVIOUS
  <2>1. u \in [0 .. Len(s) -> Seq(Keys)] /\ k \in 0 .. Len(s) /\ Joins(u, s)
    BY <1>3, <1>5
  <2>2. \E r \in Seq(Keys) : u[Len(s)] = u[k] \o r
    BY <2>1, JoinPrefix
  <2> QED BY <1>3, <2>2
<1> QED BY <1>1, <1>3, <1>5, <1>6, <1>7, <1>8

-----------------------------------------------------------------------------
(* The tree of a program, as sets and functions of the files: how many      *)
(* imports each has, how the path of each is spelled, ...                   *)
Size == [f \in Files |-> Len(Imports(f))]
As == [f \in Files |-> [i \in DOMAIN Imports(f) |-> Imports(f)[i].as]]

(* ... and what each is: native-js, missing, a JSON file, another file.     *)
NativeAt == {x \in Files \X Nat : Imports(x[1])[x[2]].name = Native}
MissingAt == {x \in Files \X Nat : /\ Imports(x[1])[x[2]].name # Native
                                   /\ ~ Loads(Imports(x[1])[x[2]].name)}
GoesTo == {x \in Files \X Nat \X Files : /\ Imports(x[1])[x[2]].name # Native
                                         /\ Loads(Imports(x[1])[x[2]].name)
                                         /\ Resolve(Imports(x[1])[x[2]].name) = x[3]}
JsonAt == {x \in GoesTo : IsJson(x[3])}
LeadsTo == {x \in GoesTo : ~ IsJson(x[3])}

(* Where all is found, and what the first imports of a file add to the walk. *)
FoundAt == {x \in (0 .. StackLimit) \X Files : Found[x[1]][x[2]]}
FitAt == {x \in (0 .. StackLimit) \X Files \X Nat : Fits(Found, x[1], x[2], x[3])}
Begun == [d \in 0 .. StackLimit |-> [f \in Files |-> Upto(d, f)]]

(* A good program: all is found, and no JSON file twice.                    *)
Good == FoundAll /\ NoJsonTwice

(* The program stays, and what is read off it with it.                      *)
LEMMA Same ==
    ASSUME program' = program
    PROVE  /\ Files' = Files /\ Keys' = Keys /\ Size' = Size /\ As' = As
           /\ NativeAt' = NativeAt /\ MissingAt' = MissingAt
           /\ JsonAt' = JsonAt /\ LeadsTo' = LeadsTo
           /\ FoundAt' = FoundAt /\ FitAt' = FitAt /\ Begun' = Begun
           /\ Walk' = Walk /\ Walked' = Walked /\ Good' = Good /\ FoundAll' = FoundAll
<1>1. Files' = Files /\ Keys' = Keys
  BY DEF Files, Keys
<1>2. Size' = Size /\ As' = As /\ NativeAt' = NativeAt
  BY DEF Files, Imports, Size, As, NativeAt
<1>3. MissingAt' = MissingAt
  BY DEF Files, Imports, MissingAt, Loads, Exists, Resolve, Candidates, IsOnDisk,
         SelectInSeq
<1>4. GoesTo' = GoesTo
  BY DEF Files, Imports, GoesTo, Resolve, Loads, Exists, Candidates, IsOnDisk, SelectInSeq
<1>5. JsonAt' = JsonAt /\ LeadsTo' = LeadsTo
  BY <1>4 DEF JsonAt, LeadsTo
<1>6. Found' = Found
  BY DEF Found, Resolve, Loads, Exists, Candidates, IsOnDisk, SelectInSeq, Imports, Files
<1>7. FoundAt' = FoundAt
  BY <1>1, <1>6 DEF FoundAt
<1>8. FitAt' = FitAt
  BY <1>6 DEF FitAt, Fits, Resolve, Loads, Exists, Candidates, IsOnDisk, SelectInSeq, Imports, Files
<1>9. Walk' = Walk
  BY DEF Walk, Resolve, Loads, Exists, Candidates, IsOnDisk, SelectInSeq, Imports, Files
<1>10. Begun' = Begun
  BY <1>9 DEF Begun, Upto, Pieces, Piece, Resolve, Loads, Exists, Candidates, IsOnDisk, SelectInSeq,
              Imports, Files, Keys, Joins
<1>11. Walked' = Walked /\ FoundAll' = FoundAll
  BY <1>6, <1>9 DEF Walked, FoundAll, Depth, Entry
<1>12. Good' = Good
  BY <1>11 DEF Good, NoJsonTwice
<1> QED BY <1>1, <1>2, <1>3, <1>5, <1>7, <1>8, <1>9, <1>10, <1>11, <1>12

(* An import is one of the four.                                            *)
LEMMA Kinds ==
    ASSUME program \in Programs, NEW f \in Files, NEW i \in 1 .. Size[f]
    PROVE  \/ <<f, i>> \in NativeAt
           \/ <<f, i>> \in MissingAt
           \/ \E g \in Files : <<f, i, g>> \in JsonAt
           \/ \E g \in Files : <<f, i, g>> \in LeadsTo
<1>1. i \in Nat
  BY ImportsType DEF Size
<1>2. PICK n : n = Imports(f)[i].name
  OBVIOUS
<1>3. CASE n = Native
  BY <1>1, <1>2, <1>3 DEF NativeAt
<1>4. CASE n # Native /\ ~ Loads(n)
  BY <1>1, <1>2, <1>4 DEF MissingAt
<1>5. CASE n # Native /\ Loads(n)
  <2>1. PICK g \in Files : g = Resolve(n)
    BY <1>5, ResolveOnDisk
  <2>2. <<f, i, g>> \in GoesTo
    BY <1>1, <1>2, <1>5, <2>1 DEF GoesTo
  <2> QED BY <2>2 DEF JsonAt, LeadsTo
<1> QED BY <1>3, <1>4, <1>5

(* An import is one kind only, and leads to one file.                       *)
LEMMA KindsApart ==
    /\ \A f, i, g : <<f, i, g>> \in LeadsTo =>
          /\ f \in Files /\ g \in Files /\ ~ IsJson(g)
          /\ <<f, i>> \notin NativeAt /\ <<f, i>> \notin MissingAt
          /\ \A h : <<f, i, h>> \notin JsonAt /\ (<<f, i, h>> \in LeadsTo => h = g)
    /\ \A f, i, g : <<f, i, g>> \in JsonAt =>
          /\ f \in Files /\ g \in Files /\ IsJson(g)
          /\ <<f, i>> \notin NativeAt /\ <<f, i>> \notin MissingAt
          /\ \A h : <<f, i, h>> \in JsonAt => h = g
    /\ \A f, i : <<f, i>> \in NativeAt => <<f, i>> \notin MissingAt
<1>1. \A f, i, g : <<f, i, g>> \in GoesTo =>
          /\ f \in Files /\ g \in Files
          /\ <<f, i>> \notin NativeAt /\ <<f, i>> \notin MissingAt
          /\ \A h : <<f, i, h>> \in GoesTo => h = g
  BY DEF GoesTo, NativeAt, MissingAt
<1>2. \A f, i : <<f, i>> \in NativeAt => <<f, i>> \notin MissingAt
  BY DEF NativeAt, MissingAt
<1>3. \A f, i, g : /\ <<f, i, g>> \in LeadsTo <=> <<f, i, g>> \in GoesTo /\ ~ IsJson(g)
                   /\ <<f, i, g>> \in JsonAt <=> <<f, i, g>> \in GoesTo /\ IsJson(g)
  BY DEF LeadsTo, JsonAt
<1> QED BY <1>1, <1>2, <1>3

(* What is found.                                                           *)
LEMMA FoundFacts ==
    ASSUME program \in Programs, NEW d \in 0 .. StackLimit, NEW f \in Files
    PROVE  /\ <<d, f>> \in FoundAt <=> \A i \in 1 .. Size[f] : <<d, f, i>> \in FitAt
           /\ \A i \in 1 .. Size[f] :
                 /\ <<f, i>> \in NativeAt => <<d, f, i>> \in FitAt
                 /\ <<f, i>> \in MissingAt => <<d, f, i>> \notin FitAt
                 /\ \A g : <<f, i, g>> \in JsonAt => <<d, f, i>> \in FitAt
                 /\ \A g : <<f, i, g>> \in LeadsTo =>
                       (<<d, f, i>> \in FitAt <=> d # 0 /\ <<d - 1, g>> \in FoundAt)
<1>1. PICK n \in Nat : n = Size[f] /\ DOMAIN Imports(f) = 1 .. n
  BY ImportsType DEF Size
<1>2. \A i \in 1 .. n : <<d, f, i>> \in FitAt <=> Fits(Found, d, f, i)
  BY DEF FitAt
<1>3. <<d, f>> \in FoundAt <=> \A i \in 1 .. n : Fits(Found, d, f, i)
  <2>1. <<d, f>> \in FoundAt <=> Found[d][f]
    BY DEF FoundAt
  <2>2. Found[d][f] = \A i \in 1 .. n : Fits(Found, d, f, i)
    BY <1>1, FoundIs DEF FoundStep
  <2> QED BY <2>1, <2>2
<1>4. ASSUME NEW i \in 1 .. n
      PROVE  /\ <<f, i>> \in NativeAt => Fits(Found, d, f, i)
             /\ <<f, i>> \in MissingAt => ~ Fits(Found, d, f, i)
             /\ \A g : <<f, i, g>> \in JsonAt => Fits(Found, d, f, i)
  BY DEF Fits, NativeAt, MissingAt, JsonAt, GoesTo
<1>5. ASSUME NEW i \in 1 .. n, NEW g, <<f, i, g>> \in LeadsTo
      PROVE  Fits(Found, d, f, i) <=> d # 0 /\ <<d - 1, g>> \in FoundAt
  <2>1. /\ Imports(f)[i].name # Native /\ Loads(Imports(f)[i].name)
        /\ Resolve(Imports(f)[i].name) = g /\ ~ IsJson(g) /\ g \in Files
    BY <1>5 DEF LeadsTo, GoesTo
  <2>2. Fits(Found, d, f, i) <=> d > 0 /\ Found[d - 1][g]
    BY <2>1 DEF Fits
  <2>3. d # 0 => d > 0 /\ d - 1 \in 0 .. StackLimit
    BY LimitAssumption
  <2>4. d # 0 => (<<d - 1, g>> \in FoundAt <=> Found[d - 1][g])
    BY <2>1, <2>3 DEF FoundAt
  <2> QED BY <2>2, <2>3, <2>4
<1> QED BY <1>1, <1>2, <1>3, <1>4, <1>5

(* What the imports add to the walk.                                        *)
LEMMA BegunFacts ==
    ASSUME program \in Programs, NEW d \in 0 .. StackLimit, NEW f \in Files
    PROVE  /\ \A k \in 0 .. Size[f] : Begun[d][f][k] \in Seq(Keys)
           /\ Begun[d][f][0] = <<>> /\ Begun[d][f][Size[f]] = Walk[d][f]
           /\ \A k \in 0 .. Size[f] :
                  \E r \in Seq(Keys) : Walk[d][f] = Begun[d][f][k] \o r
           /\ \A i \in 1 .. Size[f] :
                 /\ <<f, i>> \in NativeAt => Begun[d][f][i] = Begun[d][f][i - 1]
                 /\ \A g : <<f, i, g>> \in JsonAt =>
                       Begun[d][f][i] = Begun[d][f][i - 1] \o <<<<g, As[f][i]>>>>
                 /\ \A g : <<f, i, g>> \in LeadsTo /\ d # 0 =>
                       Begun[d][f][i] = Begun[d][f][i - 1] \o (Walk[d - 1][g] \o <<<<g, As[f][i]>>>>)
<1>1. PICK n \in Nat : n = Size[f] /\ DOMAIN Imports(f) = 1 .. n /\ n = Len(Imports(f))
  BY ImportsType DEF Size
<1>2. PICK u : u = Upto(d, f)
  OBVIOUS
<1>3. u = Begun[d][f]
  BY <1>2 DEF Begun
<1>4. /\ u \in [0 .. n -> Seq(Keys)] /\ u[0] = <<>> /\ u[n] = Walk[d][f]
      /\ \A k \in 1 .. n : u[k] = u[k - 1] \o Piece(Walk, d, f, k)
      /\ \A k \in 0 .. n : \E r \in Seq(Keys) : Walk[d][f] = u[k] \o r
  <2>1. u \in [0 .. n -> Seq(Keys)] /\ u[0] = <<>> /\ u[n] = Walk[d][f]
    BY <1>1, <1>2, UptoIs
  <2>2. \A k \in 1 .. n : u[k] = u[k - 1] \o Piece(Walk, d, f, k)
    BY <1>1, <1>2, UptoIs
  <2>3. \A k \in 0 .. n : \E r \in Seq(Keys) : Walk[d][f] = u[k] \o r
    BY <1>1, <1>2, UptoIs
  <2> QED BY <2>1, <2>2, <2>3
<1>5. ASSUME NEW i \in 1 .. n, <<f, i>> \in NativeAt PROVE u[i] = u[i - 1]
  <2>1. Piece(Walk, d, f, i) = <<>>
    BY <1>5 DEF Piece, NativeAt
  <2>2. u[i - 1] \in Seq(Keys)
    <3>1. i - 1 \in 0 .. n
      OBVIOUS
    <3> QED BY <1>4, <3>1
  <2> QED BY <1>4, <2>1, <2>2, ConcatEmptySeq
<1>6. ASSUME NEW i \in 1 .. n, NEW g, <<f, i, g>> \in GoesTo, g \in Files
      PROVE  /\ As[f][i] = Imports(f)[i].as /\ Resolve(Imports(f)[i].name) = g
             /\ Imports(f)[i].name # Native /\ Loads(Imports(f)[i].name) /\ <<g, As[f][i]>> \in Keys
  <2>1. As[f][i] = Imports(f)[i].as
    BY <1>1 DEF As
  <2>2. /\ Resolve(Imports(f)[i].name) = g
        /\ Imports(f)[i].name # Native /\ Loads(Imports(f)[i].name)
    BY <1>6 DEF GoesTo
  <2>3. <<g, As[f][i]>> \in Keys
    BY <1>1, <2>1, <2>2, KeyType
  <2> QED BY <2>1, <2>2, <2>3
<1>7. ASSUME NEW i \in 1 .. n, NEW g, <<f, i, g>> \in JsonAt
      PROVE  u[i] = u[i - 1] \o <<<<g, As[f][i]>>>>
  <2>1. <<f, i, g>> \in GoesTo /\ g \in Files /\ IsJson(g)
    BY <1>7 DEF JsonAt, GoesTo
  <2>2. PICK k \in Keys : k = <<g, As[f][i]>>
    BY <1>6, <2>1
  <2>3. Piece(Walk, d, f, i) = <<>> \o <<k>>
    BY <1>6, <2>1, <2>2 DEF Piece
  <2>4. <<>> \o <<k>> = <<k>>
    <3>1. <<k>> \in Seq(Keys)
      OBVIOUS
    <3> QED BY <3>1, ConcatEmptySeq
  <2> QED BY <1>4, <2>2, <2>3, <2>4
<1>8. ASSUME NEW i \in 1 .. n, NEW g, <<f, i, g>> \in LeadsTo, d # 0
      PROVE  u[i] = u[i - 1] \o (Walk[d - 1][g] \o <<<<g, As[f][i]>>>>)
  <2>1. <<f, i, g>> \in GoesTo /\ g \in Files /\ ~ IsJson(g)
    BY <1>8 DEF LeadsTo, GoesTo
  <2>2. PICK k \in Keys : k = <<g, As[f][i]>>
    BY <1>6, <2>1
  <2>3. Piece(Walk, d, f, i) = Walk[d - 1][g] \o <<k>>
    BY <1>6, <1>8, <2>1, <2>2 DEF Piece
  <2> QED BY <1>4, <2>2, <2>3
<1>9. \A k \in 0 .. n : u[k] \in Seq(Keys)
  BY <1>4
<1> QED BY <1>1, <1>3, <1>4, <1>5, <1>7, <1>8, <1>9

(* Sequences put together, as an operator of one name.                      *)
Cat(x, y) == x \o y
(* They stay sequences, and are put together in either way.                 *)
LEMMA CatFacts ==
    ASSUME NEW T
    PROVE  /\ \A x, y \in Seq(T) : Cat(x, y) \in Seq(T)
           /\ \A x, y, z \in Seq(T) : Cat(Cat(x, y), z) = Cat(x, Cat(y, z))
<1>1. \A x, y \in Seq(T) : x \o y \in Seq(T)
  BY ConcatProperties
<1>2. \A x, y, z \in Seq(T) : (x \o y) \o z = x \o (y \o z)
  BY ConcatAssociative
<1> QED BY <1>1, <1>2 DEF Cat

(* Parts of a walk.                                                         *)
Walks == Seq(Keys)

(* Beginnings put together.                                                 *)
LEMMA Regroup ==
    ASSUME NEW a \in Walks, NEW b \in Walks, NEW w \in Walks, NEW k \in Walks,
           NEW s \in Walks, NEW r \in Walks
    PROVE  /\ Cat(Cat(a, Cat(Cat(b, Cat(w, k)), s)), r) = Cat(Cat(Cat(a, b), w), Cat(k, Cat(s, r)))
           /\ Cat(a, Cat(b, Cat(w, k))) = Cat(Cat(Cat(a, b), w), k)
<1>1. PICK Q : Q = Walks
  OBVIOUS
<1>2. \A x, y \in Q : Cat(x, y) \in Q
  BY <1>1, CatFacts DEF Walks
<1>3. \A x, y, z \in Q : Cat(Cat(x, y), z) = Cat(x, Cat(y, z))
  BY <1>1, CatFacts DEF Walks
<1>4. a \in Q /\ b \in Q /\ w \in Q /\ k \in Q /\ s \in Q /\ r \in Q
  BY <1>1
<1>5. /\ Cat(w, k) \in Q /\ Cat(b, Cat(w, k)) \in Q /\ Cat(s, r) \in Q
      /\ Cat(a, b) \in Q /\ Cat(Cat(a, b), w) \in Q /\ Cat(k, Cat(s, r)) \in Q
      /\ Cat(Cat(b, Cat(w, k)), s) \in Q /\ Cat(k, s) \in Q
      /\ Cat(a, Cat(b, Cat(w, k))) \in Q
  BY <1>2, <1>4
<1>6. Cat(a, Cat(b, Cat(w, k))) = Cat(Cat(Cat(a, b), w), k)
  BY <1>3, <1>4, <1>5
<1>7. Cat(a, Cat(Cat(b, Cat(w, k)), s)) = Cat(Cat(Cat(Cat(a, b), w), k), s)
  BY <1>3, <1>4, <1>5, <1>6
<1>8. Cat(Cat(a, Cat(Cat(b, Cat(w, k)), s)), r) = Cat(Cat(Cat(Cat(a, b), w), k), Cat(s, r))
  BY <1>3, <1>4, <1>5, <1>6, <1>7
<1>9. Cat(Cat(Cat(Cat(a, b), w), k), Cat(s, r)) = Cat(Cat(Cat(a, b), w), Cat(k, Cat(s, r)))
  BY <1>3, <1>4, <1>5
<1> QED BY <1>6, <1>8, <1>9

(* What import n of a file adds to the walk.                                *)
LEMMA BegunSteps ==
    ASSUME program \in Programs, NEW e \in 0 .. StackLimit, NEW from \in Files,
           NEW n \in 1 .. Size[from], NEW to, NEW k, k = <<<<to, As[from][n]>>>>
    PROVE  /\ <<from, n, to>> \in JsonAt => Begun[e][from][n] = Cat(Begun[e][from][n - 1], k)
           /\ <<from, n, to>> \in LeadsTo /\ e # 0 =>
                 Begun[e][from][n] = Cat(Begun[e][from][n - 1], Cat(Walk[e - 1][to], k))
<1>1. \A i \in 1 .. Size[from] : \A g : <<from, i, g>> \in JsonAt =>
          Begun[e][from][i] = Begun[e][from][i - 1] \o <<<<g, As[from][i]>>>>
  BY BegunFacts
<1>2. \A i \in 1 .. Size[from] : \A g : <<from, i, g>> \in LeadsTo /\ e # 0 =>
          Begun[e][from][i] = Begun[e][from][i - 1] \o (Walk[e - 1][g] \o <<<<g, As[from][i]>>>>)
  BY BegunFacts
<1>3. CASE <<from, n, to>> \in JsonAt
  <2>1. Begun[e][from][n] = Begun[e][from][n - 1] \o <<<<to, As[from][n]>>>>
    BY <1>1, <1>3
  <2>2. Begun[e][from][n] = Cat(Begun[e][from][n - 1], k)
    BY <2>1 DEF Cat
  <2> QED BY <1>3, <2>2, KindsApart
<1>4. CASE <<from, n, to>> \in LeadsTo /\ e # 0
  <2>1. Begun[e][from][n] = Begun[e][from][n - 1] \o (Walk[e - 1][to] \o <<<<to, As[from][n]>>>>)
    BY <1>2, <1>4
  <2>2. Begun[e][from][n] = Cat(Begun[e][from][n - 1], Cat(Walk[e - 1][to], k))
    BY <2>1 DEF Cat
  <2> QED BY <1>4, <2>2, KindsApart
<1> QED BY <1>3, <1>4

-----------------------------------------------------------------------------
(* Frame j of the stack: the file of its module, and how many of its        *)
(* imports V8 has.                                                          *)
File(j) == FileOf(stack[j].id)
Done(j) == Len(stack[j].requested)

(* The entry module is at the bottom, and what began later is above.        *)
Order ==
    /\ 1 \in DOMAIN instances
    /\ stack # <<>> => stack[1].id = 1 /\ ~ stack[1].retry
    /\ \A j, k \in DOMAIN stack : j < k => stack[j].id < stack[k].id

(* The stack holds what V8 is preparing, for the first time or again.       *)
Statuses ==
    \A i \in DOMAIN instances :
       /\ instances[i].status = "preparing" <=> \E j \in DOMAIN stack : stack[j].id = i /\ ~ stack[j].retry
       /\ instances[i].status = "retried" <=> \E j \in DOMAIN stack : stack[j].id = i /\ stack[j].retry

(* What V8 got for an import is the module of that file, begun after the    *)
(* module that imports it.                                                  *)
Answers ==
    \A j \in DOMAIN stack :
       /\ Done(j) <= Size[File(j)]
       /\ \A i \in 1 .. Done(j) : \A r \in DOMAIN instances : r = stack[j].requested[i] =>
             /\ j < StackLimit
             /\ stack[j].id < r
             /\ instances[r].status # "preparing"
             /\ <<File(j), i, instances[r].file>> \in LeadsTo

(* A frame is there for the next import of the one below it, or for one of  *)
(* the modules that one got.                                                *)
Links ==
    \A j, k \in DOMAIN stack : k = j + 1 =>
       IF stack[k].retry
       THEN /\ Done(j) = Size[File(j)]
            /\ \E i \in 1 .. Done(j) : stack[j].requested[i] = stack[k].id
       ELSE /\ Done(j) < Size[File(j)]
            /\ <<File(j), Done(j) + 1, File(k)>> \in LeadsTo

(* The structure of the stack and of the modules.                           *)
Base == TypeOK /\ program \in Programs /\ Order /\ Statuses /\ Answers /\ Links

-----------------------------------------------------------------------------
(* Frames while n modules have been compiled, and modules.                  *)
FrameSet(n) == [id : 1 .. n, requested : Seq(0 .. n), retry : BOOLEAN]
InstanceSet == [file : Files, status : {"preparing", "unlinked", "retried", "evaluated"}]

(* The type, with the lengths of the sequences.                             *)
LEMMA Typing ==
    ASSUME TypeOK
    PROVE  \E n, N \in Nat :
              /\ n = Len(instances) /\ DOMAIN instances = 1 .. n
              /\ N = Len(stack) /\ DOMAIN stack = 1 .. N /\ N <= StackLimit
              /\ stack \in Seq(FrameSet(n)) /\ instances \in Seq(InstanceSet)
              /\ \A i \in 1 .. n : instances[i] \in InstanceSet
              /\ \A j \in 1 .. N : stack[j] \in FrameSet(n)
<1>1. instances \in Seq(InstanceSet) /\ Len(stack) <= StackLimit
  BY DEF TypeOK, InstanceSet
<1>2. PICK n \in Nat : n = Len(instances) /\ DOMAIN instances = 1 .. n
                      /\ \A i \in 1 .. n : instances[i] \in InstanceSet
  BY <1>1, SeqFacts
<1>3. stack \in Seq(FrameSet(n))
  <2>1. (1 .. n) \cup {Ready} = 0 .. n
    BY DEF Ready
  <2> QED BY <1>2, <2>1 DEF TypeOK, FrameSet
<1>4. PICK N \in Nat : N = Len(stack) /\ DOMAIN stack = 1 .. N
                      /\ \A j \in 1 .. N : stack[j] \in FrameSet(n)
  BY <1>3, SeqFacts
<1> QED BY <1>1, <1>2, <1>3, <1>4

(* What Returns does.                                                       *)
Added(f, id) == [f EXCEPT !.requested = Append(@, id)]

(* Only the last frame changes, ...                                         *)
LEMMA ReturnsIs ==
    ASSUME NEW n \in Nat, NEW q \in Seq(FrameSet(n)), NEW id \in 0 .. n, q # <<>>
    PROVE  /\ Returns(q, id) \in Seq(FrameSet(n)) /\ Len(Returns(q, id)) = Len(q)
           /\ \A j \in 1 .. Len(q) - 1 : Returns(q, id)[j] = q[j]
           /\ Returns(q, id)[Len(q)] = Added(q[Len(q)], id)
<1>1. PICK N \in Nat : N = Len(q) /\ N # 0 /\ \A j \in 1 .. N : q[j] \in FrameSet(n)
  BY SeqFacts, EmptySeq
<1>2. PICK f : f = Added(q[N], id)
  OBVIOUS
<1>3. f \in FrameSet(n)
  <2>1. q[N] \in FrameSet(n)
    BY <1>1
  <2>2. Append(q[N].requested, id) \in Seq(0 .. n)
    BY <2>1, AppendProperties DEF FrameSet
  <2> QED BY <1>2, <2>1, <2>2 DEF FrameSet, Added
<1>4. Returns(q, id) = [q EXCEPT ![N] = f]
  BY <1>1, <1>2 DEF Returns, Added
<1>5. N \in 1 .. Len(q)
  BY <1>1
<1>6. PICK r : r = [q EXCEPT ![N] = f]
  OBVIOUS
<1>7. r \in Seq(FrameSet(n)) /\ Len(r) = Len(q) /\ \A j \in 1 .. Len(q) : r[j] = IF j = N THEN f ELSE q[j]
  BY <1>3, <1>5, <1>6, ExceptSeq
<1>8. Returns(q, id) = r
  BY <1>4, <1>6
<1>9. \A j \in 1 .. N - 1 : j \in 1 .. N /\ j # N
  OBVIOUS
<1>10. r[N] = f /\ \A j \in 1 .. N - 1 : r[j] = q[j]
  <2>1. \A j \in 1 .. N : r[j] = IF j = N THEN f ELSE q[j]
    BY <1>1, <1>7
  <2>2. N \in 1 .. N
    BY <1>1
  <2> QED BY <1>9, <2>1, <2>2
<1> QED BY <1>1, <1>2, <1>7, <1>8, <1>10

(* ... and only by one more import it has got.                              *)
LEMMA AddsIs ==
    ASSUME NEW n \in Nat, NEW f \in FrameSet(n), NEW id \in 0 .. n,
           NEW g, g = Added(f, id)
    PROVE  /\ g.id = f.id /\ g.retry = f.retry
           /\ Len(f.requested) \in Nat /\ Len(g.requested) = Len(f.requested) + 1
           /\ \A i \in 1 .. Len(f.requested) : g.requested[i] = f.requested[i]
           /\ g.requested[Len(f.requested) + 1] = id
<1>1. f.requested \in Seq(0 .. n) /\ g.requested = Append(f.requested, id)
  BY DEF FrameSet, Added
<1>2. g.id = f.id /\ g.retry = f.retry
  BY DEF FrameSet, Added
<1> QED BY <1>1, <1>2, AppendProperties, LenProperties

(* What Become does.                                                        *)
LEMMA BecomeIs ==
    ASSUME TypeOK, NEW id \in DOMAIN instances, NEW s \in {"unlinked", "evaluated"}
    PROVE  /\ Become(id, s) \in Seq(InstanceSet) /\ DOMAIN Become(id, s) = DOMAIN instances
           /\ Len(Become(id, s)) = Len(instances)
           /\ \A i \in DOMAIN instances :
                 /\ Become(id, s)[i].file = instances[i].file
                 /\ Become(id, s)[i].status =
                       IF i >= id /\ instances[i].status \in {"preparing", "retried"}
                       THEN s ELSE instances[i].status
<1>1. PICK n \in Nat : n = Len(instances) /\ DOMAIN instances = 1 .. n
                      /\ \A i \in 1 .. n : instances[i] \in InstanceSet
  BY Typing
<1>2. PICK b : b = Become(id, s)
  OBVIOUS
<1>3. b = [i \in 1 .. n |->
       IF i >= id /\ instances[i].status \in {"preparing", "retried"}
       THEN [instances[i] EXCEPT !.status = s] ELSE instances[i]]
  BY <1>1, <1>2 DEF Become
<1>4. ASSUME NEW i \in 1 .. n
      PROVE  /\ b[i] \in InstanceSet /\ b[i].file = instances[i].file
             /\ b[i].status = IF i >= id /\ instances[i].status \in {"preparing", "retried"}
                              THEN s ELSE instances[i].status
  BY <1>1, <1>3 DEF InstanceSet
<1>5. DOMAIN b = 1 .. n /\ b \in [1 .. n -> InstanceSet]
  BY <1>3, <1>4
<1>6. b \in Seq(InstanceSet) /\ Len(b) = n
  BY <1>5
<1> QED BY <1>1, <1>2, <1>4, <1>5, <1>6

-----------------------------------------------------------------------------
(* The frames above m go, and frame m gets id for its next import.          *)
Move(m, id) ==
    /\ Len(stack') = m
    /\ \A j \in 1 .. m - 1 : stack'[j] = stack[j]
    /\ m # 0 => /\ stack'[m].id = stack[m].id /\ stack'[m].retry = stack[m].retry
                /\ Len(stack'[m].requested) = Done(m) + 1
                /\ \A i \in 1 .. Done(m) : stack'[m].requested[i] = stack[m].requested[i]
                /\ stack'[m].requested[Done(m) + 1] = id

(* A frame comes on top.                                                    *)
Push(id, retry) ==
    /\ Len(stack') = Len(stack) + 1
    /\ \A j \in 1 .. Len(stack) : stack'[j] = stack[j]
    /\ stack'[Len(stack) + 1] = Frame(id, retry)

(* The modules there are keep their files.                                  *)
Known ==
    \A i \in DOMAIN instances : i \in DOMAIN instances' /\ instances'[i].file = instances[i].file

(* Returns, applied to the frames up to m, moves frame m.                   *)
LEMMA ReturnsMoves ==
    ASSUME TypeOK, NEW m \in 0 .. Len(stack), NEW id \in 0 .. Len(instances),
           NEW q, Len(q) = m, q \in Seq(FrameSet(Len(instances))),
           \A j \in 1 .. m : q[j] = stack[j], stack' = Returns(q, id)
    PROVE  Move(m, id) /\ stack' \in Seq(FrameSet(Len(instances)))
<1>1. PICK n \in Nat : n = Len(instances)
  BY Typing
<1>2. m \in Nat
  BY Typing
<1>3. CASE q = <<>>
  <2>1. stack' = <<>> /\ m = 0
    BY <1>3, EmptySeq DEF Returns
  <2>2. \A j \in 1 .. 0 - 1 : FALSE
    OBVIOUS
  <2> QED BY <2>1, <2>2, EmptySeq DEF Move
<1>4. CASE q # <<>>
  <2>1. /\ stack' \in Seq(FrameSet(n)) /\ Len(stack') = m
        /\ \A j \in 1 .. m - 1 : stack'[j] = q[j]
        /\ stack'[m] = Added(q[m], id)
    <3>1. q \in Seq(FrameSet(n)) /\ id \in 0 .. n
      BY <1>1
    <3>2. /\ Returns(q, id) \in Seq(FrameSet(n)) /\ Len(Returns(q, id)) = Len(q)
          /\ \A j \in 1 .. Len(q) - 1 : Returns(q, id)[j] = q[j]
          /\ Returns(q, id)[Len(q)] = Added(q[Len(q)], id)
      BY <1>1, <1>4, <3>1, ReturnsIs
    <3> QED BY <3>2
  <2>2. m # 0 => m \in 1 .. m
    BY <1>2
  <2>3. m # 0 => q[m] \in FrameSet(n) /\ q[m] = stack[m]
    BY <1>1, <2>2, SeqFacts
  <2>4. m # 0 => /\ stack'[m].id = stack[m].id /\ stack'[m].retry = stack[m].retry
                 /\ Len(stack'[m].requested) = Done(m) + 1
                 /\ \A i \in 1 .. Done(m) : stack'[m].requested[i] = stack[m].requested[i]
                 /\ stack'[m].requested[Done(m) + 1] = id
    <3> SUFFICES ASSUME m # 0
                 PROVE  /\ stack'[m].id = stack[m].id /\ stack'[m].retry = stack[m].retry
                        /\ Len(stack'[m].requested) = Done(m) + 1
                        /\ \A i \in 1 .. Done(m) : stack'[m].requested[i] = stack[m].requested[i]
                        /\ stack'[m].requested[Done(m) + 1] = id
      OBVIOUS
    <3>1. PICK f \in FrameSet(n) : f = stack[m] /\ stack'[m] = Added(f, id)
      BY <2>1, <2>3
    <3>2. PICK g : g = Added(f, id)
      OBVIOUS
    <3>3. id \in 0 .. n
      BY <1>1
    <3>4. /\ g.id = f.id /\ g.retry = f.retry
          /\ Len(f.requested) \in Nat /\ Len(g.requested) = Len(f.requested) + 1
          /\ \A i \in 1 .. Len(f.requested) : g.requested[i] = f.requested[i]
          /\ g.requested[Len(f.requested) + 1] = id
      BY <3>2, <3>3, AddsIs
    <3> QED BY <3>1, <3>2, <3>4 DEF Done
  <2>5. \A j \in 1 .. m - 1 : stack'[j] = stack[j]
    <3>1. \A j \in 1 .. m - 1 : j \in 1 .. m
      BY <1>2
    <3> QED BY <2>1, <3>1
  <2> QED BY <1>1, <2>1, <2>4, <2>5 DEF Move
<1> QED BY <1>3, <1>4

(* The innermost frame gets a module that is always linked.                 *)
LEMMA ReadyMoves ==
    ASSUME TypeOK, stack # <<>>, stack' = Returns(stack, Ready)
    PROVE  Move(Len(stack), Ready) /\ stack' \in Seq(FrameSet(Len(instances)))
<1>1. PICK n, N \in Nat : n = Len(instances) /\ N = Len(stack) /\ stack \in Seq(FrameSet(n))
  BY Typing
<1>2. Ready \in 0 .. n /\ N \in 0 .. N
  BY <1>1 DEF Ready
<1> QED BY <1>1, <1>2, ReturnsMoves

(* The frame below a module that is left gets that module.                  *)
LEMMA LeaveMoves ==
    ASSUME TypeOK, NEW k \in DOMAIN stack,
           stack' = Returns(SubSeq(stack, 1, k - 1), stack[k].id)
    PROVE  Move(k - 1, stack[k].id) /\ stack' \in Seq(FrameSet(Len(instances)))
<1>1. PICK n, N \in Nat : /\ n = Len(instances) /\ N = Len(stack) /\ stack \in Seq(FrameSet(n))
                          /\ DOMAIN stack = 1 .. N /\ \A j \in 1 .. N : stack[j] \in FrameSet(n)
  BY Typing
<1>2. k - 1 \in 0 .. N /\ k - 1 \in Int /\ 1 .. k - 1 \subseteq 1 .. N
  BY <1>1
<1>3. PICK q : q = SubSeq(stack, 1, k - 1)
  OBVIOUS
<1>4. q \in Seq(FrameSet(n)) /\ Len(q) = k - 1 /\ \A j \in 1 .. k - 1 : q[j] = stack[j]
  <2>1. /\ q \in Seq(FrameSet(n))
        /\ Len(q) = IF 1 <= k - 1 THEN (k - 1) - 1 + 1 ELSE 0
        /\ \A j \in 1 .. (k - 1) - 1 + 1 : q[j] = stack[1 + j - 1]
    BY <1>1, <1>2, <1>3, SubSeqProperties
  <2>2. k \in Nat /\ k >= 1
    BY <1>1
  <2>3. \A j \in 1 .. k - 1 : 1 + j - 1 = j /\ j \in 1 .. (k - 1) - 1 + 1
    BY <2>2
  <2> QED BY <2>1, <2>2, <2>3
<1>5. stack[k].id \in 0 .. n
  BY <1>1 DEF FrameSet
<1> QED BY <1>1, <1>2, <1>3, <1>4, <1>5, ReturnsMoves

(* Such a move keeps the structure, if what the frame gets is linked, given *)
(* up or the module it asked for.                                           *)
LEMMA MoveKeeps ==
    ASSUME Base, program' = program, NEW m \in 0 .. Len(stack), NEW id, Move(m, id),
           stack' \in Seq(FrameSet(Len(instances))), Known, DOMAIN instances' = DOMAIN instances,
           \A i \in DOMAIN instances :
              instances'[i].status = "preparing" => instances[i].status = "preparing",
           m # 0 => Done(m) < Size[File(m)],
           m # 0 /\ id # Ready =>
              /\ m < StackLimit /\ stack[m].id < id /\ id \in DOMAIN instances
              /\ instances'[id].status # "preparing"
              /\ <<File(m), Done(m) + 1, instances[id].file>> \in LeadsTo
    PROVE  Order' /\ Answers' /\ Links'
<1>1. PICK n, N \in Nat :
        /\ n = Len(instances) /\ DOMAIN instances = 1 .. n
        /\ N = Len(stack) /\ DOMAIN stack = 1 .. N /\ N <= StackLimit
        /\ \A j \in 1 .. N : stack[j] \in FrameSet(n)
  BY Typing DEF Base
<1>2. m \in Nat /\ m <= N /\ DOMAIN stack' = 1 .. m /\ 1 .. m \subseteq 1 .. N
  <2>1. DOMAIN stack' = 1 .. Len(stack')
    BY SeqFacts
  <2> QED BY <1>1, <2>1 DEF Move
<1>3. /\ Size' = Size /\ LeadsTo' = LeadsTo
  BY Same
<1>4. \A j \in 1 .. m : /\ stack'[j].id = stack[j].id /\ stack'[j].retry = stack[j].retry
                        /\ stack[j].id \in DOMAIN instances /\ Done(j) \in Nat
                        /\ File(j)' = File(j)
  <2> SUFFICES ASSUME NEW j \in 1 .. m
               PROVE  /\ stack'[j].id = stack[j].id /\ stack'[j].retry = stack[j].retry
                      /\ stack[j].id \in DOMAIN instances /\ Done(j) \in Nat
                      /\ File(j)' = File(j)
    OBVIOUS
  <2>1. stack'[j].id = stack[j].id /\ stack'[j].retry = stack[j].retry
    <3>1. j \in 1 .. m - 1 \/ (j = m /\ m # 0)
      BY <1>2
    <3> QED BY <3>1 DEF Move
  <2>2. stack[j] \in FrameSet(n)
    BY <1>1, <1>2
  <2>3. stack[j].id \in 1 .. n /\ Done(j) \in Nat
    BY <2>2, LenProperties DEF FrameSet, Done
  <2> QED BY <1>1, <2>1, <2>3 DEF Known, File, FileOf
<1>5. \A j \in 1 .. m - 1 : j \in 1 .. m /\ Done(j)' = Done(j) /\ stack'[j].requested = stack[j].requested
  BY <1>2 DEF Move, Done
<1>6. m # 0 => /\ m \in 1 .. m /\ Done(m)' = Done(m) + 1
               /\ \A i \in 1 .. Done(m) : stack'[m].requested[i] = stack[m].requested[i]
               /\ stack'[m].requested[Done(m) + 1] = id
  BY <1>2 DEF Move, Done
<1>7. Order'
  <2>1. m # 0 => 1 \in 1 .. m
    BY <1>2
  <2>2. stack' # <<>> => m # 0
    <3>1. m = 0 => stack' = <<>>
      BY EmptySeq DEF Move
    <3> QED BY <3>1
  <2>3. stack = <<>> => m = 0
    BY <1>1, <1>2, EmptySeq
  <2> QED BY <1>2, <1>4, <2>1, <2>2, <2>3, <1>1 DEF Order, Base
<1>8. Answers'
  <2>1. ASSUME NEW j \in 1 .. m
        PROVE  /\ Done(j)' <= Size[File(j)]
               /\ \A i \in 1 .. Done(j)' : \A r \in DOMAIN instances : r = stack'[j].requested[i] =>
                     /\ j < StackLimit
                     /\ stack[j].id < r
                     /\ instances'[r].status # "preparing"
                     /\ <<File(j), i, instances[r].file>> \in LeadsTo
    <3>1. /\ Done(j) <= Size[File(j)]
          /\ \A i \in 1 .. Done(j) : \A r \in DOMAIN instances : r = stack[j].requested[i] =>
                /\ j < StackLimit
                /\ stack[j].id < r
                /\ instances[r].status # "preparing"
                /\ <<File(j), i, instances[r].file>> \in LeadsTo
      BY <1>1, <1>2 DEF Answers, Base
    <3>2. CASE j \in 1 .. m - 1
      BY <1>5, <3>1, <3>2
    <3>3. CASE j = m /\ m # 0
      <4>1. File(m) \in Files /\ Size[File(m)] \in Nat
        <5>1. File(m) \in Files
          BY <1>4, <3>3, Typing DEF File, FileOf, InstanceSet, Base
        <5> QED BY <5>1, ImportsType DEF Size, Base
      <4>2. Done(m)' <= Size[File(m)]
        BY <1>4, <1>6, <3>3, <4>1
      <4>3. ASSUME NEW i \in 1 .. Done(m) + 1, NEW r \in DOMAIN instances, r = stack'[m].requested[i]
            PROVE  /\ m < StackLimit
                   /\ stack[m].id < r
                   /\ instances'[r].status # "preparing"
                   /\ <<File(m), i, instances[r].file>> \in LeadsTo
        <5>1. CASE i \in 1 .. Done(m)
          BY <1>6, <3>1, <3>3, <4>3, <5>1
        <5>2. CASE i = Done(m) + 1
          <6>1. r = id /\ id # Ready
            BY <1>1, <1>6, <3>3, <4>3, <5>2 DEF Ready
          <6> QED BY <3>3, <5>2, <6>1
        <5>3. Done(m) \in Nat
          BY <1>4, <3>3
        <5> QED BY <5>1, <5>2, <5>3
      <4> QED BY <1>6, <3>3, <4>2, <4>3
    <3>4. j \in 1 .. m - 1 \/ (j = m /\ m # 0)
      BY <1>2
    <3> QED BY <3>2, <3>3, <3>4
  <2>2. \A r \in DOMAIN instances : instances'[r].file = instances[r].file
    BY DEF Known
  <2>3. ASSUME NEW j \in 1 .. m
        PROVE  /\ Done(j)' <= Size'[File(j)']
               /\ \A i \in 1 .. Done(j)' : \A r \in DOMAIN instances' : r = stack'[j].requested[i] =>
                     /\ j < StackLimit
                     /\ stack'[j].id < r
                     /\ instances'[r].status # "preparing"
                     /\ <<File(j)', i, instances'[r].file>> \in LeadsTo'
    BY <1>3, <1>4, <2>1, <2>2
  <2> QED BY <1>2, <2>3 DEF Answers
<1>9. Links'
  <2>1. ASSUME NEW j \in 1 .. m, NEW k \in 1 .. m, k = j + 1
        PROVE  IF stack[k].retry
               THEN /\ Done(j)' = Size[File(j)]
                    /\ \E i \in 1 .. Done(j)' : stack'[j].requested[i] = stack[k].id
               ELSE /\ Done(j)' < Size[File(j)]
                    /\ <<File(j), Done(j)' + 1, File(k)>> \in LeadsTo
    <3>1. j \in 1 .. m - 1 /\ j \in 1 .. N /\ k \in 1 .. N
      BY <1>2, <2>1
    <3>2. IF stack[k].retry
          THEN /\ Done(j) = Size[File(j)]
               /\ \E i \in 1 .. Done(j) : stack[j].requested[i] = stack[k].id
          ELSE /\ Done(j) < Size[File(j)]
               /\ <<File(j), Done(j) + 1, File(k)>> \in LeadsTo
      BY <1>1, <2>1, <3>1 DEF Links, Base
    <3>3. Done(j)' = Done(j) /\ stack'[j].requested = stack[j].requested
      BY <1>5, <3>1
    <3> QED BY <3>2, <3>3
  <2>2. ASSUME NEW j \in 1 .. m, NEW k \in 1 .. m, k = j + 1
        PROVE  IF stack'[k].retry
               THEN /\ Done(j)' = Size'[File(j)']
                    /\ \E i \in 1 .. Done(j)' : stack'[j].requested[i] = stack'[k].id
               ELSE /\ Done(j)' < Size'[File(j)']
                    /\ <<File(j)', Done(j)' + 1, File(k)'>> \in LeadsTo'
    <3>1. /\ stack'[k].retry = stack[k].retry /\ stack'[k].id = stack[k].id
          /\ File(j)' = File(j) /\ File(k)' = File(k)
      BY <1>4, <2>2
    <3>2. IF stack[k].retry
          THEN /\ Done(j)' = Size[File(j)]
               /\ \E i \in 1 .. Done(j)' : stack'[j].requested[i] = stack[k].id
          ELSE /\ Done(j)' < Size[File(j)]
               /\ <<File(j), Done(j)' + 1, File(k)>> \in LeadsTo
      BY <2>1, <2>2
    <3> QED BY <1>3, <3>1, <3>2
  <2> QED BY <1>2, <2>2 DEF Links
<1> QED BY <1>7, <1>8, <1>9

(* A frame on top keeps the structure, if it is for what the frame below    *)
(* asked for, or for what that one got.                                     *)
LEMMA PushKeeps ==
    ASSUME Base, program' = program, NEW id, NEW retry \in BOOLEAN, Push(id, retry), stack # <<>>,
           NEW n2 \in Nat, n2 >= Len(instances), DOMAIN instances' = 1 .. n2,
           stack' \in Seq(FrameSet(n2)), Known, id \in 1 .. n2,
           \A i \in DOMAIN instances :
              instances'[i].status = "preparing" => instances[i].status = "preparing",
           stack[Len(stack)].id < id,
           IF retry
           THEN /\ Done(Len(stack)) = Size[File(Len(stack))]
                /\ \E i \in 1 .. Done(Len(stack)) : stack[Len(stack)].requested[i] = id
           ELSE /\ Done(Len(stack)) < Size[File(Len(stack))]
                /\ <<File(Len(stack)), Done(Len(stack)) + 1, instances'[id].file>> \in LeadsTo
    PROVE  Order' /\ Answers' /\ Links'
<1>1. PICK n, N \in Nat :
        /\ n = Len(instances) /\ DOMAIN instances = 1 .. n
        /\ N = Len(stack) /\ DOMAIN stack = 1 .. N /\ N <= StackLimit
        /\ \A j \in 1 .. N : stack[j] \in FrameSet(n)
  BY Typing DEF Base
<1>0. n \in Nat /\ N \in Nat
  BY <1>1
<1>2. N # 0 /\ DOMAIN stack' = 1 .. N + 1 /\ 1 .. n \subseteq 1 .. n2
  <2>1. DOMAIN stack' = 1 .. Len(stack')
    BY SeqFacts
  <2>2. N # 0
    BY <1>1, EmptySeq, Typing DEF Base
  <2> QED BY <1>1, <2>1, <2>2 DEF Push
<1>3. /\ Size' = Size /\ LeadsTo' = LeadsTo
  BY Same
<1>4. \A j \in 1 .. N : /\ stack'[j] = stack[j] /\ stack[j].id \in 1 .. n
                        /\ stack[j].requested \in Seq(0 .. n) /\ Done(j) \in Nat
                        /\ File(j)' = File(j) /\ Done(j)' = Done(j)
  <2> SUFFICES ASSUME NEW j \in 1 .. N
               PROVE  /\ stack'[j] = stack[j] /\ stack[j].id \in 1 .. n
                      /\ stack[j].requested \in Seq(0 .. n) /\ Done(j) \in Nat
                      /\ File(j)' = File(j) /\ Done(j)' = Done(j)
    OBVIOUS
  <2>1. stack'[j] = stack[j]
    BY <1>1 DEF Push
  <2>2. stack[j].id \in 1 .. n /\ stack[j].requested \in Seq(0 .. n)
    BY <1>1 DEF FrameSet
  <2>3. Done(j) \in Nat
    BY <2>2, LenProperties DEF Done
  <2> QED BY <1>1, <2>1, <2>2, <2>3 DEF Known, File, FileOf, Done
<1>5. /\ stack'[N + 1].id = id /\ stack'[N + 1].retry = retry
      /\ Done(N + 1)' = 0 /\ File(N + 1)' = instances'[id].file
  <2>1. stack'[N + 1] = Frame(id, retry)
    BY <1>1 DEF Push
  <2> QED BY <2>1, EmptySeq DEF Frame, Done, File, FileOf
<1>6. Order'
  <2>1. \A j \in 1 .. N : stack[j].id < id
    <3> SUFFICES ASSUME NEW j \in 1 .. N PROVE stack[j].id < id
      OBVIOUS
    <3>1. N \in 1 .. N /\ (j < N \/ j = N)
      BY <1>0, <1>2
    <3>2. j < N => stack[j].id < stack[N].id
      BY <1>1, <3>1 DEF Order, Base
    <3>3. stack[N].id < id
      BY <1>1
    <3>4. PICK a \in Nat, b \in Nat, c \in Nat : a = stack[j].id /\ b = stack[N].id /\ c = id
      <4>1. stack[j].id \in 1 .. n /\ stack[N].id \in 1 .. n
        BY <1>4, <3>1
      <4>2. \A x \in 1 .. n : x \in Nat
        BY <1>0
      <4>3. stack[j].id \in Nat /\ stack[N].id \in Nat
        BY <4>1, <4>2
      <4> QED BY <4>3
    <3>5. (a < b \/ a = b) /\ b < c
      BY <3>1, <3>2, <3>3, <3>4
    <3>6. a < c
      BY <3>5
    <3> QED BY <3>4, <3>6
  <2>2. 1 \in 1 .. n2 /\ 1 \in 1 .. N /\ stack'[1].id = 1 /\ ~ stack'[1].retry
    <3>1. 1 \in 1 .. N
      BY <1>0, <1>2
    <3>2. 1 \in DOMAIN instances /\ stack[1].id = 1 /\ ~ stack[1].retry
      BY DEF Order, Base
    <3>3. stack'[1] = stack[1]
      BY <1>4, <3>1
    <3> QED BY <1>1, <1>2, <3>1, <3>2, <3>3
  <2>3. ASSUME NEW j \in 1 .. N + 1, NEW k \in 1 .. N + 1, j < k
        PROVE  stack'[j].id < stack'[k].id
    <3>1. CASE k = N + 1
      <4>1. j \in 1 .. N
        BY <1>1, <2>3, <3>1
      <4> QED BY <1>4, <1>5, <2>1, <3>1, <4>1
    <3>2. CASE k # N + 1
      <4>1. j \in 1 .. N /\ k \in 1 .. N
        BY <1>0, <2>3, <3>2
      <4> QED BY <1>1, <1>4, <2>3, <4>1 DEF Order, Base
    <3> QED BY <3>1, <3>2
  <2> QED BY <1>2, <2>2, <2>3 DEF Order
<1>7. Answers'
  <2>1. ASSUME NEW j \in 1 .. N + 1
        PROVE  /\ Done(j)' <= Size'[File(j)']
               /\ \A i \in 1 .. Done(j)' : \A r \in DOMAIN instances' : r = stack'[j].requested[i] =>
                     /\ j < StackLimit
                     /\ stack'[j].id < r
                     /\ instances'[r].status # "preparing"
                     /\ <<File(j)', i, instances'[r].file>> \in LeadsTo'
    <3>1. CASE j = N + 1
      <4>1. File(j)' \in Files
        <5>1. id \in DOMAIN instances \/ ~ retry
          <6>1. retry => \E i \in 1 .. Done(N) : stack[N].requested[i] = id
            BY <1>1
          <6>2. retry => id \in 0 .. n
            <7>1. stack[N].requested \in Seq(0 .. n)
              BY <1>0, <1>2, <1>4
            <7>2. \A i \in 1 .. Len(stack[N].requested) : stack[N].requested[i] \in 0 .. n
              BY <7>1, SeqFacts
            <7> QED BY <6>1, <7>2 DEF Done
          <6> QED BY <1>1, <6>2
        <5>2. CASE id \in DOMAIN instances
          BY <1>5, <3>1, <5>2, Typing DEF Known, InstanceSet, Base
        <5>3. CASE ~ retry
          BY <1>1, <1>5, <3>1, <5>3, KindsApart
        <5> QED BY <5>1, <5>2, <5>3
      <4>2. Size[File(j)'] \in Nat
        BY <4>1, ImportsType DEF Size, Base
      <4> QED BY <1>3, <1>5, <3>1, <4>2
    <3>2. CASE j # N + 1
      <4>1. j \in 1 .. N
        BY <1>1, <3>2
      <4>2. /\ Done(j) <= Size[File(j)]
            /\ \A i \in 1 .. Done(j) : \A r \in 1 .. n : r = stack[j].requested[i] =>
                  /\ j < StackLimit
                  /\ stack[j].id < r
                  /\ instances[r].status # "preparing"
                  /\ <<File(j), i, instances[r].file>> \in LeadsTo
        BY <1>1, <4>1 DEF Answers, Base
      <4>3. \A i \in 1 .. Done(j) : stack[j].requested[i] \in 0 .. n
        BY <1>4, <4>1, SeqFacts DEF Done
      <4>4. \A i \in 1 .. Done(j) : \A r \in 1 .. n2 : r = stack[j].requested[i] => r \in 1 .. n
        BY <1>1, <4>3
      <4>5. \A r \in 1 .. n : instances'[r].file = instances[r].file
        BY <1>1 DEF Known
      <4>6. \A r \in 1 .. n : instances[r].status # "preparing" => instances'[r].status # "preparing"
        BY <1>1
      <4>7. /\ Done(j)' = Done(j) /\ File(j)' = File(j) /\ stack'[j] = stack[j]
            /\ Size'[File(j)'] = Size[File(j)]
        BY <1>3, <1>4, <4>1
      <4>8. ASSUME NEW i \in 1 .. Done(j), NEW r \in 1 .. n2, r = stack[j].requested[i]
            PROVE  /\ j < StackLimit
                   /\ stack[j].id < r
                   /\ instances'[r].status # "preparing"
                   /\ <<File(j), i, instances'[r].file>> \in LeadsTo
        <5>1. r \in 1 .. n
          BY <4>4, <4>8
        <5>2. /\ j < StackLimit
              /\ stack[j].id < r
              /\ instances[r].status # "preparing"
              /\ <<File(j), i, instances[r].file>> \in LeadsTo
          BY <4>2, <4>8, <5>1
        <5> QED BY <4>5, <4>6, <5>1, <5>2
      <4> QED BY <1>3, <4>2, <4>7, <4>8
    <3> QED BY <3>1, <3>2
  <2> QED BY <1>2, <2>1 DEF Answers
<1>8. Links'
  <2>1. ASSUME NEW j \in 1 .. N + 1, NEW k \in 1 .. N + 1, k = j + 1
        PROVE  IF stack'[k].retry
               THEN /\ Done(j)' = Size'[File(j)']
                    /\ \E i \in 1 .. Done(j)' : stack'[j].requested[i] = stack'[k].id
               ELSE /\ Done(j)' < Size'[File(j)']
                    /\ <<File(j)', Done(j)' + 1, File(k)'>> \in LeadsTo'
    <3>1. j \in 1 .. N
      BY <1>1, <2>1
    <3>2. CASE k = N + 1
      <4>1. j = N
        BY <1>1, <2>1, <3>2
      <4> QED BY <1>1, <1>3, <1>4, <1>5, <3>1, <3>2, <4>1
    <3>3. CASE k # N + 1
      <4>1. k \in 1 .. N
        BY <1>1, <3>3
      <4>2. IF stack[k].retry
            THEN /\ Done(j) = Size[File(j)]
                 /\ \E i \in 1 .. Done(j) : stack[j].requested[i] = stack[k].id
            ELSE /\ Done(j) < Size[File(j)]
                 /\ <<File(j), Done(j) + 1, File(k)>> \in LeadsTo
        BY <1>1, <2>1, <3>1, <4>1 DEF Links, Base
      <4>3. /\ Done(j)' = Done(j) /\ File(j)' = File(j) /\ stack'[j] = stack[j]
            /\ File(k)' = File(k) /\ stack'[k] = stack[k]
        BY <1>4, <3>1, <4>1
      <4> QED BY <1>3, <4>2, <4>3
    <3> QED BY <3>2, <3>3
  <2> QED BY <1>2, <2>1 DEF Links
<1> QED BY <1>6, <1>7, <1>8

-----------------------------------------------------------------------------
(* The type, put together again from its parts.                             *)
LEMMA TypeKept ==
    ASSUME TypeOK, program' = program, NEW n2 \in Nat, Len(instances') = n2,
           instances' \in Seq(InstanceSet), stack' \in Seq(FrameSet(n2)), Len(stack') <= StackLimit,
           modules_' \subseteq Files \X Spellings, runs' \in Seq(Files)
    PROVE  TypeOK'
<1>1. Files' = Files
  BY Same
<1>2. DOMAIN instances' = 1 .. n2 /\ (1 .. n2) \cup {Ready} = 0 .. n2
  BY SeqFacts DEF Ready
<1>3. DOMAIN program'.imports = program'.disk
  BY DEF TypeOK
<1>4. stack' \in Seq([id : DOMAIN instances', requested : Seq(DOMAIN instances' \cup {Ready}),
                     retry : BOOLEAN])
  BY <1>2 DEF FrameSet
<1>5. instances' \in Seq([file : Files', status : {"preparing", "unlinked", "retried", "evaluated"}])
  BY <1>1 DEF InstanceSet
<1> QED BY <1>1, <1>3, <1>4, <1>5 DEF TypeOK

(* A module is left for good, with all that was tried again above it.       *)
Leave(k, s) ==
    /\ ~ stack[k].retry /\ \A j \in k + 1 .. Len(stack) : stack[j].retry
    /\ stack' = Returns(SubSeq(stack, 1, k - 1), stack[k].id)
    /\ instances' = Become(stack[k].id, s)

(* The modules that the frames from k on are for.                           *)
From(k) == {stack[j].id : j \in k .. Len(stack)}

(* What leaving a module does: all that was on its frames has the status s. *)
LEMMA LeaveIs ==
    ASSUME Base, NEW k \in DOMAIN stack, NEW s \in {"unlinked", "evaluated"}, Leave(k, s)
    PROVE  /\ Move(k - 1, stack[k].id) /\ Known
           /\ stack' \in Seq(FrameSet(Len(instances)))
           /\ instances' \in Seq(InstanceSet) /\ Len(instances') = Len(instances)
           /\ DOMAIN instances' = DOMAIN instances
           /\ \A i \in DOMAIN instances :
                 instances'[i].status = IF i \in From(k) THEN s ELSE instances[i].status
<1>1. PICK n, N \in Nat :
        /\ n = Len(instances) /\ DOMAIN instances = 1 .. n
        /\ N = Len(stack) /\ DOMAIN stack = 1 .. N
        /\ \A j \in 1 .. N : stack[j] \in FrameSet(n)
  BY Typing DEF Base
<1>2. \A j \in 1 .. N : stack[j].id \in 1 .. n
  BY <1>1 DEF FrameSet
<1>3. TypeOK /\ stack[k].id \in DOMAIN instances
  BY <1>1, <1>2 DEF Base
<1>4. Move(k - 1, stack[k].id) /\ stack' \in Seq(FrameSet(Len(instances)))
  BY <1>3, LeaveMoves DEF Leave
<1>5. /\ instances' \in Seq(InstanceSet) /\ DOMAIN instances' = DOMAIN instances
      /\ Len(instances') = Len(instances)
      /\ \A i \in DOMAIN instances :
            /\ instances'[i].file = instances[i].file
            /\ instances'[i].status =
                  IF i >= stack[k].id /\ instances[i].status \in {"preparing", "retried"}
                  THEN s ELSE instances[i].status
  BY <1>3, BecomeIs DEF Leave
<1>6. ASSUME NEW i \in 1 .. n
      PROVE  i >= stack[k].id /\ instances[i].status \in {"preparing", "retried"} <=> i \in From(k)
  <2>1. instances[i].status \in {"preparing", "retried"} <=> \E j \in 1 .. N : stack[j].id = i
    <3>1. /\ instances[i].status = "preparing" <=> \E j \in 1 .. N : stack[j].id = i /\ ~ stack[j].retry
          /\ instances[i].status = "retried" <=> \E j \in 1 .. N : stack[j].id = i /\ stack[j].retry
      BY <1>1 DEF Statuses, Base
    <3> QED BY <3>1
  <2>2. \A j \in 1 .. N : j < k => stack[j].id < stack[k].id
    BY <1>1 DEF Order, Base
  <2>3. \A j \in 1 .. N : k < j => stack[k].id < stack[j].id
    BY <1>1 DEF Order, Base
  <2>4. \A j \in k .. N : j \in 1 .. N /\ (j = k \/ k < j)
    BY <1>1
  <2>5. i \in From(k) <=> \E j \in k .. N : stack[j].id = i
    BY <1>1 DEF From
  <2>6. ASSUME NEW j \in 1 .. N, stack[j].id = i, i >= stack[k].id PROVE j \in k .. N
    <3>1. ~ (j < k)
      BY <1>1, <1>2, <2>2, <2>6
    <3> QED BY <1>1, <3>1
  <2>7. ASSUME NEW j \in k .. N, stack[j].id = i PROVE i >= stack[k].id
    BY <1>1, <1>2, <2>3, <2>4, <2>7
  <2> QED BY <2>1, <2>4, <2>5, <2>6, <2>7
<1> QED BY <1>1, <1>4, <1>5, <1>6 DEF Known

(* A module that is evaluated or given up keeps the structure.              *)
LEMMA LeaveKeeps ==
    ASSUME Base, program' = program, NEW k \in DOMAIN stack, NEW s \in {"unlinked", "evaluated"},
           Leave(k, s), modules_' \subseteq Files \X Spellings, runs' \in Seq(Files)
    PROVE  Base'
<1>1. PICK n, N \in Nat :
        /\ n = Len(instances) /\ DOMAIN instances = 1 .. n
        /\ N = Len(stack) /\ DOMAIN stack = 1 .. N /\ N <= StackLimit
        /\ \A j \in 1 .. N : stack[j] \in FrameSet(n)
  BY Typing DEF Base
<1>2. /\ Move(k - 1, stack[k].id) /\ Known
      /\ stack' \in Seq(FrameSet(n))
      /\ instances' \in Seq(InstanceSet) /\ Len(instances') = n
      /\ DOMAIN instances' = DOMAIN instances
      /\ \A i \in DOMAIN instances :
            instances'[i].status = IF i \in From(k) THEN s ELSE instances[i].status
  BY <1>1, LeaveIs
<1>3. k \in 1 .. N /\ k - 1 \in 0 .. N
  BY <1>1
<1>4. stack[k].id \in 1 .. n /\ stack[k].id \in From(k)
  BY <1>1 DEF FrameSet, From
<1>5. TypeOK'
  <2>1. Len(stack') <= StackLimit
    BY <1>1, <1>2, <1>3, LimitAssumption DEF Move
  <2>2. TypeOK
    BY DEF Base
  <2> QED BY <1>1, <1>2, <2>1, <2>2, TypeKept
<1>6. Statuses'
  <2>1. DOMAIN stack' = 1 .. k - 1
    BY <1>2, SeqFacts DEF Move
  <2>2. \A j \in 1 .. k - 1 : j \in 1 .. N /\ stack'[j].id = stack[j].id /\ stack'[j].retry = stack[j].retry
    <3>1. \A j \in 1 .. k - 1 : j \in 1 .. N /\ (j \in 1 .. (k - 1) - 1 \/ j = k - 1) /\ k - 1 # 0
      BY <1>1, <1>3
    <3> QED BY <1>2, <3>1 DEF Move
  <2>3. \A j \in 1 .. N : j \in 1 .. k - 1 \/ j \in k .. N
    BY <1>1, <1>3
  <2>4. ASSUME NEW i \in 1 .. n
        PROVE  /\ instances'[i].status = "preparing" <=> \E j \in 1 .. k - 1 : stack[j].id = i /\ ~ stack[j].retry
               /\ instances'[i].status = "retried" <=> \E j \in 1 .. k - 1 : stack[j].id = i /\ stack[j].retry
    <3>1. /\ instances[i].status = "preparing" <=> \E j \in 1 .. N : stack[j].id = i /\ ~ stack[j].retry
          /\ instances[i].status = "retried" <=> \E j \in 1 .. N : stack[j].id = i /\ stack[j].retry
      BY <1>1 DEF Statuses, Base
    <3>2. CASE i \in From(k)
      <4>1. PICK l \in k .. N : stack[l].id = i
        BY <1>1, <3>2 DEF From
      <4>2. \A j \in 1 .. k - 1 : stack[j].id < i
        <5>1. \A j \in 1 .. k - 1 : j \in 1 .. N /\ l \in 1 .. N /\ j < l
          BY <1>1, <1>3, <4>1
        <5> QED BY <1>1, <4>1, <5>1 DEF Order, Base
      <4>3. \A j \in 1 .. k - 1 : stack[j].id # i
        BY <4>2
      <4>4. instances'[i].status = s
        BY <1>1, <1>2, <3>2
      <4> QED BY <4>3, <4>4
    <3>3. CASE i \notin From(k)
      <4>1. \A j \in k .. N : stack[j].id # i
        BY <1>1, <3>3 DEF From
      <4>2. instances'[i].status = instances[i].status
        BY <1>1, <1>2, <3>3
      <4> QED BY <2>2, <2>3, <3>1, <4>1, <4>2
    <3> QED BY <3>2, <3>3
  <2>5. ASSUME NEW i \in 1 .. n
        PROVE  /\ instances'[i].status = "preparing" <=> \E j \in 1 .. k - 1 : stack'[j].id = i /\ ~ stack'[j].retry
               /\ instances'[i].status = "retried" <=> \E j \in 1 .. k - 1 : stack'[j].id = i /\ stack'[j].retry
    BY <2>2, <2>4
  <2> QED BY <1>1, <1>2, <2>1, <2>5 DEF Statuses
<1>7. Order' /\ Answers' /\ Links'
  <2>1. \A i \in DOMAIN instances :
           instances'[i].status = "preparing" => instances[i].status = "preparing"
    BY <1>2
  <2>2. ASSUME k - 1 # 0
        PROVE  /\ Done(k - 1) < Size[File(k - 1)]
               /\ k - 1 < StackLimit /\ stack[k - 1].id < stack[k].id
               /\ <<File(k - 1), Done(k - 1) + 1, instances[stack[k].id].file>> \in LeadsTo
    <3>1. k - 1 \in 1 .. N /\ k \in 1 .. N /\ k = (k - 1) + 1 /\ k - 1 < k
      BY <1>1, <1>3, <2>2
    <3>2. /\ Done(k - 1) < Size[File(k - 1)]
          /\ <<File(k - 1), Done(k - 1) + 1, File(k)>> \in LeadsTo
      BY <1>1, <3>1 DEF Links, Base, Leave
    <3>3. stack[k - 1].id < stack[k].id
      BY <1>1, <3>1 DEF Order, Base
    <3>4. k - 1 < StackLimit
      BY <1>1, <3>1, LimitAssumption
    <3> QED BY <3>2, <3>3, <3>4 DEF File, FileOf
  <2>3. instances'[stack[k].id].status # "preparing"
    BY <1>1, <1>2, <1>4
  <2> QED BY <1>1, <1>2, <1>3, <1>4, <2>1, <2>2, <2>3, MoveKeeps
<1>8. program' \in Programs
  BY DEF Base
<1> QED BY <1>5, <1>6, <1>7, <1>8 DEF Base

-----------------------------------------------------------------------------
(* Whether the innermost module has an import to come, by the numbers.      *)
LEMMA AsksIs ==
    ASSUME Base
    PROVE  /\ Asks <=> stack # <<>> /\ Done(Len(stack)) < Size[File(Len(stack))]
           /\ stack # <<>> =>
                 /\ Len(stack) \in DOMAIN stack /\ Top = stack[Len(stack)]
                 /\ File(Len(stack)) \in Files /\ Size[File(Len(stack))] \in Nat
                 /\ Done(Len(stack)) \in 0 .. Size[File(Len(stack))]
<1>1. PICK n, N \in Nat :
        /\ n = Len(instances) /\ DOMAIN instances = 1 .. n
        /\ N = Len(stack) /\ DOMAIN stack = 1 .. N
        /\ stack \in Seq(FrameSet(n)) /\ \A i \in 1 .. n : instances[i] \in InstanceSet
        /\ \A j \in 1 .. N : stack[j] \in FrameSet(n)
  BY Typing DEF Base
<1>2. SUFFICES ASSUME stack # <<>>
               PROVE  /\ Asks <=> Done(N) < Size[File(N)]
                      /\ N \in DOMAIN stack /\ Top = stack[N]
                      /\ File(N) \in Files /\ Size[File(N)] \in Nat
                      /\ Done(N) \in 0 .. Size[File(N)]
  BY <1>1 DEF Asks
<1>3. N \in 1 .. N
  BY <1>1, <1>2, EmptySeq
<1>4. Top = stack[N]
  BY <1>1 DEF Top, Last
<1>5. File(N) \in Files
  BY <1>1, <1>3 DEF File, FileOf, FrameSet, InstanceSet
<1>6. Size[File(N)] = Len(Imports(File(N))) /\ Size[File(N)] \in Nat
  BY <1>5, ImportsType DEF Size, Base
<1>7. Asks <=> Done(N) < Size[File(N)]
  BY <1>2, <1>4, <1>6 DEF Asks, Requests, Done, File
<1>8. Done(N) \in Nat /\ Done(N) <= Size[File(N)]
  BY <1>1, <1>3, LenProperties DEF Answers, Base, Done, FrameSet
<1> QED BY <1>1, <1>3, <1>4, <1>5, <1>6, <1>7, <1>8

(* What the next import of the innermost module is.                         *)
LEMMA ImportIs ==
    ASSUME Base, Asks, NEW f, f = File(Len(stack)), NEW i, i = Done(Len(stack)) + 1
    PROVE  /\ f \in Files /\ i \in 1 .. Size[f]
           /\ Import.name = Native => <<f, i>> \in NativeAt
           /\ Import.name # Native /\ ~ Loads(Import.name) => <<f, i>> \in MissingAt
           /\ Finds => /\ Imported \in Files /\ Key = <<Imported, As[f][i]>>
                       /\ Key \in Files \X Spellings
                       /\ IsJson(Imported) => <<f, i, Imported>> \in JsonAt
                       /\ ~ IsJson(Imported) => <<f, i, Imported>> \in LeadsTo
<1>1. /\ stack # <<>> /\ Top = stack[Len(stack)] /\ f \in Files /\ Size[f] \in Nat
      /\ Done(Len(stack)) \in 0 .. Size[f] /\ Done(Len(stack)) < Size[f]
  BY AsksIs
<1>2. i \in 1 .. Size[f] /\ i \in Nat
  BY <1>1
<1>3. Import = Imports(f)[i]
  BY <1>1 DEF Import, Requests, File, Done
<1>4. Import.name = Native => <<f, i>> \in NativeAt
  BY <1>1, <1>2, <1>3 DEF NativeAt
<1>5. Import.name # Native /\ ~ Loads(Import.name) => <<f, i>> \in MissingAt
  BY <1>1, <1>2, <1>3 DEF MissingAt
<1>6. ASSUME Finds
      PROVE  /\ Imported \in Files /\ Key = <<Imported, As[f][i]>>
             /\ Key \in Files \X Spellings
             /\ IsJson(Imported) => <<f, i, Imported>> \in JsonAt
             /\ ~ IsJson(Imported) => <<f, i, Imported>> \in LeadsTo
  <2>1. Imported \in Files /\ Import.name # Native /\ Loads(Import.name)
    BY <1>6, ResolveOnDisk DEF Finds, Imported
  <2>2. i \in DOMAIN Imports(f) /\ Imports(f)[i].as \in Spellings
    BY <1>1, <1>2, ImportsType DEF Size, Base
  <2>3. As[f][i] = Imports(f)[i].as
    BY <1>1, <2>2 DEF As
  <2>4. Key = <<Imported, As[f][i]>> /\ Key \in Files \X Spellings
    BY <1>3, <2>1, <2>2, <2>3 DEF Key
  <2>5. PICK g \in Files : g = Imported /\ g = Resolve(Imports(f)[i].name)
    BY <1>3, <2>1 DEF Imported
  <2>6. <<f, i, g>> \in GoesTo
    BY <1>1, <1>2, <1>3, <2>1, <2>5 DEF GoesTo
  <2> QED BY <2>1, <2>4, <2>5, <2>6 DEF JsonAt, LeadsTo
<1> QED BY <1>1, <1>2, <1>4, <1>5, <1>6

(* V8 gets a module that is always linked.                                  *)
LEMMA ReadyKeeps ==
    ASSUME Base, Asks, stack' = Returns(stack, Ready), program' = program, instances' = instances,
           modules_' \subseteq Files \X Spellings, runs' \in Seq(Files)
    PROVE  Base'
<1>1. PICK n, N \in Nat :
        /\ n = Len(instances) /\ DOMAIN instances = 1 .. n /\ instances \in Seq(InstanceSet)
        /\ N = Len(stack) /\ DOMAIN stack = 1 .. N /\ N <= StackLimit
  BY Typing DEF Base
<1>2. stack # <<>> /\ Done(N) < Size[File(N)] /\ N # 0
  BY <1>1, AsksIs
<1>3. Move(N, Ready) /\ stack' \in Seq(FrameSet(n)) /\ TypeOK
  BY <1>1, <1>2, ReadyMoves DEF Base
<1>4. Len(stack') = N
  BY <1>3 DEF Move
<1>5. TypeOK'
  BY <1>1, <1>3, <1>4, TypeKept
<1>6. Statuses'
  <2>1. DOMAIN stack' = 1 .. N
    BY <1>3, <1>4, SeqFacts
  <2>2. \A j \in 1 .. N : stack'[j].id = stack[j].id /\ stack'[j].retry = stack[j].retry
    <3>1. \A j \in 1 .. N : j \in 1 .. N - 1 \/ j = N
      BY <1>1
    <3> QED BY <1>2, <1>3, <3>1 DEF Move
  <2>3. ASSUME NEW i \in 1 .. n
        PROVE  /\ instances[i].status = "preparing" <=> \E j \in 1 .. N : stack[j].id = i /\ ~ stack[j].retry
               /\ instances[i].status = "retried" <=> \E j \in 1 .. N : stack[j].id = i /\ stack[j].retry
    BY <1>1 DEF Statuses, Base
  <2>4. ASSUME NEW i \in 1 .. n
        PROVE  /\ instances'[i].status = "preparing" <=> \E j \in 1 .. N : stack'[j].id = i /\ ~ stack'[j].retry
               /\ instances'[i].status = "retried" <=> \E j \in 1 .. N : stack'[j].id = i /\ stack'[j].retry
    BY <2>2, <2>3
  <2>5. DOMAIN instances' = 1 .. n
    BY <1>1
  <2> QED BY <2>1, <2>4, <2>5 DEF Statuses
<1>7. Order' /\ Answers' /\ Links'
  <2>1. Known /\ N \in 0 .. N /\ DOMAIN instances' = DOMAIN instances
    BY <1>1 DEF Known
  <2>2. \A i \in DOMAIN instances :
           instances'[i].status = "preparing" => instances[i].status = "preparing"
    OBVIOUS
  <2> QED BY <1>1, <1>2, <1>3, <2>1, <2>2, MoveKeeps
<1>8. program' \in Programs
  BY DEF Base
<1> QED BY <1>5, <1>6, <1>7, <1>8 DEF Base

(* A frame that is appended is a frame on top.                              *)
LEMMA PushIs ==
    ASSUME NEW n \in Nat, stack \in Seq(FrameSet(n)), NEW n2 \in Nat, n <= n2,
           NEW id \in 1 .. n2, NEW retry \in BOOLEAN, stack' = Append(stack, Frame(id, retry))
    PROVE  Push(id, retry) /\ stack' \in Seq(FrameSet(n2))
<1>1. FrameSet(n) \subseteq FrameSet(n2)
  <2>1. 1 .. n \subseteq 1 .. n2 /\ 0 .. n \subseteq 0 .. n2
    OBVIOUS
  <2>2. Seq(0 .. n) \subseteq Seq(0 .. n2)
    BY <2>1, SeqMonotonic
  <2> QED BY <2>1, <2>2 DEF FrameSet
<1>2. stack \in Seq(FrameSet(n2))
  BY <1>1, SeqMonotonic
<1>3. PICK f : f = Frame(id, retry)
  OBVIOUS
<1>4. f \in FrameSet(n2)
  BY <1>3, EmptySeq DEF Frame, FrameSet
<1> QED BY <1>2, <1>3, <1>4, AppendProperties, LenProperties DEF Push

(* What compiling a module does.                                            *)
LEMMA CompileIs ==
    ASSUME Base, stack # <<>>, Len(stack) < StackLimit, NEW f \in Files, Compile(f)
    PROVE  /\ Push(Len(instances) + 1, FALSE) /\ Known
           /\ instances' \in Seq(InstanceSet) /\ Len(instances') = Len(instances) + 1
           /\ DOMAIN instances' = 1 .. Len(instances) + 1
           /\ instances'[Len(instances) + 1] = [file |-> f, status |-> "preparing"]
           /\ \A i \in DOMAIN instances : instances'[i] = instances[i]
           /\ stack' \in Seq(FrameSet(Len(instances) + 1))
<1>1. PICK n, N \in Nat :
        /\ n = Len(instances) /\ DOMAIN instances = 1 .. n /\ instances \in Seq(InstanceSet)
        /\ stack \in Seq(FrameSet(n))
  BY Typing DEF Base
<1>2. PICK e : e = [file |-> f, status |-> "preparing"]
  OBVIOUS
<1>3. e \in InstanceSet
  BY <1>2 DEF InstanceSet
<1>4. instances' = Append(instances, e)
  BY <1>2 DEF Compile
<1>5. /\ instances' \in Seq(InstanceSet) /\ Len(instances') = n + 1 /\ DOMAIN instances' = 1 .. n + 1
      /\ instances'[n + 1] = e /\ \A i \in 1 .. n : instances'[i] = instances[i]
  BY <1>1, <1>3, <1>4, AppendProperties, LenProperties
<1>6. Push(n + 1, FALSE) /\ stack' \in Seq(FrameSet(n + 1))
  <2>1. stack' = Append(stack, Frame(n + 1, FALSE))
    BY <1>1 DEF Compile
  <2>2. n + 1 \in Nat /\ n <= n + 1 /\ n + 1 \in 1 .. n + 1
    BY <1>1
  <2> QED BY <1>1, <2>1, <2>2, PushIs
<1>7. Known
  BY <1>1, <1>5 DEF Known
<1> QED BY <1>1, <1>2, <1>5, <1>6, <1>7

(* A new module keeps the structure.                                        *)
LEMMA CompileKeeps ==
    ASSUME Base, Asks, Len(stack) # StackLimit, NEW f \in Files, Compile(f),
           <<File(Len(stack)), Done(Len(stack)) + 1, f>> \in LeadsTo,
           modules_' \subseteq Files \X Spellings
    PROVE  Base'
<1>1. PICK n, N \in Nat :
        /\ n = Len(instances) /\ DOMAIN instances = 1 .. n /\ instances \in Seq(InstanceSet)
        /\ N = Len(stack) /\ DOMAIN stack = 1 .. N /\ N <= StackLimit
        /\ \A j \in 1 .. N : stack[j] \in FrameSet(n)
  BY Typing DEF Base
<1>2. stack # <<>> /\ Done(N) < Size[File(N)] /\ N \in 1 .. N
  BY <1>1, AsksIs
<1>3. Len(stack) < StackLimit
  BY <1>1, LimitAssumption
<1>4. /\ Push(n + 1, FALSE) /\ Known
      /\ instances' \in Seq(InstanceSet) /\ Len(instances') = n + 1
      /\ DOMAIN instances' = 1 .. n + 1
      /\ instances'[n + 1] = [file |-> f, status |-> "preparing"]
      /\ \A i \in 1 .. n : instances'[i] = instances[i]
      /\ stack' \in Seq(FrameSet(n + 1))
  BY <1>1, <1>2, <1>3, CompileIs
<1>5. \A j \in 1 .. N : stack[j].id \in 1 .. n
  BY <1>1 DEF FrameSet
<1>6. program' = program /\ runs' = runs
  BY DEF Compile
<1>7. n + 1 \in Nat /\ n + 1 >= n /\ n + 1 \in 1 .. n + 1
  BY <1>1
<1>8. TypeOK'
  <2>1. Len(stack') <= StackLimit
    BY <1>1, <1>3, <1>4, LimitAssumption DEF Push
  <2>2. runs' \in Seq(Files) /\ TypeOK
    BY <1>6 DEF TypeOK, Base
  <2> QED BY <1>4, <1>6, <1>7, <2>1, <2>2, TypeKept
<1>9. Statuses'
  <2>1. DOMAIN stack' = 1 .. N + 1
    BY <1>1, <1>4, SeqFacts DEF Push
  <2>2. /\ \A j \in 1 .. N : stack'[j] = stack[j]
        /\ stack'[N + 1].id = n + 1 /\ ~ stack'[N + 1].retry
    BY <1>1, <1>4 DEF Push, Frame
  <2>3. \A j \in 1 .. N + 1 : j \in 1 .. N \/ j = N + 1
    BY <1>1
  <2>4. N + 1 \in 1 .. N + 1 /\ 1 .. N \subseteq 1 .. N + 1
    BY <1>1
  <2>5. ASSUME NEW i \in 1 .. n + 1
        PROVE  /\ instances'[i].status = "preparing" <=> \E j \in 1 .. N + 1 : stack'[j].id = i /\ ~ stack'[j].retry
               /\ instances'[i].status = "retried" <=> \E j \in 1 .. N + 1 : stack'[j].id = i /\ stack'[j].retry
    <3>1. CASE i = n + 1
      <4>1. \A j \in 1 .. N : stack'[j].id # i
        <5>1. \A j \in 1 .. N : stack[j].id <= n
          BY <1>1, <1>5
        <5> QED BY <1>1, <2>2, <3>1, <5>1
      <4>2. instances'[i].status = "preparing"
        BY <1>4, <3>1
      <4> QED BY <2>2, <2>3, <2>4, <3>1, <4>1, <4>2
    <3>2. CASE i # n + 1
      <4>1. i \in 1 .. n
        BY <1>1, <3>2
      <4>2. /\ instances[i].status = "preparing" <=> \E j \in 1 .. N : stack[j].id = i /\ ~ stack[j].retry
            /\ instances[i].status = "retried" <=> \E j \in 1 .. N : stack[j].id = i /\ stack[j].retry
        BY <1>1, <4>1 DEF Statuses, Base
      <4>3. instances'[i] = instances[i]
        BY <1>4, <4>1
      <4> QED BY <2>2, <2>3, <2>4, <3>2, <4>2, <4>3
    <3> QED BY <3>1, <3>2
  <2> QED BY <1>4, <2>1, <2>5 DEF Statuses
<1>10. Order' /\ Answers' /\ Links'
  <2>1. \A i \in DOMAIN instances :
           instances'[i].status = "preparing" => instances[i].status = "preparing"
    BY <1>1, <1>4
  <2>2. stack[N].id < n + 1
    BY <1>1, <1>2, <1>5
  <2>3. instances'[n + 1].file = f
    BY <1>4
  <2>4. IF FALSE
        THEN /\ Done(N) = Size[File(N)]
             /\ \E i \in 1 .. Done(N) : stack[N].requested[i] = n + 1
        ELSE /\ Done(N) < Size[File(N)]
             /\ <<File(N), Done(N) + 1, instances'[n + 1].file>> \in LeadsTo
    BY <1>1, <1>2, <2>3
  <2> QED BY <1>1, <1>2, <1>4, <1>6, <1>7, <2>1, <2>2, <2>4, PushKeeps
<1>11. program' \in Programs
  BY <1>6 DEF Base
<1> QED BY <1>8, <1>9, <1>10, <1>11 DEF Base

(* V8 prepares a module again.                                              *)
Again(i, id) ==
    /\ i \in DOMAIN Top.requested /\ Top.requested[i] = id /\ StatusOf(id) = "unlinked"
    /\ instances' = [instances EXCEPT ![id].status = "retried"]
    /\ stack' = Append(stack, Frame(id, TRUE))

(* What preparing a module again does.                                      *)
LEMMA AgainIs ==
    ASSUME Base, stack # <<>>, NEW i, NEW id, Again(i, id)
    PROVE  /\ i \in 1 .. Done(Len(stack)) /\ id = stack[Len(stack)].requested[i]
           /\ id \in DOMAIN instances /\ id # Ready /\ instances[id].status = "unlinked"
           /\ Push(id, TRUE) /\ Known
           /\ instances' \in Seq(InstanceSet) /\ Len(instances') = Len(instances)
           /\ DOMAIN instances' = DOMAIN instances
           /\ \A j \in DOMAIN instances :
                 instances'[j].status = IF j = id THEN "retried" ELSE instances[j].status
           /\ stack' \in Seq(FrameSet(Len(instances)))
<1>1. PICK n, N \in Nat :
        /\ n = Len(instances) /\ DOMAIN instances = 1 .. n /\ instances \in Seq(InstanceSet)
        /\ \A j \in 1 .. n : instances[j] \in InstanceSet
        /\ N = Len(stack) /\ stack \in Seq(FrameSet(n))
        /\ \A j \in 1 .. N : stack[j] \in FrameSet(n)
  BY Typing DEF Base
<1>2. N \in 1 .. N /\ Top = stack[N]
  BY <1>1, AsksIs, SeqFacts
<1>3. stack[N].requested \in Seq(0 .. n)
  BY <1>1, <1>2 DEF FrameSet
<1>4. i \in 1 .. Done(N) /\ id = stack[N].requested[i] /\ id \in 0 .. n
  BY <1>2, <1>3, SeqFacts DEF Again, Done
<1>5. id \in 1 .. n /\ id # Ready /\ instances[id].status = "unlinked"
  <2>1. id # Ready
    BY DEF Again, StatusOf
  <2>2. instances[id].status = "unlinked"
    BY <2>1 DEF Again, StatusOf
  <2> QED BY <1>1, <1>4, <2>1, <2>2 DEF Ready
<1>6. PICK e : e = [instances[id] EXCEPT !.status = "retried"]
  OBVIOUS
<1>7. e \in InstanceSet /\ e.file = instances[id].file /\ e.status = "retried"
  BY <1>1, <1>5, <1>6 DEF InstanceSet
<1>8. instances' = [instances EXCEPT ![id] = e]
  BY <1>6 DEF Again
<1>9. /\ instances' \in Seq(InstanceSet) /\ Len(instances') = n
      /\ \A j \in 1 .. n : instances'[j] = IF j = id THEN e ELSE instances[j]
  BY <1>1, <1>5, <1>7, <1>8, ExceptSeq
<1>10. DOMAIN instances' = 1 .. n
  BY <1>1, <1>9, SeqFacts
<1>11. Push(id, TRUE) /\ stack' \in Seq(FrameSet(n))
  <2>1. stack' = Append(stack, Frame(id, TRUE)) /\ n <= n
    BY <1>1 DEF Again
  <2> QED BY <1>1, <1>5, <2>1, PushIs
<1>12. Known
  BY <1>1, <1>7, <1>9, <1>10 DEF Known
<1> QED BY <1>1, <1>4, <1>5, <1>7, <1>9, <1>10, <1>11, <1>12

(* It keeps the structure.                                                  *)
LEMMA AgainKeeps ==
    ASSUME Base, stack # <<>>, ~ Asks, NEW i, NEW id, Again(i, id),
           UNCHANGED <<program, modules_, runs>>
    PROVE  Base'
<1>1. PICK n, N \in Nat :
        /\ n = Len(instances) /\ DOMAIN instances = 1 .. n /\ instances \in Seq(InstanceSet)
        /\ N = Len(stack) /\ DOMAIN stack = 1 .. N /\ N <= StackLimit
        /\ \A j \in 1 .. N : stack[j] \in FrameSet(n)
  BY Typing DEF Base
<1>2. Done(N) = Size[File(N)] /\ N \in 1 .. N
  BY <1>1, AsksIs
<1>3. /\ i \in 1 .. Done(N) /\ id = stack[N].requested[i]
      /\ id \in 1 .. n /\ id # Ready /\ instances[id].status = "unlinked"
      /\ Push(id, TRUE) /\ Known
      /\ instances' \in Seq(InstanceSet) /\ Len(instances') = n
      /\ DOMAIN instances' = 1 .. n
      /\ \A j \in 1 .. n :
            instances'[j].status = IF j = id THEN "retried" ELSE instances[j].status
      /\ stack' \in Seq(FrameSet(n))
  <2>1. /\ i \in 1 .. Done(Len(stack)) /\ id = stack[Len(stack)].requested[i]
        /\ id \in DOMAIN instances /\ id # Ready /\ instances[id].status = "unlinked"
        /\ Push(id, TRUE) /\ Known
        /\ instances' \in Seq(InstanceSet) /\ Len(instances') = Len(instances)
        /\ DOMAIN instances' = DOMAIN instances
    BY AgainIs
  <2>2. \A j \in DOMAIN instances :
           instances'[j].status = IF j = id THEN "retried" ELSE instances[j].status
    BY AgainIs
  <2>3. stack' \in Seq(FrameSet(Len(instances)))
    BY AgainIs
  <2> QED BY <1>1, <2>1, <2>2, <2>3
<1>4. N < StackLimit /\ stack[N].id < id
  BY <1>1, <1>2, <1>3 DEF Answers, Base
<1>5. TypeOK'
  <2>1. Len(stack') <= StackLimit
    BY <1>1, <1>3, <1>4, LimitAssumption DEF Push
  <2>2. runs' \in Seq(Files) /\ TypeOK /\ modules_' \subseteq Files \X Spellings
    BY DEF TypeOK, Base
  <2> QED BY <1>1, <1>3, <2>1, <2>2, TypeKept
<1>6. Statuses'
  <2>1. DOMAIN stack' = 1 .. N + 1
    BY <1>1, <1>3, SeqFacts DEF Push
  <2>2. /\ \A j \in 1 .. N : stack'[j] = stack[j]
        /\ stack'[N + 1].id = id /\ stack'[N + 1].retry
    BY <1>1, <1>3 DEF Push, Frame
  <2>3. \A j \in 1 .. N + 1 : j \in 1 .. N \/ j = N + 1
    BY <1>1
  <2>4. N + 1 \in 1 .. N + 1 /\ 1 .. N \subseteq 1 .. N + 1
    BY <1>1
  <2>5. ASSUME NEW m \in 1 .. n
        PROVE  /\ instances'[m].status = "preparing" <=> \E j \in 1 .. N + 1 : stack'[j].id = m /\ ~ stack'[j].retry
               /\ instances'[m].status = "retried" <=> \E j \in 1 .. N + 1 : stack'[j].id = m /\ stack'[j].retry
    <3>1. /\ instances[m].status = "preparing" <=> \E j \in 1 .. N : stack[j].id = m /\ ~ stack[j].retry
          /\ instances[m].status = "retried" <=> \E j \in 1 .. N : stack[j].id = m /\ stack[j].retry
      BY <1>1 DEF Statuses, Base
    <3>2. CASE m = id
      BY <1>3, <2>2, <2>3, <2>4, <3>1, <3>2
    <3>3. CASE m # id
      BY <1>3, <2>2, <2>3, <2>4, <3>1, <3>3
    <3> QED BY <3>2, <3>3
  <2>6. DOMAIN instances' = 1 .. n
    BY <1>3
  <2> QED BY <2>1, <2>5, <2>6 DEF Statuses
<1>7. Order' /\ Answers' /\ Links'
  <2>1. \A j \in DOMAIN instances :
           instances'[j].status = "preparing" => instances[j].status = "preparing"
    BY <1>1, <1>3
  <2>2. PICK retry \in BOOLEAN : retry = TRUE
    OBVIOUS
  <2>3. n >= n /\ program' = program
    BY <1>1
  <2>6. Push(id, retry)
    BY <1>3, <2>2, Zenon
  <2>4. IF retry
        THEN /\ Done(Len(stack)) = Size[File(Len(stack))]
             /\ \E m \in 1 .. Done(Len(stack)) : stack[Len(stack)].requested[m] = id
        ELSE /\ Done(Len(stack)) < Size[File(Len(stack))]
             /\ <<File(Len(stack)), Done(Len(stack)) + 1, instances'[id].file>> \in LeadsTo
    BY <1>1, <1>2, <1>3, <2>2
  <2>5. stack[Len(stack)].id < id /\ n >= Len(instances)
    BY <1>1, <1>4
  <2> QED BY <1>1, <1>3, <2>1, <2>2, <2>3, <2>4, <2>5, <2>6, PushKeeps
<1>8. program' \in Programs
  BY DEF Base
<1> QED BY <1>5, <1>6, <1>7, <1>8 DEF Base

-----------------------------------------------------------------------------
(* Import i of file f cannot be had at depth d: it is missing or broken, a JSON *)
(* file that has been loaded, the stack has no room for it, or D says that  *)
(* loading it there fails.                                                  *)
Bad(D, d, f, i) ==
    \/ <<f, i>> \in MissingAt
    \/ \E g \in Files : <<f, i, g>> \in JsonAt /\ <<g, As[f][i]>> \in modules_
    \/ \E g \in Files : <<f, i, g>> \in LeadsTo /\ (d = StackLimit \/ <<d + 1, g>> \in D)

(* What frame j got for import i is a module that V8 gave up.               *)
Lost(j, i) ==
    \E r \in DOMAIN instances : /\ r = stack[j].requested[i]
                                /\ instances[r].status \in {"unlinked", "retried"}

(* Frame j will fail: for an import to come, for one it got, or for the one *)
(* that is being loaded above it.                                           *)
Stuck(D, B, j) ==
    \/ \E i \in 1 .. Size[File(j)] : i > Done(j) /\ Bad(D, j, File(j), i)
    \/ \E i \in 1 .. Done(j) : Lost(j, i)
    \/ \E k \in B : k = j + 1 /\ ~ stack[k].retry

(* D: depths and files where loading fails; B: frames that will fail.       *)
Marks(D, B) ==
    /\ D \subseteq (1 .. StackLimit) \X Files
    /\ \A d \in 1 .. StackLimit : \A f \in Files :
          <<d, f>> \in D => \E i \in 1 .. Size[f] : Bad(D, d, f, i)
    /\ B \subseteq DOMAIN stack
    /\ \A j \in B : Stuck(D, B, j)
    /\ \A j \in DOMAIN stack : \A i \in 1 .. Done(j) : \A r \in DOMAIN instances :
          r = stack[j].requested[i] /\ instances[r].status \in {"unlinked", "retried"} =>
             <<j + 1, instances[r].file>> \in D
    /\ \A j \in DOMAIN stack : <<j, File(j)>> \in D => j \in B

(* The entry module is one of them, or has failed.                          *)
Doomed(D, B) == Marks(D, B) /\ (IF stack = <<>> THEN ~ Ran ELSE 1 \in B)

(* What cannot be had cannot be had later either, for modules_ does not     *)
(* forget.                                                                  *)
LEMMA BadGrows ==
    ASSUME program' = program, modules_ \subseteq modules_',
           NEW D, NEW E, D \subseteq E, NEW d, NEW f, NEW i, Bad(D, d, f, i)
    PROVE  Bad(E, d, f, i)'
<1>1. /\ Files' = Files /\ MissingAt' = MissingAt /\ JsonAt' = JsonAt /\ LeadsTo' = LeadsTo
      /\ As' = As
  BY Same
<1> QED BY <1>1 DEF Bad

(* A module that is given up dooms every frame below it, for it is retried  *)
(* before they are complete, and fails again.                               *)
LEMMA DoomFails ==
    ASSUME Base, NEW D, NEW B, Marks(D, B), NEW k \in DOMAIN stack, Leave(k, "unlinked"),
           program' = program, modules_' = modules_,
           k = Len(stack) => \E i \in 1 .. Size[File(k)] : Bad(D, k, File(k), i)
    PROVE  \E D2, B2 : Doomed(D2, B2)'
<1>1. PICK n, N \in Nat :
        /\ n = Len(instances) /\ DOMAIN instances = 1 .. n
        /\ N = Len(stack) /\ DOMAIN stack = 1 .. N /\ N <= StackLimit
        /\ \A j \in 1 .. N : stack[j] \in FrameSet(n)
        /\ \A i \in 1 .. n : instances[i] \in InstanceSet
  BY Typing DEF Base
<1>2. /\ Move(k - 1, stack[k].id) /\ Known
      /\ stack' \in Seq(FrameSet(n)) /\ DOMAIN instances' = 1 .. n
      /\ \A i \in 1 .. n :
            instances'[i].status = IF i \in From(k) THEN "unlinked" ELSE instances[i].status
  BY <1>1, LeaveIs
<1>3. k \in 1 .. N /\ k \in Nat
  BY <1>1
<1>4. \A j \in 1 .. N : stack[j].id \in 1 .. n /\ Done(j) \in Nat /\ File(j) \in Files
  <2> SUFFICES ASSUME NEW j \in 1 .. N PROVE stack[j].id \in 1 .. n /\ Done(j) \in Nat /\ File(j) \in Files
    OBVIOUS
  <2>1. stack[j].id \in 1 .. n /\ stack[j].requested \in Seq(0 .. n)
    BY <1>1 DEF FrameSet
  <2>2. Done(j) \in Nat
    BY <2>1, LenProperties DEF Done
  <2> QED BY <1>1, <2>1, <2>2 DEF File, FileOf, InstanceSet
<1>5. PICK D2 : D2 = D \cup {<<k, File(k)>>}
  OBVIOUS
<1>6. PICK B2 : B2 = 1 .. k - 1
  OBVIOUS
<1>7. DOMAIN stack' = 1 .. k - 1 /\ \A j \in 1 .. k - 1 : j \in 1 .. N
  <2>1. DOMAIN stack' = 1 .. k - 1
    BY <1>2, SeqFacts DEF Move
  <2> QED BY <1>1, <1>3, <2>1
<1>8. \A j \in 1 .. k - 1 : /\ stack'[j].id = stack[j].id /\ stack'[j].retry = stack[j].retry
                            /\ File(j)' = File(j)
  <2>1. \A j \in 1 .. k - 1 : (j \in 1 .. (k - 1) - 1 \/ j = k - 1) /\ k - 1 # 0
    BY <1>3
  <2>2. \A j \in 1 .. k - 1 : stack'[j].id = stack[j].id /\ stack'[j].retry = stack[j].retry
    BY <1>2, <2>1 DEF Move
  <2> QED BY <1>1, <1>2, <1>4, <1>7, <2>2 DEF File, FileOf, Known
<1>9. \A j \in 1 .. (k - 1) - 1 : j \in 1 .. k - 1 /\ stack'[j] = stack[j] /\ Done(j)' = Done(j)
  BY <1>2, <1>3 DEF Move, Done
<1>10. k - 1 # 0 => /\ Done(k - 1)' = Done(k - 1) + 1
                    /\ \A i \in 1 .. Done(k - 1) : stack'[k - 1].requested[i] = stack[k - 1].requested[i]
                    /\ stack'[k - 1].requested[Done(k - 1) + 1] = stack[k].id
  BY <1>2 DEF Move, Done
<1>11. /\ Files' = Files /\ Size' = Size
  BY Same
<1>12. ASSUME NEW j \in 1 .. N, NEW l \in 1 .. N, l = j + 1, stack[l].retry
       PROVE  \E i \in 1 .. Done(j) : \E r \in 1 .. n :
                 /\ r = stack[j].requested[i] /\ r = stack[l].id /\ instances[r].status = "retried"
                 /\ <<File(j), i, instances[r].file>> \in LeadsTo
                 /\ <<l, instances[r].file>> \in D
                 /\ i \in 1 .. Size[File(j)]
  <2>1. PICK i \in 1 .. Done(j) : stack[j].requested[i] = stack[l].id /\ Done(j) = Size[File(j)]
    BY <1>1, <1>12 DEF Links, Base
  <2>2. PICK r \in 1 .. n : r = stack[l].id
    BY <1>4
  <2>3. instances[r].status = "retried"
    BY <1>1, <1>12, <2>2 DEF Statuses, Base
  <2>4. <<File(j), i, instances[r].file>> \in LeadsTo
    BY <1>1, <2>1, <2>2 DEF Answers, Base
  <2>5. <<l, instances[r].file>> \in D
    BY <1>1, <1>12, <2>1, <2>2, <2>3 DEF Marks
  <2> QED BY <2>1, <2>2, <2>3, <2>4, <2>5
<1>13. \E i \in 1 .. Size[File(k)] : Bad(D, k, File(k), i)
  <2>1. CASE k = N
    BY <1>1, <2>1
  <2>2. CASE k # N
    <3>1. k + 1 \in 1 .. N /\ k + 1 \in k + 1 .. N
      BY <1>1, <1>3, <2>2
    <3>2. stack[k + 1].retry
      BY <1>1, <3>1 DEF Leave
    <3>3. PICK i \in 1 .. Done(k), r \in 1 .. n :
             /\ <<File(k), i, instances[r].file>> \in LeadsTo
             /\ <<k + 1, instances[r].file>> \in D
             /\ i \in 1 .. Size[File(k)]
      BY <1>3, <1>12, <3>1, <3>2
    <3>4. instances[r].file \in Files
      BY <3>3, KindsApart
    <3> QED BY <3>3, <3>4 DEF Bad
  <2> QED BY <2>1, <2>2
<1>14. D2 \subseteq (1 .. StackLimit) \X Files
  <2>1. k \in 1 .. StackLimit
    BY <1>1, <1>3, LimitAssumption
  <2> QED BY <1>3, <1>4, <1>5, <2>1 DEF Marks
<1>15. ASSUME NEW d \in 1 .. StackLimit, NEW f \in Files, <<d, f>> \in D2
       PROVE  \E i \in 1 .. Size[f] : Bad(D2, d, f, i)'
  <2>1. D \subseteq D2 /\ modules_ \subseteq modules_'
    BY <1>5
  <2>2. PICK i \in 1 .. Size[f] : Bad(D, d, f, i)
    <3>1. CASE <<d, f>> \in D
      BY <3>1 DEF Marks
    <3>2. CASE d = k /\ f = File(k)
      BY <1>13, <3>2
    <3> QED BY <1>5, <1>15, <3>1, <3>2
  <2> QED BY <2>1, <2>2, BadGrows
<1>16. ASSUME NEW j \in 1 .. k - 1 PROVE Stuck(D2, B2, j)'
  <2>1. CASE j = k - 1
    <3>1. PICK i \in Nat : i = Done(j) + 1 /\ i \in 1 .. Done(j)' /\ j # 0
      BY <1>4, <1>7, <1>10, <2>1
    <3>2. stack[k].id \in 1 .. n /\ instances'[stack[k].id].status = "unlinked"
      <4>1. stack[k].id \in From(k)
        BY <1>1, <1>3 DEF From
      <4> QED BY <1>2, <1>3, <1>4, <4>1
    <3>3. Lost(j, i)'
      <4>1. stack'[j].requested[i] = stack[k].id
        BY <1>10, <2>1, <3>1
      <4> QED BY <1>2, <3>2, <4>1 DEF Lost
    <3> QED BY <3>1, <3>3 DEF Stuck
  <2>2. CASE j # k - 1
    <3>1. j \in 1 .. (k - 1) - 1 /\ j + 1 \in 1 .. k - 1 /\ j \in 1 .. N /\ j + 1 \in 1 .. N /\ j + 1 < k
      BY <1>1, <1>3, <2>2
    <3>2. CASE stack[j + 1].retry
      <4>0. PICK m \in 1 .. N : m = j + 1
        BY <3>1
      <4>1. PICK i \in 1 .. Done(j), r \in 1 .. n :
               r = stack[j].requested[i] /\ r = stack[j + 1].id /\ instances[r].status = "retried"
        <5>1. stack[m].retry /\ j \in 1 .. N
          BY <3>1, <3>2, <4>0
        <5>2. \E i \in 1 .. Done(j) : \E r \in 1 .. n :
                 /\ r = stack[j].requested[i] /\ r = stack[m].id /\ instances[r].status = "retried"
                 /\ <<File(j), i, instances[r].file>> \in LeadsTo
                 /\ <<m, instances[r].file>> \in D
                 /\ i \in 1 .. Size[File(j)]
          BY <1>12, <4>0, <5>1
        <5> QED BY <4>0, <5>2
      <4>2. r \notin From(k)
        <5>1. \A l \in k .. N : l \in 1 .. N /\ j + 1 < l
          BY <1>1, <1>3, <3>1
        <5>2. \A l \in k .. N : r < stack[l].id
          BY <1>1, <3>1, <4>1, <5>1 DEF Order, Base
        <5>3. \A l \in k .. N : r # stack[l].id
          BY <5>2
        <5> QED BY <1>1, <5>3 DEF From
      <4>3. instances'[r].status = "retried" /\ r = stack'[j].requested[i] /\ i \in 1 .. Done(j)'
        BY <1>2, <1>9, <3>1, <4>1, <4>2
      <4>4. Lost(j, i)'
        BY <1>2, <4>3 DEF Lost
      <4> QED BY <4>3, <4>4 DEF Stuck
    <3>3. CASE ~ stack[j + 1].retry
      BY <1>6, <1>8, <3>1, <3>3 DEF Stuck
    <3> QED BY <3>2, <3>3
  <2> QED BY <2>1, <2>2
<1>17. ASSUME NEW j \in 1 .. k - 1, NEW i \in 1 .. Done(j)', NEW r \in 1 .. n,
              r = stack'[j].requested[i], instances'[r].status \in {"unlinked", "retried"}
       PROVE  <<j + 1, instances'[r].file>> \in D2
  <2>1. instances'[r].file = instances[r].file
    BY <1>1, <1>2 DEF Known
  <2>2. CASE j = k - 1 /\ i = Done(k - 1) + 1
    <3>1. r = stack[k].id /\ j + 1 = k
      BY <1>3, <1>10, <1>17, <2>2
    <3> QED BY <1>5, <2>1, <3>1 DEF File, FileOf
  <2>3. CASE ~ (j = k - 1 /\ i = Done(k - 1) + 1)
    <3>1. i \in 1 .. Done(j) /\ r = stack[j].requested[i] /\ j \in 1 .. N
      <4>1. CASE j = k - 1
        BY <1>4, <1>7, <1>10, <1>17, <2>3, <4>1
      <4>2. CASE j # k - 1
        <5>1. j \in 1 .. (k - 1) - 1
          BY <1>3, <4>2
        <5> QED BY <1>7, <1>9, <1>17, <5>1
      <4> QED BY <4>1, <4>2
    <3>2. instances[r].status # "preparing"
      BY <1>1, <3>1 DEF Answers, Base
    <3>3. instances[r].status \in {"unlinked", "retried"}
      <4>1. CASE r \in From(k)
        <5>1. PICK l \in k .. N : r = stack[l].id
          BY <1>1, <4>1 DEF From
        <5>2. l \in 1 .. N
          BY <1>3, <5>1
        <5>3. instances[r].status = "preparing" \/ instances[r].status = "retried"
          BY <1>1, <5>1, <5>2 DEF Statuses, Base
        <5> QED BY <3>2, <5>3
      <4>2. CASE r \notin From(k)
        BY <1>2, <1>17, <4>2
      <4> QED BY <4>1, <4>2
    <3>4. <<j + 1, instances[r].file>> \in D
      BY <1>1, <3>1, <3>3 DEF Marks
    <3> QED BY <1>5, <2>1, <3>4
  <2> QED BY <2>2, <2>3
<1>18. Marks(D2, B2)'
  BY <1>2, <1>6, <1>7, <1>11, <1>14, <1>15, <1>16, <1>17 DEF Marks
<1>19. IF stack' = <<>> THEN ~ Ran' ELSE 1 \in B2
  <2>1. CASE k = 1
    <3>1. stack[1].id = 1
      BY <1>1, <1>3, <2>1, EmptySeq DEF Order, Base
    <3>2. instances'[1].status = "unlinked"
      <4>1. 1 \in From(1) /\ 1 \in 1 .. n
        BY <1>1, <1>3, <1>4, <2>1, <3>1 DEF From
      <4> QED BY <1>2, <2>1, <4>1
    <3>3. stack' = <<>>
      BY <1>2, <2>1, EmptySeq DEF Move
    <3> QED BY <3>2, <3>3 DEF Ran
  <2>2. CASE k # 1
    <3>1. 1 \in 1 .. k - 1 /\ k - 1 # 0
      BY <1>3, <2>2
    <3>2. stack' # <<>>
      BY <1>7, <3>1, EmptySeq
    <3> QED BY <1>6, <3>1, <3>2
  <2> QED BY <2>1, <2>2
<1> QED BY <1>18, <1>19 DEF Doomed

(* The types of what a frame says.                                          *)
LEMMA FrameFacts ==
    ASSUME Base
    PROVE  \A j \in DOMAIN stack :
              /\ stack[j].id \in DOMAIN instances /\ stack[j].retry \in BOOLEAN
              /\ stack[j].requested \in Seq(0 .. Len(instances))
              /\ Done(j) \in Nat /\ File(j) \in Files /\ Size[File(j)] \in Nat
<1>1. PICK n, N \in Nat :
        /\ n = Len(instances) /\ DOMAIN instances = 1 .. n
        /\ N = Len(stack) /\ DOMAIN stack = 1 .. N /\ N <= StackLimit
        /\ \A j \in 1 .. N : stack[j] \in FrameSet(n)
        /\ \A i \in 1 .. n : instances[i] \in InstanceSet
  BY Typing DEF Base
<1> SUFFICES ASSUME NEW j \in 1 .. N
             PROVE  /\ stack[j].id \in 1 .. n /\ stack[j].retry \in BOOLEAN
                    /\ stack[j].requested \in Seq(0 .. n)
                    /\ Done(j) \in Nat /\ File(j) \in Files /\ Size[File(j)] \in Nat
  BY <1>1
<1>2. stack[j].id \in 1 .. n /\ stack[j].requested \in Seq(0 .. n) /\ stack[j].retry \in BOOLEAN
  BY <1>1 DEF FrameSet
<1>3. Done(j) \in Nat
  BY <1>2, LenProperties DEF Done
<1>4. File(j) \in Files
  BY <1>1, <1>2 DEF File, FileOf, InstanceSet
<1>5. Size[File(j)] \in Nat
  BY <1>4, ImportsType DEF Size, Base
<1> QED BY <1>2, <1>3, <1>4, <1>5

(* An import that can be had changes nothing for a doomed program.          *)
LEMMA DoomReady ==
    ASSUME Base, NEW D, NEW B, Doomed(D, B), Asks, stack' = Returns(stack, Ready),
           program' = program, instances' = instances, modules_ \subseteq modules_',
           ~ Bad(D, Len(stack), File(Len(stack)), Done(Len(stack)) + 1)
    PROVE  Doomed(D, B)'
<1>1. PICK n, N \in Nat :
        /\ n = Len(instances) /\ DOMAIN instances = 1 .. n
        /\ N = Len(stack) /\ DOMAIN stack = 1 .. N
  BY Typing DEF Base
<1>2. stack # <<>> /\ N \in 1 .. N
  BY <1>1, AsksIs
<1>3. Move(N, Ready) /\ stack' \in Seq(FrameSet(n))
  BY <1>1, <1>2, ReadyMoves DEF Base
<1>4. DOMAIN stack' = 1 .. N /\ stack' # <<>>
  <2>1. DOMAIN stack' = 1 .. N
    BY <1>3, SeqFacts DEF Move
  <2> QED BY <1>2, <2>1, EmptySeq
<1>5. \A j \in 1 .. N : Done(j) \in Nat /\ File(j) \in Files /\ Size[File(j)] \in Nat
  BY <1>1, FrameFacts
<1>6. \A j \in 1 .. N : (j \in 1 .. N - 1 \/ j = N) /\ N # 0
  BY <1>1
<1>7. \A j \in 1 .. N : /\ stack'[j].id = stack[j].id /\ stack'[j].retry = stack[j].retry
                        /\ File(j)' = File(j)
  <2>1. \A j \in 1 .. N : stack'[j].id = stack[j].id /\ stack'[j].retry = stack[j].retry
    BY <1>3, <1>6 DEF Move
  <2> QED BY <2>1 DEF File, FileOf
<1>8. \A j \in 1 .. N - 1 : stack'[j] = stack[j] /\ Done(j)' = Done(j)
  BY <1>3 DEF Move, Done
<1>9. /\ Done(N)' = Done(N) + 1
      /\ \A i \in 1 .. Done(N) : stack'[N].requested[i] = stack[N].requested[i]
      /\ stack'[N].requested[Done(N) + 1] = 0
  BY <1>2, <1>3, <1>6 DEF Move, Done, Ready
<1>10. /\ Files' = Files /\ Size' = Size
  BY Same
<1>11. \A j \in 1 .. N : \A i \in 1 .. Done(j) : i \in 1 .. Done(j)' /\ stack'[j].requested[i] = stack[j].requested[i]
  BY <1>5, <1>6, <1>8, <1>9
<1>12. \A j \in 1 .. N : \A i \in 1 .. Done(j)' : \A r \in 1 .. n :
          r = stack'[j].requested[i] => i \in 1 .. Done(j) /\ r = stack[j].requested[i]
  <2> SUFFICES ASSUME NEW j \in 1 .. N, NEW i \in 1 .. Done(j)', NEW r \in 1 .. n,
                      r = stack'[j].requested[i]
               PROVE  i \in 1 .. Done(j) /\ r = stack[j].requested[i]
    OBVIOUS
  <2>1. CASE j \in 1 .. N - 1
    BY <1>8, <2>1
  <2>2. CASE j = N
    <3>1. r # 0 /\ Done(N) \in Nat
      BY <1>2, <1>5
    <3>2. i \in 1 .. Done(N) \/ i = Done(N) + 1
      BY <1>9, <2>2, <3>1
    <3> QED BY <1>9, <2>2, <3>1, <3>2
  <2> QED BY <1>6, <2>1, <2>2
<1>13. ASSUME NEW j \in B PROVE Stuck(D, B, j)'
  <2>1. Stuck(D, B, j) /\ j \in 1 .. N
    BY <1>1 DEF Doomed, Marks
  <2>2. CASE \E i \in 1 .. Size[File(j)] : i > Done(j) /\ Bad(D, j, File(j), i)
    <3>1. PICK i \in 1 .. Size[File(j)] : i > Done(j) /\ Bad(D, j, File(j), i)
      BY <2>2
    <3>2. PICK f : f = File(j)
      OBVIOUS
    <3>3. Bad(D, j, f, i)'
      BY <3>1, <3>2, BadGrows
    <3>4. i > Done(j)'
      <4>1. CASE j = N
        <5>1. i # Done(N) + 1
          BY <1>1, <3>1, <4>1
        <5> QED BY <1>5, <1>9, <2>1, <3>1, <4>1, <5>1
      <4>2. CASE j # N
        BY <1>6, <1>8, <2>1, <3>1, <4>2
      <4> QED BY <4>1, <4>2
    <3>5. f = File(j)' /\ i \in 1 .. Size'[f]
      BY <1>7, <1>10, <2>1, <3>1, <3>2
    <3> QED BY <3>3, <3>4, <3>5 DEF Stuck
  <2>3. CASE \E i \in 1 .. Done(j) : Lost(j, i)
    <3>1. PICK i \in 1 .. Done(j) : Lost(j, i)
      BY <2>3
    <3>2. Lost(j, i)' /\ i \in 1 .. Done(j)'
      BY <1>11, <2>1, <3>1 DEF Lost
    <3> QED BY <3>2 DEF Stuck
  <2>4. CASE \E k \in B : k = j + 1 /\ ~ stack[k].retry
    <3>1. \A k \in B : k \in 1 .. N
      BY <1>1 DEF Doomed, Marks
    <3> QED BY <1>7, <2>4, <3>1 DEF Stuck
  <2> QED BY <2>1, <2>2, <2>3, <2>4 DEF Stuck
<1>14. ASSUME NEW d \in 1 .. StackLimit, NEW f \in Files, <<d, f>> \in D
       PROVE  \E i \in 1 .. Size[f] : Bad(D, d, f, i)'
  <2>1. PICK i \in 1 .. Size[f] : Bad(D, d, f, i)
    BY <1>14 DEF Doomed, Marks
  <2> QED BY <2>1, BadGrows
<1>15. ASSUME NEW j \in 1 .. N, NEW i \in 1 .. Done(j)', NEW r \in 1 .. n,
              r = stack'[j].requested[i], instances'[r].status \in {"unlinked", "retried"}
       PROVE  <<j + 1, instances'[r].file>> \in D
  <2>1. i \in 1 .. Done(j) /\ r = stack[j].requested[i]
    BY <1>12, <1>15
  <2>2. instances[r].status \in {"unlinked", "retried"}
    BY <1>15
  <2>3. <<j + 1, instances[r].file>> \in D
    BY <1>1, <2>1, <2>2 DEF Doomed, Marks
  <2> QED BY <2>3
<1>16. Marks(D, B)'
  <2>1. D \subseteq (1 .. StackLimit) \X Files /\ B \subseteq 1 .. N
    BY <1>1 DEF Doomed, Marks
  <2>2. \A j \in 1 .. N : <<j, File(j)'>> \in D => j \in B
    BY <1>1, <1>7 DEF Doomed, Marks
  <2>3. DOMAIN instances' = 1 .. n
    BY <1>1
  <2> QED BY <1>4, <1>10, <1>13, <1>14, <1>15, <2>1, <2>2, <2>3 DEF Marks
<1> QED BY <1>2, <1>4, <1>16 DEF Doomed

(* A frame on top of a doomed stack leaves it doomed.                       *)
LEMMA DoomPush ==
    ASSUME Base, NEW D, NEW B, Doomed(D, B), stack # <<>>, NEW id, NEW retry, Push(id, retry), Known,
           NEW n2 \in Nat, n2 >= Len(instances), DOMAIN instances' = 1 .. n2,
           stack' \in Seq(FrameSet(n2)), program' = program, modules_ \subseteq modules_',
           \A r \in DOMAIN instances : instances'[r].status \in {"unlinked", "retried"}
                                         <=> instances[r].status \in {"unlinked", "retried"}
    PROVE  \E B2 : Doomed(D, B2)'
<1>1. PICK n, N \in Nat :
        /\ n = Len(instances) /\ DOMAIN instances = 1 .. n
        /\ N = Len(stack) /\ DOMAIN stack = 1 .. N
  BY Typing DEF Base
<1>2. N \in 1 .. N /\ N + 1 \in Nat
  BY <1>1, AsksIs
<1>3. DOMAIN stack' = 1 .. N + 1 /\ stack' # <<>> /\ \A j \in 1 .. N + 1 : j \in 1 .. N \/ j = N + 1
  <2>1. DOMAIN stack' = 1 .. N + 1
    BY <1>1, SeqFacts DEF Push
  <2> QED BY <1>2, <2>1, EmptySeq
<1>4. \A j \in 1 .. N : /\ stack[j].id \in 1 .. n /\ stack[j].requested \in Seq(0 .. n)
                        /\ Done(j) \in Nat /\ File(j) \in Files
  BY <1>1, FrameFacts
<1>5. \A j \in 1 .. N : stack'[j] = stack[j] /\ Done(j)' = Done(j) /\ File(j)' = File(j)
  <2>1. \A j \in 1 .. N : stack'[j] = stack[j]
    BY <1>1 DEF Push
  <2> QED BY <1>1, <1>4, <2>1 DEF Known, Done, File, FileOf
<1>6. Done(N + 1)' = 0
  BY <1>1, EmptySeq DEF Push, Frame, Done
<1>7. /\ Files' = Files /\ Size' = Size
  BY Same
<1>8. PICK M : M = N + 1
  OBVIOUS
<1>9. PICK B2 : B2 = B \cup {j \in {M} : <<j, File(j)'>> \in D}
  OBVIOUS
<1>10. /\ D \subseteq (1 .. StackLimit) \X Files /\ B \subseteq 1 .. N /\ 1 \in B
       /\ \A d \in 1 .. StackLimit : \A f \in Files :
             <<d, f>> \in D => \E i \in 1 .. Size[f] : Bad(D, d, f, i)
       /\ \A j \in B : Stuck(D, B, j)
       /\ \A j \in 1 .. N : <<j, File(j)>> \in D => j \in B
  BY <1>1 DEF Doomed, Marks
<1>11. ASSUME NEW d \in 1 .. StackLimit, NEW f \in Files, <<d, f>> \in D
       PROVE  \E i \in 1 .. Size[f] : Bad(D, d, f, i)'
  <2>1. PICK i \in 1 .. Size[f] : Bad(D, d, f, i)
    BY <1>10, <1>11
  <2> QED BY <2>1, BadGrows
<1>12. ASSUME NEW j \in B PROVE Stuck(D, B2, j)'
  <2>1. Stuck(D, B, j) /\ j \in 1 .. N
    BY <1>10
  <2>2. CASE \E i \in 1 .. Size[File(j)] : i > Done(j) /\ Bad(D, j, File(j), i)
    <3>1. PICK i \in 1 .. Size[File(j)] : i > Done(j) /\ Bad(D, j, File(j), i)
      BY <2>2
    <3>2. PICK f : f = File(j)
      OBVIOUS
    <3>3. Bad(D, j, f, i)'
      BY <3>1, <3>2, BadGrows
    <3>4. i > Done(j)'
      BY <1>5, <2>1, <3>1
    <3>5. f = File(j)' /\ i \in 1 .. Size'[f]
      BY <1>5, <1>7, <2>1, <3>1, <3>2
    <3> QED BY <3>3, <3>4, <3>5 DEF Stuck
  <2>3. CASE \E i \in 1 .. Done(j) : Lost(j, i)
    <3>1. PICK i \in 1 .. Done(j) : Lost(j, i)
      BY <2>3
    <3>2. PICK r \in 1 .. n : r = stack[j].requested[i] /\ instances[r].status \in {"unlinked", "retried"}
      BY <1>1, <3>1 DEF Lost
    <3>3. r \in DOMAIN instances' /\ r = stack'[j].requested[i] /\ instances'[r].status \in {"unlinked", "retried"}
      BY <1>1, <1>5, <2>1, <3>2
    <3>4. Lost(j, i)' /\ i \in 1 .. Done(j)'
      BY <1>5, <2>1, <3>3 DEF Lost
    <3> QED BY <3>4 DEF Stuck
  <2>4. CASE \E k \in B : k = j + 1 /\ ~ stack[k].retry
    <3>1. PICK k \in B : k = j + 1 /\ ~ stack[k].retry
      BY <2>4
    <3>2. k \in B2 /\ ~ stack'[k].retry
      BY <1>5, <1>9, <1>10, <3>1
    <3> QED BY <3>1, <3>2 DEF Stuck
  <2> QED BY <2>1, <2>2, <2>3, <2>4 DEF Stuck
<1>13. ASSUME <<M, File(M)'>> \in D PROVE Stuck(D, B2, M)'
  <2>1. PICK f \in Files : f = File(M)' /\ M \in 1 .. StackLimit /\ <<M, f>> \in D
    BY <1>10, <1>13
  <2>2. PICK i \in 1 .. Size[f] : Bad(D, M, f, i)'
    BY <1>11, <2>1
  <2>3. i > Done(M)' /\ i \in 1 .. Size'[File(M)']
    BY <1>6, <1>7, <1>8, <2>1, <2>2
  <2> QED BY <2>1, <2>2, <2>3 DEF Stuck
<1>14. \A j \in B2 : Stuck(D, B2, j)'
  BY <1>9, <1>12, <1>13
<1>15. ASSUME NEW j \in 1 .. N + 1, NEW i \in 1 .. Done(j)', NEW r \in 1 .. n2,
              r = stack'[j].requested[i], instances'[r].status \in {"unlinked", "retried"}
       PROVE  <<j + 1, instances'[r].file>> \in D
  <2>1. j \in 1 .. N
    BY <1>3, <1>6, <1>15
  <2>2. i \in 1 .. Done(j) /\ r = stack[j].requested[i]
    BY <1>5, <1>15, <2>1
  <2>3. r \in 0 .. n
    BY <1>4, <2>1, <2>2, SeqFacts DEF Done
  <2>4. r \in 1 .. n
    BY <2>3
  <2>5. instances[r].status \in {"unlinked", "retried"} /\ instances'[r].file = instances[r].file
    BY <1>1, <1>15, <2>4 DEF Known
  <2>6. <<j + 1, instances[r].file>> \in D
    BY <1>1, <2>1, <2>2, <2>4, <2>5 DEF Doomed, Marks
  <2> QED BY <2>5, <2>6
<1>16. Marks(D, B2)'
  <2>1. B2 \subseteq 1 .. N + 1
    BY <1>2, <1>8, <1>9, <1>10
  <2>2. \A j \in 1 .. N + 1 : <<j, File(j)'>> \in D => j \in B2
    BY <1>3, <1>5, <1>8, <1>9, <1>10
  <2> QED BY <1>3, <1>7, <1>10, <1>11, <1>14, <1>15, <2>1, <2>2 DEF Marks
<1> QED BY <1>3, <1>9, <1>10, <1>16 DEF Doomed

(* A frame that will fail is not completed, nor is one for a module that is *)
(* prepared again.                                                          *)
LEMMA DoomedWaits ==
    ASSUME Base, NEW D, NEW B, Doomed(D, B), stack # <<>>, ~ Asks, Unlinked = {}
    PROVE  Len(stack) \notin B /\ ~ stack[Len(stack)].retry /\ Len(stack) # 1
<1>1. PICK n, N \in Nat :
        /\ n = Len(instances) /\ DOMAIN instances = 1 .. n
        /\ N = Len(stack) /\ DOMAIN stack = 1 .. N
  BY Typing DEF Base
<1>2. N \in 1 .. N /\ Top = stack[N] /\ Done(N) = Size[File(N)]
  BY <1>1, AsksIs
<1>3. \A j \in 1 .. N : stack[j].id \in 1 .. n /\ stack[j].requested \in Seq(0 .. n) /\ Done(j) \in Nat
  BY <1>1, FrameFacts
<1>4. N \notin B
  <2> SUFFICES ASSUME N \in B PROVE FALSE
    OBVIOUS
  <2>1. Stuck(D, B, N) /\ B \subseteq 1 .. N
    BY <1>1 DEF Doomed, Marks
  <2>2. ~ \E k \in B : k = N + 1 /\ ~ stack[k].retry
    BY <1>1, <2>1
  <2>3. ~ \E i \in 1 .. Size[File(N)] : i > Done(N) /\ Bad(D, N, File(N), i)
    <3>1. \A i \in 1 .. Done(N) : ~ (i > Done(N))
      BY <1>2, <1>3
    <3> QED BY <1>2, <3>1
  <2>4. PICK i \in 1 .. Done(N), r \in 1 .. n :
           r = stack[N].requested[i] /\ instances[r].status \in {"unlinked", "retried"}
    <3>1. \E i \in 1 .. Done(N) : Lost(N, i)
      BY <2>1, <2>2, <2>3 DEF Stuck
    <3> QED BY <1>1, <3>1 DEF Lost
  <2>5. r # Ready /\ StatusOf(r) = instances[r].status
    BY <2>4 DEF Ready, StatusOf
  <2>6. CASE instances[r].status = "unlinked"
    <3>1. i \in DOMAIN Top.requested
      BY <1>2, <1>3, <2>4, SeqFacts DEF Done
    <3>2. i \in Unlinked
      BY <1>2, <2>4, <2>5, <2>6, <3>1 DEF Unlinked
    <3> QED BY <3>2
  <2>7. CASE instances[r].status = "retried"
    <3>1. PICK j \in 1 .. N : stack[j].id = r
      BY <1>1, <2>7 DEF Statuses, Base
    <3>2. stack[N].id < r
      BY <1>1, <1>2, <2>4 DEF Answers, Base
    <3>3. j < N => stack[j].id < stack[N].id
      BY <1>1, <1>2 DEF Order, Base
    <3>4. j = N \/ j < N
      BY <1>1
    <3> QED BY <1>2, <1>3, <3>1, <3>2, <3>3, <3>4
  <2> QED BY <2>4, <2>6, <2>7
<1>5. N # 1
  BY <1>1, <1>4 DEF Doomed
<1>6. ~ stack[N].retry
  <2> SUFFICES ASSUME stack[N].retry PROVE FALSE
    OBVIOUS
  <2>1. PICK j \in 1 .. N : N = j + 1
    <3>1. N - 1 \in 1 .. N /\ N = (N - 1) + 1
      BY <1>1, <1>2, <1>5
    <3> QED BY <3>1
  <2>2. PICK i \in 1 .. Done(j) : stack[j].requested[i] = stack[N].id
    BY <1>1, <1>2, <2>1 DEF Links, Base
  <2>3. instances[stack[N].id].status = "retried"
    BY <1>1, <1>2, <1>3 DEF Statuses, Base
  <2>4. <<j + 1, instances[stack[N].id].file>> \in D
    BY <1>1, <1>2, <1>3, <2>2, <2>3 DEF Doomed, Marks
  <2>5. <<N, File(N)>> \in D
    BY <2>1, <2>4 DEF File, FileOf
  <2> QED BY <1>1, <1>2, <1>4, <2>5 DEF Doomed, Marks
<1> QED BY <1>1, <1>4, <1>5, <1>6

(* A doomed program stays so when a module above the doomed frames is       *)
(* complete.                                                                *)
LEMMA DoomComplete ==
    ASSUME Base, NEW D, NEW B, Doomed(D, B), stack # <<>>, ~ Asks, Unlinked = {},
           Leave(Len(stack), "evaluated"), program' = program, modules_' = modules_
    PROVE  Doomed(D, B)'
<1>1. PICK n, N \in Nat :
        /\ n = Len(instances) /\ DOMAIN instances = 1 .. n
        /\ N = Len(stack) /\ DOMAIN stack = 1 .. N
  BY Typing DEF Base
<1>2. N \in 1 .. N /\ N \notin B /\ ~ stack[N].retry /\ N # 1
  BY <1>1, AsksIs, DoomedWaits
<1>3. PICK M \in 1 .. N : M = N - 1 /\ M \in Nat /\ M # 0 /\ M + 1 = N
  BY <1>1, <1>2
<1>4. \A j \in 1 .. N : /\ stack[j].id \in 1 .. n /\ stack[j].requested \in Seq(0 .. n)
                        /\ Done(j) \in Nat /\ File(j) \in Files
  BY <1>1, FrameFacts
<1>5. From(N) = {stack[N].id}
  <2>1. N .. N = {N}
    BY <1>1
  <2> QED BY <1>1, <2>1 DEF From
<1>6. /\ Move(M, stack[N].id) /\ Known
      /\ stack' \in Seq(FrameSet(n)) /\ DOMAIN instances' = 1 .. n
      /\ \A i \in 1 .. n :
            instances'[i].status = IF i = stack[N].id THEN "evaluated" ELSE instances[i].status
  <2>1. /\ Move(N - 1, stack[N].id) /\ Known
        /\ stack' \in Seq(FrameSet(n)) /\ DOMAIN instances' = 1 .. n
        /\ \A i \in 1 .. n :
              instances'[i].status = IF i \in From(N) THEN "evaluated" ELSE instances[i].status
    BY <1>1, <1>2, LeaveIs
  <2> QED BY <1>3, <1>5, <2>1
<1>7. DOMAIN stack' = 1 .. M /\ stack' # <<>> /\ \A j \in 1 .. M : j \in 1 .. N /\ (j \in 1 .. M - 1 \/ j = M)
  <2>1. DOMAIN stack' = 1 .. M
    BY <1>6, SeqFacts DEF Move
  <2>2. M \in 1 .. M /\ \A j \in 1 .. M : j \in 1 .. N /\ (j \in 1 .. M - 1 \/ j = M)
    BY <1>1, <1>3
  <2> QED BY <2>1, <2>2, EmptySeq
<1>8. \A j \in 1 .. M : /\ stack'[j].id = stack[j].id /\ stack'[j].retry = stack[j].retry
                        /\ File(j)' = File(j)
  <2>1. \A j \in 1 .. M : stack'[j].id = stack[j].id /\ stack'[j].retry = stack[j].retry
    BY <1>3, <1>6, <1>7 DEF Move
  <2> QED BY <1>1, <1>4, <1>6, <1>7, <2>1 DEF File, FileOf, Known
<1>9. \A j \in 1 .. M - 1 : stack'[j] = stack[j] /\ Done(j)' = Done(j)
  BY <1>6 DEF Move, Done
<1>10. /\ Done(M)' = Done(M) + 1
       /\ \A i \in 1 .. Done(M) : stack'[M].requested[i] = stack[M].requested[i]
       /\ stack'[M].requested[Done(M) + 1] = stack[N].id
  BY <1>3, <1>6 DEF Move, Done
<1>11. /\ Files' = Files /\ Size' = Size
  BY Same
<1>12. instances[stack[N].id].status = "preparing" /\ instances'[stack[N].id].status = "evaluated"
  BY <1>1, <1>2, <1>4, <1>6 DEF Statuses, Base
<1>13. \A r \in 1 .. n : instances'[r].status \in {"unlinked", "retried"}
                          <=> instances[r].status \in {"unlinked", "retried"}
  BY <1>6, <1>12
<1>14. \A j \in 1 .. M : \A i \in 1 .. Done(j) : i \in 1 .. Done(j)' /\ stack'[j].requested[i] = stack[j].requested[i]
  <2> SUFFICES ASSUME NEW j \in 1 .. M, NEW i \in 1 .. Done(j)
               PROVE  i \in 1 .. Done(j)' /\ stack'[j].requested[i] = stack[j].requested[i]
    OBVIOUS
  <2>1. CASE j = M
    <3>1. Done(M) \in Nat
      BY <1>4
    <3> QED BY <1>10, <2>1, <3>1
  <2>2. CASE j # M
    <3>1. j \in 1 .. M - 1
      BY <1>7, <2>2
    <3> QED BY <1>9, <3>1
  <2> QED BY <2>1, <2>2
<1>15. /\ D \subseteq (1 .. StackLimit) \X Files /\ B \subseteq 1 .. N /\ 1 \in B
       /\ \A d \in 1 .. StackLimit : \A f \in Files :
             <<d, f>> \in D => \E i \in 1 .. Size[f] : Bad(D, d, f, i)
       /\ \A j \in B : Stuck(D, B, j)
       /\ \A j \in 1 .. N : <<j, File(j)>> \in D => j \in B
  BY <1>1, <1>2 DEF Doomed, Marks
<1>16. ~ Bad(D, M, File(M), Done(M) + 1)
  <2>1. <<File(M), Done(M) + 1, File(N)>> \in LeadsTo
    BY <1>1, <1>2, <1>3 DEF Links, Base
  <2>2. <<M + 1, File(N)>> \notin D /\ M # StackLimit
    <3>1. N <= StackLimit
      BY <1>1, Typing DEF Base
    <3> QED BY <1>2, <1>3, <1>15, <3>1, LimitAssumption
  <2> QED BY <2>1, <2>2, KindsApart DEF Bad
<1>17. ASSUME NEW d \in 1 .. StackLimit, NEW f \in Files, <<d, f>> \in D
       PROVE  \E i \in 1 .. Size[f] : Bad(D, d, f, i)'
  <2>1. PICK i \in 1 .. Size[f] : Bad(D, d, f, i)
    BY <1>15, <1>17
  <2> QED BY <2>1, BadGrows
<1>18. B \subseteq 1 .. M
  <2>1. \A j \in 1 .. N : j # N => j \in 1 .. M
    BY <1>1, <1>3
  <2> QED BY <1>2, <1>15, <2>1
<1>19. ASSUME NEW j \in B PROVE Stuck(D, B, j)'
  <2>1. Stuck(D, B, j) /\ j \in 1 .. M
    BY <1>15, <1>18
  <2>2. CASE \E i \in 1 .. Size[File(j)] : i > Done(j) /\ Bad(D, j, File(j), i)
    <3>1. PICK i \in 1 .. Size[File(j)] : i > Done(j) /\ Bad(D, j, File(j), i)
      BY <2>2
    <3>2. PICK f : f = File(j)
      OBVIOUS
    <3>3. Bad(D, j, f, i)'
      BY <3>1, <3>2, BadGrows
    <3>4. i > Done(j)'
      <4>1. CASE j = M
        <5>1. i # Done(M) + 1
          BY <1>16, <3>1, <4>1
        <5> QED BY <1>4, <1>7, <1>10, <2>1, <3>1, <4>1, <5>1
      <4>2. CASE j # M
        BY <1>7, <1>9, <2>1, <3>1, <4>2
      <4> QED BY <4>1, <4>2
    <3>5. f = File(j)' /\ i \in 1 .. Size'[f]
      BY <1>8, <1>11, <2>1, <3>1, <3>2
    <3> QED BY <3>3, <3>4, <3>5 DEF Stuck
  <2>3. CASE \E i \in 1 .. Done(j) : Lost(j, i)
    <3>1. PICK i \in 1 .. Done(j) : Lost(j, i)
      BY <2>3
    <3>2. PICK r \in 1 .. n : r = stack[j].requested[i] /\ instances[r].status \in {"unlinked", "retried"}
      BY <1>1, <3>1 DEF Lost
    <3>3. r \in DOMAIN instances' /\ r = stack'[j].requested[i] /\ instances'[r].status \in {"unlinked", "retried"}
      BY <1>6, <1>13, <1>14, <2>1, <3>2
    <3>4. Lost(j, i)' /\ i \in 1 .. Done(j)'
      BY <1>14, <2>1, <3>3 DEF Lost
    <3> QED BY <3>4 DEF Stuck
  <2>4. CASE \E k \in B : k = j + 1 /\ ~ stack[k].retry
    <3>1. PICK k \in B : k = j + 1 /\ ~ stack[k].retry
      BY <2>4
    <3>2. ~ stack'[k].retry
      BY <1>8, <1>18, <3>1
    <3> QED BY <3>1, <3>2 DEF Stuck
  <2> QED BY <2>1, <2>2, <2>3, <2>4 DEF Stuck
<1>20. ASSUME NEW j \in 1 .. M, NEW i \in 1 .. Done(j)', NEW r \in 1 .. n,
              r = stack'[j].requested[i], instances'[r].status \in {"unlinked", "retried"}
       PROVE  <<j + 1, instances'[r].file>> \in D
  <2>1. instances[r].status \in {"unlinked", "retried"} /\ r # stack[N].id
    BY <1>12, <1>13, <1>20
  <2>2. i \in 1 .. Done(j) /\ r = stack[j].requested[i]
    <3>1. CASE j = M
      <4>1. i \in 1 .. Done(M) \/ i = Done(M) + 1
        <5>1. Done(M) \in Nat /\ M \in 1 .. N
          BY <1>4, <1>7, <3>1
        <5>2. i \in 1 .. (Done(M) + 1)
          BY <1>10, <1>20, <3>1
        <5> QED BY <5>1, <5>2
      <4>2. r = stack'[M].requested[i]
        BY <1>20, <3>1
      <4>3. i # Done(M) + 1
        BY <1>10, <2>1, <4>2
      <4>4. stack'[M].requested[i] = stack[M].requested[i]
        BY <1>10, <4>1, <4>3
      <4> QED BY <3>1, <4>1, <4>2, <4>3, <4>4
    <3>2. CASE j # M
      BY <1>7, <1>9, <1>20, <3>2
    <3> QED BY <3>1, <3>2
  <2>3. instances'[r].file = instances[r].file /\ j \in 1 .. N
    BY <1>1, <1>6, <1>7 DEF Known
  <2>4. <<j + 1, instances[r].file>> \in D
    BY <1>1, <2>1, <2>2, <2>3 DEF Doomed, Marks
  <2> QED BY <2>3, <2>4
<1>21. Marks(D, B)'
  <2>1. \A j \in 1 .. M : <<j, File(j)'>> \in D => j \in B
    BY <1>7, <1>8, <1>15
  <2> QED BY <1>6, <1>7, <1>11, <1>15, <1>17, <1>18, <1>19, <1>20, <2>1 DEF Marks
<1> QED BY <1>7, <1>15, <1>21 DEF Doomed

-----------------------------------------------------------------------------
(* While nothing has failed: what has run so far is the beginning of the    *)
(* walk, as far as the frames have come.                                    *)
Track(G) ==
    /\ G \in [0 .. Len(stack) -> Seq(Keys)] /\ G[0] = <<>>
    /\ \A j \in DOMAIN stack : G[j] = G[j - 1] \o Begun[StackLimit - j][File(j)][Done(j)]
    /\ \A j \in DOMAIN stack :
          \E r \in Seq(Keys) : Walked = (G[j - 1] \o Walk[StackLimit - j][File(j)]) \o r

(* What has run is g, and modules_ has the JSON files of g.                 *)
Log(g) ==
    /\ Len(runs) = Len(g) /\ \A a \in 1 .. Len(g) : runs[a] = g[a][1]
    /\ \A k \in Keys : IsJson(k[1]) => (k \in modules_ <=> \E a \in 1 .. Len(g) : g[a] = k)
    /\ \A a, b \in 1 .. Len(g) : IsJson(g[a][1]) /\ g[a] = g[b] => a = b

(* The imports so far were found, and if all are then those to come too.    *)
Fit ==
    /\ instances[1].file = Entry
    /\ FoundAll => \A j \in DOMAIN stack : <<StackLimit - j, File(j)>> \in FoundAt
    /\ \A j \in DOMAIN stack : \A i \in 1 .. Done(j) : <<StackLimit - j, File(j), i>> \in FitAt

(* No module has been given up.                                             *)
Clean == \A i \in DOMAIN instances : instances[i].status \in {"preparing", "evaluated"}

(* The program was a good one and has run in the order of the walk.         *)
Finished == Good /\ Ran /\ runs = [i \in DOMAIN Walked |-> Walked[i][1]] \o <<Entry>>

(* Nothing has failed.                                                      *)
Going ==
    /\ Clean
    /\ IF stack = <<>> THEN Finished
       ELSE Fit /\ \E G, g : Track(G) /\ g = G[Len(stack)] /\ Log(g)

(* The entry module is at the greatest depth.                               *)
LEMMA Roots ==
    ASSUME program \in Programs
    PROVE  /\ Entry \in Files /\ StackLimit - 1 \in 0 .. StackLimit
           /\ Walked = Walk[StackLimit - 1][Entry] /\ Walked \in Seq(Keys)
           /\ FoundAll <=> <<StackLimit - 1, Entry>> \in FoundAt
<1>1. Entry \in Files /\ StackLimit - 1 \in 0 .. StackLimit
  BY LimitAssumption DEF Files
<1>2. Walked = Walk[StackLimit - 1][Entry] /\ Walked \in Seq(Keys)
  BY <1>1, WalkType DEF Walked, Depth
<1>3. FoundAll <=> <<StackLimit - 1, Entry>> \in FoundAt
  BY <1>1 DEF FoundAt, FoundAll, Depth
<1> QED BY <1>1, <1>2, <1>3

(* The depths that are left for the frames.                                 *)
LEMMA Levels ==
    ASSUME TypeOK
    PROVE  \A j \in DOMAIN stack : /\ StackLimit - j \in 0 .. StackLimit /\ j - 1 \in 0 .. Len(stack)
                                   /\ j \in 0 .. Len(stack) /\ (StackLimit - j # 0 <=> j < StackLimit)
                                   /\ (StackLimit - j) - 1 = StackLimit - (j + 1)
<1>1. PICK N \in Nat : N = Len(stack) /\ DOMAIN stack = 1 .. N /\ N <= StackLimit
  BY Typing
<1> QED BY <1>1, LimitAssumption

(* The log goes on with one more file.                                      *)
LEMMA LogAdds ==
    ASSUME TypeOK, program' = program, NEW g \in Seq(Keys), Log(g), NEW key \in Keys,
           runs' = Append(runs, key[1]),
           \/ IsJson(key[1]) /\ key \notin modules_ /\ modules_' = modules_ \cup {key}
           \/ ~ IsJson(key[1]) /\ modules_' = modules_
    PROVE  Log(g \o <<key>>)'
<1>1. PICK n \in Nat : n = Len(g) /\ \A a \in 1 .. n : g[a] \in Keys
  BY SeqFacts
<1>2. PICK h \in Seq(Keys) : h = g \o <<key>>
  <2>1. <<key>> \in Seq(Keys)
    OBVIOUS
  <2> QED BY <2>1, ConcatProperties
<1>3. h = Append(g, key)
  BY <1>2, AppendIsConcat
<1>4. Len(h) = n + 1 /\ h[n + 1] = key /\ \A a \in 1 .. n : h[a] = g[a]
  BY <1>1, <1>3, AppendProperties
<1>5. key[1] \in Files /\ Len(runs) = n /\ runs \in Seq(Files)
  BY <1>1 DEF Log, Keys, TypeOK
<1>6. Len(runs') = n + 1 /\ runs'[n + 1] = key[1] /\ \A a \in 1 .. n : runs'[a] = runs[a]
  BY <1>5, AppendProperties
<1>7. \A a \in 1 .. n + 1 : a \in 1 .. n \/ a = n + 1
  BY <1>1
<1>8. n + 1 \in 1 .. n + 1 /\ 1 .. n \subseteq 1 .. n + 1
  BY <1>1
<1>9. \A a \in 1 .. n + 1 : runs'[a] = h[a][1]
  BY <1>1, <1>4, <1>6, <1>7 DEF Log
<1>10. ASSUME NEW k \in Keys, IsJson(k[1])
       PROVE  k \in modules_' <=> \E a \in 1 .. n + 1 : h[a] = k
  <2>1. k \in modules_ <=> \E a \in 1 .. n : g[a] = k
    BY <1>1, <1>10 DEF Log
  <2>2. k \in modules_' <=> k \in modules_ \/ k = key
    BY <1>10
  <2> QED BY <1>4, <1>7, <1>8, <2>1, <2>2
<1>11. ASSUME NEW a \in 1 .. n + 1, NEW b \in 1 .. n + 1, IsJson(h[a][1]), h[a] = h[b]
       PROVE  a = b
  <2>1. IsJson(key[1]) => \A c \in 1 .. n : g[c] # key
    BY <1>1 DEF Log
  <2>2. \A c, d \in 1 .. n : IsJson(g[c][1]) /\ g[c] = g[d] => c = d
    BY <1>1 DEF Log
  <2> QED BY <1>4, <1>7, <1>11, <2>1, <2>2
<1>12. Keys' = Keys
  BY Same
<1>13. Log(h)'
  BY <1>4, <1>6, <1>9, <1>10, <1>11, <1>12 DEF Log
<1> QED BY <1>2, <1>13

-----------------------------------------------------------------------------
(* While nothing has failed no module is tried again.                       *)
LEMMA NoRetry ==
    ASSUME Base, Clean
    PROVE  \A j \in DOMAIN stack : ~ stack[j].retry
<1> SUFFICES ASSUME NEW j \in DOMAIN stack, stack[j].retry PROVE FALSE
  OBVIOUS
<1>1. stack[j].id \in DOMAIN instances
  BY FrameFacts
<1>2. instances[stack[j].id].status = "retried"
  BY <1>1 DEF Statuses, Base
<1> QED BY <1>1, <1>2 DEF Clean

(* Frame m has its next import, and h is what has run then.                 *)
LEMMA GoMoves ==
    ASSUME Base, Fit, NEW G, Track(G), program' = program, NEW m \in DOMAIN stack,
           NEW id, Move(m, id), stack' \in Seq(FrameSet(Len(instances))), Known, Clean',
           Done(m) < Size[File(m)], <<StackLimit - m, File(m), Done(m) + 1>> \in FitAt,
           NEW h, h = G[m - 1] \o Begun[StackLimit - m][File(m)][Done(m) + 1], Log(h)'
    PROVE  Going'
<1>1. PICK n, N \in Nat :
        /\ n = Len(instances) /\ DOMAIN instances = 1 .. n
        /\ N = Len(stack) /\ DOMAIN stack = 1 .. N /\ N <= StackLimit
  BY Typing DEF Base
<1>2. /\ m \in 1 .. N /\ m \in Nat /\ m # 0 /\ 0 \in 0 .. m - 1 /\ m - 1 \in 0 .. N
      /\ \A j \in 1 .. m : j \in 1 .. N /\ j # 0 /\ (j \in 1 .. m - 1 \/ j = m)
      /\ \A j \in 1 .. m : j - 1 \in 0 .. m - 1 /\ j - 1 # m
      /\ \A j \in 0 .. m - 1 : j \in 0 .. N /\ j # m
  BY <1>1
<1>3. Len(stack') = m /\ DOMAIN stack' = 1 .. m
  BY <1>2, SeqFacts DEF Move
<1>4. \A j \in 1 .. N : /\ stack[j].id \in 1 .. n /\ Done(j) \in Nat
                        /\ File(j) \in Files /\ Size[File(j)] \in Nat
  BY <1>1, FrameFacts
<1>5. \A j \in 1 .. m : stack'[j].id = stack[j].id
  BY <1>2 DEF Move
<1>6. \A j \in 1 .. m : File(j)' = File(j)
  BY <1>1, <1>2, <1>4, <1>5 DEF File, FileOf, Known
<1>7. Done(m)' = Done(m) + 1 /\ \A j \in 1 .. m - 1 : Done(j)' = Done(j)
  BY <1>2 DEF Move, Done
<1>8. /\ Keys' = Keys /\ Begun' = Begun /\ Walk' = Walk /\ Walked' = Walked
      /\ FoundAll' = FoundAll /\ FoundAt' = FoundAt /\ FitAt' = FitAt
  BY Same
<1>9. \A j \in 1 .. N : StackLimit - j \in 0 .. StackLimit
  BY <1>1, Levels DEF Base
<1>10. /\ G \in [0 .. N -> Seq(Keys)] /\ G[0] = <<>>
       /\ \A j \in 1 .. N : G[j] = G[j - 1] \o Begun[StackLimit - j][File(j)][Done(j)]
       /\ \A j \in 1 .. N :
             \E r \in Seq(Keys) : Walked = (G[j - 1] \o Walk[StackLimit - j][File(j)]) \o r
  BY <1>1 DEF Track
<1>11. h \in Seq(Keys)
  <2>1. Done(m) + 1 \in 0 .. Size[File(m)]
    BY <1>2, <1>4
  <2>2. Begun[StackLimit - m][File(m)][Done(m) + 1] \in Seq(Keys)
    BY <1>2, <1>4, <1>9, <2>1, BegunFacts DEF Base
  <2>3. G[m - 1] \in Seq(Keys)
    BY <1>2, <1>10
  <2> QED BY <2>2, <2>3, ConcatProperties
<1>12. PICK H : H = [j \in 0 .. m |-> IF j = m THEN h ELSE G[j]]
  OBVIOUS
<1>13. H[m] = h /\ \A j \in 0 .. m - 1 : H[j] = G[j]
  <2>1. m \in 0 .. m /\ \A j \in 0 .. m - 1 : j \in 0 .. m /\ j # m
    BY <1>2
  <2>2. \A j \in 0 .. m : H[j] = IF j = m THEN h ELSE G[j]
    BY <1>12
  <2> QED BY <2>1, <2>2
<1>14. H \in [0 .. m -> Seq(Keys)] /\ H[0] = <<>>
  <2>1. \A j \in 0 .. m : j = m \/ j \in 0 .. m - 1
    BY <1>2
  <2>2. \A j \in 0 .. m : H[j] \in Seq(Keys)
    BY <1>2, <1>10, <1>11, <1>13, <2>1
  <2> QED BY <1>2, <1>10, <1>12, <1>13, <2>2
<1>15. ASSUME NEW j \in 1 .. m
       PROVE  /\ H[j] = H[j - 1] \o Begun[StackLimit - j][File(j)'][Done(j)']
              /\ \E r \in Seq(Keys) : Walked = (H[j - 1] \o Walk[StackLimit - j][File(j)']) \o r
  <2>1. H[j - 1] = G[j - 1] /\ j \in 1 .. N /\ File(j)' = File(j)
    BY <1>2, <1>6, <1>13
  <2>2. CASE j = m
    BY <1>7, <1>10, <1>13, <2>1, <2>2
  <2>3. CASE j \in 1 .. m - 1
    <3>1. H[j] = G[j] /\ Done(j)' = Done(j)
      <4>1. j \in 0 .. m - 1
        BY <1>2, <2>3
      <4> QED BY <1>7, <1>13, <2>3, <4>1
    <3> QED BY <1>10, <2>1, <3>1
  <2> QED BY <1>2, <2>2, <2>3
<1>16. Track(H)'
  BY <1>3, <1>8, <1>14, <1>15 DEF Track
<1>17. Fit'
  <2>1. instances'[1].file = Entry /\ Entry' = Entry
    BY DEF Fit, Known, Order, Base, Entry
  <2>2. FoundAll => \A j \in 1 .. m : <<StackLimit - j, File(j)'>> \in FoundAt
    BY <1>1, <1>2, <1>6 DEF Fit
  <2>3. ASSUME NEW j \in 1 .. m, NEW i \in 1 .. Done(j)'
        PROVE  <<StackLimit - j, File(j)', i>> \in FitAt
    <3>1. j \in 1 .. N /\ File(j)' = File(j)
      BY <1>2, <1>6
    <3>2. CASE i \in 1 .. Done(j)
      BY <1>1, <3>1, <3>2 DEF Fit
    <3>3. CASE i \notin 1 .. Done(j)
      <4>1. j = m
        BY <1>2, <1>7, <3>3
      <4>2. i = Done(m) + 1
        BY <1>2, <1>4, <1>7, <3>3, <4>1
      <4> QED BY <3>1, <4>1, <4>2
    <3> QED BY <3>2, <3>3
  <2> QED BY <1>3, <1>8, <2>1, <2>2, <2>3 DEF Fit
<1>18. stack' # <<>>
  BY <1>2, <1>3, EmptySeq
<1> QED BY <1>3, <1>13, <1>16, <1>17, <1>18 DEF Going

(* What has run when the innermost module has asked for i - 1 imports.      *)
LEMMA TopLog ==
    ASSUME Base, stack # <<>>, NEW G, Track(G)
    PROVE  /\ Len(stack) \in DOMAIN stack
           /\ StackLimit - Len(stack) \in 0 .. StackLimit
           /\ File(Len(stack)) \in Files /\ Size[File(Len(stack))] \in Nat
           /\ Done(Len(stack)) \in 0 .. Size[File(Len(stack))]
           /\ G[Len(stack) - 1] \in Seq(Keys) /\ G[Len(stack)] \in Seq(Keys)
           /\ G[Len(stack)] = G[Len(stack) - 1] \o
                 Begun[StackLimit - Len(stack)][File(Len(stack))][Done(Len(stack))]
           /\ Begun[StackLimit - Len(stack)][File(Len(stack))][Done(Len(stack))] \in Seq(Keys)
<1>1. PICK n, N \in Nat :
        /\ n = Len(instances) /\ DOMAIN instances = 1 .. n
        /\ N = Len(stack) /\ DOMAIN stack = 1 .. N /\ N <= StackLimit
  BY Typing DEF Base
<1>2. /\ N \in 1 .. N /\ File(N) \in Files /\ Size[File(N)] \in Nat
      /\ Done(N) \in 0 .. Size[File(N)]
  BY <1>1, AsksIs
<1>3. StackLimit - N \in 0 .. StackLimit /\ N - 1 \in 0 .. N /\ N \in 0 .. N
  BY <1>1, <1>2, Levels DEF Base
<1>4. G \in [0 .. N -> Seq(Keys)] /\ G[N] = G[N - 1] \o Begun[StackLimit - N][File(N)][Done(N)]
  BY <1>1, <1>2 DEF Track
<1>5. Begun[StackLimit - N][File(N)][Done(N)] \in Seq(Keys)
  BY <1>2, <1>3, BegunFacts DEF Base
<1> QED BY <1>1, <1>2, <1>3, <1>4, <1>5

(* native-js.                                                               *)
LEMMA GoNative ==
    ASSUME Base, Going, Asks, stack' = Returns(stack, Ready),
           UNCHANGED <<program, instances, modules_, runs>>,
           <<File(Len(stack)), Done(Len(stack)) + 1>> \in NativeAt
    PROVE  Going'
<1>1. PICK n, N \in Nat :
        /\ n = Len(instances) /\ DOMAIN instances = 1 .. n
        /\ N = Len(stack) /\ DOMAIN stack = 1 .. N /\ N <= StackLimit
  BY Typing DEF Base
<1>2. stack # <<>> /\ Done(N) < Size[File(N)] /\ N \in 1 .. N
  BY <1>1, AsksIs
<1>3. Fit /\ Clean /\ \E G : Track(G) /\ Log(G[N])
  BY <1>1, <1>2 DEF Going
<1>4. PICK G : Track(G) /\ Log(G[N])
  BY <1>3
<1>5. /\ File(N) \in Files /\ Size[File(N)] \in Nat /\ Done(N) \in 0 .. Size[File(N)]
      /\ StackLimit - N \in 0 .. StackLimit
      /\ G[N] = G[N - 1] \o Begun[StackLimit - N][File(N)][Done(N)]
  BY <1>1, <1>2, <1>4, TopLog
<1>6. PICK i : i = Done(N) + 1
  OBVIOUS
<1>7. i \in 1 .. Size[File(N)] /\ i - 1 = Done(N)
  BY <1>2, <1>5, <1>6
<1>8. /\ <<StackLimit - N, File(N), i>> \in FitAt
      /\ Begun[StackLimit - N][File(N)][i] = Begun[StackLimit - N][File(N)][i - 1]
  <2>1. PICK d \in 0 .. StackLimit : d = StackLimit - N
    BY <1>5
  <2>2. PICK F \in Files : F = File(N)
    BY <1>5
  <2>3. program \in Programs /\ i \in 1 .. Size[F] /\ <<F, i>> \in NativeAt
    BY <1>1, <1>6, <1>7, <2>2 DEF Base
  <2>4. <<d, F, i>> \in FitAt
    BY <2>3, FoundFacts
  <2>5. Begun[d][F][i] = Begun[d][F][i - 1]
    BY <2>3, BegunFacts
  <2> QED BY <2>1, <2>2, <2>4, <2>5
<1>9. Move(N, Ready) /\ stack' \in Seq(FrameSet(n))
  BY <1>1, <1>2, ReadyMoves DEF Base
<1>10. Known /\ Clean'
  BY <1>3 DEF Known, Clean
<1>11. PICK h : h = G[N]
  OBVIOUS
<1>12. Log(h)'
  <2>1. Keys' = Keys /\ Log(h)
    BY <1>4, <1>11, Same
  <2> QED BY <2>1 DEF Log
<1>13. h = G[N - 1] \o Begun[StackLimit - N][File(N)][Done(N) + 1]
  BY <1>5, <1>6, <1>7, <1>8, <1>11
<1> QED BY <1>1, <1>2, <1>3, <1>4, <1>6, <1>8, <1>9, <1>10, <1>12, <1>13, GoMoves

(* A JSON file.                                                             *)
LEMMA GoJson ==
    ASSUME Base, Going, Asks, NEW file \in Files, Parse(file), NEW key, key \in Keys, key[1] = file,
           <<File(Len(stack)), Done(Len(stack)) + 1, file>> \in JsonAt,
           key = <<file, As[File(Len(stack))][Done(Len(stack)) + 1]>>,
           key \notin modules_, modules_' = modules_ \cup {key}
    PROVE  Going'
<1>1. PICK n, N \in Nat :
        /\ n = Len(instances) /\ DOMAIN instances = 1 .. n
        /\ N = Len(stack) /\ DOMAIN stack = 1 .. N /\ N <= StackLimit
  BY Typing DEF Base
<1>2. stack # <<>> /\ Done(N) < Size[File(N)] /\ N \in 1 .. N
  BY <1>1, AsksIs
<1>3. Fit /\ Clean /\ \E G : Track(G) /\ Log(G[N])
  BY <1>1, <1>2 DEF Going
<1>4. PICK G : Track(G) /\ Log(G[N])
  BY <1>3
<1>5. /\ File(N) \in Files /\ Size[File(N)] \in Nat /\ Done(N) \in 0 .. Size[File(N)]
      /\ StackLimit - N \in 0 .. StackLimit
      /\ G[N - 1] \in Seq(Keys) /\ G[N] \in Seq(Keys)
      /\ G[N] = G[N - 1] \o Begun[StackLimit - N][File(N)][Done(N)]
      /\ Begun[StackLimit - N][File(N)][Done(N)] \in Seq(Keys)
  BY <1>1, <1>2, <1>4, TopLog
<1>6. PICK i : i = Done(N) + 1
  OBVIOUS
<1>7. i \in 1 .. Size[File(N)] /\ i - 1 = Done(N)
  BY <1>2, <1>5, <1>6
<1>8. /\ <<StackLimit - N, File(N), i>> \in FitAt
      /\ Begun[StackLimit - N][File(N)][i] = Begun[StackLimit - N][File(N)][i - 1] \o <<key>>
  <2>1. PICK d \in 0 .. StackLimit : d = StackLimit - N
    BY <1>5
  <2>2. PICK F \in Files : F = File(N)
    BY <1>5
  <2>3. /\ program \in Programs /\ i \in 1 .. Size[F]
        /\ <<F, i, file>> \in JsonAt /\ key = <<file, As[F][i]>>
    BY <1>1, <1>6, <1>7, <2>2 DEF Base
  <2>4. <<d, F, i>> \in FitAt
    BY <2>1, <2>2, <2>3, FoundFacts
  <2>5. PICK one : one = <<key>>
    OBVIOUS
  <2>6. Begun[d][F][i] = Cat(Begun[d][F][i - 1], one)
    BY <2>1, <2>2, <2>3, <2>5, BegunSteps
  <2> QED BY <2>1, <2>2, <2>4, <2>5, <2>6 DEF Cat
<1>9. Move(N, Ready) /\ stack' \in Seq(FrameSet(n))
  BY <1>1, <1>2, ReadyMoves DEF Base, Parse
<1>10. Known /\ Clean'
  BY <1>3 DEF Known, Clean, Parse
<1>11. PICK h : h = G[N] \o <<key>>
  OBVIOUS
<1>12. Log(h)'
  <2>1. PICK g \in Seq(Keys) : g = G[N]
    BY <1>5
  <2>2. IsJson(key[1]) /\ runs' = Append(runs, key[1]) /\ program' = program
    BY KindsApart DEF Parse
  <2>3. Log(g)
    BY <1>4, <2>1
  <2>4. Log(g \o <<key>>)'
    BY <2>2, <2>3, LogAdds DEF Base
  <2>5. h = g \o <<key>>
    BY <1>11, <2>1
  <2> QED BY <2>4, <2>5
<1>13. h = G[N - 1] \o Begun[StackLimit - N][File(N)][Done(N) + 1]
  <2>1. PICK x \in Seq(Keys), y \in Seq(Keys) :
          x = G[N - 1] /\ y = Begun[StackLimit - N][File(N)][Done(N)]
    BY <1>5
  <2>2. <<key>> \in Seq(Keys)
    OBVIOUS
  <2>3. (x \o y) \o <<key>> = x \o (y \o <<key>>)
    <3>1. PICK z \in Seq(Keys) : z = <<key>>
      BY <2>2
    <3>2. \A a, b, c \in Walks : Cat(Cat(a, b), c) = Cat(a, Cat(b, c))
      BY CatFacts DEF Walks
    <3>3. x \in Walks /\ y \in Walks /\ z \in Walks
      BY DEF Walks
    <3>4. Cat(Cat(x, y), z) = Cat(x, Cat(y, z))
      BY <3>2, <3>3
    <3> QED BY <3>1, <3>4 DEF Cat
  <2> QED BY <1>5, <1>6, <1>7, <1>8, <1>11, <2>1, <2>3
<1>14. program' = program
  BY DEF Parse
<1> QED BY <1>1, <1>2, <1>3, <1>4, <1>6, <1>8, <1>9, <1>10, <1>12, <1>13, <1>14, GoMoves

(* Where frame j is on the way to an import that leads to a file, the walk  *)
(* goes on with the walk of that file.                                      *)
LEMMA GoesDown ==
    ASSUME Base, NEW P, Track(P), NEW j \in DOMAIN stack, Done(j) < Size[File(j)], j < StackLimit,
           NEW to \in Files, <<File(j), Done(j) + 1, to>> \in LeadsTo,
           NEW k \in Keys, k = <<to, As[File(j)][Done(j) + 1]>>
    PROVE  /\ P[j] \in Seq(Keys) /\ Walk[StackLimit - (j + 1)][to] \in Seq(Keys)
           /\ Cat(P[j - 1], Begun[StackLimit - j][File(j)][Done(j) + 1])
                 = Cat(Cat(P[j], Walk[StackLimit - (j + 1)][to]), <<k>>)
           /\ \E r \in Seq(Keys) : Walked = Cat(Cat(P[j], Walk[StackLimit - (j + 1)][to]), r)
<1>1. PICK n, N \in Nat :
        /\ n = Len(instances) /\ DOMAIN instances = 1 .. n
        /\ N = Len(stack) /\ DOMAIN stack = 1 .. N /\ N <= StackLimit
  BY Typing DEF Base
<1>2. PICK F \in Files : F = File(j) /\ Size[F] \in Nat /\ Done(j) \in Nat
  BY <1>1, FrameFacts
<1>3. PICK d \in 0 .. StackLimit :
        /\ d = StackLimit - j /\ d # 0 /\ d - 1 = StackLimit - (j + 1)
        /\ d - 1 \in 0 .. StackLimit
        /\ j - 1 \in 0 .. N /\ j \in 0 .. N
  <2>1. /\ StackLimit - j \in 0 .. StackLimit /\ j - 1 \in 0 .. N
        /\ j \in 0 .. N /\ StackLimit - j # 0
        /\ (StackLimit - j) - 1 = StackLimit - (j + 1)
    BY <1>1, Levels DEF Base
  <2>2. (StackLimit - j) - 1 \in 0 .. StackLimit
    BY <1>1, <2>1, LimitAssumption
  <2> QED BY <2>1, <2>2
<1>4. PICK i \in 1 .. Size[F] : i = Done(j) + 1 /\ i - 1 = Done(j) /\ i \in 0 .. Size[F]
  <2>1. Done(j) + 1 \in 1 .. Size[F] /\ (Done(j) + 1) - 1 = Done(j) /\ Done(j) + 1 \in 0 .. Size[F]
    BY <1>2
  <2> QED BY <2>1
<1>5. program \in Programs /\ <<F, i, to>> \in LeadsTo /\ k = <<to, As[F][i]>>
  BY <1>2, <1>4 DEF Base
<1>6. PICK one \in Seq(Keys) : one = <<k>>
  <2>1. <<k>> \in Seq(Keys)
    OBVIOUS
  <2> QED BY <2>1
<1>7. Begun[d][F][i] = Cat(Begun[d][F][i - 1], Cat(Walk[d - 1][to], one))
  BY <1>2, <1>3, <1>4, <1>5, <1>6, BegunSteps
<1>8. PICK later \in Seq(Keys) : Walk[d][F] = Cat(Begun[d][F][i], later)
  BY <1>4, <1>5, BegunFacts DEF Cat
<1>9. PICK start \in Seq(Keys) : start = P[j - 1]
  BY <1>1, <1>3 DEF Track
<1>10. PICK done \in Seq(Keys) : done = Begun[d][F][i - 1]
  <2>1. i - 1 \in 0 .. Size[F]
    BY <1>2, <1>4
  <2> QED BY <1>5, <2>1, BegunFacts
<1>11. PICK below \in Seq(Keys) : below = Walk[d - 1][to]
  BY <1>3, <1>5, WalkType
<1>12. P[j] = Cat(start, done)
  BY <1>1, <1>2, <1>3, <1>4, <1>9, <1>10 DEF Track, Cat
<1>13. PICK rest \in Seq(Keys) : Walked = Cat(Cat(start, Walk[d][F]), rest)
  BY <1>1, <1>2, <1>3, <1>9 DEF Track, Cat
<1>14. Walked = Cat(Cat(start, Cat(Cat(done, Cat(below, one)), later)), rest)
  BY <1>7, <1>8, <1>10, <1>11, <1>13
<1>15. /\ Cat(Cat(start, Cat(Cat(done, Cat(below, one)), later)), rest)
             = Cat(Cat(Cat(start, done), below), Cat(one, Cat(later, rest)))
       /\ Cat(start, Cat(done, Cat(below, one))) = Cat(Cat(Cat(start, done), below), one)
  <2>1. /\ start \in Walks /\ done \in Walks /\ below \in Walks /\ one \in Walks
        /\ later \in Walks /\ rest \in Walks
    BY <1>6, <1>8, <1>9, <1>10, <1>11, <1>13 DEF Walks
  <2> QED BY <2>1, Regroup
<1>16. /\ Cat(start, done) \in Seq(Keys) /\ Cat(later, rest) \in Seq(Keys)
       /\ \A q \in Seq(Keys) : Cat(one, q) \in Seq(Keys)
  BY <1>6, <1>8, <1>9, <1>10, <1>13, CatFacts
<1>17. Walked = Cat(Cat(P[j], below), Cat(one, Cat(later, rest)))
  BY <1>12, <1>14, <1>15
<1>18. Cat(start, Begun[d][F][i]) = Cat(Cat(P[j], below), one)
  BY <1>7, <1>10, <1>11, <1>12, <1>15
<1>19. /\ P[j] \in Seq(Keys) /\ Walk[StackLimit - (j + 1)][to] \in Seq(Keys)
       /\ Cat(P[j - 1], Begun[StackLimit - j][File(j)][Done(j) + 1])
             = Cat(Cat(P[j], Walk[StackLimit - (j + 1)][to]), <<k>>)
  BY <1>2, <1>3, <1>4, <1>6, <1>9, <1>11, <1>12, <1>16, <1>18
<1>20. Walked = Cat(Cat(P[j], Walk[StackLimit - (j + 1)][to]), Cat(one, Cat(later, rest)))
  BY <1>3, <1>11, <1>17
<1>21. Cat(one, Cat(later, rest)) \in Seq(Keys)
  BY <1>16
<1> QED BY <1>19, <1>20, <1>21

(* A new module is begun.                                                   *)
LEMMA GoCompile ==
    ASSUME Base, Going, Asks, Len(stack) # StackLimit, NEW file \in Files, Compile(file),
           <<File(Len(stack)), Done(Len(stack)) + 1, file>> \in LeadsTo,
           NEW key \in Keys, key = <<file, As[File(Len(stack))][Done(Len(stack)) + 1]>>,
           modules_' = modules_ \cup {key}
    PROVE  Going'
<1>1. PICK n, N \in Nat :
        /\ n = Len(instances) /\ DOMAIN instances = 1 .. n
        /\ N = Len(stack) /\ DOMAIN stack = 1 .. N /\ N <= StackLimit
  BY Typing DEF Base
<1>2. stack # <<>> /\ Done(N) < Size[File(N)] /\ N \in 1 .. N /\ N < StackLimit
  BY <1>1, AsksIs, LimitAssumption
<1>3. Fit /\ Clean /\ \E G : Track(G) /\ Log(G[N])
  BY <1>1, <1>2 DEF Going
<1>4. PICK G : Track(G) /\ Log(G[N])
  BY <1>3
<1>5. /\ Push(n + 1, FALSE) /\ Known /\ DOMAIN instances' = 1 .. n + 1
      /\ instances'[n + 1] = [file |-> file, status |-> "preparing"]
      /\ \A i \in 1 .. n : instances'[i] = instances[i]
      /\ stack' \in Seq(FrameSet(n + 1))
  BY <1>1, <1>2, CompileIs
<1>6. PICK M \in Nat : M = N + 1
  BY <1>1
<1>6a. /\ Len(stack') = M /\ DOMAIN stack' = 1 .. M
       /\ \A j \in 1 .. N : stack'[j] = stack[j]
       /\ stack'[M].id = n + 1 /\ stack'[M].requested = <<>>
  <2>1. Len(stack') = M /\ stack'[M] = Frame(n + 1, FALSE)
    BY <1>1, <1>5, <1>6 DEF Push
  <2>2. DOMAIN stack' = 1 .. M
    BY <1>5, <2>1, SeqFacts
  <2>3. stack'[M].id = n + 1 /\ stack'[M].requested = <<>>
    BY <2>1 DEF Frame
  <2>4. \A j \in 1 .. N : stack'[j] = stack[j]
    BY <1>1, <1>5 DEF Push
  <2> QED BY <2>1, <2>2, <2>3, <2>4
<1>7. /\ \A j \in 1 .. M : j \in 1 .. N \/ j = M
      /\ \A j \in 1 .. N : j - 1 \in 0 .. N /\ j \in 0 .. N
      /\ M - 1 = N /\ M # 0 /\ N \in 0 .. N /\ 0 \in 0 .. N
      /\ \A j \in 0 .. M : j \in 0 .. N \/ j = M
      /\ \A j \in 0 .. N : j \in 0 .. M /\ j # M
      /\ M \in 0 .. M
  BY <1>1, <1>6
<1>8. /\ \A j \in 1 .. N : stack[j].id \in 1 .. n
      /\ \A j \in 1 .. N : File(j)' = File(j) /\ Done(j)' = Done(j)
      /\ File(M)' = file /\ Done(M)' = 0
  <2>1. \A j \in 1 .. N : stack[j].id \in 1 .. n
    BY <1>1, FrameFacts
  <2>2. \A j \in 1 .. N : Done(j)' = Done(j)
    BY <1>6a DEF Done
  <2>3. \A j \in 1 .. N : File(j)' = File(j)
    BY <1>5, <1>6a, <2>1 DEF File, FileOf
  <2>4. File(M)' = file
    <3>1. File(M)' = instances'[stack'[M].id].file
      BY <1>6 DEF File, FileOf
    <3>2. instances'[n + 1].file = file
      BY <1>5
    <3> QED BY <1>6a, <3>1, <3>2
  <2>5. Done(M)' = 0
    BY <1>6a, EmptySeq DEF Done
  <2> QED BY <2>1, <2>2, <2>3, <2>4, <2>5
<1>9. /\ Keys' = Keys /\ Begun' = Begun /\ Walk' = Walk /\ Walked' = Walked
      /\ FoundAll' = FoundAll /\ FoundAt' = FoundAt /\ FitAt' = FitAt
  BY Same DEF Compile
<1>10. /\ G \in [0 .. N -> Seq(Keys)] /\ G[0] = <<>>
       /\ \A j \in 1 .. N : G[j] = G[j - 1] \o Begun[StackLimit - j][File(j)][Done(j)]
       /\ \A j \in 1 .. N :
             \E r \in Seq(Keys) : Walked = (G[j - 1] \o Walk[StackLimit - j][File(j)]) \o r
  BY <1>1, <1>4 DEF Track
<1>11. PICK H : H = [j \in 0 .. M |-> IF j = M THEN G[N] ELSE G[j]]
  OBVIOUS
<1>12. H[M] = G[N] /\ \A j \in 0 .. N : H[j] = G[j]
  <2>1. \A j \in 0 .. M : H[j] = IF j = M THEN G[N] ELSE G[j]
    BY <1>11
  <2> QED BY <1>7, <2>1
<1>13. H \in [0 .. M -> Seq(Keys)] /\ H[0] = <<>>
  <2>1. \A j \in 0 .. M : H[j] \in Seq(Keys)
    BY <1>7, <1>10, <1>12
  <2> QED BY <1>7, <1>10, <1>11, <1>12, <2>1
<1>14. StackLimit - M \in 0 .. StackLimit /\ StackLimit - (N + 1) = StackLimit - M
  BY <1>1, <1>2, <1>6, LimitAssumption
<1>15. H[M] = H[M - 1] \o Begun[StackLimit - M][file][0]
  <2>1. Begun[StackLimit - M][file][0] = <<>>
    BY <1>14, BegunFacts DEF Base
  <2>2. G[N] \in Seq(Keys)
    BY <1>7, <1>10
  <2>3. G[N] = G[N] \o <<>>
    BY <2>2, ConcatEmptySeq
  <2> QED BY <1>7, <1>12, <2>1, <2>3
<1>16. \E r \in Seq(Keys) : Walked = (H[M - 1] \o Walk[StackLimit - M][file]) \o r
  <2>1. \E r \in Seq(Keys) : Walked = Cat(Cat(G[N], Walk[StackLimit - (N + 1)][file]), r)
    <3>1. /\ Track(G) /\ N \in DOMAIN stack /\ Done(N) < Size[File(N)] /\ N < StackLimit
          /\ <<File(N), Done(N) + 1, file>> \in LeadsTo
          /\ key = <<file, As[File(N)][Done(N) + 1]>>
      BY <1>1, <1>2, <1>4
    <3>2. /\ G[N] \in Seq(Keys) /\ Walk[StackLimit - (N + 1)][file] \in Seq(Keys)
          /\ Cat(G[N - 1], Begun[StackLimit - N][File(N)][Done(N) + 1])
                = Cat(Cat(G[N], Walk[StackLimit - (N + 1)][file]), <<key>>)
          /\ \E r \in Seq(Keys) : Walked = Cat(Cat(G[N], Walk[StackLimit - (N + 1)][file]), r)
      BY <3>1, GoesDown
    <3> QED BY <3>2
  <2>2. PICK r \in Seq(Keys) : Walked = Cat(Cat(G[N], Walk[StackLimit - M][file]), r)
    BY <1>14, <2>1
  <2>3. H[M - 1] = G[N]
    BY <1>7, <1>12
  <2> QED BY <2>2, <2>3 DEF Cat
<1>17. ASSUME NEW j \in 1 .. M
       PROVE  /\ H[j] = H[j - 1] \o Begun[StackLimit - j][File(j)'][Done(j)']
              /\ \E r \in Seq(Keys) : Walked = (H[j - 1] \o Walk[StackLimit - j][File(j)']) \o r
  <2>1. CASE j = M
    BY <1>8, <1>15, <1>16, <2>1
  <2>2. CASE j \in 1 .. N
    <3>1. H[j] = G[j] /\ H[j - 1] = G[j - 1] /\ File(j)' = File(j) /\ Done(j)' = Done(j)
      BY <1>7, <1>8, <1>12, <2>2
    <3> QED BY <1>10, <2>2, <3>1
  <2> QED BY <1>7, <2>1, <2>2
<1>18. Track(H)'
  BY <1>6a, <1>9, <1>13, <1>17 DEF Track
<1>19. FoundAll => <<StackLimit - M, file>> \in FoundAt
  <2> SUFFICES ASSUME FoundAll PROVE <<StackLimit - M, file>> \in FoundAt
    OBVIOUS
  <2>1. PICK d \in 0 .. StackLimit : d = StackLimit - N /\ d - 1 = StackLimit - M
    <3>1. StackLimit - N \in 0 .. StackLimit /\ (StackLimit - N) - 1 = StackLimit - (N + 1)
      BY <1>1, <1>2, Levels DEF Base
    <3> QED BY <1>6, <3>1
  <2>2. PICK F \in Files, i \in Nat : F = File(N) /\ i = Done(N) + 1 /\ i \in 1 .. Size[F]
    <3>1. File(N) \in Files /\ Done(N) \in Nat /\ Size[File(N)] \in Nat
      BY <1>1, <1>2, FrameFacts
    <3>2. Done(N) + 1 \in Nat /\ Done(N) + 1 \in 1 .. Size[File(N)]
      BY <1>2, <3>1
    <3> QED BY <3>1, <3>2
  <2>3. <<d, F>> \in FoundAt /\ <<F, i, file>> \in LeadsTo /\ program \in Programs
    BY <1>1, <1>2, <1>3, <2>1, <2>2 DEF Fit, Base
  <2>4. <<d, F, i>> \in FitAt
    BY <2>1, <2>2, <2>3, FoundFacts
  <2>5. <<d - 1, file>> \in FoundAt
    BY <2>1, <2>2, <2>3, <2>4, FoundFacts
  <2> QED BY <2>1, <2>5
<1>20. Fit'
  <2>1. instances'[1].file = Entry /\ Entry' = Entry
    BY <1>3, <1>5 DEF Fit, Known, Order, Base, Entry
  <2>2. FoundAll => \A j \in 1 .. M : <<StackLimit - j, File(j)'>> \in FoundAt
    BY <1>1, <1>3, <1>7, <1>8, <1>19 DEF Fit
  <2>3. ASSUME NEW j \in 1 .. M, NEW i \in 1 .. Done(j)'
        PROVE  <<StackLimit - j, File(j)', i>> \in FitAt
    <3>1. j # M
      BY <1>8
    <3>2. j \in 1 .. N /\ File(j)' = File(j) /\ i \in 1 .. Done(j)
      BY <1>7, <1>8, <3>1
    <3> QED BY <1>1, <1>3, <3>2 DEF Fit
  <2> QED BY <1>6a, <1>9, <2>1, <2>2, <2>3 DEF Fit
<1>21. PICK g : g = G[N]
  OBVIOUS
<1>22. Log(g)'
  <2>1. key[1] = file /\ ~ IsJson(file)
    BY KindsApart
  <2>2. \A k \in Keys : IsJson(k[1]) => (k \in modules_' <=> k \in modules_)
    BY <2>1
  <2>3. Log(g) /\ runs' = runs
    BY <1>4, <1>21 DEF Compile
  <2> QED BY <1>9, <2>2, <2>3 DEF Log
<1>23. Clean'
  <2>1. \A i \in 1 .. n + 1 : i \in 1 .. n \/ i = n + 1
    BY <1>1
  <2> QED BY <1>1, <1>3, <1>5, <2>1 DEF Clean
<1>24. stack' # <<>>
  BY <1>6a, <1>7, EmptySeq
<1> QED BY <1>6a, <1>12, <1>18, <1>20, <1>21, <1>22, <1>23, <1>24 DEF Going

(* The key under which a module is found.                                   *)
LEMMA LeadsKey ==
    ASSUME program \in Programs, NEW from \in Files, NEW n \in 1 .. Size[from], NEW to \in Files,
           <<from, n, to>> \in LeadsTo
    PROVE  <<to, As[from][n]>> \in Keys
<1>1. n \in DOMAIN Imports(from)
  BY ImportsType DEF Size
<1>2. As[from][n] = Imports(from)[n].as
  BY <1>1 DEF As
<1>3. Imports(from)[n].as \in Spellings
  BY <1>1, ImportsType
<1> QED BY <1>2, <1>3 DEF Keys

(* A module is evaluated and given to the one that imports it.              *)
LEMMA GoReturn ==
    ASSUME Base, Going, stack # <<>>, ~ Asks, Leave(Len(stack), "evaluated"), Len(stack) # 1,
           program' = program, modules_' = modules_, runs' = Append(runs, File(Len(stack)))
    PROVE  Going'
<1>1. PICK n, N \in Nat :
        /\ n = Len(instances) /\ DOMAIN instances = 1 .. n
        /\ N = Len(stack) /\ DOMAIN stack = 1 .. N /\ N <= StackLimit
  BY Typing DEF Base
<1>2. N \in 1 .. N /\ Done(N) = Size[File(N)]
  BY <1>1, AsksIs
<1>3. Fit /\ Clean /\ \E G : Track(G) /\ Log(G[N])
  BY <1>1 DEF Going
<1>4. PICK G : Track(G) /\ Log(G[N])
  BY <1>3
<1>5. PICK m \in 1 .. N : m = N - 1 /\ m + 1 = N /\ m < StackLimit
  <2>1. N - 1 \in 1 .. N /\ (N - 1) + 1 = N /\ N - 1 < StackLimit
    BY <1>1, <1>2, LimitAssumption
  <2> QED BY <2>1
<1>6. /\ Move(m, stack[N].id) /\ Known /\ stack' \in Seq(FrameSet(n))
      /\ DOMAIN instances' = 1 .. n
      /\ \A i \in 1 .. n :
            instances'[i].status = IF i \in From(N) THEN "evaluated" ELSE instances[i].status
  <2>1. /\ Move(N - 1, stack[N].id) /\ Known /\ stack' \in Seq(FrameSet(n))
        /\ DOMAIN instances' = 1 .. n
        /\ \A i \in 1 .. n :
              instances'[i].status = IF i \in From(N) THEN "evaluated" ELSE instances[i].status
    BY <1>1, <1>2, LeaveIs
  <2> QED BY <1>5, <2>1
<1>7. PICK from \in Files, to \in Files :
        /\ from = File(m) /\ to = File(N) /\ Size[from] \in Nat /\ Done(m) \in Nat
  BY <1>1, <1>2, FrameFacts
<1>8. Done(m) < Size[from] /\ <<from, Done(m) + 1, to>> \in LeadsTo
  <2>1. ~ stack[N].retry
    BY <1>1, <1>2, <1>3, NoRetry
  <2> QED BY <1>1, <1>2, <1>5, <1>7, <2>1 DEF Links, Base
<1>9. PICK i \in 1 .. Size[from] : i = Done(m) + 1
  <2>1. Done(m) + 1 \in 1 .. Size[from]
    BY <1>7, <1>8
  <2> QED BY <2>1
<1>10. PICK key \in Keys : key = <<to, As[from][i]>>
  <2>1. <<from, i, to>> \in LeadsTo /\ program \in Programs
    BY <1>8, <1>9 DEF Base
  <2> QED BY <1>7, <1>9, <2>1, LeadsKey
<1>11. PICK w : w = Walk[StackLimit - N][to]
  OBVIOUS
<1>12. /\ G[m] \in Seq(Keys)
       /\ Cat(G[m - 1], Begun[StackLimit - m][File(m)][Done(m) + 1]) = Cat(Cat(G[m], w), <<key>>)
  <2>1. /\ m \in DOMAIN stack /\ Done(m) < Size[File(m)] /\ m < StackLimit
        /\ <<File(m), Done(m) + 1, to>> \in LeadsTo
        /\ key = <<to, As[File(m)][Done(m) + 1]>>
    BY <1>1, <1>5, <1>7, <1>8, <1>9, <1>10
  <2>2. /\ G[m] \in Seq(Keys)
        /\ Cat(G[m - 1], Begun[StackLimit - m][File(m)][Done(m) + 1])
              = Cat(Cat(G[m], Walk[StackLimit - (m + 1)][to]), <<key>>)
    BY <1>4, <1>7, <1>10, <2>1, GoesDown
  <2> QED BY <1>5, <1>11, <2>2
<1>13. G[N] = Cat(G[m], w) /\ G[N] \in Seq(Keys)
  <2>1. /\ G[N] \in Seq(Keys)
        /\ G[N] = G[N - 1] \o Begun[StackLimit - N][File(N)][Done(N)]
        /\ StackLimit - N \in 0 .. StackLimit
    BY <1>1, <1>4, TopLog
  <2>2. Begun[StackLimit - N][to][Size[to]] = w
    BY <1>7, <1>11, <2>1, BegunFacts DEF Base
  <2>3. Begun[StackLimit - N][File(N)][Done(N)] = w
    BY <1>2, <1>7, <2>2
  <2>4. G[N] = G[m] \o w
    BY <1>5, <2>1, <2>3
  <2> QED BY <2>1, <2>4 DEF Cat
<1>14. PICK h : h = G[N] \o <<key>>
  OBVIOUS
<1>15. h = G[m - 1] \o Begun[StackLimit - m][File(m)][Done(m) + 1]
  BY <1>12, <1>13, <1>14 DEF Cat
<1>16. Log(h)'
  <2>1. PICK g \in Seq(Keys) : g = G[N]
    BY <1>13
  <2>2. ~ IsJson(key[1]) /\ runs' = Append(runs, key[1])
    BY <1>1, <1>7, <1>8, <1>10, KindsApart
  <2>3. Log(g) /\ TypeOK
    BY <1>4, <2>1 DEF Base
  <2>4. Log(g \o <<key>>)'
    BY <1>10, <2>1, <2>2, <2>3, LogAdds
  <2>5. h = g \o <<key>>
    BY <1>14, <2>1
  <2> QED BY <2>4, <2>5
<1>17. <<StackLimit - m, File(m), Done(m) + 1>> \in FitAt
  <2>1. PICK d \in 0 .. StackLimit, e \in 0 .. StackLimit :
          d = StackLimit - N /\ e = StackLimit - m /\ e # 0 /\ e - 1 = d
    <3>1. /\ StackLimit - N \in 0 .. StackLimit /\ StackLimit - m \in 0 .. StackLimit
          /\ StackLimit - m # 0 /\ (StackLimit - m) - 1 = StackLimit - (m + 1)
      BY <1>1, <1>2, <1>5, Levels DEF Base
    <3> QED BY <1>5, <3>1
  <2>2. \A a \in 1 .. Size[to] : <<d, to, a>> \in FitAt
    BY <1>1, <1>2, <1>3, <1>7, <2>1 DEF Fit
  <2>3. program \in Programs /\ <<from, i, to>> \in LeadsTo
    BY <1>8, <1>9 DEF Base
  <2>4. <<d, to>> \in FoundAt
    BY <1>7, <2>1, <2>2, <2>3, FoundFacts
  <2>5. <<e, from, i>> \in FitAt
    BY <1>7, <1>9, <2>1, <2>3, <2>4, FoundFacts
  <2> QED BY <1>7, <1>9, <2>1, <2>5
<1>18. Clean'
  BY <1>1, <1>3, <1>6 DEF Clean
<1> QED BY <1>1, <1>3, <1>4, <1>5, <1>6, <1>7, <1>8, <1>15, <1>16, <1>17, <1>18, GoMoves

(* The entry module is evaluated.                                           *)
LEMMA GoEnd ==
    ASSUME Base, Going, stack # <<>>, ~ Asks, Leave(Len(stack), "evaluated"), Len(stack) = 1,
           program' = program, modules_' = modules_, runs' = Append(runs, File(Len(stack)))
    PROVE  Going'
<1>1. PICK n, N \in Nat :
        /\ n = Len(instances) /\ DOMAIN instances = 1 .. n
        /\ N = Len(stack) /\ DOMAIN stack = 1 .. N /\ N <= StackLimit
  BY Typing DEF Base
<1>2. N = 1 /\ N \in 1 .. N /\ N - 1 = 0 /\ Done(1) = Size[File(1)]
  BY <1>1, AsksIs
<1>3. Fit /\ Clean /\ \E G : Track(G) /\ Log(G[1])
  BY <1>1, <1>2 DEF Going
<1>4. PICK G : Track(G) /\ Log(G[1])
  BY <1>3
<1>5. File(1) = Entry /\ stack[1].id = 1
  BY <1>3 DEF Fit, File, FileOf, Order, Base
<1>6. /\ Move(0, 1) /\ stack' \in Seq(FrameSet(n)) /\ DOMAIN instances' = 1 .. n
      /\ \A i \in 1 .. n :
            instances'[i].status = IF i \in From(1) THEN "evaluated" ELSE instances[i].status
  <2>1. /\ Move(N - 1, stack[N].id) /\ stack' \in Seq(FrameSet(n)) /\ DOMAIN instances' = 1 .. n
        /\ \A i \in 1 .. n :
              instances'[i].status = IF i \in From(N) THEN "evaluated" ELSE instances[i].status
    BY <1>1, <1>2, LeaveIs
  <2> QED BY <1>2, <1>5, <2>1
<1>7. stack' = <<>>
  <2>1. Len(stack') = 0
    BY <1>6 DEF Move
  <2> QED BY <1>6, <2>1, EmptySeq
<1>8. 1 \in 1 .. n /\ 1 \in From(1)
  <2>1. 1 \in 1 .. n
    BY <1>1 DEF Order, Base
  <2>2. 1 \in 1 .. Len(stack)
    BY <1>1, <1>2
  <2> QED BY <1>5, <2>1, <2>2 DEF From
<1>9. Clean' /\ Ran'
  BY <1>1, <1>3, <1>6, <1>8 DEF Clean, Ran
<1>10. PICK d \in 0 .. StackLimit :
         /\ d = StackLimit - 1 /\ Walked = Walk[d][Entry] /\ Walked \in Seq(Keys)
         /\ Entry \in Files /\ (FoundAll <=> <<d, Entry>> \in FoundAt)
  BY Roots DEF Base
<1>11. G[1] = Walked
  <2>1. G[1] = G[0] \o Begun[d][Entry][Size[Entry]] /\ G[0] = <<>>
    BY <1>1, <1>2, <1>4, <1>5, <1>10 DEF Track
  <2>2. Begun[d][Entry][Size[Entry]] = Walked
    BY <1>10, BegunFacts DEF Base
  <2>3. Walked \in Seq(Keys)
    BY <1>10
  <2>4. <<>> \o Walked = Walked
    BY <2>3, ConcatEmptySeq
  <2> QED BY <2>1, <2>2, <2>4
<1>12. PICK g \in Seq(Keys), b \in Nat : g = Walked /\ b = Len(g) /\ DOMAIN g = 1 .. b
  <2>1. Len(Walked) \in Nat /\ DOMAIN Walked = 1 .. Len(Walked)
    BY <1>10, SeqFacts
  <2> QED BY <1>10, <2>1
<1>13. Log(g)
  BY <1>4, <1>11, <1>12
<1>14. NoJsonTwice
  BY <1>12, <1>13 DEF NoJsonTwice, Log
<1>15. FoundAll
  <2>1. \A i \in 1 .. Size[Entry] : <<d, Entry, i>> \in FitAt
    BY <1>1, <1>2, <1>3, <1>5, <1>10 DEF Fit
  <2>2. <<d, Entry>> \in FoundAt
    BY <1>10, <2>1, FoundFacts DEF Base
  <2> QED BY <1>10, <2>2
<1>16. runs = [i \in DOMAIN Walked |-> Walked[i][1]]
  <2>1. runs \in Seq(Files) /\ Len(runs) = b /\ \A i \in 1 .. b : runs[i] = g[i][1]
    BY <1>12, <1>13 DEF Log, TypeOK, Base
  <2>2. runs = [i \in 1 .. b |-> runs[i]]
    BY <1>12, <2>1
  <2>3. [i \in 1 .. b |-> runs[i]] = [i \in 1 .. b |-> g[i][1]]
    BY <2>1
  <2> QED BY <1>12, <2>2, <2>3
<1>17. runs' = runs \o <<Entry>>
  <2>1. runs \in Seq(Files) /\ Entry \in Files
    BY <1>10 DEF TypeOK, Base
  <2>2. runs' = Append(runs, Entry)
    BY <1>1, <1>2, <1>5
  <2> QED BY <2>1, <2>2, AppendIsConcat
<1>18. Good' /\ Walked' = Walked /\ Entry' = Entry
  BY <1>14, <1>15, Same DEF Good, Entry
<1>19. runs' = [i \in DOMAIN Walked' |-> Walked'[i][1]] \o <<Entry'>>
  BY <1>16, <1>17, <1>18
<1> QED BY <1>7, <1>9, <1>18, <1>19 DEF Going, Finished

(* What follows a sequence comes right after its end.                       *)
LEMMA Follows ==
    ASSUME NEW u \in Walks, NEW v \in Keys, NEW q \in Walks
    PROVE  LET z == Cat(u, Cat(<<v>>, q))
           IN  /\ Len(u) \in Nat /\ Len(u) + 1 \in DOMAIN z /\ z[Len(u) + 1] = v
               /\ \A a \in 1 .. Len(u) : a \in DOMAIN z /\ z[a] = u[a] /\ a # Len(u) + 1
<1> DEFINE T == Keys
           z == Cat(u, Cat(<<v>>, q))
<1>0. u \in Seq(T) /\ v \in T /\ q \in Seq(T) /\ z = Cat(u, Cat(<<v>>, q))
  BY DEF Walks
<1> HIDE DEF T, z
<1>1. PICK l \in Nat, c \in Nat : l = Len(u) /\ c = Len(q)
  BY <1>0, LenProperties
<1>2. PICK x \in Seq(T) : x = <<v>> \o q /\ Len(x) = 1 + c /\ x[1] = v
  <2>1. <<v>> \in Seq(T) /\ Len(<<v>>) = 1 /\ <<v>>[1] = v
    BY <1>0
  <2>2. PICK x \in Seq(T) : x = <<v>> \o q
    BY <1>0, <2>1, ConcatProperties
  <2>3. Len(x) = 1 + c
    BY <1>0, <1>1, <2>1, <2>2, ConcatProperties
  <2>4. x[1] = v
    BY <1>0, <1>1, <2>1, <2>2, ConcatProperties
  <2> QED BY <2>2, <2>3, <2>4
<1>3. z = u \o x
  BY <1>0, <1>2 DEF Cat
<1>4. z \in Seq(T) /\ Len(z) = l + (1 + c)
  <2>1. u \o x \in Seq(T) /\ Len(u \o x) = Len(u) + Len(x)
    BY <1>0, <1>2, ConcatProperties
  <2> QED BY <1>1, <1>2, <1>3, <2>1
<1>5. \A a \in 1 .. l + (1 + c) : z[a] = IF a <= l THEN u[a] ELSE x[a - l]
  <2>1. \A a \in 1 .. Len(u) + Len(x) : (u \o x)[a] = IF a <= Len(u) THEN u[a] ELSE x[a - Len(u)]
    BY <1>0, <1>2, ConcatProperties
  <2> QED BY <1>1, <1>2, <1>3, <2>1, Zenon
<1>6. DOMAIN z = 1 .. l + (1 + c)
  BY <1>4, SeqFacts
<1>7. l + 1 \in 1 .. l + (1 + c) /\ ~ (l + 1 <= l) /\ (l + 1) - l = 1
  BY <1>1
<1>8. \A a \in 1 .. l : a \in 1 .. l + (1 + c) /\ a <= l /\ a # l + 1
  BY <1>1
<1>9. /\ Len(u) \in Nat /\ Len(u) + 1 \in DOMAIN z /\ z[Len(u) + 1] = v
      /\ \A a \in 1 .. Len(u) : a \in DOMAIN z /\ z[a] = u[a] /\ a # Len(u) + 1
  BY <1>1, <1>2, <1>5, <1>6, <1>7, <1>8
<1> QED BY <1>9 DEF z

(* An import that fails while nothing has failed yet: the program is not a  *)
(* good one.                                                                *)
LEMMA GoLost ==
    ASSUME Base, Going, Asks, NEW from \in Files, from = File(Len(stack)),
           NEW i, i = Done(Len(stack)) + 1, Bad({}, Len(stack), from, i)
    PROVE  ~ Good
<1>1. PICK n, N \in Nat :
        /\ n = Len(instances) /\ DOMAIN instances = 1 .. n
        /\ N = Len(stack) /\ DOMAIN stack = 1 .. N /\ N <= StackLimit
  BY Typing DEF Base
<1>2. stack # <<>> /\ Done(N) < Size[File(N)] /\ N \in 1 .. N
  BY <1>1, AsksIs
<1>3. Fit /\ Clean /\ \E G : Track(G) /\ Log(G[N])
  BY <1>1, <1>2 DEF Going
<1>4. PICK G : Track(G) /\ Log(G[N])
  BY <1>3
<1>5. /\ Size[from] \in Nat /\ i \in 1 .. Size[from] /\ i - 1 = Done(N) /\ from = File(N)
      /\ i \in 0 .. Size[from]
  <2>1. Size[File(N)] \in Nat /\ Done(N) \in Nat
    BY <1>1, <1>2, FrameFacts
  <2> QED BY <1>1, <1>2, <2>1
<1>6. PICK d \in 0 .. StackLimit : d = StackLimit - N
  BY <1>1, <1>2, Levels DEF Base
<1>7. program \in Programs
  BY DEF Base
<1>8. ASSUME <<d, from, i>> \notin FitAt PROVE ~ Good
  <2>1. <<d, from>> \notin FoundAt
    <3>1. <<d, from>> \in FoundAt <=> \A j \in 1 .. Size[from] : <<d, from, j>> \in FitAt
      BY <1>6, <1>7, FoundFacts
    <3> QED BY <1>5, <1>8, <3>1
  <2>2. FoundAll => <<d, from>> \in FoundAt
    BY <1>1, <1>2, <1>3, <1>5, <1>6 DEF Fit
  <2> QED BY <2>1, <2>2 DEF Good
<1>9. CASE <<from, i>> \in MissingAt
  <2>1. <<d, from, i>> \notin FitAt
    BY <1>5, <1>6, <1>7, <1>9, FoundFacts
  <2> QED BY <1>8, <2>1
<1>10. CASE \E g \in Files : <<from, i, g>> \in LeadsTo /\ N = StackLimit
  <2>1. PICK g \in Files : <<from, i, g>> \in LeadsTo /\ N = StackLimit
    BY <1>10
  <2>2. d = 0
    BY <1>1, <1>6, <2>1, LimitAssumption
  <2>3. <<d, from, i>> \notin FitAt
    BY <1>5, <1>6, <1>7, <2>1, <2>2, FoundFacts
  <2> QED BY <1>8, <2>3
<1>11. CASE \E g \in Files : <<from, i, g>> \in JsonAt /\ <<g, As[from][i]>> \in modules_
  <2>1. PICK g \in Files : <<from, i, g>> \in JsonAt /\ <<g, As[from][i]>> \in modules_
    BY <1>11
  <2>2. PICK key : key = <<g, As[from][i]>> /\ key \in Keys /\ IsJson(key[1]) /\ key \in modules_
    <3>1. <<g, As[from][i]>> \in Keys
      BY <2>1 DEF Base, TypeOK, Keys
    <3>2. IsJson(g)
      BY <2>1, KindsApart
    <3> QED BY <2>1, <3>1, <3>2
  <2>3. /\ G[N - 1] \in Seq(Keys) /\ G[N] \in Seq(Keys)
        /\ G[N] = G[N - 1] \o Begun[StackLimit - N][File(N)][Done(N)]
        /\ Begun[StackLimit - N][File(N)][Done(N)] \in Seq(Keys)
    BY <1>1, <1>2, <1>4, TopLog
  <2>4. PICK K : K = Keys
    OBVIOUS
  <2>5. PICK start \in Seq(K), done \in Seq(K), g0 \in Seq(K) :
          /\ start = G[N - 1] /\ done = Begun[d][from][i - 1] /\ g0 = G[N]
          /\ g0 = Cat(start, done)
    <3>1. Begun[d][from][i - 1] = Begun[StackLimit - N][File(N)][Done(N)]
      BY <1>5, <1>6
    <3>2. G[N] = Cat(G[N - 1], Begun[d][from][i - 1])
      BY <2>3, <3>1 DEF Cat
    <3> QED BY <2>3, <2>4, <3>1, <3>2
  <2>6. PICK one \in Seq(K) : one = <<key>>
    <3>1. <<key>> \in Seq(K)
      BY <2>2, <2>4
    <3> QED BY <3>1
  <2>7. Begun[d][from][i] = Cat(done, one)
    <3>1. one = <<<<g, As[from][i]>>>> /\ <<from, i, g>> \in JsonAt /\ i \in 1 .. Size[from]
      BY <1>5, <2>1, <2>2, <2>6
    <3>2. Begun[d][from][i] = Cat(Begun[d][from][i - 1], one)
      BY <1>6, <1>7, <3>1, BegunSteps
    <3> QED BY <2>5, <3>2
  <2>8. PICK later \in Seq(K) : Walk[d][from] = Cat(Cat(done, one), later)
    <3>1. PICK later \in Seq(Keys) : Walk[d][from] = Begun[d][from][i] \o later
      BY <1>5, <1>6, <1>7, BegunFacts
    <3>2. Walk[d][from] = Cat(Cat(done, one), later)
      BY <2>7, <3>1 DEF Cat
    <3> QED BY <2>4, <3>1, <3>2
  <2>9. PICK rest \in Seq(K) : Walked = Cat(Cat(start, Walk[d][from]), rest)
    <3>1. PICK rest \in Seq(Keys) : Walked = (G[N - 1] \o Walk[StackLimit - N][File(N)]) \o rest
      BY <1>1, <1>2, <1>4 DEF Track
    <3>2. Walked = Cat(Cat(start, Walk[d][from]), rest)
      BY <1>5, <1>6, <2>5, <3>1 DEF Cat
    <3> QED BY <2>4, <3>1, <3>2
  <2>10. PICK none \in Seq(K) : none = <<>> /\ Cat(none, one) = one /\ Cat(g0, none) = g0
    <3>1. <<>> \in Seq(K) /\ <<>> \o one = one /\ g0 \o <<>> = g0
      BY <2>5, <2>6, ConcatEmptySeq, EmptySeq
    <3> QED BY <3>1 DEF Cat
  <2>11. Cat(Cat(start, Cat(Cat(done, Cat(none, one)), later)), rest)
           = Cat(Cat(Cat(start, done), none), Cat(one, Cat(later, rest)))
    <3>1. /\ start \in Walks /\ done \in Walks /\ none \in Walks /\ one \in Walks
          /\ later \in Walks /\ rest \in Walks
      BY <2>4, <2>5, <2>6, <2>8, <2>9, <2>10 DEF Walks
    <3> QED BY <3>1, Regroup
  <2>12. Walked = Cat(g0, Cat(one, Cat(later, rest)))
    BY <2>5, <2>8, <2>9, <2>10, <2>11
  <2>13. PICK q \in Seq(K) : q = Cat(later, rest)
    <3>1. Cat(later, rest) \in Seq(K)
      BY <2>8, <2>9, CatFacts
    <3> QED BY <3>1
  <2>14. /\ Len(g0) \in Nat /\ Len(g0) + 1 \in DOMAIN Walked /\ Walked[Len(g0) + 1] = key
         /\ \A a \in 1 .. Len(g0) :
               a \in DOMAIN Walked /\ Walked[a] = g0[a] /\ a # Len(g0) + 1
    <3>1. PICK z : z = Walked
      OBVIOUS
    <3>2. z = Cat(g0, Cat(<<key>>, q)) /\ key \in Keys /\ g0 \in Walks /\ q \in Walks
      BY <2>2, <2>4, <2>5, <2>6, <2>12, <2>13, <3>1 DEF Walks
    <3>3. /\ Len(g0) \in Nat /\ Len(g0) + 1 \in DOMAIN z /\ z[Len(g0) + 1] = key
          /\ \A a \in 1 .. Len(g0) : a \in DOMAIN z /\ z[a] = g0[a] /\ a # Len(g0) + 1
      BY <3>2, Follows
    <3> QED BY <3>1, <3>3
  <2>15. PICK a \in 1 .. Len(g0) : g0[a] = key
    <3>1. Log(g0)
      BY <1>4, <2>5
    <3> QED BY <2>2, <3>1 DEF Log
  <2>16. ~ NoJsonTwice
    BY <2>2, <2>14, <2>15 DEF NoJsonTwice
  <2> QED BY <2>16 DEF Good
<1> QED BY <1>1, <1>9, <1>10, <1>11 DEF Bad

(* It fails then, and all that is below will.                               *)
LEMMA GoFails ==
    ASSUME Base, Going, Asks, Leave(Len(stack), "unlinked"), program' = program,
           modules_' = modules_, NEW from \in Files, from = File(Len(stack)),
           NEW i, i = Done(Len(stack)) + 1, Bad({}, Len(stack), from, i)
    PROVE  ~ Good' /\ \E D, B : Doomed(D, B)'
<1>1. PICK n, N \in Nat :
        /\ n = Len(instances) /\ DOMAIN instances = 1 .. n
        /\ N = Len(stack) /\ DOMAIN stack = 1 .. N
  BY Typing DEF Base
<1>2. /\ N \in 1 .. N /\ Done(N) < Size[File(N)] /\ Size[File(N)] \in Nat /\ Done(N) \in Nat
  BY <1>1, AsksIs, FrameFacts
<1>3. Clean
  BY DEF Going
<1>4. Marks({}, {})
  BY <1>3 DEF Marks, Clean
<1>5. i \in 1 .. Size[from] /\ Bad({}, N, from, i)
  BY <1>1, <1>2
<1>6. \E D, B : Doomed(D, B)'
  <2>1. N \in DOMAIN stack /\ Leave(N, "unlinked") /\ from = File(N)
    BY <1>1, <1>2
  <2>2. \E a \in 1 .. Size[File(N)] : Bad({}, N, File(N), a)
    BY <1>5, <2>1
  <2> QED BY <1>4, <2>1, <2>2, DoomFails
<1>7. ~ Good
  BY GoLost
<1>8. Good' = Good
  BY Same
<1> QED BY <1>6, <1>7, <1>8

-----------------------------------------------------------------------------
(* Nothing has failed, or the program is not a good one and will fail.      *)
Outcome == Going \/ (~ Good /\ \E D, B : Doomed(D, B))

(* The inductive invariant.                                                 *)
IInv == Base /\ Outcome

(* One frame, nothing run yet.                                              *)
LEMMA InitBase ==
    ASSUME Init
    PROVE  Base
<1>1. /\ program \in Programs /\ DOMAIN program.imports = program.disk
      /\ program.broken \subseteq program.disk
  BY ProgramsAssumption DEF Init
<1>2. PICK f : f = Frame(1, FALSE)
  OBVIOUS
<1>2a. f.id = 1 /\ f.requested = <<>> /\ f.retry = FALSE
  BY <1>2 DEF Frame
<1>3. PICK e : e = [file |-> Entry, status |-> "preparing"]
  OBVIOUS
<1>3a. e.file = Entry /\ e.status = "preparing"
  BY <1>3
<1>4. stack = <<f>> /\ instances = <<e>>
  BY <1>2, <1>3 DEF Init
<1>5. /\ Len(stack) = 1 /\ DOMAIN stack = {1} /\ stack[1] = f
      /\ Len(instances) = 1 /\ DOMAIN instances = {1} /\ instances[1] = e
  BY <1>4
<1>6. Entry \in Files
  BY DEF Files
<1>7. TypeOK
  <2>1. instances \in Seq([file : Files, status : {"preparing", "unlinked", "retried", "evaluated"}])
    <3>1. e \in [file : Files, status : {"preparing", "unlinked", "retried", "evaluated"}]
      BY <1>3, <1>6
    <3> QED BY <1>4, <3>1
  <2>2. stack \in Seq([id : DOMAIN instances, requested : Seq(DOMAIN instances \cup {Ready}),
                       retry : BOOLEAN])
    <3>1. PICK T : T = Seq(DOMAIN instances \cup {Ready})
      OBVIOUS
    <3>2. <<>> \in T
      BY <3>1, EmptySeq
    <3>3. f \in [id : DOMAIN instances, requested : T, retry : BOOLEAN]
      BY <1>2, <1>2a, <1>5, <3>2 DEF Frame
    <3>4. stack \in Seq([id : DOMAIN instances, requested : T, retry : BOOLEAN])
      BY <1>4, <3>3
    <3> QED BY <3>1, <3>4
  <2>3. Len(stack) <= StackLimit
    BY <1>5, LimitAssumption
  <2>4. modules_ \subseteq Files \X Spellings
  <3>1. <<Entry, "">> \in Files \X Spellings
      BY <1>6 DEF Spellings
    <3> QED BY <3>1 DEF Init
  <2>5. runs \in Seq(Files)
    BY EmptySeq DEF Init
  <2> QED BY <1>1, <2>1, <2>2, <2>3, <2>4, <2>5 DEF TypeOK
<1>8. Order
  <2>1. \A j, k \in DOMAIN stack : ~ (j < k)
    BY <1>5
  <2> QED BY <1>2, <1>2a, <1>5, <2>1 DEF Order
<1>9. Statuses
  <2>1. ASSUME NEW i \in DOMAIN instances
        PROVE  /\ instances[i].status = "preparing"
               /\ instances[i].status # "retried"
               /\ \E j \in DOMAIN stack : stack[j].id = i /\ ~ stack[j].retry
               /\ ~ \E j \in DOMAIN stack : stack[j].id = i /\ stack[j].retry
    BY <1>2a, <1>3a, <1>5
  <2> QED BY <2>1 DEF Statuses
<1>10. Done(1) = 0
  BY <1>2, <1>2a, <1>5, EmptySeq DEF Done
<1>11. Answers
  <2>1. File(1) = Entry
    BY <1>2a, <1>3a, <1>5 DEF File, FileOf
  <2>2. Size[File(1)] \in Nat
    BY <1>1, <1>6, <2>1, ImportsType DEF Size
  <2> QED BY <1>5, <1>10, <2>2 DEF Answers
<1>12. Links
  BY <1>5 DEF Links
<1> QED BY <1>1, <1>7, <1>8, <1>9, <1>11, <1>12 DEF Base

(* Nothing has failed yet, and nothing has run.                             *)
LEMMA InitInv ==
    ASSUME Init
    PROVE  IInv
<1>1. Base
  BY InitBase
<1>2. PICK f : f = Frame(1, FALSE)
  OBVIOUS
<1>2a. f.id = 1 /\ f.requested = <<>>
  BY <1>2 DEF Frame
<1>3. /\ Len(stack) = 1 /\ DOMAIN stack = {1} /\ stack[1] = f /\ stack # <<>>
      /\ DOMAIN instances = {1} /\ instances[1].file = Entry /\ instances[1].status = "preparing"
  <2>1. stack = <<f>>
    BY <1>2 DEF Init
  <2>2. PICK e : e = [file |-> Entry, status |-> "preparing"]
    OBVIOUS
  <2>3. instances = <<e>> /\ e.file = Entry /\ e.status = "preparing"
    BY <2>2 DEF Init
  <2>4. Len(stack) = 1 /\ DOMAIN stack = {1} /\ stack[1] = f
    BY <2>1
  <2>5. stack # <<>>
    BY <2>4, EmptySeq
  <2>6. DOMAIN instances = {1} /\ instances[1] = e
    BY <2>3
  <2> QED BY <2>3, <2>4, <2>5, <2>6
<1>4. Done(1) = 0 /\ File(1) = Entry
  BY <1>2a, <1>3, EmptySeq DEF Done, File, FileOf
<1>5. PICK d \in 0 .. StackLimit :
        /\ d = StackLimit - 1 /\ Walked = Walk[d][Entry] /\ Walked \in Seq(Keys)
        /\ Entry \in Files /\ (FoundAll <=> <<d, Entry>> \in FoundAt)
  BY <1>1, Roots DEF Base
<1>6. PICK G : G = [j \in 0 .. 1 |-> <<>>]
  OBVIOUS
<1>7. Track(G)
  <2>1. G \in [0 .. 1 -> Seq(Keys)] /\ G[0] = <<>> /\ G[1] = <<>>
    <3>1. <<>> \in Seq(Keys)
      BY EmptySeq
    <3> QED BY <1>6, <3>1
  <2>2. Begun[d][Entry][0] = <<>>
    BY <1>1, <1>5, BegunFacts DEF Base
  <2>3. <<>> \o <<>> = <<>>
    <3>1. <<>> \in Seq(Keys)
      BY EmptySeq
    <3> QED BY <3>1, ConcatEmptySeq
  <2>4. G[1] = G[0] \o Begun[d][Entry][0]
    BY <2>1, <2>2, <2>3
  <2>5. <<>> \in Seq(Keys) /\ Walked = (G[0] \o Walk[d][Entry]) \o <<>>
    <3>1. <<>> \in Seq(Keys) /\ Walked \in Seq(Keys)
      BY <1>5, EmptySeq
    <3>2. <<>> \o Walked = Walked /\ Walked \o <<>> = Walked
      BY <3>1, ConcatEmptySeq
    <3> QED BY <1>5, <2>1, <3>1, <3>2
  <2>6. \E r \in Seq(Keys) : Walked = (G[0] \o Walk[d][Entry]) \o r
    BY <2>5
  <2>7. 1 - 1 = 0
    OBVIOUS
  <2> QED BY <1>3, <1>4, <1>5, <2>1, <2>4, <2>6, <2>7 DEF Track
<1>8. PICK g : g = <<>> /\ g = G[1] /\ Len(g) = 0
  BY <1>6, EmptySeq
<1>9. Log(g)
  <2>1. ~ IsJson(Entry)
    BY DEF IsJson, Entry
  <2>2. \A k \in Keys : IsJson(k[1]) => k \notin modules_
    <3>1. modules_ = {<<Entry, "">>}
      BY DEF Init
    <3> SUFFICES ASSUME NEW k \in Keys, IsJson(k[1]), k \in modules_ PROVE FALSE
      OBVIOUS
    <3>2. k = <<Entry, "">>
      BY <3>1
    <3>3. k[1] = Entry
      BY <3>2
    <3> QED BY <2>1, <3>3
  <2>3. Len(runs) = 0
    BY EmptySeq DEF Init
  <2> QED BY <1>8, <2>2, <2>3 DEF Log
<1>10. Fit
  BY <1>3, <1>4, <1>5 DEF Fit
<1>11. Clean
  BY <1>3 DEF Clean
<1> QED BY <1>1, <1>3, <1>7, <1>8, <1>9, <1>10, <1>11 DEF IInv, Outcome, Going

(* native-js.                                                               *)
LEMMA StepNative ==
    ASSUME IInv, ImportNative
    PROVE  IInv'
<1>1. /\ Asks /\ Import.name = Native /\ stack' = Returns(stack, Ready)
      /\ program' = program /\ instances' = instances /\ modules_' = modules_ /\ runs' = runs
  BY DEF ImportNative
<1>2. PICK from : from = File(Len(stack))
  OBVIOUS
<1>2a. PICK i : i = Done(Len(stack)) + 1
  OBVIOUS
<1>3. <<from, i>> \in NativeAt
  BY <1>1, <1>2, <1>2a, ImportIs DEF IInv
<1>4. Base'
  <2>1. modules_' \subseteq Files \X Spellings /\ runs' \in Seq(Files)
    BY <1>1 DEF IInv, Base, TypeOK
  <2> QED BY <1>1, <2>1, ReadyKeeps DEF IInv
<1>5. CASE Going
  <2>1. Going'
    BY <1>1, <1>2, <1>2a, <1>3, <1>5, GoNative DEF IInv
  <2> QED BY <1>4, <2>1 DEF IInv, Outcome
<1>6. CASE ~ Good /\ \E D, B : Doomed(D, B)
  <2>1. PICK D, B : Doomed(D, B)
    BY <1>6
  <2>2. ~ Bad(D, Len(stack), from, i)
    BY <1>3, KindsApart DEF Bad
  <2>3. Doomed(D, B)'
    BY <1>1, <1>2, <1>2a, <2>1, <2>2, DoomReady DEF IInv
  <2>4. ~ Good'
    BY <1>1, <1>6, Same
  <2> QED BY <1>4, <2>3, <2>4 DEF IInv, Outcome
<1> QED BY <1>5, <1>6 DEF IInv, Outcome

(* An import that fails, whatever is known to fail below it.                *)
LEMMA StepFails ==
    ASSUME IInv, Asks, Fails, modules_' = modules_,
           \A D : Bad(D, Len(stack), File(Len(stack)), Done(Len(stack)) + 1)
    PROVE  IInv'
<1>1. PICK k \in DOMAIN stack : Leave(k, "unlinked")
  BY DEF Fails, Leave
<1>2. program' = program /\ runs' = runs
  BY DEF Fails
<1>3. Base'
  <2>1. modules_' \subseteq Files \X Spellings /\ runs' \in Seq(Files)
    BY <1>2 DEF IInv, Base, TypeOK
  <2> QED BY <1>1, <1>2, <2>1, LeaveKeeps DEF IInv
<1>4. PICK N \in Nat : N = Len(stack) /\ DOMAIN stack = 1 .. N
  BY Typing DEF IInv, Base
<1>5. PICK from \in Files, i \in 1 .. Size[File(N)] : from = File(N) /\ i = Done(N) + 1
  <2>1. File(N) \in Files /\ Done(N) + 1 \in 1 .. Size[File(N)]
    BY <1>4, ImportIs DEF IInv
  <2> QED BY <2>1
<1>6. CASE Going
  <2>1. k = N
    <3>1. \A j \in 1 .. N : ~ stack[j].retry
      BY <1>4, <1>6, NoRetry DEF Going, IInv
    <3>2. k # N => k + 1 \in k + 1 .. N /\ k + 1 \in 1 .. N
      BY <1>4
    <3> QED BY <1>1, <1>4, <3>1, <3>2 DEF Leave
  <2>2. ~ Good' /\ \E D, B : Doomed(D, B)'
    BY <1>1, <1>2, <1>4, <1>5, <1>6, <2>1, GoFails DEF IInv
  <2> QED BY <1>3, <2>2 DEF IInv, Outcome
<1>7. CASE ~ Good /\ \E D, B : Doomed(D, B)
  <2>1. PICK D, B : Doomed(D, B)
    BY <1>7
  <2>2. k = Len(stack) => \E a \in 1 .. Size[File(k)] : Bad(D, k, File(k), a)
    BY <1>4, <1>5
  <2>3. \E E, C : Doomed(E, C)'
    BY <1>1, <1>2, <2>1, <2>2, DoomFails DEF IInv, Doomed
  <2>4. ~ Good'
    BY <1>2, <1>7, Same
  <2> QED BY <1>3, <2>3, <2>4 DEF IInv, Outcome
<1> QED BY <1>6, <1>7 DEF IInv, Outcome

(* "Could not resolve import path", "Module ... is empty!".                 *)
LEMMA StepMissing ==
    ASSUME IInv, ImportMissing \/ ImportBroken
    PROVE  IInv'
<1>1. /\ Asks /\ Import.name # Native /\ ~ Loads(Import.name) /\ Fails /\ modules_' = modules_
  BY DEF ImportMissing, ImportBroken, Loads
<1>2. <<File(Len(stack)), Done(Len(stack)) + 1>> \in MissingAt
  BY <1>1, ImportIs DEF IInv
<1>3. \A D : Bad(D, Len(stack), File(Len(stack)), Done(Len(stack)) + 1)
  BY <1>2 DEF Bad
<1> QED BY <1>1, <1>3, StepFails

(* A JSON file, loaded for the first time or not.                           *)
LEMMA StepJson ==
    ASSUME IInv, ImportJson
    PROVE  IInv'
<1>1. Asks /\ Finds /\ IsJson(Imported)
  BY DEF ImportJson, Finds
<1>2. PICK from \in Files : from = File(Len(stack))
  BY <1>1, ImportIs DEF IInv
<1>3. PICK i : i = Done(Len(stack)) + 1
  OBVIOUS
<1>4. PICK file \in Files : file = Imported
  BY <1>1, ImportIs DEF IInv
<1>5. PICK key : key = Key
  OBVIOUS
<1>6. /\ key = <<file, As[from][i]>> /\ key \in Files \X Spellings
      /\ <<from, i, file>> \in JsonAt
  BY <1>1, <1>2, <1>3, <1>4, <1>5, ImportIs DEF IInv
<1>7. CASE key \in modules_
  <2>1. Fails /\ modules_' = modules_
    BY <1>5, <1>7 DEF ImportJson
  <2>2. \A D : Bad(D, Len(stack), from, i)
    BY <1>6, <1>7 DEF Bad
  <2> QED BY <1>1, <1>2, <1>3, <2>1, <2>2, StepFails
<1>8. CASE key \notin modules_
  <2>1. Parse(file) /\ modules_' = modules_ \cup {key}
    BY <1>4, <1>5, <1>8 DEF ImportJson
  <2>2. /\ stack' = Returns(stack, Ready) /\ runs' = Append(runs, file)
        /\ program' = program /\ instances' = instances
    BY <2>1 DEF Parse
  <2>3. Base'
    <3>1. runs \in Seq(Files) /\ modules_ \subseteq Files \X Spellings
      BY DEF IInv, Base, TypeOK
    <3>2. runs' \in Seq(Files)
      BY <2>2, <3>1, AppendProperties
    <3>3. modules_' \subseteq Files \X Spellings
      BY <1>6, <2>1, <3>1
    <3> QED BY <1>1, <2>2, <3>2, <3>3, ReadyKeeps DEF IInv
  <2>4. CASE Going
    <3>1. key \in Keys /\ key[1] = file
      BY <1>6 DEF Keys
    <3>2. Going'
      BY <1>1, <1>2, <1>3, <1>6, <1>8, <2>1, <2>4, <3>1, GoJson DEF IInv
    <3> QED BY <2>3, <3>2 DEF IInv, Outcome
  <2>5. CASE ~ Good /\ \E D, B : Doomed(D, B)
    <3>1. PICK D, B : Doomed(D, B)
      BY <2>5
    <3>2. ~ Bad(D, Len(stack), from, i)
      <4>1. <<from, i>> \notin MissingAt
        BY <1>6, KindsApart
      <4>2. \A g : <<from, i, g>> \notin LeadsTo
        BY <1>6, KindsApart
      <4>3. \A g : <<from, i, g>> \in JsonAt => g = file
        BY <1>6, KindsApart
      <4> QED BY <1>6, <1>8, <4>1, <4>2, <4>3 DEF Bad
    <3>3. modules_ \subseteq modules_'
      BY <2>1
    <3>4. Doomed(D, B)'
      BY <1>1, <1>2, <1>3, <2>2, <3>1, <3>2, <3>3, DoomReady DEF IInv
    <3>5. ~ Good'
      BY <2>2, <2>5, Same
    <3> QED BY <2>3, <3>4, <3>5 DEF IInv, Outcome
  <2> QED BY <2>4, <2>5 DEF IInv, Outcome
<1> QED BY <1>7, <1>8

(* Another file, with room on the stack or not.                             *)
LEMMA StepModule ==
    ASSUME IInv, ImportModule
    PROVE  IInv'
<1>1. Asks /\ Finds /\ ~ IsJson(Imported)
  BY DEF ImportModule, Finds
<1>2. PICK from \in Files : from = File(Len(stack))
  BY <1>1, ImportIs DEF IInv
<1>3. PICK i : i = Done(Len(stack)) + 1
  OBVIOUS
<1>4. PICK file \in Files : file = Imported
  BY <1>1, ImportIs DEF IInv
<1>5. PICK key : key = Key
  OBVIOUS
<1>6. /\ key = <<file, As[from][i]>> /\ key \in Files \X Spellings
      /\ <<from, i, file>> \in LeadsTo
  BY <1>1, <1>2, <1>3, <1>4, <1>5, ImportIs DEF IInv
<1>7. CASE Len(stack) = StackLimit
  <2>1. Fails /\ modules_' = modules_
    BY <1>7 DEF ImportModule
  <2>2. \A D : Bad(D, Len(stack), from, i)
    BY <1>6, <1>7 DEF Bad
  <2> QED BY <1>1, <1>2, <1>3, <2>1, <2>2, StepFails
<1>8. CASE Len(stack) # StackLimit
  <2>1. Compile(file) /\ modules_' = modules_ \cup {key}
    BY <1>4, <1>5, <1>8 DEF ImportModule
  <2>2. program' = program
    BY <2>1 DEF Compile
  <2>3. Base'
    <3>1. modules_' \subseteq Files \X Spellings
      BY <1>6, <2>1 DEF IInv, Base, TypeOK
    <3> QED BY <1>1, <1>2, <1>3, <1>6, <1>8, <2>1, <3>1, CompileKeeps DEF IInv
  <2>4. CASE Going
    <3>1. key \in Keys
      BY <1>6 DEF Keys
    <3>2. Going'
      BY <1>1, <1>2, <1>3, <1>6, <1>8, <2>1, <2>4, <3>1, GoCompile DEF IInv
    <3> QED BY <2>3, <3>2 DEF IInv, Outcome
  <2>5. CASE ~ Good /\ \E D, B : Doomed(D, B)
    <3>1. PICK D, B : Doomed(D, B)
      BY <2>5
    <3>2. PICK n, N \in Nat :
            /\ n = Len(instances) /\ DOMAIN instances = 1 .. n
            /\ N = Len(stack) /\ N <= StackLimit
      BY Typing DEF IInv, Base
    <3>3. stack # <<>> /\ N < StackLimit
      BY <1>1, <1>8, <3>2, LimitAssumption, AsksIs DEF IInv
    <3>4. PICK m \in Nat : m = n + 1 /\ m >= n
      BY <3>2
    <3>5. /\ Push(m, FALSE) /\ Known /\ DOMAIN instances' = 1 .. m
          /\ \A a \in DOMAIN instances : instances'[a] = instances[a]
          /\ stack' \in Seq(FrameSet(m))
      BY <2>1, <3>2, <3>3, <3>4, CompileIs DEF IInv
    <3>6. modules_ \subseteq modules_'
      BY <2>1
    <3>7. \A a \in DOMAIN instances : instances'[a].status \in {"unlinked", "retried"}
                                         <=> instances[a].status \in {"unlinked", "retried"}
      BY <3>5
    <3>8. \E C : Doomed(D, C)'
      BY <2>2, <3>1, <3>2, <3>3, <3>4, <3>5, <3>6, <3>7, DoomPush DEF IInv
    <3>9. ~ Good'
      BY <2>2, <2>5, Same
    <3> QED BY <2>3, <3>8, <3>9 DEF IInv, Outcome
  <2> QED BY <2>4, <2>5 DEF IInv, Outcome
<1> QED BY <1>7, <1>8

(* A module that was given up is tried again.                               *)
LEMMA StepAgain ==
    ASSUME IInv, PrepareAgain
    PROVE  IInv'
<1>1. stack # <<>> /\ ~ Asks /\ UNCHANGED <<program, modules_, runs>>
  BY DEF PrepareAgain
<1>2. PICK i, id : Again(i, id)
  <2>1. PICK i \in Unlinked :
          /\ instances' = [instances EXCEPT ![Top.requested[i]].status = "retried"]
          /\ stack' = Append(stack, Frame(Top.requested[i], TRUE))
    BY DEF PrepareAgain
  <2>2. i \in DOMAIN Top.requested /\ StatusOf(Top.requested[i]) = "unlinked"
    BY <2>1 DEF Unlinked
  <2>3. Again(i, Top.requested[i])
    BY <2>1, <2>2 DEF Again
  <2> QED BY <2>3
<1>3. Base'
  BY <1>1, <1>2, AgainKeeps DEF IInv
<1>4. PICK n \in Nat : n = Len(instances) /\ DOMAIN instances = 1 .. n /\ n >= n
  BY Typing DEF IInv, Base
<1>5. /\ id \in DOMAIN instances /\ instances[id].status = "unlinked"
      /\ Push(id, TRUE) /\ Known /\ DOMAIN instances' = 1 .. n
      /\ \A j \in DOMAIN instances :
            instances'[j].status = IF j = id THEN "retried" ELSE instances[j].status
      /\ stack' \in Seq(FrameSet(n))
  BY <1>1, <1>2, <1>4, AgainIs DEF IInv
<1>6. ~ Going
  BY <1>5 DEF Going, Clean
<1>7. ~ Good /\ \E D, B : Doomed(D, B)
  BY <1>6 DEF IInv, Outcome
<1>8. PICK D, B : Doomed(D, B)
  BY <1>7
<1>9. \A r \in DOMAIN instances : instances'[r].status \in {"unlinked", "retried"}
                                    <=> instances[r].status \in {"unlinked", "retried"}
  BY <1>5
<1>10. \E C : Doomed(D, C)'
  BY <1>1, <1>4, <1>5, <1>8, <1>9, DoomPush DEF IInv
<1>11. ~ Good'
  BY <1>1, <1>7, Same
<1> QED BY <1>3, <1>10, <1>11 DEF IInv, Outcome

(* A module has all its imports.                                            *)
LEMMA StepComplete ==
    ASSUME IInv, Complete
    PROVE  IInv'
<1>1. /\ stack # <<>> /\ ~ Asks /\ Unlinked = {} /\ program' = program /\ modules_' = modules_
  BY DEF Complete
<1>2. PICK N \in Nat : N = Len(stack) /\ DOMAIN stack = 1 .. N
  BY Typing DEF IInv, Base
<1>3. N \in 1 .. N /\ Top = stack[N] /\ File(N) \in Files
  BY <1>1, <1>2, AsksIs DEF IInv
<1>4. ~ stack[N].retry
  <2>1. CASE Going
    BY <1>2, <1>3, <2>1, NoRetry DEF IInv, Going
  <2>2. CASE \E D, B : Doomed(D, B)
    BY <1>1, <1>2, <2>2, DoomedWaits DEF IInv
  <2> QED BY <2>1, <2>2 DEF IInv, Outcome
<1>5. /\ Leave(N, "evaluated") /\ runs' = Append(runs, File(N))
  <2>1. /\ instances' = Become(Top.id, "evaluated") /\ stack' = Returns(Front(stack), Top.id)
        /\ runs' = Append(runs, FileOf(Top.id))
    BY <1>3, <1>4 DEF Complete
  <2>2. Front(stack) = SubSeq(stack, 1, N - 1)
    BY <1>2 DEF Front
  <2>3. \A j \in N + 1 .. N : FALSE
    BY <1>2
  <2> QED BY <1>2, <1>3, <1>4, <2>1, <2>2, <2>3 DEF Leave, File
<1>6. Base'
  <2>1. runs \in Seq(Files) /\ modules_' \subseteq Files \X Spellings
    BY <1>1 DEF IInv, Base, TypeOK
  <2>2. runs' \in Seq(Files)
    BY <1>3, <1>5, <2>1, AppendProperties
  <2> QED BY <1>1, <1>2, <1>3, <1>5, <2>1, <2>2, LeaveKeeps DEF IInv
<1>7. CASE Going
  <2>1. Going'
    BY <1>1, <1>2, <1>5, <1>7, GoReturn, GoEnd DEF IInv
  <2> QED BY <1>6, <2>1 DEF IInv, Outcome
<1>8. CASE ~ Good /\ \E D, B : Doomed(D, B)
  <2>1. PICK D, B : Doomed(D, B)
    BY <1>8
  <2>2. Doomed(D, B)'
    BY <1>1, <1>2, <1>5, <2>1, DoomComplete DEF IInv
  <2>3. ~ Good'
    BY <1>1, <1>8, Same
  <2> QED BY <1>6, <2>2, <2>3 DEF IInv, Outcome
<1> QED BY <1>7, <1>8 DEF IInv, Outcome

(* Nothing changes.                                                         *)
LEMMA StepStutters ==
    ASSUME IInv, UNCHANGED vars
    PROVE  IInv'
<1>1. /\ program' = program /\ stack' = stack /\ instances' = instances
      /\ modules_' = modules_ /\ runs' = runs
  BY DEF vars
<1>2. /\ Files' = Files /\ Keys' = Keys /\ Size' = Size /\ As' = As
      /\ MissingAt' = MissingAt /\ JsonAt' = JsonAt /\ LeadsTo' = LeadsTo
      /\ FoundAt' = FoundAt /\ FitAt' = FitAt /\ Begun' = Begun
      /\ Walk' = Walk /\ Walked' = Walked /\ Good' = Good /\ FoundAll' = FoundAll
  BY <1>1, Same
<1>3. TypeOK' /\ program' \in Programs
  BY <1>1, <1>2 DEF IInv, Base, TypeOK
<1>4. \A j : File(j)' = File(j) /\ Done(j)' = Done(j)
  BY <1>1 DEF File, FileOf, Done
<1>5. Order' /\ Statuses'
  BY <1>1 DEF IInv, Base, Order, Statuses
<1>6. Answers'
  BY <1>1, <1>2, <1>4 DEF IInv, Base, Answers
<1>7. Links'
  BY <1>1, <1>2, <1>4 DEF IInv, Base, Links
<1>8. CASE Going
  <2>1. Clean'
    BY <1>1, <1>8 DEF Going, Clean
  <2>2. CASE stack = <<>>
    <3>1. Finished'
      BY <1>1, <1>2, <1>8, <2>2 DEF Going, Finished, Ran, Entry
    <3> QED BY <1>1, <1>3, <1>5, <1>6, <1>7, <2>1, <2>2, <3>1 DEF IInv, Base, Outcome, Going
  <2>3. CASE stack # <<>>
    <3>1. Fit'
      BY <1>1, <1>2, <1>4, <1>8, <2>3 DEF Going, Fit, Entry
    <3>2. PICK G, g : Track(G) /\ g = G[Len(stack)] /\ Log(g)
      BY <1>8, <2>3 DEF Going
    <3>3. Track(G)'
      BY <1>1, <1>2, <1>4, <3>2 DEF Track
    <3>4. Log(g)'
      BY <1>1, <1>2, <3>2 DEF Log
    <3> QED BY <1>1, <1>3, <1>5, <1>6, <1>7, <2>1, <2>3, <3>1, <3>2, <3>3, <3>4
            DEF IInv, Base, Outcome, Going
  <2> QED BY <2>2, <2>3
<1>9. CASE ~ Good /\ \E D, B : Doomed(D, B)
  <2>1. PICK D, B : Doomed(D, B)
    BY <1>9
  <2>2. \A d, f, i : Bad(D, d, f, i)' <=> Bad(D, d, f, i)
    BY <1>1, <1>2 DEF Bad
  <2>3. \A j : Stuck(D, B, j)' <=> Stuck(D, B, j)
    BY <1>1, <1>2, <1>4, <2>2 DEF Stuck, Lost
  <2>4. Marks(D, B)'
    BY <1>1, <1>2, <1>4, <2>1, <2>2, <2>3 DEF Doomed, Marks
  <2>5. Doomed(D, B)'
    BY <1>1, <2>1, <2>4 DEF Doomed, Ran
  <2> QED BY <1>2, <1>3, <1>5, <1>6, <1>7, <1>9, <2>5 DEF IInv, Base, Outcome
<1> QED BY <1>8, <1>9 DEF IInv, Outcome
-----------------------------------------------------------------------------
(* The invariant holds in every state.                                      *)
THEOREM Invariant == Spec => []IInv
<1>1. Init => IInv
  BY InitInv
<1>2. IInv /\ [Next]_vars => IInv'
  <2> SUFFICES ASSUME IInv, [Next]_vars PROVE IInv'
    OBVIOUS
  <2>1. CASE ImportNative
    BY <2>1, StepNative
  <2>2. CASE ImportMissing \/ ImportBroken
    BY <2>2, StepMissing
  <2>3. CASE ImportJson
    BY <2>3, StepJson
  <2>4. CASE ImportModule
    BY <2>4, StepModule
  <2>5. CASE PrepareAgain
    BY <2>5, StepAgain
  <2>6. CASE Complete
    BY <2>6, StepComplete
  <2>7. CASE UNCHANGED vars
    BY <2>7, StepStutters
  <2> QED BY <2>1, <2>2, <2>3, <2>4, <2>5, <2>6, <2>7 DEF Next
<1> QED BY <1>1, <1>2, PTL DEF Spec

(* Every variable has its type, and the stack its limit.                    *)
THEOREM TypeIsKept == Spec => []TypeOK
<1>1. IInv => TypeOK
  BY DEF IInv, Base
<1> QED BY <1>1, Invariant, PTL

(* When the loader returns, the entry module has been evaluated exactly     *)
(* when its program is a good one.                                          *)
THEOREM RunsExactlyTrees == Spec => []RunsIfTree
<1>1. IInv => RunsIfTree
  <2> SUFFICES ASSUME IInv, stack = <<>> PROVE Ran <=> FoundAll /\ NoJsonTwice
    BY DEF RunsIfTree
  <2>1. CASE Going
    BY <2>1 DEF Going, Finished, Good
  <2>2. CASE ~ Good /\ \E D, B : Doomed(D, B)
    BY <2>2 DEF Doomed, Good
  <2> QED BY <2>1, <2>2 DEF IInv, Outcome
<1> QED BY <1>1, Invariant, PTL

(* ... and then its files have run in the order of the walk.                *)
THEOREM RunsFollowTheWalk == Spec => []RunsInOrder
<1>1. IInv => RunsInOrder
  <2> SUFFICES ASSUME IInv, stack = <<>>, Ran
               PROVE  runs = [i \in DOMAIN Walked |-> Walked[i][1]] \o <<Entry>>
    BY DEF RunsInOrder
  <2>1. CASE Going
    BY <2>1 DEF Going, Finished
  <2>2. CASE ~ Good /\ \E D, B : Doomed(D, B)
    BY <2>2 DEF Doomed
  <2> QED BY <2>1, <2>2 DEF IInv, Outcome
<1> QED BY <1>1, Invariant, PTL

=============================================================================
