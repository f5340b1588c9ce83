---------------------------- MODULE SamplesProofs ----------------------------
(***************************************************************************)
(* Proofs about Samples, for any targets, any answers of any length that   *)
(* CasesAssumption admits, and any order in which nodes merge: each of its *)
(* five properties.                                                        *)
(*                                                                         *)
(* Base says what samples look like: whose they are, which call they tell  *)
(* of, which keys they have, and that enumerations stand whole.  What the  *)
(* backends show follows from it alone for ScrapeAccepted and              *)
(* EnumsAreWhole; NumbersKept, TargetsTold and OneValueEach strengthen the *)
(* others.  Before Base come, bottom up, lists and their flattening,       *)
(* samples with their labels, the samples of one row, and the loops.       *)
(***************************************************************************)
EXTENDS Samples, TLAPS, SequenceTheorems, WellFoundedInduction

-----------------------------------------------------------------------------
(* Natural numbers: a set of them has a least one, which gives induction *)

(* A set of numbers has a least one. *)
LEMMA LeastOf ==
    ASSUME NEW T \in SUBSET Nat, T # {}
    PROVE  \E x \in T : \A y \in T : x <= y
<1>1. PICK x \in T : \A y \in T : ~(<<y, x>> \in OpToRel(<, Nat))
  BY NatLessThanWellFounded, WFMin
<1>2. \A y \in T : ~(y < x)
  BY <1>1 DEF OpToRel
<1>3. \A y \in T : x <= y
  BY <1>2
<1> QED BY <1>3

(* A set that has 0 and the successor of each member has every number. *)
LEMMA AllNaturals ==
    ASSUME NEW T \in SUBSET Nat, 0 \in T, \A n \in T : n + 1 \in T
    PROVE  T = Nat
<1> SUFFICES ASSUME T # Nat PROVE FALSE OBVIOUS
<1>1. PICK x \in Nat \ T : \A y \in Nat \ T : x <= y
  BY LeastOf
<1>2. x # 0 OBVIOUS
<1>3. x - 1 \in Nat /\ x - 1 \in T
  BY <1>1, <1>2
<1>4. (x - 1) + 1 = x BY <1>1
<1> QED BY <1>3, <1>4

(* A set of numbers up to n has a greatest one. *)
LEMMA GreatestOf ==
    ASSUME NEW n \in Nat, NEW T \in SUBSET (1 .. n), T # {}
    PROVE  \E x \in T : \A y \in T : y <= x
<1> DEFINE U == {n - y : y \in T}
<1>0. \A y \in T : y \in 1 .. n OBVIOUS
<1>1. U \in SUBSET Nat /\ U # {}
  <2>1. \A y \in T : n - y \in Nat BY <1>0
  <2>2. PICK y \in T : TRUE OBVIOUS
  <2>3. n - y \in U BY <2>2
  <2> QED BY <2>1, <2>3
<1>2. PICK u \in U : \A v \in U : u <= v
  BY <1>1, LeastOf
<1>3. PICK x \in T : u = n - x OBVIOUS
<1>4. \A y \in T : y <= x
  <2> TAKE y \in T
  <2>1. n - x <= n - y BY <1>2, <1>3
  <2> QED BY <2>1, <1>0
<1> QED BY <1>4

-----------------------------------------------------------------------------
(* Lists *)

(* A function on 1 .. n is a list of length n. *)
LEMMA ListMade ==
    ASSUME NEW n \in Nat, NEW s, s = [i \in 1 .. n |-> s[i]]
    PROVE  IsList(s) /\ Len(s) = n
<1>1. s \in [1 .. n -> ToSet(s)] BY DEF ToSet
<1>2. s \in Seq(ToSet(s)) BY <1>1, SeqDef
<1> QED BY <1>1, <1>2, LenProperties DEF IsList

(* What a list is as a function, and what its members are. *)
LEMMA ListFacts ==
    ASSUME NEW s, IsList(s)
    PROVE  /\ Len(s) \in Nat /\ DOMAIN s = 1 .. Len(s)
           /\ s = [i \in 1 .. Len(s) |-> s[i]]
           /\ \A i \in 1 .. Len(s) : s[i] \in ToSet(s)
           /\ \A x \in ToSet(s) : \E i \in 1 .. Len(s) : x = s[i]
<1>1. Len(s) \in Nat /\ s \in [1 .. Len(s) -> ToSet(s)] /\ DOMAIN s = 1 .. Len(s)
  BY LenProperties DEF IsList
<1> QED BY <1>1 DEF ToSet

(* A sequence over any set is a list. *)
LEMMA ListIntro ==
    ASSUME NEW S, NEW s \in Seq(S)
    PROVE  IsList(s) /\ ToSet(s) \subseteq S
<1>1. Len(s) \in Nat /\ s \in [1 .. Len(s) -> S] /\ DOMAIN s = 1 .. Len(s)
  BY LenProperties
<1>2. s = [i \in 1 .. Len(s) |-> s[i]] BY <1>1
<1> QED BY <1>1, <1>2, ListMade DEF ToSet

(* The empty list. *)
LEMMA ListEmpty ==
    IsList(<<>>) /\ ToSet(<<>>) = {} /\ Len(<<>>) = 0
<1> DEFINE none == {}
<1>1. <<>> \in Seq(none) /\ Len(<<>>) = 0 BY EmptySeq
<1> HIDE DEF none
<1>2. IsList(<<>>) /\ ToSet(<<>>) \subseteq none BY <1>1, ListIntro
<1> QED BY <1>1, <1>2 DEF none

(* A list of one element. *)
LEMMA ListUnit ==
    ASSUME NEW x
    PROVE  IsList(<<x>>) /\ ToSet(<<x>>) = {x} /\ Len(<<x>>) = 1 /\ <<x>>[1] = x
<1>1. <<x>> \in Seq({x}) /\ Len(<<x>>) = 1 /\ <<x>>[1] = x OBVIOUS
<1>2. x \in ToSet(<<x>>) BY <1>1, LenProperties DEF ToSet
<1> QED BY <1>1, <1>2, ListIntro

(* Two lists, one after the other. *)
LEMMA ListConcat ==
    ASSUME NEW s, NEW t, IsList(s), IsList(t)
    PROVE  /\ IsList(s \o t) /\ Len(s \o t) = Len(s) + Len(t)
           /\ \A i \in 1 .. Len(s) : (s \o t)[i] = s[i]
           /\ \A i \in 1 .. Len(t) : (s \o t)[Len(s) + i] = t[i]
           /\ ToSet(s \o t) = ToSet(s) \cup ToSet(t)
<1> DEFINE S == ToSet(s) \cup ToSet(t)
<1>1. s \in Seq(S) /\ t \in Seq(S)
  BY SeqMonotonic DEF IsList
<1>2. /\ s \o t \in Seq(S) /\ Len(s \o t) = Len(s) + Len(t)
      /\ \A i \in 1 .. Len(s) + Len(t) :
            (s \o t)[i] = IF i <= Len(s) THEN s[i] ELSE t[i - Len(s)]
  BY <1>1, ConcatProperties
<1>3. IsList(s \o t) /\ ToSet(s \o t) \subseteq S
  BY <1>2, ListIntro
<1>4. Len(s) \in Nat /\ Len(t) \in Nat
  BY ListFacts
<1>5. \A i \in 1 .. Len(s) : (s \o t)[i] = s[i]
  <2> TAKE i \in 1 .. Len(s)
  <2>1. i \in 1 .. Len(s) + Len(t) /\ i <= Len(s) BY <1>4
  <2> QED BY <1>2, <2>1
<1>6. \A i \in 1 .. Len(t) : (s \o t)[Len(s) + i] = t[i]
  <2> TAKE i \in 1 .. Len(t)
  <2>1. Len(s) + i \in 1 .. Len(s) + Len(t) /\ ~(Len(s) + i <= Len(s)) /\ Len(s) + i - Len(s) = i
    BY <1>4
  <2> QED BY <1>2, <2>1
<1>7. S \subseteq ToSet(s \o t)
  <2>1. ASSUME NEW x \in ToSet(s) PROVE x \in ToSet(s \o t)
    <3>1. PICK i \in 1 .. Len(s) : x = s[i] BY ListFacts
    <3>2. x = (s \o t)[i] /\ i \in 1 .. Len(s \o t) BY <3>1, <1>5, <1>2, <1>4
    <3> QED BY <3>2, <1>3, ListFacts
  <2>2. ASSUME NEW x \in ToSet(t) PROVE x \in ToSet(s \o t)
    <3>1. PICK i \in 1 .. Len(t) : x = t[i] BY ListFacts
    <3>2. x = (s \o t)[Len(s) + i] /\ Len(s) + i \in 1 .. Len(s \o t) BY <3>1, <1>6, <1>2, <1>4
    <3> QED BY <3>2, <1>3, ListFacts
  <2> QED BY <2>1, <2>2
<1> QED BY <1>2, <1>3, <1>5, <1>6, <1>7

-----------------------------------------------------------------------------
(* The loops: FlattenSeq *)

(* List b stands in list s after its first o elements *)
At(s, o, b) ==
    /\ o \in Nat /\ o + Len(b) <= Len(s)
    /\ \A i \in 1 .. Len(b) : s[o + i] = b[i]

Flattens(f, ss, n) ==
    f = [i \in 1 .. n |-> IF i = 1 THEN ss[i] ELSE f[i - 1] \o ss[i]]

(* The function by which FlattenSeq is defined exists. *)
LEMMA FlattenExists ==
    ASSUME NEW ss
    PROVE  \A n \in Nat : \E f : Flattens(f, ss, n)
<1> DEFINE T == {n \in Nat : \E f : Flattens(f, ss, n)}
<1>1. 0 \in T
  <2>1. Flattens([i \in 1 .. 0 |-> 0], ss, 0) BY DEF Flattens
  <2> QED BY <2>1
<1>2. ASSUME NEW n \in T PROVE n + 1 \in T
  <2>1. PICK f : Flattens(f, ss, n) OBVIOUS
  <2> DEFINE new == IF n + 1 = 1 THEN ss[n + 1] ELSE f[n] \o ss[n + 1]
             g == [i \in 1 .. n + 1 |-> IF i = n + 1 THEN new ELSE f[i]]
             h == [i \in 1 .. n + 1 |-> IF i = 1 THEN ss[i] ELSE g[i - 1] \o ss[i]]
  <2>2. ASSUME NEW i \in 1 .. n + 1 PROVE g[i] = h[i]
    <3>1. CASE i = n + 1
      <4>1. CASE i = 1 BY <3>1, <4>1
      <4>2. CASE i # 1
        <5>1. n \in 1 .. n + 1 /\ n # n + 1 /\ i - 1 = n BY <3>1, <4>2
        <5>2. g[i - 1] = f[n] BY <5>1
        <5> QED BY <3>1, <4>2, <5>1, <5>2
      <4> QED BY <4>1, <4>2
    <3>2. CASE i # n + 1
      <4>1. i \in 1 .. n BY <3>2
      <4>2. f[i] = IF i = 1 THEN ss[i] ELSE f[i - 1] \o ss[i]
        BY <2>1, <4>1 DEF Flattens
      <4>3. i # 1 => g[i - 1] = f[i - 1] BY <4>1
      <4> QED BY <3>2, <4>1, <4>2, <4>3
    <3> QED BY <3>1, <3>2
  <2>3. g = h BY <2>2
  <2>4. Flattens(g, ss, n + 1) BY <2>3 DEF Flattens
  <2> QED BY <2>4
<1>3. T = Nat BY <1>1, <1>2, AllNaturals
<1> QED BY <1>3

(* FlattenSeq is the last value of that function. *)
LEMMA FlattenIs ==
    ASSUME NEW ss, IsList(ss), Len(ss) # 0
    PROVE  \E f : Flattens(f, ss, Len(ss)) /\ FlattenSeq(ss) = f[Len(ss)]
<1> DEFINE f == CHOOSE g : Flattens(g, ss, Len(ss))
<1>1. \E g : Flattens(g, ss, Len(ss)) BY FlattenExists, ListFacts
<1>2. Flattens(f, ss, Len(ss)) BY <1>1
<1>3. FlattenSeq(ss) = f[Len(ss)] BY DEF FlattenSeq, Flattens
<1> QED BY <1>2, <1>3

(* What stands in one of two lists stands in their concatenation. *)
LEMMA AtConcat ==
    ASSUME NEW s, NEW t, IsList(s), IsList(t), NEW o, NEW b, IsList(b)
    PROVE  /\ At(s, o, b) => At(s \o t, o, b)
           /\ At(t, o, b) => At(s \o t, Len(s) + o, b)
<1>1. Len(s) \in Nat /\ Len(t) \in Nat /\ Len(b) \in Nat BY ListFacts
<1>2. /\ Len(s \o t) = Len(s) + Len(t)
      /\ \A i \in 1 .. Len(s) : (s \o t)[i] = s[i]
      /\ \A i \in 1 .. Len(t) : (s \o t)[Len(s) + i] = t[i]
  BY ListConcat
<1>3. ASSUME At(s, o, b) PROVE At(s \o t, o, b)
  <2>1. o \in Nat /\ o + Len(b) <= Len(s) BY <1>3 DEF At
  <2>2. \A i \in 1 .. Len(b) : o + i \in 1 .. Len(s) BY <1>1, <2>1
  <2>3. \A i \in 1 .. Len(b) : (s \o t)[o + i] = b[i] BY <1>2, <1>3, <2>2 DEF At
  <2> QED BY <1>1, <1>2, <2>1, <2>3 DEF At
<1>4. ASSUME At(t, o, b) PROVE At(s \o t, Len(s) + o, b)
  <2>1. o \in Nat /\ o + Len(b) <= Len(t) BY <1>4 DEF At
  <2>2. \A i \in 1 .. Len(b) : o + i \in 1 .. Len(t) /\ (Len(s) + o) + i = Len(s) + (o + i)
    BY <1>1, <2>1
  <2>3. \A i \in 1 .. Len(b) : (s \o t)[(Len(s) + o) + i] = b[i] BY <1>2, <1>4, <2>2 DEF At
  <2> QED BY <1>1, <1>2, <2>1, <2>3 DEF At
<1> QED BY <1>3, <1>4

(* List s is made of the first n of lists ss *)
MadeOf(s, ss, n) ==
    /\ IsList(s)
    /\ \A i \in 1 .. n : \E o \in Nat : At(s, o, ss[i])
    /\ \A p \in 1 .. Len(s) : \E i \in 1 .. n : \E o \in Nat :
          At(s, o, ss[i]) /\ p \in o + 1 .. o + Len(ss[i])

(* A flattened list is made of its parts: by induction over their number. *)
LEMMA FlattenMadeOf ==
    ASSUME NEW ss, IsList(ss), \A i \in 1 .. Len(ss) : IsList(ss[i])
    PROVE  MadeOf(FlattenSeq(ss), ss, Len(ss))
<1>1. Len(ss) \in Nat /\ ss = [i \in 1 .. Len(ss) |-> ss[i]] BY ListFacts
<1>2. CASE Len(ss) = 0
  <2>1. FlattenSeq(ss) = ss BY <1>2 DEF FlattenSeq
  <2> QED BY <1>2, <2>1 DEF MadeOf
<1>3. CASE Len(ss) # 0
  <2>1. PICK f : Flattens(f, ss, Len(ss)) /\ FlattenSeq(ss) = f[Len(ss)]
    BY <1>3, FlattenIs
  <2>2. \A i \in 1 .. Len(ss) : f[i] = IF i = 1 THEN ss[i] ELSE f[i - 1] \o ss[i]
    BY <2>1 DEF Flattens
  <2> DEFINE T == {n \in Nat : n \in 1 .. Len(ss) => MadeOf(f[n], ss, n)}
  <2>3. 0 \in T OBVIOUS
  <2>4. ASSUME NEW n \in T PROVE n + 1 \in T
    <3>1. SUFFICES ASSUME n + 1 \in 1 .. Len(ss) PROVE MadeOf(f[n + 1], ss, n + 1)
      OBVIOUS
    <3>2. IsList(ss[n + 1]) /\ Len(ss[n + 1]) \in Nat BY <3>1, ListFacts
    <3>3. CASE n = 0
      <4>1. f[n + 1] = ss[1] BY <2>2, <3>1, <3>3
      <4>2. At(ss[1], 0, ss[1]) BY <3>2, <3>3 DEF At
      <4> QED BY <3>2, <3>3, <4>1, <4>2 DEF MadeOf
    <3>4. CASE n # 0
      <4>0. n \in 1 .. Len(ss) /\ n + 1 # 1 /\ n + 1 - 1 = n BY <3>1, <3>4
      <4> DEFINE s == f[n]
                 t == ss[n + 1]
      <4>1. f[n + 1] = s \o t
        <5>1. f[n + 1] = IF n + 1 = 1 THEN ss[n + 1] ELSE f[n + 1 - 1] \o ss[n + 1]
          BY <2>2, <3>1
        <5> QED BY <4>0, <5>1
      <4>2. MadeOf(s, ss, n) BY <4>0
      <4>3. IsList(s) /\ IsList(t) /\ Len(s) \in Nat /\ Len(t) \in Nat
        BY <3>2, <4>2, ListFacts DEF MadeOf
      <4>4. \A i \in 1 .. n : IsList(ss[i]) /\ i \in 1 .. n + 1 BY <3>1
      <4>5. At(s \o t, Len(s), t)
        <5>1. At(t, 0, t) BY <4>3 DEF At
        <5>2. Len(s) + 0 = Len(s) BY <4>3
        <5> HIDE DEF s, t
        <5> QED BY <4>3, <5>1, <5>2, AtConcat
      <4>6. \A i \in 1 .. n, o \in Nat : At(s, o, ss[i]) => At(s \o t, o, ss[i])
        <5> HIDE DEF s, t
        <5> QED BY <4>3, <4>4, AtConcat
      <4>7. IsList(s \o t) /\ Len(s \o t) = Len(s) + Len(t)
        <5> HIDE DEF s, t
        <5> QED BY <4>3, ListConcat
      <4>8. ASSUME NEW i \in 1 .. n + 1 PROVE \E o \in Nat : At(s \o t, o, ss[i])
        <5>1. CASE i = n + 1 BY <4>3, <4>5, <5>1
        <5>2. CASE i # n + 1
          <6>1. i \in 1 .. n BY <5>2
          <6> QED BY <4>2, <4>6, <6>1 DEF MadeOf
        <5> QED BY <5>1, <5>2
      <4>9. ASSUME NEW p \in 1 .. Len(s \o t)
            PROVE  \E i \in 1 .. n + 1 : \E o \in Nat :
                      At(s \o t, o, ss[i]) /\ p \in o + 1 .. o + Len(ss[i])
        <5>1. CASE p <= Len(s)
          <6>1. p \in 1 .. Len(s) BY <4>3, <4>7, <5>1
          <6>2. PICK i \in 1 .. n : \E o \in Nat :
                   At(s, o, ss[i]) /\ p \in o + 1 .. o + Len(ss[i])
            BY <4>2, <6>1 DEF MadeOf
          <6> QED BY <4>4, <4>6, <6>2
        <5>2. CASE ~(p <= Len(s))
          <6>1. p \in Len(s) + 1 .. Len(s) + Len(t)
            <7> HIDE DEF s, t
            <7> QED BY <4>3, <4>7, <5>2
          <6>2. n + 1 \in 1 .. n + 1 OBVIOUS
          <6> QED BY <4>3, <4>5, <6>1, <6>2
        <5> QED BY <5>1, <5>2
      <4> HIDE DEF s, t
      <4> QED BY <4>1, <4>7, <4>8, <4>9 DEF MadeOf
    <3> QED BY <3>3, <3>4
  <2>5. T = Nat BY <2>3, <2>4, AllNaturals
  <2>6. Len(ss) \in 1 .. Len(ss) BY <1>1, <1>3
  <2> QED BY <1>1, <2>1, <2>5, <2>6
<1> QED BY <1>2, <1>3

(* A flattened list has the members of its parts. *)
LEMMA FlattenElements ==
    ASSUME NEW ss, IsList(ss), \A i \in 1 .. Len(ss) : IsList(ss[i])
    PROVE  /\ IsList(FlattenSeq(ss))
           /\ ToSet(FlattenSeq(ss)) = UNION {ToSet(ss[i]) : i \in 1 .. Len(ss)}
<1> DEFINE F == FlattenSeq(ss)
<1>1. MadeOf(F, ss, Len(ss)) BY FlattenMadeOf
<1> HIDE DEF F
<1>2. IsList(F) BY <1>1 DEF MadeOf
<1>3. ASSUME NEW x \in ToSet(F) PROVE \E i \in 1 .. Len(ss) : x \in ToSet(ss[i])
  <2>1. PICK p \in 1 .. Len(F) : x = F[p] BY <1>2, ListFacts
  <2>2. PICK i \in 1 .. Len(ss), o \in Nat :
           At(F, o, ss[i]) /\ p \in o + 1 .. o + Len(ss[i])
    BY <1>1 DEF MadeOf
  <2>3. IsList(ss[i]) /\ Len(ss[i]) \in Nat BY ListFacts
  <2>4. p - o \in 1 .. Len(ss[i]) /\ o + (p - o) = p BY <2>2, <2>3
  <2>5. ss[i][p - o] = x BY <2>1, <2>2, <2>4 DEF At
  <2> QED BY <2>3, <2>4, <2>5, ListFacts
<1>4. ASSUME NEW i \in 1 .. Len(ss), NEW x \in ToSet(ss[i]) PROVE x \in ToSet(F)
  <2>1. IsList(ss[i]) BY ListFacts
  <2>2. PICK k \in 1 .. Len(ss[i]) : x = ss[i][k] BY <2>1, ListFacts
  <2>3. PICK o \in Nat : At(F, o, ss[i]) BY <1>1 DEF MadeOf
  <2>4. o + k \in 1 .. Len(F) /\ F[o + k] = x
    BY <1>2, <2>1, <2>2, <2>3, ListFacts DEF At
  <2> QED BY <1>2, <2>4, ListFacts
<1> QED BY <1>2, <1>3, <1>4 DEF F

-----------------------------------------------------------------------------
(* Samples: their labels, and the keys that a metric's name determines *)

(* Labels written out: the target's own comes first. *)
LEMMA Labels1 ==
    ASSUME NEW x, NEW a
    PROVE  <<x>> \o <<a>> = <<x, a>>
<1> DEFINE S == {x, a}
<1> HIDE DEF S
<1>0. <<x>> \in Seq(S) /\ Len(<<x>>) = 1 BY DEF S
<1>1. <<a>> \in Seq(S) /\ Len(<<a>>) = 1 /\ <<x, a>> \in Seq(S) /\ Len(<<x, a>>) = 2
  BY DEF S
<1>2. /\ <<x>> \o <<a>> \in Seq(S) /\ Len(<<x>> \o <<a>>) = 2
      /\ \A i \in 1 .. 2 : (<<x>> \o <<a>>)[i] = IF i <= 1 THEN <<x>>[i] ELSE <<a>>[i - 1]
  BY <1>0, <1>1, ConcatProperties
<1>3. ASSUME NEW i \in 1 .. 2 PROVE (<<x>> \o <<a>>)[i] = <<x, a>>[i]
  <2>1. i = 1 \/ i = 2 OBVIOUS
  <2> QED BY <1>2, <2>1
<1> QED BY <1>1, <1>2, <1>3, SeqEqual

(* The same for two labels. *)
LEMMA Labels2 ==
    ASSUME NEW x, NEW a, NEW b
    PROVE  <<x>> \o <<a, b>> = <<x, a, b>>
<1> DEFINE S == {x, a, b}
<1> HIDE DEF S
<1>0. <<x>> \in Seq(S) /\ Len(<<x>>) = 1 BY DEF S
<1>1. <<a, b>> \in Seq(S) /\ Len(<<a, b>>) = 2 /\ <<x, a, b>> \in Seq(S) /\ Len(<<x, a, b>>) = 3
  BY DEF S
<1>2. /\ <<x>> \o <<a, b>> \in Seq(S) /\ Len(<<x>> \o <<a, b>>) = 3
      /\ \A i \in 1 .. 3 : (<<x>> \o <<a, b>>)[i] = IF i <= 1 THEN <<x>>[i] ELSE <<a, b>>[i - 1]
  BY <1>0, <1>1, ConcatProperties
<1>3. ASSUME NEW i \in 1 .. 3 PROVE (<<x>> \o <<a, b>>)[i] = <<x, a, b>>[i]
  <2>1. i = 1 \/ i = 2 \/ i = 3 OBVIOUS
  <2> QED BY <1>2, <2>1
<1> QED BY <1>1, <1>2, <1>3, SeqEqual

(* The same for three labels. *)
LEMMA Labels3 ==
    ASSUME NEW x, NEW a, NEW b, NEW c
    PROVE  <<x>> \o <<a, b, c>> = <<x, a, b, c>>
<1> DEFINE S == {x, a, b, c}
<1> HIDE DEF S
<1>0. <<x>> \in Seq(S) /\ Len(<<x>>) = 1 BY DEF S
<1>1. <<a, b, c>> \in Seq(S) /\ Len(<<a, b, c>>) = 3 /\ <<x, a, b, c>> \in Seq(S) /\ Len(<<x, a, b, c>>) = 4
  BY DEF S
<1>2. /\ <<x>> \o <<a, b, c>> \in Seq(S) /\ Len(<<x>> \o <<a, b, c>>) = 4
      /\ \A i \in 1 .. 4 : (<<x>> \o <<a, b, c>>)[i] = IF i <= 1 THEN <<x>>[i] ELSE <<a, b, c>>[i - 1]
  BY <1>0, <1>1, ConcatProperties
<1>3. ASSUME NEW i \in 1 .. 4 PROVE (<<x>> \o <<a, b, c>>)[i] = <<x, a, b, c>>[i]
  <2>1. i = 1 \/ i = 2 \/ i = 3 \/ i = 4 OBVIOUS
  <2> QED BY <1>2, <2>1
<1> QED BY <1>1, <1>2, <1>3, SeqEqual

(* The same for four labels. *)
LEMMA Labels4 ==
    ASSUME NEW x, NEW a, NEW b, NEW c, NEW d
    PROVE  <<x>> \o <<a, b, c, d>> = <<x, a, b, c, d>>
<1> DEFINE S == {x, a, b, c, d}
<1> HIDE DEF S
<1>0. <<x>> \in Seq(S) /\ Len(<<x>>) = 1 BY DEF S
<1>1. /\ <<a, b, c, d>> \in Seq(S) /\ Len(<<a, b, c, d>>) = 4
      /\ <<x, a, b, c, d>> \in Seq(S) /\ Len(<<x, a, b, c, d>>) = 5
  BY DEF S
<1>2. /\ <<x>> \o <<a, b, c, d>> \in Seq(S) /\ Len(<<x>> \o <<a, b, c, d>>) = 5
      /\ \A i \in 1 .. 5 : (<<x>> \o <<a, b, c, d>>)[i] = IF i <= 1 THEN <<x>>[i] ELSE <<a, b, c, d>>[i - 1]
  BY <1>0, <1>1, ConcatProperties
<1>3. ASSUME NEW i \in 1 .. 5 PROVE (<<x>> \o <<a, b, c, d>>)[i] = <<x, a, b, c, d>>[i]
  <2>1. i = 1 \/ i = 2 \/ i = 3 \/ i = 4 \/ i = 5 OBVIOUS
  <2> QED BY <1>2, <2>1
<1> QED BY <1>1, <1>2, <1>3, SeqEqual

(* The keys of the labels that samples of a name have *)
KeysOf(name) ==
    CASE name \in Enums -> <<"cluster", "id", "state">>
      [] name = "pve_guest_info" -> <<"cluster", "id", "node", "type", "template">>
      [] name = "pve_storage_info" -> <<"cluster", "id", "node">>
      [] name = "pve_node_info" -> <<"cluster", "id", "nodeid">>
      [] name = "pve_cluster_info" -> <<"cluster", "id", "nodes">>
      [] name = "pve_version_info" -> <<"cluster", "version">>
      [] name = "pve_qdevice_info" -> <<"cluster", "id", "model">>
      [] name = "pve_replication_info" -> <<"cluster", "id", "guest">>
      [] name = "pve_subscription_info" -> <<"cluster", "id", "level">>
      [] name = "pve_onboot_status" -> <<"cluster", "id", "node", "type">>
      [] OTHER -> <<"cluster", "id">>

(* A sample of target c has these keys, and c for its cluster *)
Keyed(s, c) ==
    /\ s.labels[1] = <<"cluster", c>>
    /\ Len(s.labels) = Len(KeysOf(s.name))
    /\ s.labels = [i \in 1 .. Len(s.labels) |-> <<KeysOf(s.name)[i], s.labels[i][2]>>]

(* What a sample with one label of its own is, and when it has its name's      *)
(* keys.                                                                       *)
LEMMA Sample1 ==
    ASSUME NEW name, NEW v, NEW k, NEW a,
           NEW s, s = Sample(name, v, <<<<k, a>>>>)
    PROVE  /\ s.name = name /\ s.value = v
           /\ s.labels = <<<<"cluster", Name>>, <<k, a>>>>
           /\ s = [name |-> s.name, value |-> s.value, labels |-> s.labels]
           /\ KeysOf(name) = <<"cluster", k>> => Keyed(s, Name)
<1> DEFINE w == <<<<"cluster", Name>>, <<k, a>>>>
<1>1. <<<<"cluster", Name>>>> \o <<<<k, a>>>> = w
  BY Labels1
<1>2. s = [name |-> name, value |-> v, labels |-> w]
  BY <1>1 DEF Sample, ClusterLabel
<1>3. ASSUME KeysOf(name) = <<"cluster", k>> PROVE Keyed(s, Name)
  <2>1. s.labels = w /\ s.name = name BY <1>2
  <2>2. w = [i \in 1 .. 2 |-> <<<<"cluster", k>>[i], w[i][2]>>]
    <3>1. \A i \in 1 .. 2 : i = 1 \/ i = 2 OBVIOUS
    <3> QED BY <3>1
  <2>3. Len(w) = Len(KeysOf(name)) /\ w[1] = <<"cluster", Name>> BY <1>3
  <2> HIDE DEF w
  <2>4. w = [i \in 1 .. Len(w) |-> <<KeysOf(name)[i], w[i][2]>>]
    BY <1>3, <2>2, <2>3
  <2> QED BY <2>1, <2>3, <2>4 DEF Keyed
<1> QED BY <1>2, <1>3

(* The same for two labels. *)
LEMMA Sample2 ==
    ASSUME NEW name, NEW v, NEW k, NEW a, NEW l, NEW b,
           NEW s, s = Sample(name, v, <<<<k, a>>, <<l, b>>>>)
    PROVE  /\ s.name = name /\ s.value = v
           /\ s.labels = <<<<"cluster", Name>>, <<k, a>>, <<l, b>>>>
           /\ s = [name |-> s.name, value |-> s.value, labels |-> s.labels]
           /\ KeysOf(name) = <<"cluster", k, l>> => Keyed(s, Name)
<1> DEFINE w == <<<<"cluster", Name>>, <<k, a>>, <<l, b>>>>
<1>1. <<<<"cluster", Name>>>> \o <<<<k, a>>, <<l, b>>>> = w
  BY Labels2
<1>2. s = [name |-> name, value |-> v, labels |-> w]
  BY <1>1 DEF Sample, ClusterLabel
<1>3. ASSUME KeysOf(name) = <<"cluster", k, l>> PROVE Keyed(s, Name)
  <2>1. s.labels = w /\ s.name = name BY <1>2
  <2>2. w = [i \in 1 .. 3 |-> <<<<"cluster", k, l>>[i], w[i][2]>>]
    <3>1. \A i \in 1 .. 3 : i = 1 \/ i = 2 \/ i = 3 OBVIOUS
    <3> QED BY <3>1
  <2>3. Len(w) = Len(KeysOf(name)) /\ w[1] = <<"cluster", Name>> BY <1>3
  <2> HIDE DEF w
  <2>4. w = [i \in 1 .. Len(w) |-> <<KeysOf(name)[i], w[i][2]>>]
    BY <1>3, <2>2, <2>3
  <2> QED BY <2>1, <2>3, <2>4 DEF Keyed
<1> QED BY <1>2, <1>3

(* The same for three labels. *)
LEMMA Sample3 ==
    ASSUME NEW name, NEW v, NEW k, NEW a, NEW l, NEW b, NEW m, NEW c,
           NEW s, s = Sample(name, v, <<<<k, a>>, <<l, b>>, <<m, c>>>>)
    PROVE  /\ s.name = name /\ s.value = v
           /\ s.labels = <<<<"cluster", Name>>, <<k, a>>, <<l, b>>, <<m, c>>>>
           /\ s = [name |-> s.name, value |-> s.value, labels |-> s.labels]
           /\ KeysOf(name) = <<"cluster", k, l, m>> => Keyed(s, Name)
<1> DEFINE w == <<<<"cluster", Name>>, <<k, a>>, <<l, b>>, <<m, c>>>>
<1>1. <<<<"cluster", Name>>>> \o <<<<k, a>>, <<l, b>>, <<m, c>>>> = w
  BY Labels3
<1>2. s = [name |-> name, value |-> v, labels |-> w]
  BY <1>1 DEF Sample, ClusterLabel
<1>3. ASSUME KeysOf(name) = <<"cluster", k, l, m>> PROVE Keyed(s, Name)
  <2>1. s.labels = w /\ s.name = name BY <1>2
  <2>2. w = [i \in 1 .. 4 |-> <<<<"cluster", k, l, m>>[i], w[i][2]>>]
    <3>1. \A i \in 1 .. 4 : i = 1 \/ i = 2 \/ i = 3 \/ i = 4 OBVIOUS
    <3> QED BY <3>1
  <2>3. Len(w) = Len(KeysOf(name)) /\ w[1] = <<"cluster", Name>> BY <1>3
  <2> HIDE DEF w
  <2>4. w = [i \in 1 .. Len(w) |-> <<KeysOf(name)[i], w[i][2]>>]
    BY <1>3, <2>2, <2>3
  <2> QED BY <2>1, <2>3, <2>4 DEF Keyed
<1> QED BY <1>2, <1>3

(* The same for four labels. *)
LEMMA Sample4 ==
    ASSUME NEW name, NEW v, NEW k, NEW a, NEW l, NEW b, NEW m, NEW c, NEW n, NEW d,
           NEW s, s = Sample(name, v, <<<<k, a>>, <<l, b>>, <<m, c>>, <<n, d>>>>)
    PROVE  /\ s.name = name /\ s.value = v
           /\ s.labels = <<<<"cluster", Name>>, <<k, a>>, <<l, b>>, <<m, c>>, <<n, d>>>>
           /\ s = [name |-> s.name, value |-> s.value, labels |-> s.labels]
           /\ KeysOf(name) = <<"cluster", k, l, m, n>> => Keyed(s, Name)
<1> DEFINE w == <<<<"cluster", Name>>, <<k, a>>, <<l, b>>, <<m, c>>, <<n, d>>>>
<1>1. <<<<"cluster", Name>>>> \o <<<<k, a>>, <<l, b>>, <<m, c>>, <<n, d>>>> = w
  BY Labels4
<1>2. s = [name |-> name, value |-> v, labels |-> w]
  BY <1>1 DEF Sample, ClusterLabel
<1>3. ASSUME KeysOf(name) = <<"cluster", k, l, m, n>> PROVE Keyed(s, Name)
  <2>1. s.labels = w /\ s.name = name BY <1>2
  <2>2. w = [i \in 1 .. 5 |-> <<<<"cluster", k, l, m, n>>[i], w[i][2]>>]
    <3>1. \A i \in 1 .. 5 : i = 1 \/ i = 2 \/ i = 3 \/ i = 4 \/ i = 5 OBVIOUS
    <3> QED BY <3>1
  <2>3. Len(w) = Len(KeysOf(name)) /\ w[1] = <<"cluster", Name>> BY <1>3
  <2> HIDE DEF w
  <2>4. w = [i \in 1 .. Len(w) |-> <<KeysOf(name)[i], w[i][2]>>]
    BY <1>3, <2>2, <2>3
  <2> QED BY <2>1, <2>3, <2>4 DEF Keyed
<1> QED BY <1>2, <1>3

-----------------------------------------------------------------------------
(* The names of numbers, and which call a sample comes from *)

DiskNames == {"pve_disk_size_bytes", "pve_disk_usage_bytes"}
HostNames ==
    DiskNames \cup {"pve_cpu_usage_ratio", "pve_cpu_usage_limit", "pve_memory_size_bytes",
                    "pve_memory_usage_bytes", "pve_uptime_seconds"}
GuestNames ==
    HostNames \cup {"pve_network_receive_bytes_total", "pve_network_transmit_bytes_total",
                    "pve_disk_read_bytes_total", "pve_disk_written_bytes_total"}
StorageNames == DiskNames \cup {"pve_storage_shared"}
ReplicationNames ==
    {"pve_replication_duration_seconds", "pve_replication_last_sync_timestamp_seconds",
     "pve_replication_last_try_timestamp_seconds",
     "pve_replication_next_sync_timestamp_seconds", "pve_replication_failed_syncs"}

(* The lists of metrics and their members. *)
LEMMA MetricLists ==
    /\ IsList(HostMetrics) /\ ToSet(HostMetrics) = HostNames
    /\ IsList(GuestMetrics) /\ ToSet(GuestMetrics) = GuestNames
    /\ IsList(StorageMetrics) /\ ToSet(StorageMetrics) = StorageNames
    /\ IsList(ReplicationMetrics) /\ ToSet(ReplicationMetrics) = ReplicationNames
<1> DEFINE cpu == <<"pve_cpu_usage_ratio", "pve_cpu_usage_limit", "pve_memory_size_bytes",
                    "pve_memory_usage_bytes">>
           time == <<"pve_uptime_seconds">>
           io == <<"pve_network_receive_bytes_total", "pve_network_transmit_bytes_total",
                   "pve_disk_read_bytes_total", "pve_disk_written_bytes_total">>
           shared == <<"pve_storage_shared">>
           cpuNames == {"pve_cpu_usage_ratio", "pve_cpu_usage_limit",
                        "pve_memory_size_bytes", "pve_memory_usage_bytes"}
           ioNames == {"pve_network_receive_bytes_total", "pve_network_transmit_bytes_total",
                       "pve_disk_read_bytes_total", "pve_disk_written_bytes_total"}
<1> HIDE DEF cpu, io, time, shared, cpuNames, ioNames
<1>1. IsList(DiskMetrics) /\ ToSet(DiskMetrics) = DiskNames
  <2>1. DiskMetrics \in Seq(DiskNames) /\ Len(DiskMetrics) = 2 BY DEF DiskMetrics, DiskNames
  <2>2. IsList(DiskMetrics) /\ ToSet(DiskMetrics) \subseteq DiskNames BY <2>1, ListIntro
  <2>3. \A i \in 1 .. 2 : DiskMetrics[i] \in ToSet(DiskMetrics) BY <2>1, <2>2, ListFacts
  <2>4. DiskNames \subseteq ToSet(DiskMetrics)
    <3>1. DiskMetrics[1] \in ToSet(DiskMetrics) /\ DiskMetrics[2] \in ToSet(DiskMetrics)
      BY <2>3
    <3> QED BY <3>1 DEF DiskMetrics, DiskNames
  <2> QED BY <2>2, <2>4
<1>2. IsList(cpu) /\ ToSet(cpu) = cpuNames
  <2>1. cpu \in Seq(cpuNames) /\ Len(cpu) = 4 BY DEF cpu, cpuNames
  <2>2. IsList(cpu) /\ ToSet(cpu) \subseteq cpuNames BY <2>1, ListIntro
  <2>3. \A i \in 1 .. 4 : cpu[i] \in ToSet(cpu) BY <2>1, <2>2, ListFacts
  <2>4. cpuNames \subseteq ToSet(cpu)
    <3>1. cpu[1] \in ToSet(cpu) /\ cpu[2] \in ToSet(cpu) /\ cpu[3] \in ToSet(cpu) /\ cpu[4] \in ToSet(cpu)
      BY <2>3
    <3> QED BY <3>1 DEF cpu, cpuNames
  <2> QED BY <2>2, <2>4
<1>3. IsList(io) /\ ToSet(io) = ioNames
  <2>1. io \in Seq(ioNames) /\ Len(io) = 4 BY DEF io, ioNames
  <2>2. IsList(io) /\ ToSet(io) \subseteq ioNames BY <2>1, ListIntro
  <2>3. \A i \in 1 .. 4 : io[i] \in ToSet(io) BY <2>1, <2>2, ListFacts
  <2>4. ioNames \subseteq ToSet(io)
    <3>1. io[1] \in ToSet(io) /\ io[2] \in ToSet(io) /\ io[3] \in ToSet(io) /\ io[4] \in ToSet(io)
      BY <2>3
    <3> QED BY <3>1 DEF io, ioNames
  <2> QED BY <2>2, <2>4
<1>4. /\ IsList(time) /\ ToSet(time) = {"pve_uptime_seconds"}
      /\ IsList(shared) /\ ToSet(shared) = {"pve_storage_shared"}
  BY ListUnit DEF time, shared
<1>5. IsList(ReplicationMetrics) /\ ToSet(ReplicationMetrics) = ReplicationNames
  <2>1. ReplicationMetrics \in Seq(ReplicationNames) /\ Len(ReplicationMetrics) = 5
    BY DEF ReplicationMetrics, ReplicationNames
  <2>2. IsList(ReplicationMetrics) /\ ToSet(ReplicationMetrics) \subseteq ReplicationNames BY <2>1, ListIntro
  <2>3. \A i \in 1 .. 5 : ReplicationMetrics[i] \in ToSet(ReplicationMetrics) BY <2>1, <2>2, ListFacts
  <2>4. ReplicationNames \subseteq ToSet(ReplicationMetrics)
    <3>1. /\ ReplicationMetrics[1] \in ToSet(ReplicationMetrics) /\ ReplicationMetrics[2] \in ToSet(ReplicationMetrics)
          /\ ReplicationMetrics[3] \in ToSet(ReplicationMetrics) /\ ReplicationMetrics[4] \in ToSet(ReplicationMetrics)
          /\ ReplicationMetrics[5] \in ToSet(ReplicationMetrics)
      BY <2>3
    <3> QED BY <3>1 DEF ReplicationMetrics, ReplicationNames
  <2> QED BY <2>2, <2>4
<1>6. IsList(HostMetrics) /\ ToSet(HostMetrics) = HostNames
  <2>1. HostMetrics = (cpu \o DiskMetrics) \o time BY DEF HostMetrics, cpu, time
  <2>2. IsList(cpu \o DiskMetrics) /\ ToSet(cpu \o DiskMetrics) = ToSet(cpu) \cup ToSet(DiskMetrics)
    BY <1>1, <1>2, ListConcat
  <2>3. IsList(HostMetrics) /\ ToSet(HostMetrics) = ToSet(cpu \o DiskMetrics) \cup ToSet(time)
    BY <1>4, <2>1, <2>2, ListConcat
  <2> QED BY <1>1, <1>2, <1>4, <2>2, <2>3 DEF HostNames, cpuNames
<1>7. IsList(GuestMetrics) /\ ToSet(GuestMetrics) = GuestNames
  <2>1. GuestMetrics = HostMetrics \o io BY DEF GuestMetrics, io
  <2> QED BY <1>3, <1>6, <2>1, ListConcat DEF GuestNames, ioNames
<1>8. IsList(StorageMetrics) /\ ToSet(StorageMetrics) = StorageNames
  <2>1. StorageMetrics = DiskMetrics \o shared BY DEF StorageMetrics, shared
  <2> QED BY <1>1, <1>4, <2>1, ListConcat DEF StorageNames
<1> QED BY <1>5, <1>6, <1>7, <1>8

(* The names of all numbers. *)
LEMMA NumericNames ==
    Numeric = GuestNames \cup StorageNames \cup ReplicationNames
BY MetricLists DEF Numeric

(* The call a sample's name, or for a name of two calls its identity, tells of *)
SelfNames == {"pve_collection_duration_seconds", "pve_request_errors_total"}
CallOf(s) ==
    CASE s.name \in {"pve_node_info", "pve_cluster_info"} -> "status"
      [] s.name = "pve_version_info" -> "version"
      [] s.name \in {"pve_qdevice_up", "pve_qdevice_info"} -> "qdevice"
      [] s.name \in {"pve_not_backed_up_total", "pve_not_backed_up_info"} -> "backup"
      [] s.name \in ReplicationNames \cup {"pve_replication_info"} -> "replication"
      [] s.name \in {"pve_subscription_info", "pve_subscription_status",
                     "pve_subscription_next_due_timestamp_seconds"} -> "subscription"
      [] s.name = "pve_onboot_status" -> "onboot"
      [] s.name \in SelfNames -> "end"
      [] s.name = "pve_up" /\ s.labels[2][2][1] = "cluster" -> "end"
      [] s.name = "pve_ha_state" /\ s.labels[2][2][1] = "node" -> "ha"
      [] OTHER -> "resources"

(* What a call says of target c *)
Says(s, c, call) == Keyed(s, c) /\ CallOf(s) = call

(* A number of a row comes from /cluster/resources, one of a job from its      *)
(* status.                                                                     *)
LEMMA NumbersSay ==
    ASSUME NEW m, NEW v, NEW id
    PROVE  LET s == Sample(m, v, <<Id(id)>>)
           IN  /\ m \in GuestNames \cup StorageNames => Says(s, Name, "resources")
               /\ m \in ReplicationNames => Says(s, Name, "replication")
<1> DEFINE s == Sample(m, v, <<Id(id)>>)
<1>0. s = Sample(m, v, <<<<"id", id>>>>) BY DEF Id
<1> HIDE DEF s
<1>1. s.name = m /\ (KeysOf(m) = <<"cluster", "id">> => Keyed(s, Name))
  BY <1>0, Sample1
<1>2. m \in GuestNames \cup StorageNames \cup ReplicationNames => KeysOf(m) = <<"cluster", "id">>
  BY DEF KeysOf, Enums, GuestNames, HostNames, StorageNames, DiskNames, ReplicationNames
<1> HIDE DEF s
<1>3. m \in GuestNames \cup StorageNames => CallOf(s) = "resources"
  BY <1>1 DEF CallOf, GuestNames, HostNames, StorageNames, DiskNames, ReplicationNames, SelfNames
<1>4. m \in ReplicationNames => CallOf(s) = "replication"
  BY <1>1 DEF CallOf, GuestNames, HostNames, StorageNames, DiskNames, ReplicationNames, SelfNames
<1> QED BY <1>1, <1>2, <1>3, <1>4 DEF Says, s

-----------------------------------------------------------------------------
(* What each of the operators adds *)

(* A loop adds what its rounds add, in blocks *)
LEMMA Loop ==
    ASSUME NEW rows, IsList(rows), NEW ss, ss = [i \in DOMAIN rows |-> ss[i]],
           \A i \in 1 .. Len(rows) : IsList(ss[i])
    PROVE  /\ IsList(FlattenSeq(ss))
           /\ \A x : x \in ToSet(FlattenSeq(ss)) <=>
                       \E i \in 1 .. Len(rows) : x \in ToSet(ss[i])
           /\ MadeOf(FlattenSeq(ss), ss, Len(rows))
<1>1. Len(rows) \in Nat /\ DOMAIN rows = 1 .. Len(rows) BY ListFacts
<1>2. IsList(ss) /\ Len(ss) = Len(rows) BY <1>1, ListMade
<1> QED BY <1>1, <1>2, FlattenMadeOf, FlattenElements

(* add makes one sample. *)
LEMMA AddIs ==
    ASSUME NEW name, NEW v, NEW labels
    PROVE  /\ IsList(Add(name, v, labels)) /\ Len(Add(name, v, labels)) = 1
           /\ \A s : s \in ToSet(Add(name, v, labels)) <=> s = Sample(name, v, labels)
BY ListUnit DEF Add

(* addFlex makes a sample of each metric that has a number, and of no other. *)
LEMMA AddAllIs ==
    ASSUME NEW metrics, IsList(metrics), NEW json, NEW labels
    PROVE  /\ IsList(AddAll(metrics, json, labels))
           /\ \A s : s \in ToSet(AddAll(metrics, json, labels)) <=>
                       \E m \in ToSet(metrics) : \E v \in Flex(json[m]) : s = Sample(m, v, labels)
<1> DEFINE ss == [i \in DOMAIN metrics |-> AddFlex(metrics[i], json[metrics[i]], labels)]
<1>1. Len(metrics) \in Nat /\ DOMAIN metrics = 1 .. Len(metrics) BY ListFacts
<1>2. AddAll(metrics, json, labels) = FlattenSeq(ss) BY DEF AddAll, ForEach
<1>3. ASSUME NEW m, NEW j
      PROVE  /\ IsList(AddFlex(m, j, labels))
             /\ \A s : s \in ToSet(AddFlex(m, j, labels)) <=>
                         \E v \in Flex(j) : s = Sample(m, v, labels)
  <2>1. CASE Flex(j) = {}
    <3>1. AddFlex(m, j, labels) = <<>> BY <2>1 DEF AddFlex
    <3> QED BY <2>1, <3>1, ListEmpty
  <2>2. CASE Flex(j) # {}
    <3>1. PICK x : Flex(j) = {x} BY <2>2 DEF Flex
    <3>2. AddFlex(m, j, labels) = Add(m, x, labels) BY <3>1 DEF AddFlex
    <3> QED BY <3>1, <3>2, AddIs
  <2> QED BY <2>1, <2>2
<1>4. \A i \in 1 .. Len(metrics) : ss[i] = AddFlex(metrics[i], json[metrics[i]], labels)
  BY <1>1
<1>5. ss = [i \in DOMAIN metrics |-> ss[i]] OBVIOUS
<1> HIDE DEF ss
<1>6. /\ IsList(FlattenSeq(ss))
      /\ \A x : x \in ToSet(FlattenSeq(ss)) <=> \E i \in 1 .. Len(metrics) : x \in ToSet(ss[i])
  <2>1. \A i \in 1 .. Len(metrics) : IsList(ss[i]) BY <1>3, <1>4
  <2> QED BY <1>5, <2>1, Loop
<1>7. ASSUME NEW s
      PROVE  s \in ToSet(AddAll(metrics, json, labels)) <=>
               \E m \in ToSet(metrics) : \E v \in Flex(json[m]) : s = Sample(m, v, labels)
  <2>1. s \in ToSet(AddAll(metrics, json, labels)) <=>
          \E i \in 1 .. Len(metrics) : \E v \in Flex(json[metrics[i]]) :
              s = Sample(metrics[i], v, labels)
    <3>1. \A i \in 1 .. Len(metrics) :
             s \in ToSet(ss[i]) <=>
               \E v \in Flex(json[metrics[i]]) : s = Sample(metrics[i], v, labels)
      BY <1>3, <1>4
    <3> QED BY <1>2, <1>6, <3>1
  <2>2. /\ \A i \in 1 .. Len(metrics) : metrics[i] \in ToSet(metrics)
        /\ \A m \in ToSet(metrics) : \E i \in 1 .. Len(metrics) : m = metrics[i]
    BY ListFacts
  <2> QED BY <2>1, <2>2
<1> QED BY <1>2, <1>6, <1>7

(* addStateEnum makes a sample of each state, in the order of the states. *)
LEMMA AddStateEnumIs ==
    ASSUME NEW name, NEW id, NEW active, NEW states, IsList(states),
           NEW es, es = AddStateEnum(name, id, active, states)
    PROVE  /\ IsList(es) /\ Len(es) = Len(states)
           /\ \A i \in 1 .. Len(states) :
                 es[i] = Sample(name, BoolToFloat(states[i] = active),
                                <<Id(id), <<"state", states[i]>>>>)
           /\ \A s : s \in ToSet(es) <=>
                       \E st \in ToSet(states) :
                           s = Sample(name, BoolToFloat(st = active),
                                      <<Id(id), <<"state", st>>>>)
<1> DEFINE e(st) == Sample(name, BoolToFloat(st = active), <<Id(id), <<"state", st>>>>)
<1>1. Len(states) \in Nat /\ DOMAIN states = 1 .. Len(states) BY ListFacts
<1>2. es = [i \in 1 .. Len(states) |-> e(states[i])] BY <1>1 DEF AddStateEnum
<1> HIDE DEF e
<1>3. IsList(es) /\ Len(es) = Len(states) BY <1>1, <1>2, ListMade
<1>4. \A i \in 1 .. Len(states) : es[i] = e(states[i]) BY <1>2
<1>5. \A s : s \in ToSet(es) <=> \E st \in ToSet(states) : s = e(st)
  BY <1>1, <1>3, <1>4, ListFacts
<1> QED BY <1>3, <1>4, <1>5 DEF e

Distinct(s) == \A i, j \in 1 .. Len(s) : s[i] = s[j] => i = j

(* No state is listed twice. *)
LEMMA StateLists ==
    /\ IsList(HaNodeStates) /\ Distinct(HaNodeStates)
    /\ IsList(HaGuestStates) /\ Distinct(HaGuestStates)
    /\ IsList(LockStates) /\ Distinct(LockStates)
    /\ IsList(SubStates) /\ Distinct(SubStates)
<1>1. IsList(HaNodeStates) /\ Distinct(HaNodeStates)
  <2>1. HaNodeStates = [i \in 1 .. 5 |-> HaNodeStates[i]] BY DEF HaNodeStates
  <2>2. IsList(HaNodeStates) /\ Len(HaNodeStates) = 5 BY <2>1, ListMade
  <2>3. \A i, j \in 1 .. 5 : HaNodeStates[i] = HaNodeStates[j] => i = j BY DEF HaNodeStates
  <2> QED BY <2>2, <2>3 DEF Distinct
<1>2. IsList(HaGuestStates) /\ Distinct(HaGuestStates)
  <2>1. HaGuestStates = [i \in 1 .. 11 |-> HaGuestStates[i]] BY DEF HaGuestStates
  <2>2. IsList(HaGuestStates) /\ Len(HaGuestStates) = 11 BY <2>1, ListMade
  <2>3. \A i, j \in 1 .. 11 : HaGuestStates[i] = HaGuestStates[j] => i = j BY DEF HaGuestStates
  <2> QED BY <2>2, <2>3 DEF Distinct
<1>3. IsList(LockStates) /\ Distinct(LockStates)
  <2>1. LockStates = [i \in 1 .. 9 |-> LockStates[i]] BY DEF LockStates
  <2>2. IsList(LockStates) /\ Len(LockStates) = 9 BY <2>1, ListMade
  <2>3. \A i, j \in 1 .. 9 : LockStates[i] = LockStates[j] => i = j BY DEF LockStates
  <2> QED BY <2>2, <2>3 DEF Distinct
<1>4. IsList(SubStates) /\ Distinct(SubStates)
  <2>1. SubStates = [i \in 1 .. 6 |-> SubStates[i]] BY DEF SubStates
  <2>2. IsList(SubStates) /\ Len(SubStates) = 6 BY <2>1, ListMade
  <2>3. \A i, j \in 1 .. 6 : SubStates[i] = SubStates[j] => i = j BY DEF SubStates
  <2> QED BY <2>2, <2>3 DEF Distinct
<1> QED BY <1>1, <1>2, <1>3, <1>4

(* Enumerations: a whole one stands in a list, next to each other *)

(* After the first o samples of s come those of e's enumeration *)
EnumAt(s, o, e) ==
    LET states == EnumOf(e)
    IN  /\ o + Len(states) <= Len(s)
        /\ \A i \in 1 .. Len(states) :
              s[o + i] = [name |-> e.name, value |-> s[o + i].value,
                          labels |-> <<e.labels[1], e.labels[2], <<"state", states[i]>>>>]
        /\ \A i, j \in 1 .. Len(states) : s[o + i].value = 1 /\ s[o + j].value = 1 => i = j
        /\ states = HaNodeStates => \E i \in 1 .. Len(states) : s[o + i].value = 1

EnumsWhole(s) ==
    \A p \in 1 .. Len(s) : s[p].name \in Enums =>
        \E o \in Nat : p \in o + 1 .. o + Len(EnumOf(s[p])) /\ EnumAt(s, o, s[p])

(* An enumeration that is whole in a part is whole in the list the part        *)
(* stands in.                                                                  *)
LEMMA EnumShifted ==
    ASSUME NEW s, NEW b, IsList(s), IsList(b), NEW o \in Nat, At(s, o, b), EnumsWhole(b),
           NEW p \in o + 1 .. o + Len(b), s[p].name \in Enums
    PROVE  \E k \in Nat : p \in k + 1 .. k + Len(EnumOf(s[p])) /\ EnumAt(s, k, s[p])
<1> DEFINE q == p - o
           n == Len(EnumOf(s[p]))
<1>1. Len(b) \in Nat /\ Len(s) \in Nat BY ListFacts
<1>2. q \in 1 .. Len(b) /\ o + q = p BY <1>1
<1>3. s[p] = b[q] BY <1>2 DEF At
<1>4. PICK k \in Nat : q \in k + 1 .. k + n /\ EnumAt(b, k, b[q])
  BY <1>2, <1>3 DEF EnumsWhole
<1>5. n \in Nat
  <2>1. EnumOf(s[p]) \in {HaNodeStates, HaGuestStates, LockStates, SubStates} BY DEF EnumOf
  <2> QED BY <2>1, StateLists, ListFacts
<1>6. k + n <= Len(b) /\ o + Len(b) <= Len(s) BY <1>3, <1>4 DEF EnumAt, At
<1> HIDE DEF q, n
<1>7. (o + k) + n <= Len(s) /\ p \in (o + k) + 1 .. (o + k) + n BY <1>1, <1>2, <1>4, <1>5, <1>6
<1>8. \A i \in 1 .. n : s[(o + k) + i] = b[k + i]
  <2> TAKE i \in 1 .. n
  <2>1. k + i \in 1 .. Len(b) /\ (o + k) + i = o + (k + i) BY <1>1, <1>5, <1>6
  <2> QED BY <2>1 DEF At
<1>9. EnumAt(s, o + k, s[p]) BY <1>3, <1>4, <1>7, <1>8 DEF EnumAt, n
<1> QED BY <1>7, <1>9 DEF n

(* A list made of parts whose enumerations are whole has whole ones. *)
LEMMA EnumsMadeOf ==
    ASSUME NEW s, NEW ss, NEW n \in Nat, MadeOf(s, ss, n),
           \A i \in 1 .. n : IsList(ss[i]) /\ EnumsWhole(ss[i])
    PROVE  EnumsWhole(s)
<1> SUFFICES ASSUME NEW p \in 1 .. Len(s), s[p].name \in Enums
             PROVE  \E o \in Nat : p \in o + 1 .. o + Len(EnumOf(s[p])) /\ EnumAt(s, o, s[p])
  BY DEF EnumsWhole
<1>1. IsList(s) BY DEF MadeOf
<1>2. PICK i \in 1 .. n, o \in Nat : At(s, o, ss[i]) /\ p \in o + 1 .. o + Len(ss[i])
  BY DEF MadeOf
<1> QED BY <1>1, <1>2, EnumShifted

(* The same for two lists, one after the other. *)
LEMMA EnumsConcat ==
    ASSUME NEW s, NEW t, IsList(s), IsList(t), EnumsWhole(s), EnumsWhole(t)
    PROVE  EnumsWhole(s \o t)
<1> DEFINE u == s \o t
<1>1. Len(s) \in Nat /\ Len(t) \in Nat BY ListFacts
<1>2. IsList(u) /\ Len(u) = Len(s) + Len(t) BY ListConcat
<1>3. At(u, 0, s) /\ At(u, Len(s), t)
  <2>1. At(s, 0, s) /\ At(t, 0, t) BY <1>1 DEF At
  <2>2. Len(s) + 0 = Len(s) BY <1>1
  <2> QED BY <2>1, <2>2, AtConcat
<1> HIDE DEF u
<1> SUFFICES ASSUME NEW p \in 1 .. Len(u), u[p].name \in Enums
             PROVE  \E o \in Nat : p \in o + 1 .. o + Len(EnumOf(u[p])) /\ EnumAt(u, o, u[p])
  BY DEF EnumsWhole, u
<1>4. CASE p <= Len(s)
  <2>1. p \in 0 + 1 .. 0 + Len(s) BY <1>1, <1>4
  <2> QED BY <1>2, <1>3, <2>1, EnumShifted
<1>5. CASE ~(p <= Len(s))
  <2>1. p \in Len(s) + 1 .. Len(s) + Len(t) BY <1>1, <1>2, <1>5
  <2> QED BY <1>1, <1>2, <1>3, <2>1, EnumShifted
<1> QED BY <1>4, <1>5

(* A list without samples of an enumeration. *)
LEMMA NoEnums ==
    ASSUME NEW s, IsList(s), \A x \in ToSet(s) : x.name \notin Enums
    PROVE  EnumsWhole(s)
BY ListFacts DEF EnumsWhole

(* Only a node's HA state has the states of a node. *)
LEMMA StateNames ==
    HaGuestStates # HaNodeStates /\ LockStates # HaNodeStates /\ SubStates # HaNodeStates
<1>1. /\ HaNodeStates[1] = "online" /\ HaGuestStates[1] = "stopped"
      /\ LockStates[1] = "backup" /\ SubStates[1] = "new"
  BY DEF HaNodeStates, HaGuestStates, LockStates, SubStates
<1> QED BY <1>1

(* addStateEnum makes a whole enumeration: at most one state is active, and    *)
(* one is when the active one is listed.                                       *)
LEMMA AddStateEnumWhole ==
    ASSUME NEW name \in Enums, NEW id, NEW active, NEW states,
           states = IF name = "pve_lock_state" THEN LockStates
                    ELSE IF name = "pve_subscription_status" THEN SubStates
                    ELSE IF id[1] = "node" THEN HaNodeStates ELSE HaGuestStates,
           states = HaNodeStates => active \in ToSet(HaNodeStates),
           NEW es, es = AddStateEnum(name, id, active, states)
    PROVE  IsList(es) /\ EnumsWhole(es)
<1> DEFINE n == Len(states)
<1>1. IsList(states) /\ Distinct(states) /\ n \in Nat
  BY StateLists, ListFacts
<1>2. /\ IsList(es) /\ Len(es) = n
      /\ \A i \in 1 .. n :
            es[i] = Sample(name, BoolToFloat(states[i] = active), <<Id(id), <<"state", states[i]>>>>)
  BY <1>1, AddStateEnumIs
<1>3. ASSUME NEW i \in 1 .. n
      PROVE  /\ es[i] = [name |-> name, value |-> es[i].value,
                         labels |-> <<<<"cluster", Name>>, Id(id), <<"state", states[i]>>>>]
             /\ es[i].name = name
             /\ es[i].labels = <<<<"cluster", Name>>, Id(id), <<"state", states[i]>>>>
             /\ es[i].value = 1 <=> states[i] = active
  <2>1. es[i] = Sample(name, BoolToFloat(states[i] = active), <<<<"id", id>>, <<"state", states[i]>>>>)
    BY <1>2 DEF Id
  <2>2. /\ es[i].name = name /\ es[i].value = BoolToFloat(states[i] = active)
        /\ es[i].labels = <<<<"cluster", Name>>, <<"id", id>>, <<"state", states[i]>>>>
        /\ es[i] = [name |-> es[i].name, value |-> es[i].value, labels |-> es[i].labels]
    BY <2>1, Sample2
  <2> QED BY <2>2 DEF Id, BoolToFloat
<1>4. SUFFICES ASSUME NEW p \in 1 .. Len(es), es[p].name \in Enums
               PROVE  \E o \in Nat : p \in o + 1 .. o + Len(EnumOf(es[p])) /\ EnumAt(es, o, es[p])
  BY <1>2 DEF EnumsWhole
<1>9. p \in 1 .. n BY <1>2
<1>10. /\ es[p].name = name
       /\ es[p].labels = <<<<"cluster", Name>>, Id(id), <<"state", states[p]>>>>
  BY <1>3, <1>9
<1>5. EnumOf(es[p]) = states
  <2>1. /\ es[p].name = name
        /\ es[p].labels = <<<<"cluster", Name>>, <<"id", id>>, <<"state", states[p]>>>>
    BY <1>10 DEF Id
  <2>2. es[p].labels[2][2][1] = id[1] BY <2>1
  <2> QED BY <2>1, <2>2 DEF EnumOf, Enums
<1>6. EnumAt(es, 0, es[p])
  <2>1. \A i \in 1 .. n : 0 + i = i BY <1>1
  <2>2. \A i \in 1 .. n : es[0 + i] =
           [name |-> es[p].name, value |-> es[0 + i].value,
            labels |-> <<es[p].labels[1], es[p].labels[2], <<"state", states[i]>>>>]
    <3>1. es[p].labels[1] = <<"cluster", Name>> /\ es[p].labels[2] = Id(id) BY <1>10
    <3> QED BY <1>3, <1>10, <2>1, <3>1
  <2>3. \A i, j \in 1 .. n : es[0 + i].value = 1 /\ es[0 + j].value = 1 => i = j
    <3>1. \A i, j \in 1 .. n : states[i] = states[j] => i = j BY <1>1 DEF Distinct
    <3>2. \A i \in 1 .. n : es[0 + i].value = 1 => states[i] = active BY <1>3, <2>1
    <3> HIDE DEF n
    <3> QED BY <3>1, <3>2
  <2>4. states = HaNodeStates => \E i \in 1 .. n : es[0 + i].value = 1
    <3> HAVE states = HaNodeStates
    <3>1. PICK i \in 1 .. n : states[i] = active BY <1>1, ListFacts
    <3> QED BY <1>3, <2>1, <3>1
  <2>5. 0 + n <= Len(es) BY <1>1, <1>2
  <2> QED BY <1>5, <2>2, <2>3, <2>4, <2>5 DEF EnumAt
<1>7. p \in 0 + 1 .. 0 + Len(EnumOf(es[p])) BY <1>1, <1>2, <1>5
<1> QED BY <1>6, <1>7

(* A call that tells of no numbers, or of no enumerations *)
LEMMA NamesOfCalls ==
    ASSUME NEW s
    PROVE  /\ CallOf(s) \notin {"resources", "replication"} => s.name \notin Numeric
           /\ CallOf(s) \notin {"resources", "ha", "subscription"} => s.name \notin Enums
           /\ CallOf(s) # "end" => s.name \notin SelfNames
           /\ CallOf(s) \notin {"resources", "end"} => s.name # "pve_up"
<1>1. s.name \in GuestNames \cup StorageNames => CallOf(s) = "resources"
  BY DEF CallOf, GuestNames, HostNames, DiskNames, StorageNames, ReplicationNames, SelfNames
<1>2. s.name \in ReplicationNames => CallOf(s) = "replication"
  BY DEF CallOf, ReplicationNames, SelfNames
<1>3. s.name \in Enums => CallOf(s) \in {"resources", "ha", "subscription"}
  BY DEF CallOf, Enums, ReplicationNames, SelfNames
<1>4. s.name \in SelfNames => CallOf(s) = "end"
  BY DEF CallOf, ReplicationNames, SelfNames
<1>5. s.name = "pve_up" => CallOf(s) \in {"resources", "end"}
  BY DEF CallOf, ReplicationNames, SelfNames
<1> QED BY <1>1, <1>2, <1>3, <1>4, <1>5, NumericNames

(* A sample of an enumeration has the keys of its name, and tells whether its  *)
(* state is active.                                                            *)
LEMMA EnumMembers ==
    ASSUME NEW name \in Enums, NEW id, NEW active, NEW states, IsList(states)
    PROVE  \A s \in ToSet(AddStateEnum(name, id, active, states)) :
              /\ s.name = name /\ s.name \notin Numeric /\ Keyed(s, Name)
              /\ s.labels[2] = Id(id) /\ s.labels[3][2] \in ToSet(states)
              /\ s.value = BoolToFloat(s.labels[3][2] = active)
<1> DEFINE es == AddStateEnum(name, id, active, states)
<1> SUFFICES ASSUME NEW s \in ToSet(es)
             PROVE  /\ s.name = name /\ s.name \notin Numeric /\ Keyed(s, Name)
                    /\ s.labels[2] = Id(id) /\ s.labels[3][2] \in ToSet(states)
                    /\ s.value = BoolToFloat(s.labels[3][2] = active)
  OBVIOUS
<1>0. es = AddStateEnum(name, id, active, states) OBVIOUS
<1> HIDE DEF es
<1>1. PICK st \in ToSet(states) :
         s = Sample(name, BoolToFloat(st = active), <<Id(id), <<"state", st>>>>)
  BY <1>0, AddStateEnumIs
<1>2. KeysOf(name) = <<"cluster", "id", "state">> BY DEF KeysOf, Enums
<1>3. /\ s.name = name /\ s.value = BoolToFloat(st = active)
      /\ s.labels[2] = <<"id", id>> /\ s.labels[3] = <<"state", st>>
      /\ Keyed(s, Name)
  BY <1>1, <1>2, Sample2 DEF Id
<1>4. s.name \notin Numeric
  BY <1>3, NumericNames
     DEF Enums, GuestNames, HostNames, DiskNames, StorageNames, ReplicationNames
<1> QED BY <1>3, <1>4 DEF Id

(* The value a row gives a sample of its own *)
RowValue(r, s) ==
    IF s.name = "pve_up" THEN BoolToFloat(r.status = UpStatus[r.type])
    ELSE IF s.name = "pve_ha_state" THEN BoolToFloat(s.labels[3][2] = r.hastate)
    ELSE IF s.name = "pve_lock_state" THEN BoolToFloat(s.labels[3][2] = r.lock)
    ELSE 1

(* Samples of a guest, its numbers aside: its identity, and values the row     *)
(* determines.                                                                 *)
LEMMA GuestMembers ==
    ASSUME NEW r, r.type \in {"qemu", "lxc"}, r.id[1] = r.type
    PROVE  /\ IsList(GuestSamples(r)) /\ EnumsWhole(GuestSamples(r))
           /\ \A s \in ToSet(GuestSamples(r)) :
                 /\ Says(s, Name, "resources") /\ s.labels[2] = Id(r.id)
                 /\ s.name \notin Numeric /\ s.value = RowValue(r, s)
<1> DEFINE ha == IF r.hastate = "" THEN <<>>
                 ELSE AddStateEnum("pve_ha_state", r.id, r.hastate, HaGuestStates)
           lock == IF r.lock = "" THEN <<>>
                   ELSE AddStateEnum("pve_lock_state", r.id, r.lock, LockStates)
           info == Add("pve_guest_info", 1,
                       <<Id(r.id), <<"node", r.node>>, <<"type", r.type>>,
                         <<"template", Flex(r.template) = {1}>>>>)
           P(s) == /\ Says(s, Name, "resources") /\ s.labels[2] = Id(r.id)
                   /\ s.name \notin Numeric /\ s.value = RowValue(r, s)
<1>1. GuestSamples(r) = (ha \o lock) \o info BY DEF GuestSamples
<1>2. IsList(ha) /\ EnumsWhole(ha) /\ \A s \in ToSet(ha) : P(s)
  <2>1. CASE r.hastate = ""
    <3>1. ha = <<>> BY <2>1
    <3> QED BY <3>1, ListEmpty, NoEnums
  <2>2. CASE r.hastate # ""
    <3>1. "pve_ha_state" \in Enums /\ IsList(HaGuestStates) BY StateLists DEF Enums
    <3>2. ha = AddStateEnum("pve_ha_state", r.id, r.hastate, HaGuestStates) BY <2>2
    <3>6. IsList(ha) /\ EnumsWhole(ha) BY <3>1, <3>2, StateNames, AddStateEnumWhole
    <3> SUFFICES ASSUME NEW s \in ToSet(ha) PROVE P(s) BY <3>6
    <3> HIDE DEF ha
    <3>3. /\ s.name = "pve_ha_state" /\ s.name \notin Numeric /\ Keyed(s, Name)
          /\ s.labels[2] = Id(r.id) /\ s.value = BoolToFloat(s.labels[3][2] = r.hastate)
      BY <3>1, <3>2, EnumMembers
    <3>4. CallOf(s) = "resources" BY <3>3 DEF CallOf, ReplicationNames, SelfNames, Id
    <3>5. s.value = RowValue(r, s) BY <3>3 DEF RowValue
    <3> QED BY <3>3, <3>4, <3>5 DEF Says
  <2> QED BY <2>1, <2>2
<1>3. IsList(lock) /\ EnumsWhole(lock) /\ \A s \in ToSet(lock) : P(s)
  <2>1. CASE r.lock = ""
    <3>1. lock = <<>> BY <2>1
    <3> QED BY <3>1, ListEmpty, NoEnums
  <2>2. CASE r.lock # ""
    <3>1. "pve_lock_state" \in Enums /\ IsList(LockStates) BY StateLists DEF Enums
    <3>2. lock = AddStateEnum("pve_lock_state", r.id, r.lock, LockStates) BY <2>2
    <3>6. IsList(lock) /\ EnumsWhole(lock) BY <3>1, <3>2, StateNames, AddStateEnumWhole
    <3> SUFFICES ASSUME NEW s \in ToSet(lock) PROVE P(s) BY <3>6
    <3> HIDE DEF lock
    <3>3. /\ s.name = "pve_lock_state" /\ s.name \notin Numeric /\ Keyed(s, Name)
          /\ s.labels[2] = Id(r.id) /\ s.value = BoolToFloat(s.labels[3][2] = r.lock)
      BY <3>1, <3>2, EnumMembers
    <3>4. CallOf(s) = "resources" BY <3>3 DEF CallOf, ReplicationNames, SelfNames, Id
    <3>5. s.value = RowValue(r, s) BY <3>3 DEF RowValue
    <3> QED BY <3>3, <3>4, <3>5 DEF Says
  <2> QED BY <2>1, <2>2
<1>4. IsList(info) /\ EnumsWhole(info) /\ \A s \in ToSet(info) : P(s)
  <2>1. /\ IsList(info)
        /\ \A s \in ToSet(info) :
              s = Sample("pve_guest_info", 1,
                         <<<<"id", r.id>>, <<"node", r.node>>, <<"type", r.type>>,
                           <<"template", Flex(r.template) = {1}>>>>)
    BY AddIs DEF Id
  <2> SUFFICES ASSUME NEW s \in ToSet(info) PROVE P(s) /\ s.name \notin Enums
    BY <2>1, NoEnums
  <2> HIDE DEF info
  <2> DEFINE tmpl == Flex(r.template) = {1}
  <2>2. s = Sample("pve_guest_info", 1,
                   <<<<"id", r.id>>, <<"node", r.node>>, <<"type", r.type>>,
                     <<"template", tmpl>>>>)
    BY <2>1
  <2> HIDE DEF tmpl
  <2>3. KeysOf("pve_guest_info") = <<"cluster", "id", "node", "type", "template">>
    BY DEF KeysOf, Enums
  <2>4. s.name = "pve_guest_info" /\ s.value = 1 /\ s.labels[2] = <<"id", r.id>> /\ Keyed(s, Name)
    BY <2>2, <2>3, Sample4
  <2>5. CallOf(s) = "resources" BY <2>4 DEF CallOf, ReplicationNames, SelfNames
  <2>6. s.name \notin Numeric
    BY <2>4, NumericNames DEF GuestNames, HostNames, DiskNames, StorageNames, ReplicationNames
  <2>7. s.value = RowValue(r, s) BY <2>4 DEF RowValue
  <2>8. s.name \notin Enums BY <2>4 DEF Enums
  <2> QED BY <2>4, <2>5, <2>6, <2>7, <2>8 DEF Says, Id
<1> HIDE DEF ha, lock, info, P
<1>5. /\ IsList(ha \o lock) /\ EnumsWhole(ha \o lock)
      /\ ToSet(ha \o lock) = ToSet(ha) \cup ToSet(lock)
  BY <1>2, <1>3, ListConcat, EnumsConcat
<1>6. /\ IsList(GuestSamples(r)) /\ EnumsWhole(GuestSamples(r))
      /\ ToSet(GuestSamples(r)) = ToSet(ha \o lock) \cup ToSet(info)
  BY <1>1, <1>4, <1>5, ListConcat, EnumsConcat
<1>7. \A s \in ToSet(GuestSamples(r)) : P(s) BY <1>2, <1>3, <1>4, <1>5, <1>6
<1> QED BY <1>6, <1>7 DEF P

(* Samples of a row of /cluster/resources: the numbers the row has and no      *)
(* other, and values the row determines.                                       *)
LEMMA ResourceMembers ==
    ASSUME NEW r, IsRow(r)
    PROVE  /\ IsList(ResourceSamples(r)) /\ EnumsWhole(ResourceSamples(r))
           /\ \A s \in ToSet(ResourceSamples(r)) :
                 /\ Says(s, Name, "resources") /\ s.labels[2] = Id(r.id)
                 /\ s.name \in Numeric => s.name \in DOMAIN r.json /\ s.value \in Flex(r.json[s.name])
                 /\ s.name \notin Numeric => s.value = RowValue(r, s)
           /\ \A m \in DOMAIN r.json : \A v \in Flex(r.json[m]) :
                 \E s \in ToSet(ResourceSamples(r)) : s.name = m /\ s.value = v
<1> DEFINE P(s) == /\ Says(s, Name, "resources") /\ s.labels[2] = Id(r.id)
                   /\ s.name \in Numeric => s.name \in DOMAIN r.json /\ s.value \in Flex(r.json[s.name])
                   /\ s.name \notin Numeric => s.value = RowValue(r, s)
<1>0. DOMAIN UpStatus = {"node", "qemu", "lxc", "storage"} /\ DOMAIN Metrics = DOMAIN UpStatus
  BY DEF UpStatus, Metrics
<1>1. CASE r.type \notin DOMAIN UpStatus
  <2>1. ResourceSamples(r) = <<>> BY <1>1 DEF ResourceSamples
  <2>2. DOMAIN r.json = {} BY <1>0, <1>1 DEF IsRow
  <2> QED BY <2>1, <2>2, ListEmpty, NoEnums
<1>2. CASE r.type \in DOMAIN UpStatus
  <2> DEFINE up1 == Add("pve_up", BoolToFloat(r.status = UpStatus[r.type]), <<Id(r.id)>>)
             numbers == AddAll(Metrics[r.type], r.json, <<Id(r.id)>>)
             rest == CASE r.type \in {"qemu", "lxc"} -> GuestSamples(r)
                       [] r.type = "storage" ->
                            Add("pve_storage_info", 1, <<Id(r.id), <<"node", r.node>>>>)
                       [] r.type = "node" -> <<>>
  <2>1. ResourceSamples(r) = (up1 \o numbers) \o rest BY <1>2 DEF ResourceSamples
  <2>2. IsList(up1) /\ EnumsWhole(up1) /\ \A s \in ToSet(up1) : P(s)
    <3> DEFINE v == BoolToFloat(r.status = UpStatus[r.type])
    <3>1. IsList(up1) /\ \A s \in ToSet(up1) : s = Sample("pve_up", v, <<<<"id", r.id>>>>)
      BY AddIs DEF Id
    <3> SUFFICES ASSUME NEW s \in ToSet(up1) PROVE P(s) /\ s.name \notin Enums
      BY <3>1, NoEnums
    <3>2. s = Sample("pve_up", v, <<<<"id", r.id>>>>) BY <3>1
    <3>3. s.name = "pve_up" /\ s.value = v => s.value = RowValue(r, s) BY DEF RowValue
    <3> HIDE DEF up1, v
    <3>4. KeysOf("pve_up") = <<"cluster", "id">> BY DEF KeysOf, Enums
    <3>5. s.name = "pve_up" /\ s.value = v /\ s.labels[2] = <<"id", r.id>> /\ Keyed(s, Name)
      BY <3>2, <3>4, Sample1
    <3>6. CallOf(s) = "resources" BY <3>5 DEF CallOf, ReplicationNames, SelfNames, IsRow
    <3>7. s.name \notin Numeric
      BY <3>5, NumericNames DEF GuestNames, HostNames, DiskNames, StorageNames, ReplicationNames
    <3>8. s.name \notin Enums BY <3>5 DEF Enums
    <3> QED BY <3>3, <3>5, <3>6, <3>7, <3>8 DEF Says, Id
  <2>3. /\ IsList(Metrics[r.type]) /\ ToSet(Metrics[r.type]) = DOMAIN r.json
        /\ DOMAIN r.json \subseteq GuestNames \cup StorageNames
    <3>1. DOMAIN r.json = ToSet(Metrics[r.type]) BY <1>0, <1>2 DEF IsRow
    <3>2. Metrics[r.type] \in {HostMetrics, GuestMetrics, StorageMetrics}
      BY <1>0, <1>2 DEF Metrics
    <3> QED BY <3>1, <3>2, MetricLists DEF GuestNames
  <2>4. /\ IsList(numbers)
        /\ \A s : s \in ToSet(numbers) <=>
                    \E m \in DOMAIN r.json : \E v \in Flex(r.json[m]) : s = Sample(m, v, <<Id(r.id)>>)
    BY <2>3, AddAllIs
  <2> HIDE DEF up1, numbers
  <2>5. ASSUME NEW m \in DOMAIN r.json, NEW v \in Flex(r.json[m]),
               NEW s, s = Sample(m, v, <<Id(r.id)>>)
        PROVE  P(s) /\ s.name = m /\ s.value = v
    <3>1. Says(s, Name, "resources") BY <2>3, <2>5, NumbersSay
    <3>2. s = Sample(m, v, <<<<"id", r.id>>>>) BY <2>5 DEF Id
    <3>3. s.name = m /\ s.value = v /\ s.labels[2] = <<"id", r.id>> BY <3>2, Sample1
    <3>4. m \in Numeric BY <2>3, NumericNames
    <3> QED BY <3>1, <3>3, <3>4 DEF Id
  <2>6. IsList(rest) /\ EnumsWhole(rest) /\ \A s \in ToSet(rest) : P(s)
    <3>1. CASE r.type \in {"qemu", "lxc"}
      <4>1. rest = GuestSamples(r) BY <3>1
      <4>2. r.id[1] = r.type BY DEF IsRow
      <4> HIDE DEF rest
      <4> QED BY <3>1, <4>1, <4>2, GuestMembers
    <3>2. CASE r.type = "storage"
      <4>1. rest = Add("pve_storage_info", 1, <<<<"id", r.id>>, <<"node", r.node>>>>)
        BY <3>2 DEF Id
      <4> HIDE DEF rest
      <4>2. /\ IsList(rest)
            /\ \A s \in ToSet(rest) :
                  s = Sample("pve_storage_info", 1, <<<<"id", r.id>>, <<"node", r.node>>>>)
        BY <4>1, AddIs
      <4> SUFFICES ASSUME NEW s \in ToSet(rest) PROVE P(s) /\ s.name \notin Enums
        BY <4>2, NoEnums
      <4>3. KeysOf("pve_storage_info") = <<"cluster", "id", "node">> BY DEF KeysOf, Enums
      <4>4. /\ s.name = "pve_storage_info" /\ s.value = 1 /\ s.labels[2] = <<"id", r.id>>
            /\ Keyed(s, Name)
        BY <4>2, <4>3, Sample2
      <4>5. CallOf(s) = "resources" BY <4>4 DEF CallOf, ReplicationNames, SelfNames
      <4>6. s.name \notin Numeric
        BY <4>4, NumericNames DEF GuestNames, HostNames, DiskNames, StorageNames, ReplicationNames
      <4>7. s.value = RowValue(r, s) BY <4>4 DEF RowValue
      <4>8. s.name \notin Enums BY <4>4 DEF Enums
      <4> QED BY <4>4, <4>5, <4>6, <4>7, <4>8 DEF Says, Id
    <3>3. CASE r.type = "node"
      <4>1. rest = <<>> BY <3>3
      <4> QED BY <4>1, ListEmpty, NoEnums
    <3> QED BY <1>0, <1>2, <3>1, <3>2, <3>3
  <2> HIDE DEF rest, P
  <2>9. EnumsWhole(numbers) /\ \A s \in ToSet(numbers) : P(s)
    <3>1. \A s \in ToSet(numbers) : P(s) /\ s.name \in DOMAIN r.json BY <2>4, <2>5
    <3>2. \A m \in DOMAIN r.json : m \notin Enums
      BY <2>3 DEF Enums, GuestNames, HostNames, DiskNames, StorageNames
    <3> QED BY <2>4, <3>1, <3>2, NoEnums
  <2>7. /\ IsList(up1 \o numbers) /\ EnumsWhole(up1 \o numbers)
        /\ ToSet(up1 \o numbers) = ToSet(up1) \cup ToSet(numbers)
    BY <2>2, <2>4, <2>9, ListConcat, EnumsConcat
  <2>8. /\ IsList(ResourceSamples(r)) /\ EnumsWhole(ResourceSamples(r))
        /\ ToSet(ResourceSamples(r)) = ToSet(up1 \o numbers) \cup ToSet(rest)
    BY <2>1, <2>6, <2>7, ListConcat, EnumsConcat
  <2>10. \A s \in ToSet(ResourceSamples(r)) : P(s) BY <2>2, <2>6, <2>7, <2>8, <2>9
  <2>11. \A m \in DOMAIN r.json : \A v \in Flex(r.json[m]) :
            \E s \in ToSet(ResourceSamples(r)) : s.name = m /\ s.value = v
    BY <2>4, <2>5, <2>7, <2>8
  <2> QED BY <2>8, <2>10, <2>11 DEF P
<1> QED BY <1>1, <1>2

(* Samples of an entry of /cluster/status. *)
LEMMA StatusMembers ==
    ASSUME NEW e
    PROVE  /\ IsList(StatusSamples(e))
           /\ \A s \in ToSet(StatusSamples(e)) : Says(s, Name, "status") /\ s.value = 1
<1> DEFINE x == Flex(e.number)
<1>1. CASE e.type = "node"
  <2>1. StatusSamples(e) = Add("pve_node_info", 1, <<<<"id", e.id>>, <<"nodeid", x>>>>)
    BY <1>1 DEF StatusSamples, Id
  <2> HIDE DEF x
  <2> SUFFICES ASSUME NEW s, s = Sample("pve_node_info", 1, <<<<"id", e.id>>, <<"nodeid", x>>>>)
               PROVE  Says(s, Name, "status") /\ s.value = 1
    BY <2>1, AddIs
  <2>2. KeysOf("pve_node_info") = <<"cluster", "id", "nodeid">> BY DEF KeysOf, Enums
  <2>3. s.name = "pve_node_info" /\ s.value = 1 /\ Keyed(s, Name) BY <2>2, Sample2
  <2> QED BY <2>3 DEF Says, CallOf, ReplicationNames, SelfNames
<1>2. CASE e.type = "cluster"
  <2>1. StatusSamples(e) = Add("pve_cluster_info", 1, <<<<"id", e.id>>, <<"nodes", x>>>>)
    BY <1>2 DEF StatusSamples, Id
  <2> HIDE DEF x
  <2> SUFFICES ASSUME NEW s, s = Sample("pve_cluster_info", 1, <<<<"id", e.id>>, <<"nodes", x>>>>)
               PROVE  Says(s, Name, "status") /\ s.value = 1
    BY <2>1, AddIs
  <2>2. KeysOf("pve_cluster_info") = <<"cluster", "id", "nodes">> BY DEF KeysOf, Enums
  <2>3. s.name = "pve_cluster_info" /\ s.value = 1 /\ Keyed(s, Name) BY <2>2, Sample2
  <2> QED BY <2>3 DEF Says, CallOf, ReplicationNames, SelfNames
<1>3. CASE e.type \notin {"node", "cluster"}
  <2>1. StatusSamples(e) = <<>> BY <1>3 DEF StatusSamples
  <2> QED BY <2>1, ListEmpty
<1> QED BY <1>1, <1>2, <1>3

(* Samples of the answer to /version. *)
LEMMA VersionMembers ==
    ASSUME NEW v
    PROVE  LET samples == Add("pve_version_info", 1, <<<<"version", v>>>>)
           IN  /\ IsList(samples)
               /\ \A s \in ToSet(samples) : Says(s, Name, "version") /\ s.value = 1
<1> SUFFICES ASSUME NEW s, s = Sample("pve_version_info", 1, <<<<"version", v>>>>)
             PROVE  Says(s, Name, "version") /\ s.value = 1
  BY AddIs
<1>1. KeysOf("pve_version_info") = <<"cluster", "version">> BY DEF KeysOf, Enums
<1>2. s.name = "pve_version_info" /\ s.value = 1 /\ Keyed(s, Name) BY <1>1, Sample1
<1> QED BY <1>2 DEF Says, CallOf, ReplicationNames, SelfNames

(* Samples of the answer about the QDevice. *)
LEMMA QDeviceMembers ==
    ASSUME NEW q
    PROVE  /\ IsList(QDeviceSamples(q))
           /\ \A s \in ToSet(QDeviceSamples(q)) : Says(s, Name, "qdevice") /\ s.value = 1
<1>1. CASE q.model = ""
  <2>1. QDeviceSamples(q) = <<>> BY <1>1 DEF QDeviceSamples
  <2> QED BY <2>1, ListEmpty
<1>2. CASE q.model # ""
  <2> DEFINE id == <<"cluster", clusterID>>
             there == Add("pve_qdevice_up", 1, <<<<"id", id>>>>)
             info == Add("pve_qdevice_info", 1, <<<<"id", id>>, <<"model", q.model>>>>)
  <2>1. QDeviceSamples(q) = there \o info BY <1>2 DEF QDeviceSamples, Id
  <2> HIDE DEF id
  <2>2. /\ IsList(there)
        /\ \A s \in ToSet(there) : s = Sample("pve_qdevice_up", 1, <<<<"id", id>>>>)
    BY AddIs
  <2>3. /\ IsList(info)
        /\ \A s \in ToSet(info) :
              s = Sample("pve_qdevice_info", 1, <<<<"id", id>>, <<"model", q.model>>>>)
    BY AddIs
  <2> HIDE DEF there, info
  <2>4. ASSUME NEW s \in ToSet(there) PROVE Says(s, Name, "qdevice") /\ s.value = 1
    <3>1. KeysOf("pve_qdevice_up") = <<"cluster", "id">> BY DEF KeysOf, Enums
    <3>2. s.name = "pve_qdevice_up" /\ s.value = 1 /\ Keyed(s, Name) BY <2>2, <3>1, Sample1
    <3> QED BY <3>2 DEF Says, CallOf, ReplicationNames, SelfNames
  <2>5. ASSUME NEW s \in ToSet(info) PROVE Says(s, Name, "qdevice") /\ s.value = 1
    <3>1. KeysOf("pve_qdevice_info") = <<"cluster", "id", "model">> BY DEF KeysOf, Enums
    <3>2. s.name = "pve_qdevice_info" /\ s.value = 1 /\ Keyed(s, Name) BY <2>3, <3>1, Sample2
    <3> QED BY <3>2 DEF Says, CallOf, ReplicationNames, SelfNames
  <2>6. /\ IsList(QDeviceSamples(q))
        /\ ToSet(QDeviceSamples(q)) = ToSet(there) \cup ToSet(info)
    BY <2>1, <2>2, <2>3, ListConcat
  <2> QED BY <2>4, <2>5, <2>6
<1> QED BY <1>1, <1>2

(* Samples of a guest that is not backed up. *)
LEMMA NotBackedUpMembers ==
    ASSUME NEW g
    PROVE  /\ IsList(NotBackedUpSamples(g))
           /\ \A s \in ToSet(NotBackedUpSamples(g)) :
                 Says(s, Name, "backup") /\ s.name = "pve_not_backed_up_info" /\ s.value = 1
<1>1. CASE Flex(g.vmid) = {} \/ g.type = ""
  <2>1. NotBackedUpSamples(g) = <<>> BY <1>1 DEF NotBackedUpSamples
  <2> QED BY <2>1, ListEmpty
<1>2. CASE ~(Flex(g.vmid) = {} \/ g.type = "")
  <2> DEFINE id == <<g.type, CHOOSE v \in Flex(g.vmid) : TRUE>>
  <2>1. NotBackedUpSamples(g) = Add("pve_not_backed_up_info", 1, <<<<"id", id>>>>)
    BY <1>2 DEF NotBackedUpSamples, Id
  <2> HIDE DEF id
  <2> SUFFICES ASSUME NEW s, s = Sample("pve_not_backed_up_info", 1, <<<<"id", id>>>>)
               PROVE  Says(s, Name, "backup") /\ s.name = "pve_not_backed_up_info" /\ s.value = 1
    BY <2>1, AddIs
  <2>2. KeysOf("pve_not_backed_up_info") = <<"cluster", "id">> BY DEF KeysOf, Enums
  <2>3. s.name = "pve_not_backed_up_info" /\ s.value = 1 /\ Keyed(s, Name) BY <2>2, Sample1
  <2> QED BY <2>3 DEF Says, CallOf, ReplicationNames, SelfNames
<1> QED BY <1>1, <1>2

(* The number of such guests. *)
LEMMA BackupTotalMembers ==
    ASSUME NEW n
    PROVE  LET samples == Add("pve_not_backed_up_total", n, <<Id(<<"cluster", clusterID>>)>>)
           IN  /\ IsList(samples)
               /\ \A s \in ToSet(samples) :
                     Says(s, Name, "backup") /\ s.name = "pve_not_backed_up_total" /\ s.value = n
<1> DEFINE id == <<"cluster", clusterID>>
<1>1. Id(id) = <<"id", id>> BY DEF Id
<1> HIDE DEF id
<1> SUFFICES ASSUME NEW s, s = Sample("pve_not_backed_up_total", n, <<<<"id", id>>>>)
             PROVE  Says(s, Name, "backup") /\ s.name = "pve_not_backed_up_total" /\ s.value = n
  BY <1>1, AddIs DEF id
<1>2. KeysOf("pve_not_backed_up_total") = <<"cluster", "id">> BY DEF KeysOf, Enums
<1>3. s.name = "pve_not_backed_up_total" /\ s.value = n /\ Keyed(s, Name) BY <1>2, Sample1
<1> QED BY <1>3 DEF Says, CallOf, ReplicationNames, SelfNames

(* Samples of an entry of /cluster/ha/status/current: those of a node's        *)
(* state.                                                                      *)
LEMMA HAMembers ==
    ASSUME NEW e
    PROVE  /\ IsList(HASamples(e)) /\ EnumsWhole(HASamples(e))
           /\ \A s \in ToSet(HASamples(e)) :
                 /\ Says(s, Name, "ha") /\ IsNodeState(e)
                 /\ s.name = "pve_ha_state" /\ s.labels[2] = Id(<<"node", e.node>>)
                 /\ s.value = BoolToFloat(s.labels[3][2] = Canonical(e.status))
<1>1. CASE ~IsNodeState(e)
  <2>1. HASamples(e) = <<>> BY <1>1 DEF HASamples
  <2> QED BY <2>1, ListEmpty, NoEnums
<1>2. CASE IsNodeState(e)
  <2> DEFINE es == HASamples(e)
  <2>1. es = AddStateEnum("pve_ha_state", <<"node", e.node>>, Canonical(e.status), HaNodeStates)
    BY <1>2 DEF HASamples
  <2>2. "pve_ha_state" \in Enums BY DEF Enums
  <2> HIDE DEF es
  <2>3. IsList(es) /\ EnumsWhole(es)
    <3>1. Canonical(e.status) # "" BY <1>2 DEF IsNodeState
    <3>2. Canonical(e.status) \in ToSet(HaNodeStates)
      BY <3>1, StateLists, ListFacts DEF Canonical, Contains
    <3>3. <<"node", e.node>>[1] = "node" OBVIOUS
    <3> QED BY <2>1, <2>2, <3>2, <3>3, AddStateEnumWhole
  <2>4. ASSUME NEW s \in ToSet(es)
        PROVE  /\ Says(s, Name, "ha") /\ IsNodeState(e)
               /\ s.name = "pve_ha_state" /\ s.labels[2] = Id(<<"node", e.node>>)
               /\ s.value = BoolToFloat(s.labels[3][2] = Canonical(e.status))
    <3>1. /\ s.name = "pve_ha_state" /\ Keyed(s, Name)
          /\ s.labels[2] = Id(<<"node", e.node>>)
          /\ s.value = BoolToFloat(s.labels[3][2] = Canonical(e.status))
      BY <2>1, <2>2, StateLists, EnumMembers
    <3>2. CallOf(s) = "ha" BY <3>1 DEF CallOf, ReplicationNames, SelfNames, Id
    <3> QED BY <1>2, <3>1, <3>2 DEF Says
  <2> QED BY <2>3, <2>4 DEF es
<1> QED BY <1>1, <1>2

(* Samples of a replication job: itself, and the numbers its status has. *)
LEMMA JobMembers ==
    ASSUME NEW j, IsJob(j)
    PROVE  /\ IsList(JobSamples(j))
           /\ \A s \in ToSet(JobSamples(j)) :
                 /\ Says(s, Name, "replication") /\ s.labels[2] = Id(j.id)
                 /\ s.name \in Numeric =>
                      \E st \in j.status : s.name \in DOMAIN st /\ s.value \in Flex(st[s.name])
                 /\ s.name \notin Numeric => s.value = 1
           /\ \A st \in j.status : \A m \in DOMAIN st : \A v \in Flex(st[m]) :
                 \E s \in ToSet(JobSamples(j)) : s.name = m /\ s.value = v
           /\ \E s \in ToSet(JobSamples(j)) : s.name = "pve_replication_info"
<1> DEFINE P(s) == /\ Says(s, Name, "replication") /\ s.labels[2] = Id(j.id)
                   /\ s.name \in Numeric =>
                        \E st \in j.status : s.name \in DOMAIN st /\ s.value \in Flex(st[s.name])
                   /\ s.name \notin Numeric => s.value = 1
           x == Flex(j.guest)
           info == Add("pve_replication_info", 1, <<<<"id", j.id>>, <<"guest", x>>>>)
           chosen == CHOOSE st \in j.status : TRUE
           numbers == IF j.status = {} THEN <<>>
                      ELSE AddAll(ReplicationMetrics, chosen, <<Id(j.id)>>)
<1>1. JobSamples(j) = info \o numbers BY DEF JobSamples, Id
<1> HIDE DEF x
<1>2. /\ IsList(info) /\ ToSet(info) # {}
      /\ \A s \in ToSet(info) : P(s) /\ s.name = "pve_replication_info"
  <2>1. /\ IsList(info)
        /\ \A s : s \in ToSet(info) <=>
                    s = Sample("pve_replication_info", 1, <<<<"id", j.id>>, <<"guest", x>>>>)
    BY AddIs
  <2> HIDE DEF info
  <2> SUFFICES ASSUME NEW s \in ToSet(info) PROVE P(s) /\ s.name = "pve_replication_info"
    BY <2>1
  <2>2. KeysOf("pve_replication_info") = <<"cluster", "id", "guest">> BY DEF KeysOf, Enums
  <2>3. /\ s.name = "pve_replication_info" /\ s.value = 1 /\ s.labels[2] = <<"id", j.id>>
        /\ Keyed(s, Name)
    BY <2>1, <2>2, Sample2
  <2>4. CallOf(s) = "replication" BY <2>3 DEF CallOf, ReplicationNames, SelfNames
  <2>5. s.name \notin Numeric
    BY <2>3, NumericNames DEF GuestNames, HostNames, DiskNames, StorageNames, ReplicationNames
  <2> QED BY <2>3, <2>4, <2>5 DEF Says, Id
<1>3. /\ IsList(numbers) /\ \A s \in ToSet(numbers) : P(s)
      /\ \A st \in j.status : \A m \in DOMAIN st : \A v \in Flex(st[m]) :
            \E s \in ToSet(numbers) : s.name = m /\ s.value = v
  <2>1. CASE j.status = {}
    <3>1. numbers = <<>> BY <2>1
    <3> QED BY <2>1, <3>1, ListEmpty
  <2>2. CASE j.status # {}
    <3>1. chosen \in j.status BY <2>2
    <3>2. DOMAIN chosen = ReplicationNames /\ \A st \in j.status : st = chosen
      BY <3>1, MetricLists DEF IsJob
    <3>3. numbers = AddAll(ReplicationMetrics, chosen, <<Id(j.id)>>) BY <2>2
    <3> HIDE DEF chosen, numbers
    <3>4. /\ IsList(numbers)
          /\ \A s : s \in ToSet(numbers) <=>
                      \E m \in ReplicationNames : \E v \in Flex(chosen[m]) :
                          s = Sample(m, v, <<Id(j.id)>>)
      BY <3>3, MetricLists, AddAllIs
    <3>5. ASSUME NEW m \in ReplicationNames, NEW v \in Flex(chosen[m]),
                 NEW s, s = Sample(m, v, <<Id(j.id)>>)
          PROVE  P(s) /\ s.name = m /\ s.value = v
      <4>1. Says(s, Name, "replication") BY <3>5, NumbersSay
      <4>2. s = Sample(m, v, <<<<"id", j.id>>>>) BY <3>5 DEF Id
      <4>3. s.name = m /\ s.value = v /\ s.labels[2] = <<"id", j.id>> BY <4>2, Sample1
      <4>4. m \in Numeric BY NumericNames
      <4> QED BY <3>1, <3>2, <4>1, <4>3, <4>4 DEF Id
    <3>6. \A s \in ToSet(numbers) : P(s) BY <3>4, <3>5
    <3>7. \A m \in ReplicationNames : \A v \in Flex(chosen[m]) :
             \E s \in ToSet(numbers) : s.name = m /\ s.value = v
      BY <3>4, <3>5
    <3> QED BY <3>2, <3>4, <3>6, <3>7
  <2> QED BY <2>1, <2>2
<1> HIDE DEF info, numbers, P
<1>4. IsList(JobSamples(j)) /\ ToSet(JobSamples(j)) = ToSet(info) \cup ToSet(numbers)
  BY <1>1, <1>2, <1>3, ListConcat
<1>5. \A s \in ToSet(JobSamples(j)) : P(s) BY <1>2, <1>3, <1>4
<1>6. \E s \in ToSet(JobSamples(j)) : s.name = "pve_replication_info" BY <1>2, <1>4
<1>7. \A st \in j.status : \A m \in DOMAIN st : \A v \in Flex(st[m]) :
            \E s \in ToSet(JobSamples(j)) : s.name = m /\ s.value = v
  BY <1>3, <1>4
<1> QED BY <1>4, <1>5, <1>6, <1>7 DEF P

(* The value a subscription gives a sample of its own *)
SubValue(sub, s) ==
    IF s.name = "pve_subscription_status" THEN BoolToFloat(s.labels[3][2] = sub.status)
    ELSE IF s.name = "pve_subscription_next_due_timestamp_seconds"
         THEN CHOOSE ts \in sub.due : TRUE
    ELSE 1

(* Samples of a node's subscription. *)
LEMMA SubscriptionMembers ==
    ASSUME NEW n, NEW sub
    PROVE  /\ IsList(SubscriptionSamples(n, sub)) /\ EnumsWhole(SubscriptionSamples(n, sub))
           /\ \A s \in ToSet(SubscriptionSamples(n, sub)) :
                 /\ Says(s, Name, "subscription") /\ s.labels[2] = Id(<<"node", n>>)
                 /\ s.value = SubValue(sub, s)
<1> DEFINE P(s) == /\ Says(s, Name, "subscription") /\ s.labels[2] = Id(<<"node", n>>)
                   /\ s.value = SubValue(sub, s)
           id == <<"node", n>>
           info == IF sub.level = "" THEN <<>>
                   ELSE Add("pve_subscription_info", 1, <<Id(id), <<"level", sub.level>>>>)
           es == IF sub.status = "" THEN <<>>
                 ELSE AddStateEnum("pve_subscription_status", id, sub.status, SubStates)
           when == CHOOSE ts \in sub.due : TRUE
           due == IF sub.due = {} THEN <<>>
                  ELSE Add("pve_subscription_next_due_timestamp_seconds", when, <<Id(id)>>)
<1>1. SubscriptionSamples(n, sub) = (info \o es) \o due BY DEF SubscriptionSamples
<1>2. IsList(info) /\ EnumsWhole(info) /\ \A s \in ToSet(info) : P(s)
  <2>1. CASE sub.level = ""
    <3>1. info = <<>> BY <2>1
    <3> QED BY <3>1, ListEmpty, NoEnums
  <2>2. CASE sub.level # ""
    <3>1. info = Add("pve_subscription_info", 1, <<<<"id", id>>, <<"level", sub.level>>>>)
      BY <2>2 DEF Id
    <3> SUFFICES ASSUME NEW s, s = Sample("pve_subscription_info", 1,
                                          <<<<"id", id>>, <<"level", sub.level>>>>)
                 PROVE  P(s) /\ s.name \notin Enums
      BY <3>1, AddIs, NoEnums
    <3> HIDE DEF id
    <3>2. KeysOf("pve_subscription_info") = <<"cluster", "id", "level">> BY DEF KeysOf, Enums
    <3>3. /\ s.name = "pve_subscription_info" /\ s.value = 1 /\ s.labels[2] = <<"id", id>>
          /\ Keyed(s, Name)
      BY <3>2, Sample2
    <3>4. CallOf(s) = "subscription" BY <3>3 DEF CallOf, ReplicationNames, SelfNames
    <3>5. s.value = SubValue(sub, s) BY <3>3 DEF SubValue
    <3>6. s.name \notin Enums BY <3>3 DEF Enums
    <3> QED BY <3>3, <3>4, <3>5, <3>6 DEF Says, Id, id
  <2> QED BY <2>1, <2>2
<1>3. IsList(es) /\ EnumsWhole(es) /\ \A s \in ToSet(es) : P(s)
  <2>1. CASE sub.status = ""
    <3>1. es = <<>> BY <2>1
    <3> QED BY <3>1, ListEmpty, NoEnums
  <2>2. CASE sub.status # ""
    <3>1. "pve_subscription_status" \in Enums /\ IsList(SubStates) BY StateLists DEF Enums
    <3>2. es = AddStateEnum("pve_subscription_status", id, sub.status, SubStates) BY <2>2
    <3>6. IsList(es) /\ EnumsWhole(es) BY <3>1, <3>2, StateNames, AddStateEnumWhole
    <3> SUFFICES ASSUME NEW s \in ToSet(es) PROVE P(s) BY <3>6
    <3> HIDE DEF es
    <3>3. /\ s.name = "pve_subscription_status" /\ Keyed(s, Name)
          /\ s.labels[2] = Id(id) /\ s.value = BoolToFloat(s.labels[3][2] = sub.status)
      BY <3>1, <3>2, EnumMembers
    <3>4. CallOf(s) = "subscription" BY <3>3 DEF CallOf, ReplicationNames, SelfNames
    <3>5. s.value = SubValue(sub, s) BY <3>3 DEF SubValue
    <3> QED BY <3>3, <3>4, <3>5 DEF Says
  <2> QED BY <2>1, <2>2
<1>4. IsList(due) /\ EnumsWhole(due) /\ \A s \in ToSet(due) : P(s)
  <2>1. CASE sub.due = {}
    <3>1. due = <<>> BY <2>1
    <3> QED BY <3>1, ListEmpty, NoEnums
  <2>2. CASE sub.due # {}
    <3>1. due = Add("pve_subscription_next_due_timestamp_seconds", when, <<<<"id", id>>>>)
      BY <2>2 DEF Id
    <3> SUFFICES ASSUME NEW s, s = Sample("pve_subscription_next_due_timestamp_seconds", when,
                                          <<<<"id", id>>>>)
                 PROVE  P(s) /\ s.name \notin Enums
      BY <3>1, AddIs, NoEnums
    <3>0. s.name = "pve_subscription_next_due_timestamp_seconds" => SubValue(sub, s) = when
      BY DEF SubValue
    <3> HIDE DEF id, when
    <3>2. KeysOf("pve_subscription_next_due_timestamp_seconds") = <<"cluster", "id">>
      BY DEF KeysOf, Enums
    <3>3. /\ s.name = "pve_subscription_next_due_timestamp_seconds" /\ s.value = when
          /\ s.labels[2] = <<"id", id>> /\ Keyed(s, Name)
      BY <3>2, Sample1
    <3>4. CallOf(s) = "subscription" BY <3>3 DEF CallOf, ReplicationNames, SelfNames
    <3>5. s.value = SubValue(sub, s) BY <3>0, <3>3
    <3>6. s.name \notin Enums BY <3>3 DEF Enums
    <3> QED BY <3>3, <3>4, <3>5, <3>6 DEF Says, Id, id
  <2> QED BY <2>1, <2>2
<1> HIDE DEF info, es, due, P
<1>5. /\ IsList(info \o es) /\ EnumsWhole(info \o es)
      /\ ToSet(info \o es) = ToSet(info) \cup ToSet(es)
  BY <1>2, <1>3, ListConcat, EnumsConcat
<1>6. /\ IsList(SubscriptionSamples(n, sub)) /\ EnumsWhole(SubscriptionSamples(n, sub))
      /\ ToSet(SubscriptionSamples(n, sub)) = ToSet(info \o es) \cup ToSet(due)
  BY <1>1, <1>4, <1>5, ListConcat, EnumsConcat
<1>7. \A s \in ToSet(SubscriptionSamples(n, sub)) : P(s) BY <1>2, <1>3, <1>4, <1>5, <1>6
<1> QED BY <1>6, <1>7 DEF P

OnbootValue(g) ==
    LET onboot == UNION {Flex(j) : j \in g.config}
    IN  IF onboot = {} THEN 0 ELSE CHOOSE v \in onboot : TRUE

(* Samples of a guest's config: under the guest's identity, for its node. *)
LEMMA OnbootMembers ==
    ASSUME NEW n, NEW g
    PROVE  /\ IsList(OnbootSamples(n, g))
           /\ \A s \in ToSet(OnbootSamples(n, g)) :
                 /\ Says(s, Name, "onboot") /\ s.name = "pve_onboot_status"
                 /\ Flex(g.vmid) # {}
                 /\ s.labels[2] = Id(<<g.type, CHOOSE v \in Flex(g.vmid) : TRUE>>)
                 /\ s.labels[3] = <<"node", n>> /\ s.value = OnbootValue(g)
<1>1. CASE Flex(g.vmid) = {} \/ g.config = {}
  <2>1. OnbootSamples(n, g) = <<>> BY <1>1 DEF OnbootSamples
  <2> QED BY <2>1, ListEmpty
<1>2. CASE ~(Flex(g.vmid) = {} \/ g.config = {})
  <2> DEFINE id == <<g.type, CHOOSE v \in Flex(g.vmid) : TRUE>>
             on == OnbootValue(g)
  <2>1. OnbootSamples(n, g) = Add("pve_onboot_status", on,
                                  <<<<"id", id>>, <<"node", n>>, <<"type", g.type>>>>)
    BY <1>2 DEF OnbootSamples, OnbootValue, Id
  <2> SUFFICES ASSUME NEW s, s = Sample("pve_onboot_status", on,
                                  <<<<"id", id>>, <<"node", n>>, <<"type", g.type>>>>)
               PROVE  /\ Says(s, Name, "onboot") /\ s.name = "pve_onboot_status"
                      /\ s.labels[2] = Id(id) /\ s.labels[3] = <<"node", n>> /\ s.value = on
    BY <1>2, <2>1, AddIs
  <2> HIDE DEF id, on
  <2>2. KeysOf("pve_onboot_status") = <<"cluster", "id", "node", "type">> BY DEF KeysOf, Enums
  <2>3. /\ s.name = "pve_onboot_status" /\ s.value = on /\ s.labels[2] = <<"id", id>>
        /\ s.labels[3] = <<"node", n>> /\ Keyed(s, Name)
    BY <2>2, Sample3
  <2>4. CallOf(s) = "onboot" BY <2>3 DEF CallOf, ReplicationNames, SelfNames
  <2> QED BY <2>3, <2>4 DEF Says, Id
<1> QED BY <1>1, <1>2

(* What a poll ends with: whether the target is up, told of id x, and about itself *)
Ends(samples, v, x) ==
    /\ \A s \in ToSet(samples) :
          /\ s.labels[2][2][1] = "cluster"
          /\ s.name = "pve_up" => s = Sample("pve_up", v, <<Id(<<"cluster", x>>)>>)
          /\ s.name \in SelfNames \cup {"pve_up"}
          /\ s.name \in SelfNames => s.labels[2] = Id(SelfId) /\ s.value = 1
    /\ Sample("pve_up", v, <<Id(<<"cluster", x>>)>>) \in ToSet(samples)
    /\ \A name \in SelfNames : \E s \in ToSet(samples) : s.name = name

(* Samples a poll ends with. *)
LEMMA EndMembers ==
    ASSUME NEW v, NEW x, NEW samples,
           samples = Add("pve_up", v, <<Id(<<"cluster", x>>)>>) \o SelfSamples
    PROVE  /\ IsList(samples) /\ Ends(samples, v, x)
           /\ \A s \in ToSet(samples) : Says(s, Name, "end")
<1> DEFINE P(s) == /\ Says(s, Name, "end") /\ s.labels[2][2][1] = "cluster"
                   /\ s.name \in SelfNames \cup {"pve_up"}
                   /\ s.name = "pve_up" => s = Sample("pve_up", v, <<Id(<<"cluster", x>>)>>)
                   /\ s.name \in SelfNames => s.labels[2] = Id(SelfId) /\ s.value = 1
           up1 == Add("pve_up", v, <<Id(<<"cluster", x>>)>>)
           took == Add("pve_collection_duration_seconds", 1, <<Id(SelfId)>>)
           errors == Add("pve_request_errors_total", 1, <<Id(SelfId)>>)
<1>1. samples = up1 \o (took \o errors) BY DEF SelfSamples
<1>2. /\ IsList(up1) /\ \A s : s \in ToSet(up1) <=> s = Sample("pve_up", v, <<Id(<<"cluster", x>>)>>)
      /\ IsList(took)
      /\ \A s : s \in ToSet(took) <=> s = Sample("pve_collection_duration_seconds", 1, <<Id(SelfId)>>)
      /\ IsList(errors)
      /\ \A s : s \in ToSet(errors) <=> s = Sample("pve_request_errors_total", 1, <<Id(SelfId)>>)
  BY AddIs
<1> HIDE DEF up1, took, errors
<1>3. ASSUME NEW s, s = Sample("pve_up", v, <<Id(<<"cluster", x>>)>>) PROVE P(s)
  <2>1. KeysOf("pve_up") = <<"cluster", "id">> BY DEF KeysOf, Enums
  <2>2. s = Sample("pve_up", v, <<<<"id", <<"cluster", x>>>>>>) BY <1>3 DEF Id
  <2>3. s.name = "pve_up" /\ s.labels[2] = <<"id", <<"cluster", x>>>> /\ Keyed(s, Name)
    BY <2>1, <2>2, Sample1
  <2>4. CallOf(s) = "end" BY <2>3 DEF CallOf, ReplicationNames, SelfNames
  <2> QED BY <1>3, <2>3, <2>4 DEF Says, SelfNames
<1>4. ASSUME NEW name \in SelfNames, NEW s, s = Sample(name, 1, <<Id(SelfId)>>)
      PROVE  P(s) /\ s.name = name
  <2>1. KeysOf(name) = <<"cluster", "id">> BY DEF KeysOf, Enums, SelfNames
  <2>2. s = Sample(name, 1, <<<<"id", <<"cluster", Name>>>>>>) BY <1>4 DEF Id, SelfId
  <2>3. s.name = name /\ s.value = 1 /\ s.labels[2] = <<"id", <<"cluster", Name>>>> /\ Keyed(s, Name)
    BY <2>1, <2>2, Sample1
  <2>4. CallOf(s) = "end" BY <2>3 DEF CallOf, ReplicationNames, SelfNames
  <2> QED BY <2>3, <2>4 DEF Says, SelfNames, Id, SelfId
<1>5. SelfNames = {"pve_collection_duration_seconds", "pve_request_errors_total"} BY DEF SelfNames
<1> HIDE DEF P
<1>6. IsList(took \o errors) /\ ToSet(took \o errors) = ToSet(took) \cup ToSet(errors)
  BY <1>2, ListConcat
<1>7. IsList(samples) /\ ToSet(samples) = ToSet(up1) \cup ToSet(took \o errors)
  BY <1>1, <1>2, <1>6, ListConcat
<1>8. \A s \in ToSet(samples) : P(s) BY <1>2, <1>3, <1>4, <1>5, <1>6, <1>7
<1>9. \A name \in SelfNames : \E s \in ToSet(samples) : s.name = name
  <2>1. \E s \in ToSet(took) : s.name = "pve_collection_duration_seconds" BY <1>2, <1>4, <1>5
  <2>2. \E s \in ToSet(errors) : s.name = "pve_request_errors_total" BY <1>2, <1>4, <1>5
  <2> QED BY <1>5, <1>6, <1>7, <2>1, <2>2
<1>10. Sample("pve_up", v, <<Id(<<"cluster", x>>)>>) \in ToSet(samples) BY <1>2, <1>7
<1> QED BY <1>7, <1>8, <1>9, <1>10 DEF P, Ends

-----------------------------------------------------------------------------
(* What the loops over rows add *)

(* The loop over rows has the samples of the rows, whole enumerations among    *)
(* them.                                                                       *)
LEMMA ResourceLoop ==
    ASSUME NEW rows, IsList(rows), \A r \in ToSet(rows) : IsRow(r),
           NEW samples, samples = ForEach(rows, ResourceSamples)
    PROVE  /\ IsList(samples)
           /\ \A s : s \in ToSet(samples) <=> \E r \in ToSet(rows) : s \in ToSet(ResourceSamples(r))
           /\ EnumsWhole(samples)
<1> DEFINE ss == [i \in DOMAIN rows |-> ResourceSamples(rows[i])]
<1>1. Len(rows) \in Nat /\ DOMAIN rows = 1 .. Len(rows) BY ListFacts
<1>2. samples = FlattenSeq(ss) BY DEF ForEach
<1>3. ss = [i \in DOMAIN rows |-> ss[i]] OBVIOUS
<1>4. \A i \in 1 .. Len(rows) : rows[i] \in ToSet(rows) /\ ss[i] = ResourceSamples(rows[i])
  BY <1>1, ListFacts
<1> HIDE DEF ss
<1>5. \A i \in 1 .. Len(rows) : IsList(ss[i]) BY <1>4, ResourceMembers
<1>6. /\ IsList(samples) /\ MadeOf(samples, ss, Len(rows))
      /\ \A s : s \in ToSet(samples) <=> \E i \in 1 .. Len(rows) : s \in ToSet(ss[i])
  BY <1>2, <1>3, <1>5, Loop
<1>7. \A r \in ToSet(rows) : \E i \in 1 .. Len(rows) : r = rows[i] BY ListFacts
<1>8. \A s : s \in ToSet(samples) <=> \E r \in ToSet(rows) : s \in ToSet(ResourceSamples(r))
  BY <1>4, <1>6, <1>7
<1>9. EnumsWhole(samples)
  <2>1. \A i \in 1 .. Len(rows) : EnumsWhole(ss[i]) BY <1>4, ResourceMembers
  <2> QED BY <1>1, <1>5, <1>6, <2>1, EnumsMadeOf
<1> QED BY <1>6, <1>8, <1>9

(* The same of the entries of /cluster/status. *)
LEMMA StatusLoop ==
    ASSUME NEW rows, IsList(rows), NEW samples, samples = ForEach(rows, StatusSamples)
    PROVE  /\ IsList(samples)
           /\ \A s : s \in ToSet(samples) <=> \E r \in ToSet(rows) : s \in ToSet(StatusSamples(r))
<1> DEFINE ss == [i \in DOMAIN rows |-> StatusSamples(rows[i])]
<1>1. Len(rows) \in Nat /\ DOMAIN rows = 1 .. Len(rows) BY ListFacts
<1>2. samples = FlattenSeq(ss) BY DEF ForEach
<1>3. ss = [i \in DOMAIN rows |-> ss[i]] OBVIOUS
<1>4. \A i \in 1 .. Len(rows) : rows[i] \in ToSet(rows) /\ ss[i] = StatusSamples(rows[i])
  BY <1>1, ListFacts
<1> HIDE DEF ss
<1>5. \A i \in 1 .. Len(rows) : IsList(ss[i]) BY <1>4, StatusMembers
<1>6. /\ IsList(samples)
      /\ \A s : s \in ToSet(samples) <=> \E i \in 1 .. Len(rows) : s \in ToSet(ss[i])
  BY <1>2, <1>3, <1>5, Loop
<1>7. \A r \in ToSet(rows) : \E i \in 1 .. Len(rows) : r = rows[i] BY ListFacts
<1>8. \A s : s \in ToSet(samples) <=> \E r \in ToSet(rows) : s \in ToSet(StatusSamples(r))
  BY <1>4, <1>6, <1>7
<1> QED BY <1>6, <1>8

(* The same of guests that are not backed up. *)
LEMMA BackupLoop ==
    ASSUME NEW rows, IsList(rows), NEW samples, samples = ForEach(rows, NotBackedUpSamples)
    PROVE  /\ IsList(samples)
           /\ \A s : s \in ToSet(samples) <=> \E r \in ToSet(rows) : s \in ToSet(NotBackedUpSamples(r))
<1> DEFINE ss == [i \in DOMAIN rows |-> NotBackedUpSamples(rows[i])]
<1>1. Len(rows) \in Nat /\ DOMAIN rows = 1 .. Len(rows) BY ListFacts
<1>2. samples = FlattenSeq(ss) BY DEF ForEach
<1>3. ss = [i \in DOMAIN rows |-> ss[i]] OBVIOUS
<1>4. \A i \in 1 .. Len(rows) : rows[i] \in ToSet(rows) /\ ss[i] = NotBackedUpSamples(rows[i])
  BY <1>1, ListFacts
<1> HIDE DEF ss
<1>5. \A i \in 1 .. Len(rows) : IsList(ss[i]) BY <1>4, NotBackedUpMembers
<1>6. /\ IsList(samples)
      /\ \A s : s \in ToSet(samples) <=> \E i \in 1 .. Len(rows) : s \in ToSet(ss[i])
  BY <1>2, <1>3, <1>5, Loop
<1>7. \A r \in ToSet(rows) : \E i \in 1 .. Len(rows) : r = rows[i] BY ListFacts
<1>8. \A s : s \in ToSet(samples) <=> \E r \in ToSet(rows) : s \in ToSet(NotBackedUpSamples(r))
  BY <1>4, <1>6, <1>7
<1> QED BY <1>6, <1>8

(* The same of HA entries. *)
LEMMA HALoop ==
    ASSUME NEW rows, IsList(rows), NEW samples, samples = ForEach(rows, HASamples)
    PROVE  /\ IsList(samples)
           /\ \A s : s \in ToSet(samples) <=> \E r \in ToSet(rows) : s \in ToSet(HASamples(r))
           /\ EnumsWhole(samples)
<1> DEFINE ss == [i \in DOMAIN rows |-> HASamples(rows[i])]
<1>1. Len(rows) \in Nat /\ DOMAIN rows = 1 .. Len(rows) BY ListFacts
<1>2. samples = FlattenSeq(ss) BY DEF ForEach
<1>3. ss = [i \in DOMAIN rows |-> ss[i]] OBVIOUS
<1>4. \A i \in 1 .. Len(rows) : rows[i] \in ToSet(rows) /\ ss[i] = HASamples(rows[i])
  BY <1>1, ListFacts
<1> HIDE DEF ss
<1>5. \A i \in 1 .. Len(rows) : IsList(ss[i]) BY <1>4, HAMembers
<1>6. /\ IsList(samples) /\ MadeOf(samples, ss, Len(rows))
      /\ \A s : s \in ToSet(samples) <=> \E i \in 1 .. Len(rows) : s \in ToSet(ss[i])
  BY <1>2, <1>3, <1>5, Loop
<1>7. \A r \in ToSet(rows) : \E i \in 1 .. Len(rows) : r = rows[i] BY ListFacts
<1>8. \A s : s \in ToSet(samples) <=> \E r \in ToSet(rows) : s \in ToSet(HASamples(r))
  BY <1>4, <1>6, <1>7
<1>9. EnumsWhole(samples)
  <2>1. \A i \in 1 .. Len(rows) : EnumsWhole(ss[i]) BY <1>4, HAMembers
  <2> QED BY <1>1, <1>5, <1>6, <2>1, EnumsMadeOf
<1> QED BY <1>6, <1>8, <1>9

(* The same of replication jobs. *)
LEMMA JobLoop ==
    ASSUME NEW rows, IsList(rows), \A r \in ToSet(rows) : IsJob(r),
           NEW samples, samples = ForEach(rows, JobSamples)
    PROVE  /\ IsList(samples)
           /\ \A s : s \in ToSet(samples) <=> \E r \in ToSet(rows) : s \in ToSet(JobSamples(r))
<1> DEFINE ss == [i \in DOMAIN rows |-> JobSamples(rows[i])]
<1>1. Len(rows) \in Nat /\ DOMAIN rows = 1 .. Len(rows) BY ListFacts
<1>2. samples = FlattenSeq(ss) BY DEF ForEach
<1>3. ss = [i \in DOMAIN rows |-> ss[i]] OBVIOUS
<1>4. \A i \in 1 .. Len(rows) : rows[i] \in ToSet(rows) /\ ss[i] = JobSamples(rows[i])
  BY <1>1, ListFacts
<1> HIDE DEF ss
<1>5. \A i \in 1 .. Len(rows) : IsList(ss[i]) BY <1>4, JobMembers
<1>6. /\ IsList(samples)
      /\ \A s : s \in ToSet(samples) <=> \E i \in 1 .. Len(rows) : s \in ToSet(ss[i])
  BY <1>2, <1>3, <1>5, Loop
<1>7. \A r \in ToSet(rows) : \E i \in 1 .. Len(rows) : r = rows[i] BY ListFacts
<1>8. \A s : s \in ToSet(samples) <=> \E r \in ToSet(rows) : s \in ToSet(JobSamples(r))
  BY <1>4, <1>6, <1>7
<1> QED BY <1>6, <1>8

SubscriptionsOf(n, rows) == ForEach(rows, LAMBDA sub : SubscriptionSamples(n, sub))

(* The same of a node's subscription. *)
LEMMA SubscriptionLoop ==
    ASSUME NEW n, NEW rows, IsList(rows), NEW samples, samples = SubscriptionsOf(n, rows)
    PROVE  /\ IsList(samples)
           /\ \A s : s \in ToSet(samples) <=> \E r \in ToSet(rows) : s \in ToSet(SubscriptionSamples(n, r))
           /\ EnumsWhole(samples)
<1> DEFINE ss == [i \in DOMAIN rows |-> SubscriptionSamples(n, rows[i])]
<1>1. Len(rows) \in Nat /\ DOMAIN rows = 1 .. Len(rows) BY ListFacts
<1>2. samples = FlattenSeq(ss) BY DEF ForEach, SubscriptionsOf
<1>3. ss = [i \in DOMAIN rows |-> ss[i]] OBVIOUS
<1>4. \A i \in 1 .. Len(rows) : rows[i] \in ToSet(rows) /\ ss[i] = SubscriptionSamples(n, rows[i])
  BY <1>1, ListFacts
<1> HIDE DEF ss
<1>5. \A i \in 1 .. Len(rows) : IsList(ss[i]) BY <1>4, SubscriptionMembers
<1>6. /\ IsList(samples) /\ MadeOf(samples, ss, Len(rows))
      /\ \A s : s \in ToSet(samples) <=> \E i \in 1 .. Len(rows) : s \in ToSet(ss[i])
  BY <1>2, <1>3, <1>5, Loop
<1>7. \A r \in ToSet(rows) : \E i \in 1 .. Len(rows) : r = rows[i] BY ListFacts
<1>8. \A s : s \in ToSet(samples) <=> \E r \in ToSet(rows) : s \in ToSet(SubscriptionSamples(n, r))
  BY <1>4, <1>6, <1>7
<1>9. EnumsWhole(samples)
  <2>1. \A i \in 1 .. Len(rows) : EnumsWhole(ss[i])
    <3> TAKE i \in 1 .. Len(rows)
    <3>1. EnumsWhole(SubscriptionSamples(n, rows[i])) BY SubscriptionMembers
    <3> QED BY <1>4, <3>1
  <2> QED BY <1>1, <1>5, <1>6, <2>1, EnumsMadeOf
<1> QED BY <1>6, <1>8, <1>9

(* The same of a node's guests. *)
LEMMA OnbootLoop ==
    ASSUME NEW n, NEW rows, IsList(rows), NEW samples, samples = ForEach(rows, LAMBDA g : OnbootSamples(n, g))
    PROVE  /\ IsList(samples)
           /\ \A s : s \in ToSet(samples) <=> \E r \in ToSet(rows) : s \in ToSet(OnbootSamples(n, r))
<1> DEFINE ss == [i \in DOMAIN rows |-> OnbootSamples(n, rows[i])]
<1>1. Len(rows) \in Nat /\ DOMAIN rows = 1 .. Len(rows) BY ListFacts
<1>2. samples = FlattenSeq(ss) BY DEF ForEach
<1>3. ss = [i \in DOMAIN rows |-> ss[i]] OBVIOUS
<1>4. \A i \in 1 .. Len(rows) : rows[i] \in ToSet(rows) /\ ss[i] = OnbootSamples(n, rows[i])
  BY <1>1, ListFacts
<1> HIDE DEF ss
<1>5. \A i \in 1 .. Len(rows) : IsList(ss[i]) BY <1>4, OnbootMembers
<1>6. /\ IsList(samples)
      /\ \A s : s \in ToSet(samples) <=> \E i \in 1 .. Len(rows) : s \in ToSet(ss[i])
  BY <1>2, <1>3, <1>5, Loop
<1>7. \A r \in ToSet(rows) : \E i \in 1 .. Len(rows) : r = rows[i] BY ListFacts
<1>8. \A s : s \in ToSet(samples) <=> \E r \in ToSet(rows) : s \in ToSet(OnbootSamples(n, r))
  BY <1>4, <1>6, <1>7
<1> QED BY <1>6, <1>8

(* Lists of blocks that have nothing in common, each without an element twice,  *)
(* flatten to a list without an element twice                                   *)
LEMMA FlattenDistinct ==
    ASSUME NEW ss, IsList(ss), \A i \in 1 .. Len(ss) : IsList(ss[i]) /\ Distinct(ss[i]),
           \A i, j \in 1 .. Len(ss) : \A x \in ToSet(ss[i]) : x \in ToSet(ss[j]) => i = j
    PROVE  Distinct(FlattenSeq(ss))
<1>1. Len(ss) \in Nat /\ ss = [i \in 1 .. Len(ss) |-> ss[i]] BY ListFacts
<1>2. CASE Len(ss) = 0
  <2>1. FlattenSeq(ss) = ss BY <1>2 DEF FlattenSeq
  <2> QED BY <1>2, <2>1 DEF Distinct
<1>3. CASE Len(ss) # 0
  <2>1. PICK f : Flattens(f, ss, Len(ss)) /\ FlattenSeq(ss) = f[Len(ss)]
    BY <1>3, FlattenIs
  <2>2. \A i \in 1 .. Len(ss) : f[i] = IF i = 1 THEN ss[i] ELSE f[i - 1] \o ss[i]
    BY <2>1 DEF Flattens
  <2> DEFINE Good(s, n) ==
               /\ IsList(s) /\ Distinct(s)
               /\ \A x \in ToSet(s) : \E i \in 1 .. n : x \in ToSet(ss[i])
             T == {n \in Nat : n \in 1 .. Len(ss) => Good(f[n], n)}
  <2>3. 0 \in T OBVIOUS
  <2>4. ASSUME NEW n \in T PROVE n + 1 \in T
    <3>1. SUFFICES ASSUME n + 1 \in 1 .. Len(ss) PROVE Good(f[n + 1], n + 1)
      OBVIOUS
    <3>3. CASE n = 0
      <4>1. f[n + 1] = ss[1] BY <2>2, <3>1, <3>3
      <4> QED BY <3>1, <3>3, <4>1
    <3>4. CASE n # 0
      <4>0. n \in 1 .. Len(ss) /\ n + 1 # 1 /\ n + 1 - 1 = n BY <3>1, <3>4
      <4> DEFINE s == f[n]
                 t == ss[n + 1]
      <4>1. f[n + 1] = s \o t
        <5>1. f[n + 1] = IF n + 1 = 1 THEN ss[n + 1] ELSE f[n + 1 - 1] \o ss[n + 1]
          BY <2>2, <3>1
        <5> QED BY <4>0, <5>1
      <4>2. IsList(s) /\ Distinct(s) /\ \A x \in ToSet(s) : \E i \in 1 .. n : x \in ToSet(ss[i])
        BY <4>0
      <4>3. IsList(t) /\ Distinct(t) BY <3>1
      <4>4. \A x \in ToSet(s) : x \notin ToSet(t)
        <5> SUFFICES ASSUME NEW x \in ToSet(s), x \in ToSet(t) PROVE FALSE OBVIOUS
        <5>1. PICK i \in 1 .. n : x \in ToSet(ss[i]) BY <4>2
        <5>2. i \in 1 .. Len(ss) /\ i # n + 1 BY <4>0
        <5> QED BY <3>1, <5>1, <5>2
      <4>5. \A x \in ToSet(t) : \E i \in 1 .. n + 1 : x \in ToSet(ss[i])
        BY <3>1
      <4> HIDE DEF s, t
      <4>6. /\ IsList(s \o t) /\ Len(s \o t) = Len(s) + Len(t)
            /\ \A i \in 1 .. Len(s) : (s \o t)[i] = s[i]
            /\ \A i \in 1 .. Len(t) : (s \o t)[Len(s) + i] = t[i]
            /\ ToSet(s \o t) = ToSet(s) \cup ToSet(t)
        BY <4>2, <4>3, ListConcat
      <4>7. /\ Len(s) \in Nat /\ Len(t) \in Nat
            /\ \A i \in 1 .. Len(s) : s[i] \in ToSet(s)
            /\ \A i \in 1 .. Len(t) : t[i] \in ToSet(t)
        BY <4>2, <4>3, ListFacts
      <4>8. Distinct(s \o t)
        <5> SUFFICES ASSUME NEW i \in 1 .. Len(s \o t), NEW j \in 1 .. Len(s \o t),
                            (s \o t)[i] = (s \o t)[j]
                     PROVE  i = j
          BY DEF Distinct
        <5> DEFINE L == Len(s)
                   M == Len(t)
                   w == s \o t
        <5>0. /\ L \in Nat /\ M \in Nat /\ i \in 1 .. L + M /\ j \in 1 .. L + M /\ w[i] = w[j]
              /\ \A k \in 1 .. L : w[k] = s[k] /\ s[k] \in ToSet(s)
              /\ \A k \in 1 .. M : w[L + k] = t[k] /\ t[k] \in ToSet(t)
              /\ \A k, l \in 1 .. L : s[k] = s[l] => k = l
              /\ \A k, l \in 1 .. M : t[k] = t[l] => k = l
          BY <4>2, <4>3, <4>6, <4>7 DEF Distinct
        <5> HIDE DEF L, M, w
        <5>1. ASSUME NEW k \in 1 .. L + M
              PROVE  \/ k \in 1 .. L
                     \/ k - L \in 1 .. M /\ L + (k - L) = k
          BY <5>0
        <5>2. i \in 1 .. L \/ (i - L \in 1 .. M /\ L + (i - L) = i) BY <5>0, <5>1
        <5>3. j \in 1 .. L \/ (j - L \in 1 .. M /\ L + (j - L) = j) BY <5>0, <5>1
        <5>4. CASE i \in 1 .. L /\ j \in 1 .. L BY <5>0, <5>4
        <5>5. CASE i \in 1 .. L /\ j - L \in 1 .. M /\ L + (j - L) = j
          BY <4>4, <5>0, <5>5
        <5>6. CASE j \in 1 .. L /\ i - L \in 1 .. M /\ L + (i - L) = i
          BY <4>4, <5>0, <5>6
        <5>7. CASE i - L \in 1 .. M /\ L + (i - L) = i /\ j - L \in 1 .. M /\ L + (j - L) = j
          <6>1. i - L = j - L
            <7> DEFINE a == i - L
                       b == j - L
            <7>1. a \in 1 .. M /\ b \in 1 .. M /\ w[L + a] = w[L + b] BY <5>0, <5>7
            <7> HIDE DEF a, b
            <7>2. a = b BY <5>0, <7>1
            <7> QED BY <7>2 DEF a, b
          <6> QED BY <5>7, <6>1
        <5> QED BY <5>2, <5>3, <5>4, <5>5, <5>6, <5>7
      <4>9. \A x \in ToSet(s) : \E i \in 1 .. n + 1 : x \in ToSet(ss[i])
        <5>1. \A i \in 1 .. n : i \in 1 .. n + 1 OBVIOUS
        <5> QED BY <4>2, <5>1
      <4> QED BY <4>1, <4>5, <4>6, <4>8, <4>9
    <3> QED BY <3>3, <3>4
  <2> HIDE DEF Good
  <2>5. T = Nat BY <2>3, <2>4, AllNaturals
  <2>6. Len(ss) \in 1 .. Len(ss) BY <1>1, <1>3
  <2>7. Good(f[Len(ss)], Len(ss)) BY <1>1, <2>5, <2>6
  <2> QED BY <2>1, <2>7 DEF Good
<1> QED BY <1>2, <1>3

(* A list without its i-th element has no other members, and if they were      *)
(* distinct, not that one.                                                     *)
LEMMA RemoveAtIs ==
    ASSUME NEW s, IsList(s), NEW i \in 1 .. Len(s), NEW t, t = RemoveAt(s, i)
    PROVE  /\ IsList(t) /\ ToSet(t) \subseteq ToSet(s)
           /\ Distinct(s) => Distinct(t) /\ s[i] \notin ToSet(t)
<1>1. /\ Len(s) \in Nat /\ s \in Seq(ToSet(s)) /\ \A k \in 1 .. Len(s) : s[k] \in ToSet(s)
  BY ListFacts DEF IsList
<1> DEFINE a == SubSeq(s, 1, i - 1)
           b == SubSeq(s, i + 1, Len(s))
<1>2. /\ a \in Seq(ToSet(s)) /\ Len(a) = i - 1
      /\ \A k \in 1 .. i - 1 : a[k] = s[k]
  BY <1>1, SubSeqProperties
<1>3. /\ b \in Seq(ToSet(s)) /\ Len(b) = Len(s) - i
      /\ \A k \in 1 .. Len(s) - i : b[k] = s[i + k]
  <2>1. CASE i = Len(s)
    <3>1. b \in Seq(ToSet(s)) /\ Len(b) = 0 BY <1>1, <2>1, SubSeqProperties
    <3> QED BY <1>1, <2>1, <3>1
  <2>2. CASE i # Len(s)
    <3>1. i + 1 \in 1 .. Len(s) BY <1>1, <2>2
    <3>2. /\ b \in Seq(ToSet(s)) /\ Len(b) = Len(s) - (i + 1) + 1
          /\ \A k \in 1 .. Len(s) - (i + 1) + 1 : b[k] = s[(i + 1) + k - 1]
      BY <1>1, <3>1, SubSeqProperties
    <3> QED BY <1>1, <3>2
  <2> QED BY <2>1, <2>2
<1>4. t = a \o b BY DEF RemoveAt
<1> HIDE DEF a, b
<1>5. IsList(a) /\ IsList(b) /\ ToSet(a) \subseteq ToSet(s) /\ ToSet(b) \subseteq ToSet(s)
  BY <1>2, <1>3, ListIntro
<1>6. /\ IsList(t) /\ ToSet(t) = ToSet(a) \cup ToSet(b) /\ Len(t) = Len(a) + Len(b)
      /\ \A k \in 1 .. Len(a) : t[k] = a[k]
      /\ \A k \in 1 .. Len(b) : t[Len(a) + k] = b[k]
  BY <1>4, <1>5, ListConcat
<1>7. Len(t) = Len(s) - 1 BY <1>1, <1>2, <1>3, <1>6
<1>8. ASSUME NEW k \in 1 .. Len(t) PROVE t[k] = s[IF k < i THEN k ELSE k + 1]
  <2>1. CASE k < i
    <3>1. k \in 1 .. i - 1 BY <1>1, <1>7, <2>1
    <3> QED BY <1>2, <1>6, <2>1, <3>1
  <2>2. CASE ~(k < i)
    <3>1. /\ k - (i - 1) \in 1 .. Len(s) - i /\ (i - 1) + (k - (i - 1)) = k
          /\ i + (k - (i - 1)) = k + 1
      BY <1>1, <1>7, <2>2
    <3> DEFINE l == k - (i - 1)
    <3>2. l \in 1 .. Len(s) - i /\ (i - 1) + l = k /\ i + l = k + 1 BY <3>1
    <3> HIDE DEF l
    <3>3. t[(i - 1) + l] = b[l] /\ b[l] = s[i + l] BY <1>2, <1>3, <1>6, <3>2
    <3> QED BY <2>2, <3>2, <3>3
  <2> QED BY <2>1, <2>2
<1>9. ASSUME Distinct(s) PROVE Distinct(t) /\ s[i] \notin ToSet(t)
  <2>0. \A k, l \in 1 .. Len(s) : s[k] = s[l] => k = l BY <1>9 DEF Distinct
  <2>1. ASSUME NEW k \in 1 .. Len(t)
        PROVE  \E p \in 1 .. Len(s) : /\ t[k] = s[p] /\ p # i
                                      /\ p = IF k < i THEN k ELSE k + 1
    BY <1>1, <1>7, <1>8
  <2>2. ASSUME NEW k \in 1 .. Len(t), NEW l \in 1 .. Len(t), t[k] = t[l] PROVE k = l
    <3>1. PICK p \in 1 .. Len(s) : t[k] = s[p] /\ p = IF k < i THEN k ELSE k + 1 BY <2>1
    <3>2. PICK q \in 1 .. Len(s) : t[l] = s[q] /\ q = IF l < i THEN l ELSE l + 1 BY <2>1
    <3>3. p = q BY <2>0, <2>2, <3>1, <3>2
    <3> QED BY <1>1, <3>1, <3>2, <3>3
  <2>3. s[i] \notin ToSet(t)
    <3> SUFFICES ASSUME s[i] \in ToSet(t) PROVE FALSE OBVIOUS
    <3>1. PICK k \in 1 .. Len(t) : s[i] = t[k] BY <1>6, ListFacts
    <3> QED BY <2>0, <2>1, <3>1
  <2> QED BY <2>2, <2>3 DEF Distinct
<1> QED BY <1>5, <1>6, <1>9

(* No node is named twice where no row is there twice. *)
LEMMA NodeNamesLoop ==
    ASSUME NEW rows, IsList(rows), \A r \in ToSet(rows) : IsRow(r),
           NEW names, names = ForEach(rows, NodeNames)
    PROVE  /\ IsList(names)
           /\ ~Repeats(rows, ById) => Distinct(names)
<1> DEFINE ss == [i \in DOMAIN rows |-> NodeNames(rows[i])]
<1>1. Len(rows) \in Nat /\ DOMAIN rows = 1 .. Len(rows) BY ListFacts
<1>2. names = FlattenSeq(ss) BY DEF ForEach
<1>3. ss = [i \in DOMAIN rows |-> ss[i]] OBVIOUS
<1>4. \A i \in 1 .. Len(rows) : rows[i] \in ToSet(rows) /\ ss[i] = NodeNames(rows[i])
  BY <1>1, ListFacts
<1> HIDE DEF ss
<1>5. ASSUME NEW i \in 1 .. Len(rows)
      PROVE  /\ IsList(ss[i]) /\ Distinct(ss[i])
             /\ \A n \in ToSet(ss[i]) : rows[i].id = <<"node", n>>
  <2>1. IsRow(rows[i]) BY <1>4
  <2>2. CASE rows[i].type = "node" /\ rows[i].node # ""
    <3>1. ss[i] = <<rows[i].node>> BY <1>4, <2>2 DEF NodeNames
    <3>2. IsList(ss[i]) /\ ToSet(ss[i]) = {rows[i].node} /\ Len(ss[i]) = 1 BY <3>1, ListUnit
    <3>3. rows[i].id = <<"node", rows[i].node>> BY <2>1, <2>2 DEF IsRow
    <3>4. Distinct(ss[i])
      <4>1. \A k \in 1 .. Len(ss[i]) : k = 1 BY <3>2
      <4> QED BY <4>1 DEF Distinct
    <3> QED BY <3>2, <3>3, <3>4
  <2>3. CASE ~(rows[i].type = "node" /\ rows[i].node # "")
    <3>1. ss[i] = <<>> BY <1>4, <2>3 DEF NodeNames
    <3>2. IsList(ss[i]) /\ ToSet(ss[i]) = {} /\ Len(ss[i]) = 0 BY <3>1, ListEmpty
    <3> QED BY <3>2 DEF Distinct
  <2> QED BY <2>2, <2>3
<1>6. IsList(names) BY <1>2, <1>3, <1>5, Loop
<1>7. ASSUME ~Repeats(rows, ById) PROVE Distinct(names)
  <2>1. \A i, j \in 1 .. Len(rows) : rows[i].id = rows[j].id => i = j
    BY <1>1, <1>7 DEF Repeats, IsInjective, ById
  <2>2. IsList(ss) /\ Len(ss) = Len(rows) BY <1>1, <1>3, ListMade
  <2>3. \A i, j \in 1 .. Len(ss) : \A x \in ToSet(ss[i]) : x \in ToSet(ss[j]) => i = j
    BY <1>5, <2>1, <2>2
  <2> QED BY <1>2, <1>5, <2>2, <2>3, FlattenDistinct
<1> QED BY <1>6, <1>7

-----------------------------------------------------------------------------
(* Answers that tell of each thing once bring no series with two values *)

Consistent(samples) ==
    \A s, t \in samples : Series(s) = Series(t) => s.value = t.value

(* Samples of one series come from one call. *)
LEMMA SeriesIs ==
    ASSUME NEW s, NEW t, Series(s) = Series(t)
    PROVE  s.name = t.name /\ s.labels = t.labels /\ CallOf(s) = CallOf(t)
<1>1. s.name = t.name /\ s.labels = t.labels BY DEF Series
<1> QED BY <1>1 DEF CallOf

(* Consistent sets that share no series are consistent together. *)
LEMMA ConsistentUnion ==
    ASSUME NEW A, NEW B, Consistent(A), Consistent(B),
           \A s \in A, t \in B : Series(s) # Series(t)
    PROVE  Consistent(A \cup B)
<1> SUFFICES ASSUME NEW s \in A \cup B, NEW t \in A \cup B, Series(s) = Series(t)
             PROVE  s.value = t.value
  BY DEF Consistent
<1>1. (s \in A /\ t \in A) \/ (s \in B /\ t \in B) OBVIOUS
<1> QED BY <1>1 DEF Consistent

(* Samples whose value is always 1 are consistent. *)
LEMMA ConsistentOnes ==
    ASSUME NEW A, \A s \in A : s.value = 1
    PROVE  Consistent(A)
BY DEF Consistent

(* A JSON number has one value. *)
LEMMA FlexOne ==
    ASSUME NEW j, NEW v \in Flex(j), NEW w \in Flex(j)
    PROVE  v = w
BY DEF Flex

(* Where no identity is there twice, it determines the row. *)
LEMMA OnceById ==
    ASSUME NEW rows, IsList(rows), ~Repeats(rows, ById)
    PROVE  \A r, q \in ToSet(rows) : r.id = q.id => r = q
<1>1. \A i, j \in 1 .. Len(rows) : rows[i].id = rows[j].id => i = j
  BY ListFacts DEF Repeats, IsInjective, ById
<1> QED BY <1>1, ListFacts

(* The same of a guest's type and number. *)
LEMMA OnceByVMID ==
    ASSUME NEW rows, IsList(rows), ~Repeats(rows, ByVMID)
    PROVE  \A r, q \in ToSet(rows) : r.type = q.type /\ Flex(r.vmid) = Flex(q.vmid) => r = q
<1>1. \A i, j \in 1 .. Len(rows) : ByVMID(rows[i]) = ByVMID(rows[j]) => i = j
  BY ListFacts DEF Repeats, IsInjective
<1>2. \A r, q : r.type = q.type /\ Flex(r.vmid) = Flex(q.vmid) => ByVMID(r) = ByVMID(q)
  BY DEF ByVMID
<1> QED BY <1>1, <1>2, ListFacts

(* The same of an HA entry's type and node. *)
LEMMA OnceByNode ==
    ASSUME NEW rows, IsList(rows), ~Repeats(rows, ByNode)
    PROVE  \A r, q \in ToSet(rows) : r.type = q.type /\ r.node = q.node => r = q
<1>1. \A i, j \in 1 .. Len(rows) : ByNode(rows[i]) = ByNode(rows[j]) => i = j
  BY ListFacts DEF Repeats, IsInjective
<1>2. \A r, q : r.type = q.type /\ r.node = q.node => ByNode(r) = ByNode(q) BY DEF ByNode
<1> QED BY <1>1, <1>2, ListFacts

(* Rows told once bring no series with two values. *)
LEMMA ResourcesAgree ==
    ASSUME NEW rows, IsList(rows), \A r \in ToSet(rows) : IsRow(r), ~Repeats(rows, ById),
           NEW samples,
           \A s : s \in samples <=> \E r \in ToSet(rows) : s \in ToSet(ResourceSamples(r))
    PROVE  Consistent(samples)
<1> SUFFICES ASSUME NEW s \in samples, NEW t \in samples, Series(s) = Series(t)
             PROVE  s.value = t.value
  BY DEF Consistent
<1>1. s.name = t.name /\ s.labels = t.labels BY SeriesIs
<1>2. PICK r \in ToSet(rows) : s \in ToSet(ResourceSamples(r)) OBVIOUS
<1>3. PICK q \in ToSet(rows) : t \in ToSet(ResourceSamples(q)) OBVIOUS
<1>4. /\ s.labels[2] = Id(r.id)
      /\ s.name \in Numeric => s.value \in Flex(r.json[s.name])
      /\ s.name \notin Numeric => s.value = RowValue(r, s)
  BY <1>2, ResourceMembers
<1>5. /\ t.labels[2] = Id(q.id)
      /\ t.name \in Numeric => t.value \in Flex(q.json[t.name])
      /\ t.name \notin Numeric => t.value = RowValue(q, t)
  BY <1>3, ResourceMembers
<1>6. r = q
  <2>1. r.id = q.id BY <1>1, <1>4, <1>5 DEF Id
  <2> QED BY <2>1, OnceById
<1>7. RowValue(r, s) = RowValue(r, t) BY <1>1 DEF RowValue
<1> QED BY <1>1, <1>4, <1>5, <1>6, <1>7, FlexOne

(* The same of HA entries: one for each node. *)
LEMMA HAAgrees ==
    ASSUME NEW entries, IsList(entries), ~Repeats(entries, ByNode), NEW samples,
           \A s : s \in samples <=> \E e \in ToSet(entries) : s \in ToSet(HASamples(e))
    PROVE  Consistent(samples)
<1> SUFFICES ASSUME NEW s \in samples, NEW t \in samples, Series(s) = Series(t)
             PROVE  s.value = t.value
  BY DEF Consistent
<1>1. s.name = t.name /\ s.labels = t.labels BY SeriesIs
<1>2. PICK e \in ToSet(entries) : s \in ToSet(HASamples(e)) OBVIOUS
<1>3. PICK f \in ToSet(entries) : t \in ToSet(HASamples(f)) OBVIOUS
<1>4. /\ IsNodeState(e) /\ s.labels[2] = Id(<<"node", e.node>>)
      /\ s.value = BoolToFloat(s.labels[3][2] = Canonical(e.status))
  BY <1>2, HAMembers
<1>5. /\ IsNodeState(f) /\ t.labels[2] = Id(<<"node", f.node>>)
      /\ t.value = BoolToFloat(t.labels[3][2] = Canonical(f.status))
  BY <1>3, HAMembers
<1>6. e = f
  <2>1. e.node = f.node BY <1>1, <1>4, <1>5 DEF Id
  <2>2. e.type = f.type BY <1>4, <1>5 DEF IsNodeState
  <2> QED BY <2>1, <2>2, OnceByNode
<1> QED BY <1>1, <1>4, <1>5, <1>6

(* The same of replication jobs. *)
LEMMA JobsAgree ==
    ASSUME NEW jobs, IsList(jobs), \A j \in ToSet(jobs) : IsJob(j), ~Repeats(jobs, ById),
           NEW samples,
           \A s : s \in samples <=> \E j \in ToSet(jobs) : s \in ToSet(JobSamples(j))
    PROVE  Consistent(samples)
<1> SUFFICES ASSUME NEW s \in samples, NEW t \in samples, Series(s) = Series(t)
             PROVE  s.value = t.value
  BY DEF Consistent
<1>1. s.name = t.name /\ s.labels = t.labels BY SeriesIs
<1>2. PICK j \in ToSet(jobs) : s \in ToSet(JobSamples(j)) OBVIOUS
<1>3. PICK k \in ToSet(jobs) : t \in ToSet(JobSamples(k)) OBVIOUS
<1>4. /\ s.labels[2] = Id(j.id)
      /\ s.name \in Numeric => \E st \in j.status : s.value \in Flex(st[s.name])
      /\ s.name \notin Numeric => s.value = 1
  BY <1>2, JobMembers
<1>5. /\ t.labels[2] = Id(k.id)
      /\ t.name \in Numeric => \E st \in k.status : t.value \in Flex(st[t.name])
      /\ t.name \notin Numeric => t.value = 1
  BY <1>3, JobMembers
<1>6. j = k
  <2>1. j.id = k.id BY <1>1, <1>4, <1>5 DEF Id
  <2> QED BY <2>1, OnceById
<1>7. \A st, other \in j.status : st = other BY DEF IsJob
<1> QED BY <1>1, <1>4, <1>5, <1>6, <1>7, FlexOne

(* The same of one answer about a subscription. *)
LEMMA SubscriptionAgrees ==
    ASSUME NEW n, NEW subs, IsList(subs), Len(subs) <= 1, NEW samples,
           \A s : s \in samples <=> \E sub \in ToSet(subs) : s \in ToSet(SubscriptionSamples(n, sub))
    PROVE  Consistent(samples)
<1> SUFFICES ASSUME NEW s \in samples, NEW t \in samples, Series(s) = Series(t)
             PROVE  s.value = t.value
  BY DEF Consistent
<1>1. s.name = t.name /\ s.labels = t.labels BY SeriesIs
<1>2. PICK sub \in ToSet(subs) : s \in ToSet(SubscriptionSamples(n, sub)) OBVIOUS
<1>3. PICK other \in ToSet(subs) : t \in ToSet(SubscriptionSamples(n, other)) OBVIOUS
<1>4. s.value = SubValue(sub, s) /\ t.value = SubValue(other, t)
  BY <1>2, <1>3, SubscriptionMembers
<1>5. sub = other
  <2>1. PICK i \in 1 .. Len(subs) : sub = subs[i] BY ListFacts
  <2>2. PICK j \in 1 .. Len(subs) : other = subs[j] BY ListFacts
  <2>3. i = 1 /\ j = 1 BY ListFacts
  <2> QED BY <2>1, <2>2, <2>3
<1>6. SubValue(sub, s) = SubValue(sub, t) BY <1>1 DEF SubValue
<1> QED BY <1>4, <1>5, <1>6

(* The same of the guests of one node. *)
LEMMA OnbootAgrees ==
    ASSUME NEW n, NEW guests, IsList(guests), ~Repeats(guests, ByVMID), NEW samples,
           \A s : s \in samples <=> \E g \in ToSet(guests) : s \in ToSet(OnbootSamples(n, g))
    PROVE  Consistent(samples)
<1> SUFFICES ASSUME NEW s \in samples, NEW t \in samples, Series(s) = Series(t)
             PROVE  s.value = t.value
  BY DEF Consistent
<1> DEFINE vmid(g) == CHOOSE v \in Flex(g.vmid) : TRUE
<1>1. s.labels = t.labels BY SeriesIs
<1>2. PICK g \in ToSet(guests) : s \in ToSet(OnbootSamples(n, g)) OBVIOUS
<1>3. PICK h \in ToSet(guests) : t \in ToSet(OnbootSamples(n, h)) OBVIOUS
<1>4. Flex(g.vmid) # {} /\ s.labels[2] = Id(<<g.type, vmid(g)>>) /\ s.value = OnbootValue(g)
  BY <1>2, OnbootMembers
<1>5. Flex(h.vmid) # {} /\ t.labels[2] = Id(<<h.type, vmid(h)>>) /\ t.value = OnbootValue(h)
  BY <1>3, OnbootMembers
<1>6. ASSUME NEW j, Flex(j) # {} PROVE Flex(j) = {CHOOSE v \in Flex(j) : TRUE}
  BY <1>6 DEF Flex
<1>7. Flex(g.vmid) = {vmid(g)} /\ Flex(h.vmid) = {vmid(h)} BY <1>4, <1>5, <1>6
<1> HIDE DEF vmid
<1>8. g.type = h.type /\ vmid(g) = vmid(h) BY <1>1, <1>4, <1>5 DEF Id
<1>9. g = h BY <1>7, <1>8, OnceByVMID
<1> QED BY <1>4, <1>5, <1>9

(* The same of what a poll ends with. *)
LEMMA EndAgrees ==
    ASSUME NEW samples, NEW v, NEW x, Ends(samples, v, x)
    PROVE  Consistent(ToSet(samples))
<1> SUFFICES ASSUME NEW s \in ToSet(samples), NEW t \in ToSet(samples), Series(s) = Series(t)
             PROVE  s.value = t.value
  BY DEF Consistent
<1>1. s.name = t.name BY SeriesIs
<1>2. CASE s.name = "pve_up" BY <1>1, <1>2 DEF Ends
<1>3. CASE s.name # "pve_up"
  <2>1. s.name \in SelfNames /\ t.name \in SelfNames BY <1>1, <1>3 DEF Ends
  <2> QED BY <2>1 DEF Ends
<1> QED BY <1>2, <1>3

-----------------------------------------------------------------------------
(* The state: who the samples are of, and which calls they tell of *)

Owner(k) == setup.targets[k]
Polled == 1 .. (IF pc = "done" THEN target ELSE target - 1)

(* The calls that out may hold samples of when call c is next *)
Seen(c) ==
    CASE c = "status" -> {"resources"}
      [] c = "version" -> {"resources", "status"}
      [] c = "qdevice" -> {"resources", "status", "version"}
      [] c = "backup" -> {"resources", "status", "version", "qdevice"}
      [] c = "ha" -> {"resources", "status", "version", "qdevice", "backup"}
      [] c = "nodes" -> {"resources", "status", "version", "qdevice", "backup", "ha",
                         "replication", "subscription", "onboot"}
      [] OTHER -> {}

(* Samples of the target that is polled, of some of the calls *)
Batch(s, calls) ==
    /\ IsList(s) /\ EnumsWhole(s)
    /\ \A x \in ToSet(s) : Keyed(x, Name) /\ CallOf(x) \in calls

Told(n) == \E rows \in setup.resources : n \in ToSet(ForEach(rows, NodeNames))

Base ==
    /\ setup \in Cases /\ target \in 1 .. Len(setup.targets)
    /\ pc \in {"resources", "nodes", "done"} \cup DOMAIN Then
    /\ pc = "done" => target = Len(setup.targets)
    /\ pc \in {"resources", "done"} => out = <<>> /\ nodes = <<>>
    /\ IsList(nodes) /\ \A n \in ToSet(nodes) : Told(n)
    /\ Batch(out, Seen(pc))
    /\ IsList(snap) /\ EnumsWhole(snap)
    /\ \A s \in ToSet(snap) : \E k \in Polled : Keyed(s, Owner(k))

(* What the assumption on Cases gives in a state. *)
LEMMA CaseFacts ==
    ASSUME Base
    PROVE  /\ IsCase(setup) /\ IsList(setup.targets) /\ Len(setup.targets) \in Nat
           /\ \A k, l \in 1 .. Len(setup.targets) : Owner(k) = Owner(l) => k = l
           /\ target \in 1 .. Len(setup.targets) /\ Name = Owner(target)
<1>1. IsCase(setup) BY CasesAssumption DEF Base
<1>2. IsList(setup.targets) /\ IsInjective(setup.targets) BY <1>1 DEF IsCase
<1>3. Len(setup.targets) \in Nat /\ DOMAIN setup.targets = 1 .. Len(setup.targets)
  BY <1>2, ListFacts
<1> QED BY <1>1, <1>2, <1>3 DEF Base, IsInjective, Owner, Name

(* Batches one after the other are a batch. *)
LEMMA BatchConcat ==
    ASSUME NEW s, NEW t, NEW C, NEW D, Batch(s, C), Batch(t, D)
    PROVE  Batch(s \o t, C \cup D) /\ ToSet(s \o t) = ToSet(s) \cup ToSet(t)
BY ListConcat, EnumsConcat DEF Batch

(* Samples of calls that bring no enumerations. *)
LEMMA BatchWithoutEnums ==
    ASSUME NEW s, NEW C, IsList(s), C \cap {"resources", "ha", "subscription"} = {},
           \A x \in ToSet(s) : Keyed(x, Name) /\ CallOf(x) \in C
    PROVE  Batch(s, C)
BY NamesOfCalls, NoEnums DEF Batch

(* Every call but the primary one and those of the nodes *)
LEMMA CallBrings ==
    ASSUME Base, NoAnswer \/ Status \/ Version \/ QDevice \/ Backup \/ HAStatus
    PROVE  \E samples :
              /\ Brings(pc, samples) /\ Batch(samples, {pc})
              /\ ~repeated' => ~repeated /\ Consistent(ToSet(samples))
<1>1. CASE NoAnswer
  <2>1. Batch(<<>>, {pc}) BY ListEmpty, NoEnums DEF Batch
  <2>2. Consistent(ToSet(<<>>)) BY ListEmpty DEF Consistent
  <2> QED BY <1>1, <2>1, <2>2 DEF NoAnswer
<1>2. CASE Status
  <2>1. PICK rows \in setup.status :
           /\ Brings("status", ForEach(rows, StatusSamples))
           /\ repeated' = (repeated \/ Repeats(rows, ById))
    BY <1>2 DEF Status
  <2>2. IsList(rows) /\ pc = "status" BY <2>1, CaseFacts DEF IsCase, Brings
  <2> DEFINE samples == ForEach(rows, StatusSamples)
  <2>3. /\ IsList(samples)
        /\ \A s : s \in ToSet(samples) <=> \E r \in ToSet(rows) : s \in ToSet(StatusSamples(r))
    BY <2>2, StatusLoop
  <2>4. Brings("status", samples) BY <2>1
  <2> HIDE DEF samples
  <2>5. \A s \in ToSet(samples) : Keyed(s, Name) /\ CallOf(s) \in {pc}
    BY <2>2, <2>3, StatusMembers DEF Says
  <2>6. Batch(samples, {pc}) BY <2>2, <2>3, <2>5, BatchWithoutEnums
  <2>7. Consistent(ToSet(samples)) BY <2>3, StatusMembers, ConsistentOnes
  <2> QED BY <2>1, <2>2, <2>4, <2>6, <2>7
<1>3. CASE Version
  <2>1. PICK v \in setup.version :
           Brings("version", Add("pve_version_info", 1, <<<<"version", v>>>>))
    BY <1>3 DEF Version
  <2> DEFINE samples == Add("pve_version_info", 1, <<<<"version", v>>>>)
  <2>2. pc = "version" /\ Brings("version", samples) BY <2>1 DEF Brings
  <2>3. IsList(samples) /\ \A s \in ToSet(samples) : Says(s, Name, "version") /\ s.value = 1
    BY VersionMembers
  <2> HIDE DEF samples
  <2>4. Batch(samples, {pc}) BY <2>2, <2>3, BatchWithoutEnums DEF Says
  <2>5. Consistent(ToSet(samples)) BY <2>3, ConsistentOnes
  <2> QED BY <1>3, <2>2, <2>4, <2>5 DEF Version
<1>4. CASE QDevice
  <2>1. PICK q \in setup.qdevice : Brings("qdevice", QDeviceSamples(q))
    BY <1>4 DEF QDevice
  <2>2. pc = "qdevice" BY <2>1 DEF Brings
  <2>3. Batch(QDeviceSamples(q), {pc}) BY <2>2, QDeviceMembers, BatchWithoutEnums DEF Says
  <2>4. Consistent(ToSet(QDeviceSamples(q))) BY QDeviceMembers, ConsistentOnes
  <2> QED BY <1>4, <2>1, <2>2, <2>3, <2>4 DEF QDevice
<1>5. CASE Backup
  <2>1. PICK guests \in setup.backup :
           /\ Brings("backup",
                     Add("pve_not_backed_up_total", Len(guests), <<Id(<<"cluster", clusterID>>)>>)
                     \o ForEach(guests, NotBackedUpSamples))
           /\ repeated' = (repeated \/ Repeats(guests, ByVMID))
    BY <1>5 DEF Backup
  <2> DEFINE total == Add("pve_not_backed_up_total", Len(guests), <<Id(<<"cluster", clusterID>>)>>)
             each == ForEach(guests, NotBackedUpSamples)
  <2>2. pc = "backup" /\ Brings("backup", total \o each) BY <2>1 DEF Brings
  <2>3. /\ IsList(total)
        /\ \A s \in ToSet(total) :
              /\ Says(s, Name, "backup")
              /\ s.name = "pve_not_backed_up_total" /\ s.value = Len(guests)
    BY BackupTotalMembers
  <2>4. IsList(guests) BY CaseFacts DEF IsCase
  <2>5. /\ IsList(each)
        /\ \A s : s \in ToSet(each) <=> \E g \in ToSet(guests) : s \in ToSet(NotBackedUpSamples(g))
    BY <2>4, BackupLoop
  <2> HIDE DEF total, each
  <2>6. \A s \in ToSet(each) :
           Says(s, Name, "backup") /\ s.name = "pve_not_backed_up_info" /\ s.value = 1
    BY <2>5, NotBackedUpMembers
  <2>7. IsList(total \o each) /\ ToSet(total \o each) = ToSet(total) \cup ToSet(each)
    BY <2>3, <2>5, ListConcat
  <2>8. \A s \in ToSet(total \o each) : Keyed(s, Name) /\ CallOf(s) \in {pc}
    BY <2>2, <2>3, <2>6, <2>7 DEF Says
  <2>9. Batch(total \o each, {pc}) BY <2>2, <2>7, <2>8, BatchWithoutEnums
  <2>10. Consistent(ToSet(total \o each))
    <3>1. Consistent(ToSet(total)) BY <2>3 DEF Consistent
    <3>2. Consistent(ToSet(each)) BY <2>6, ConsistentOnes
    <3>3. \A s \in ToSet(total), t \in ToSet(each) : Series(s) # Series(t)
      BY <2>3, <2>6, SeriesIs
    <3> QED BY <2>7, <3>1, <3>2, <3>3, ConsistentUnion
  <2> QED BY <2>1, <2>2, <2>9, <2>10
<1>6. CASE HAStatus
  <2>1. PICK entries \in setup.ha :
           /\ Brings("ha", ForEach(entries, HASamples))
           /\ repeated' = (repeated \/ Repeats(entries, ByNode))
    BY <1>6 DEF HAStatus
  <2> DEFINE samples == ForEach(entries, HASamples)
  <2>2. IsList(entries) BY CaseFacts DEF IsCase
  <2>3. pc = "ha" /\ Brings("ha", samples) BY <2>1 DEF Brings
  <2>4. /\ IsList(samples) /\ EnumsWhole(samples)
        /\ \A s : s \in ToSet(samples) <=> \E e \in ToSet(entries) : s \in ToSet(HASamples(e))
    BY <2>2, HALoop
  <2> HIDE DEF samples
  <2>5. \A s \in ToSet(samples) : Keyed(s, Name) /\ CallOf(s) \in {pc}
    BY <2>3, <2>4, HAMembers DEF Says
  <2>6. Batch(samples, {pc}) BY <2>4, <2>5 DEF Batch
  <2>7. ~Repeats(entries, ByNode) => Consistent(ToSet(samples)) BY <2>2, <2>4, HAAgrees
  <2> QED BY <2>1, <2>3, <2>6, <2>7
<1> QED BY <1>1, <1>2, <1>3, <1>4, <1>5, <1>6

(* The calls of node n: the answers, and the samples J, U and G they bring *)
NodeAnswers(n, jobs, subs, guests, J, U, G) ==
    /\ IsList(jobs) /\ \A j \in ToSet(jobs) : IsJob(j)
    /\ IsList(subs) /\ Len(subs) <= 1
    /\ IsList(guests)
    /\ Batch(J, {"replication"})
    /\ \A s : s \in ToSet(J) <=> \E j \in ToSet(jobs) : s \in ToSet(JobSamples(j))
    /\ Batch(U, {"subscription"})
    /\ \A s : s \in ToSet(U) <=> \E sub \in ToSet(subs) : s \in ToSet(SubscriptionSamples(n, sub))
    /\ Batch(G, {"onboot"})
    /\ \A s : s \in ToSet(G) <=> \E g \in ToSet(guests) : s \in ToSet(OnbootSamples(n, g))

NodeMerges(n, jobs, subs, guests, J, U, G) ==
    /\ NodeAnswers(n, jobs, subs, guests, J, U, G)
    /\ out' = ((out \o J) \o U) \o G
    /\ sent' = sent \cup UNION {UNION {Numbers(st, j.id) : st \in j.status} :
                                  j \in ToSet(jobs)}
    /\ repeated' = (repeated \/ Repeats(jobs, ById) \/ OfTwoNodes(jobs)
                     \/ Repeats(guests, ByVMID))

(* A node's step appends one batch of each of its three calls. *)
LEMMA NodeBrings ==
    ASSUME Base, pc = "nodes", NEW i \in DOMAIN nodes, Node(i)
    PROVE  /\ i \in 1 .. Len(nodes) /\ nodes' = RemoveAt(nodes, i)
           /\ UNCHANGED <<setup, target, pc, clusterID, snap, up>>
           /\ \E jobs, subs, guests, J, U, G :
                 NodeMerges(nodes[i], jobs, subs, guests, J, U, G)
<1> DEFINE n == nodes[i]
<1>1. i \in 1 .. Len(nodes) /\ n \in ToSet(nodes) BY ListFacts DEF Base
<1>2. PICK rows \in setup.resources : n \in ToSet(ForEach(rows, NodeNames))
  BY <1>1 DEF Base, Told
<1>3. PICK jobs \in setup.replication[n], subs \in setup.subscription[n],
           guests \in setup.onboot[n] :
         /\ out' = out \o ForEach(jobs, JobSamples)
                \o ForEach(subs, LAMBDA sub : SubscriptionSamples(n, sub))
                \o ForEach(guests, LAMBDA g : OnbootSamples(n, g))
         /\ sent' = sent \cup UNION {UNION {Numbers(st, j.id) : st \in j.status} :
                                       j \in ToSet(jobs)}
         /\ repeated' = (repeated \/ Repeats(jobs, ById) \/ OfTwoNodes(jobs)
                          \/ Repeats(guests, ByVMID))
         /\ nodes' = RemoveAt(nodes, i)
         /\ UNCHANGED <<setup, target, pc, clusterID, snap, up>>
  BY DEF Node
<1> HIDE DEF n
<1>4. /\ IsList(jobs) /\ \A j \in ToSet(jobs) : IsJob(j)
      /\ IsList(subs) /\ Len(subs) <= 1
      /\ IsList(guests)
  BY <1>2, <1>3, CaseFacts DEF IsCase
<1> DEFINE J == ForEach(jobs, JobSamples)
           U == ForEach(subs, LAMBDA sub : SubscriptionSamples(n, sub))
           G == ForEach(guests, LAMBDA g : OnbootSamples(n, g))
<1>5. out' = ((out \o J) \o U) \o G BY <1>3
<1>6. /\ IsList(J)
      /\ \A s : s \in ToSet(J) <=> \E j \in ToSet(jobs) : s \in ToSet(JobSamples(j))
  BY <1>4, JobLoop
<1>7. /\ IsList(U) /\ EnumsWhole(U)
      /\ \A s : s \in ToSet(U) <=> \E sub \in ToSet(subs) : s \in ToSet(SubscriptionSamples(n, sub))
  <2>1. U = SubscriptionsOf(n, subs) BY DEF SubscriptionsOf
  <2> HIDE DEF U
  <2> QED BY <1>4, <2>1, SubscriptionLoop
<1>8. /\ IsList(G)
      /\ \A s : s \in ToSet(G) <=> \E g \in ToSet(guests) : s \in ToSet(OnbootSamples(n, g))
  BY <1>4, OnbootLoop
<1> HIDE DEF J, U, G
<1>9. Batch(J, {"replication"})
  <2>1. \A s \in ToSet(J) : Keyed(s, Name) /\ CallOf(s) \in {"replication"}
    BY <1>4, <1>6, JobMembers DEF Says
  <2> QED BY <1>6, <2>1, BatchWithoutEnums
<1>10. Batch(U, {"subscription"})
  <2>1. \A s \in ToSet(U) : Keyed(s, Name) /\ CallOf(s) \in {"subscription"}
    BY <1>7, SubscriptionMembers DEF Says
  <2> QED BY <1>7, <2>1 DEF Batch
<1>11. Batch(G, {"onboot"})
  <2>1. \A s \in ToSet(G) : Says(s, Name, "onboot") BY <1>8, OnbootMembers
  <2>2. \A s \in ToSet(G) : Keyed(s, Name) /\ CallOf(s) \in {"onboot"} BY <2>1 DEF Says
  <2> QED BY <1>8, <2>2, BatchWithoutEnums
<1>12. NodeAnswers(n, jobs, subs, guests, J, U, G)
  BY <1>4, <1>6, <1>7, <1>8, <1>9, <1>10, <1>11 DEF NodeAnswers
<1>13. NodeMerges(n, jobs, subs, guests, J, U, G)
  BY <1>3, <1>5, <1>12 DEF NodeMerges
<1> QED BY <1>1, <1>3, <1>13 DEF n

(* The primary call's answer makes the first batch. *)
LEMMA ResourcesBring ==
    ASSUME Base, Resources
    PROVE  /\ pc = "resources" /\ pc' = "status" /\ up' = up \cup {Name}
           /\ UNCHANGED <<setup, target, clusterID, snap>>
           /\ Batch(out', {"resources"})
           /\ \E rows \in setup.resources :
                 /\ IsList(rows) /\ \A r \in ToSet(rows) : IsRow(r)
                 /\ \A s : s \in ToSet(out') <=> \E r \in ToSet(rows) : s \in ToSet(ResourceSamples(r))
                 /\ nodes' = ForEach(rows, NodeNames)
                 /\ sent' = sent \cup UNION {Numbers(rows[i].json, rows[i].id) : i \in DOMAIN rows}
                 /\ repeated' = (repeated \/ Repeats(rows, ById))
<1>1. PICK rows \in setup.resources :
         /\ out' = ForEach(rows, ResourceSamples)
         /\ nodes' = ForEach(rows, NodeNames)
         /\ sent' = sent \cup UNION {Numbers(rows[i].json, rows[i].id) : i \in DOMAIN rows}
         /\ repeated' = (repeated \/ Repeats(rows, ById))
  BY DEF Resources
<1>2. IsList(rows) /\ \A r \in ToSet(rows) : IsRow(r) BY CaseFacts DEF IsCase
<1>3. /\ IsList(out') /\ EnumsWhole(out')
      /\ \A s : s \in ToSet(out') <=> \E r \in ToSet(rows) : s \in ToSet(ResourceSamples(r))
  BY <1>1, <1>2, ResourceLoop
<1>4. \A s \in ToSet(out') : Keyed(s, Name) /\ CallOf(s) \in {"resources"}
  BY <1>2, <1>3, ResourceMembers DEF Says
<1>5. Batch(out', {"resources"}) BY <1>3, <1>4 DEF Batch
<1> QED BY <1>1, <1>2, <1>3, <1>5 DEF Resources

(* A poll ends with b after what is in out: the target's own series *)
LEMMA EndPollIs ==
    ASSUME Base, PrimaryFails \/ Finish
    PROVE  \E v, x, b :
              /\ b = Add("pve_up", v, <<Id(<<"cluster", x>>)>>) \o SelfSamples
              /\ EndPoll(out \o b) /\ Batch(b, {"end"})
              /\ UNCHANGED <<setup, up, sent, repeated>>
              /\ v = IF pc = "resources" THEN 0 ELSE 1
              /\ pc \in {"resources", "nodes"}
<1> DEFINE end(v, x) == Add("pve_up", v, <<Id(<<"cluster", x>>)>>) \o SelfSamples
<1>1. ASSUME NEW v, NEW x PROVE Batch(end(v, x), {"end"})
  <2> DEFINE b == end(v, x)
  <2>1. IsList(b) /\ \A s \in ToSet(b) : Says(s, Name, "end") BY EndMembers
  <2> HIDE DEF b
  <2>2. Batch(b, {"end"}) BY <2>1, BatchWithoutEnums DEF Says
  <2> QED BY <2>2 DEF b
<1>2. CASE PrimaryFails
  <2>1. pc = "resources" /\ out = <<>> BY <1>2 DEF PrimaryFails, Base
  <2>2. EndPoll(end(0, Name)) /\ UNCHANGED <<setup, up, sent, repeated>>
    BY <1>2 DEF PrimaryFails, SelfId
  <2>3. out \o end(0, Name) = end(0, Name)
    <3> DEFINE b == end(0, Name)
    <3>1. IsList(b) BY <1>1 DEF Batch
    <3> HIDE DEF b
    <3>2. <<>> \o b = b BY <3>1, ConcatSimplifications DEF IsList
    <3> QED BY <2>1, <3>2 DEF b
  <2> QED BY <1>1, <2>1, <2>2, <2>3
<1>3. CASE Finish
  <2> DEFINE here == Add("pve_up", 1, <<Id(<<"cluster", clusterID>>)>>)
  <2>1. pc = "nodes" /\ EndPoll((out \o here) \o SelfSamples)
        /\ UNCHANGED <<setup, up, sent, repeated>>
    BY <1>3 DEF Finish
  <2>2. IsList(out) /\ IsList(here) /\ IsList(SelfSamples)
    <3>1. IsList(here) BY AddIs
    <3>2. IsList(SelfSamples) BY AddIs, ListConcat DEF SelfSamples
    <3> QED BY <3>1, <3>2 DEF Base, Batch
  <2> HIDE DEF here
  <2>3. (out \o here) \o SelfSamples = out \o (here \o SelfSamples)
    <3> DEFINE S == ToSet(out) \cup ToSet(here) \cup ToSet(SelfSamples)
    <3>1. out \in Seq(S) /\ here \in Seq(S) /\ SelfSamples \in Seq(S)
      BY <2>2, SeqMonotonic DEF IsList
    <3> HIDE DEF S
    <3> QED BY <3>1, ConcatAssociative
  <2>4. EndPoll(out \o end(1, clusterID)) BY <2>1, <2>3 DEF here
  <2> QED BY <1>1, <2>1, <2>4
<1> QED BY <1>2, <1>3

(* The end of a poll moves its samples to the snapshot. *)
LEMMA PollEnded ==
    ASSUME Base, NEW b, Batch(b, {"end"}), EndPoll(out \o b), UNCHANGED setup,
           pc \in {"resources", "nodes"}
    PROVE  /\ IsList(snap') /\ EnumsWhole(snap')
           /\ ToSet(snap') = ToSet(snap) \cup (ToSet(out) \cup ToSet(b))
           /\ \A s \in ToSet(out) \cup ToSet(b) : Keyed(s, Owner(target))
           /\ Polled = 1 .. target - 1 /\ Polled' = 1 .. target
           /\ out' = <<>> /\ nodes' = <<>>
           /\ target' \in 1 .. Len(setup.targets)
           /\ \/ pc' = "done" /\ target' = target /\ target = Len(setup.targets)
              \/ pc' = "resources" /\ target' = target + 1
<1>1. /\ Batch(out \o b, Seen(pc) \cup {"end"})
      /\ ToSet(out \o b) = ToSet(out) \cup ToSet(b)
  BY BatchConcat DEF Base
<1>2. /\ IsList(snap) /\ EnumsWhole(snap) /\ snap' = snap \o (out \o b)
      /\ out' = <<>> /\ nodes' = <<>>
  BY DEF Base, EndPoll
<1>3. IsList(out \o b) /\ EnumsWhole(out \o b) BY <1>1 DEF Batch
<1>4. IsList(snap') /\ EnumsWhole(snap') /\ ToSet(snap') = ToSet(snap) \cup ToSet(out \o b)
  BY <1>2, <1>3, ListConcat, EnumsConcat
<1>5. \A s \in ToSet(out) \cup ToSet(b) : Keyed(s, Owner(target))
  BY <1>1, CaseFacts DEF Batch
<1>6. Len(setup.targets) \in Nat /\ target \in 1 .. Len(setup.targets) BY CaseFacts
<1>7. /\ \/ pc' = "done" /\ target' = target /\ target = Len(setup.targets)
         \/ pc' = "resources" /\ target' = target + 1 /\ target # Len(setup.targets)
  BY DEF EndPoll
<1>8. target' \in 1 .. Len(setup.targets) BY <1>6, <1>7
<1>9. Polled = 1 .. target - 1 /\ Polled' = 1 .. target
  <2>1. pc # "done" OBVIOUS
  <2>2. CASE pc' = "done" BY <1>6, <1>7, <2>1, <2>2 DEF Polled
  <2>3. CASE pc' = "resources" /\ target' = target + 1
    <3>1. target' - 1 = target BY <1>6, <2>3
    <3> QED BY <2>1, <2>3, <3>1 DEF Polled
  <2> QED BY <1>7, <2>2, <2>3
<1> QED BY <1>1, <1>2, <1>4, <1>5, <1>7, <1>8, <1>9

(* At the start nothing has been collected. *)
LEMMA BaseInit ==
    ASSUME Init
    PROVE  Base
<1>1. IsCase(setup) BY CasesAssumption DEF Init
<1>2. IsList(setup.targets) /\ setup.targets # <<>> BY <1>1 DEF IsCase
<1>3. Len(setup.targets) \in Nat /\ Len(setup.targets) # 0
  BY <1>2, ListFacts, EmptySeq DEF IsList
<1>4. target \in 1 .. Len(setup.targets) BY <1>3 DEF Init
<1>5. IsList(<<>>) /\ EnumsWhole(<<>>) /\ ToSet(<<>>) = {} BY ListEmpty, NoEnums
<1>6. Batch(<<>>, Seen(pc)) BY <1>5 DEF Batch
<1> QED BY <1>4, <1>5, <1>6 DEF Init, Base

(* Every step keeps Base, one case for each action. *)
LEMMA BaseStep ==
    ASSUME Base, [Next]_vars
    PROVE  Base'
<1>0. IsList(setup.targets) /\ Len(setup.targets) \in Nat BY CaseFacts
<1>1. CASE PrimaryFails \/ Finish
  <2>1. PICK v, x, b :
           /\ EndPoll(out \o b) /\ Batch(b, {"end"})
           /\ UNCHANGED setup /\ pc \in {"resources", "nodes"}
    BY <1>1, EndPollIs
  <2>2. /\ IsList(snap') /\ EnumsWhole(snap')
        /\ ToSet(snap') = ToSet(snap) \cup (ToSet(out) \cup ToSet(b))
        /\ \A s \in ToSet(out) \cup ToSet(b) : Keyed(s, Owner(target))
        /\ Polled = 1 .. target - 1 /\ Polled' = 1 .. target
        /\ out' = <<>> /\ nodes' = <<>>
        /\ target' \in 1 .. Len(setup.targets)
        /\ \/ pc' = "done" /\ target' = target /\ target = Len(setup.targets)
           \/ pc' = "resources" /\ target' = target + 1
    BY <2>1, PollEnded
  <2>3. \A s \in ToSet(snap') : \E k \in Polled' : Keyed(s, Owner(k)')
    <3> TAKE s \in ToSet(snap')
    <3>0. \A k : Owner(k)' = Owner(k) BY <2>1 DEF Owner
    <3>1. CASE s \in ToSet(snap)
      <4>1. PICK k \in Polled : Keyed(s, Owner(k)) BY <3>1 DEF Base
      <4>2. k \in Polled' BY <2>2 DEF Base
      <4> QED BY <3>0, <4>1, <4>2
    <3>2. CASE s \in ToSet(out) \cup ToSet(b)
      <4>1. target \in Polled' BY <2>2 DEF Base
      <4> QED BY <2>2, <3>0, <3>2, <4>1
    <3> QED BY <2>2, <3>1, <3>2
  <2>4. Batch(out, Seen(pc))'
    <3>1. IsList(<<>>) /\ EnumsWhole(<<>>) /\ ToSet(<<>>) = {} BY ListEmpty, NoEnums
    <3> QED BY <2>2, <3>1 DEF Batch
  <2>5. IsList(nodes)' /\ \A n \in ToSet(nodes') : Told(n)' BY <2>2, ListEmpty
  <2>6. (pc = "done" => target = Len(setup.targets))' BY <2>1, <2>2
  <2> QED BY <2>1, <2>2, <2>3, <2>4, <2>5, <2>6 DEF Base
<1>2. CASE Resources
  <2>1. /\ pc = "resources" /\ pc' = "status"
        /\ UNCHANGED <<setup, target, clusterID, snap>>
        /\ Batch(out', {"resources"})
    BY <1>2, ResourcesBring
  <2>2. PICK rows \in setup.resources :
           /\ IsList(rows) /\ \A r \in ToSet(rows) : IsRow(r)
           /\ nodes' = ForEach(rows, NodeNames)
    BY <1>2, ResourcesBring
  <2>3. IsList(nodes') BY <2>2, NodeNamesLoop
  <2>4. \A n \in ToSet(nodes') : Told(n)' BY <2>1, <2>2 DEF Told
  <2>5. Batch(out, Seen(pc))'
    <3>1. Name' = Name BY <2>1 DEF Name
    <3> QED BY <2>1, <3>1 DEF Batch, Seen
  <2>6. Polled' = Polled /\ \A k : Owner(k)' = Owner(k) BY <2>1 DEF Polled, Owner
  <2>7. "status" \in DOMAIN Then BY DEF Then
  <2>8. IsList(snap') /\ EnumsWhole(snap') /\ \A s \in ToSet(snap') : \E k \in Polled' : Keyed(s, Owner(k)')
    BY <2>1, <2>6 DEF Base
  <2> QED BY <2>1, <2>3, <2>4, <2>5, <2>7, <2>8 DEF Base
<1>3. CASE NoAnswer \/ Status \/ Version \/ QDevice \/ Backup \/ HAStatus
  <2>1. PICK samples : Brings(pc, samples) /\ Batch(samples, {pc}) BY <1>3, CallBrings
  <2>2. /\ pc \in DOMAIN Then /\ pc' = Then[pc] /\ out' = out \o samples
        /\ UNCHANGED <<setup, target, nodes, snap>>
    <3>1. pc \in DOMAIN Then
      BY <1>3 DEF NoAnswer, Status, Version, QDevice, Backup, HAStatus, Brings, Then
    <3> QED BY <2>1, <3>1 DEF Brings
  <2>3. pc' \in {"version", "qdevice", "backup", "ha", "nodes"}
        /\ Seen(pc) \cup {pc} \subseteq Seen(pc')
    BY <2>2 DEF Then, Seen
  <2>4. Batch(out, Seen(pc))'
    <3>1. Batch(out \o samples, Seen(pc) \cup {pc}) BY <2>1, BatchConcat DEF Base
    <3>2. Name' = Name BY <2>2 DEF Name
    <3> QED BY <2>2, <2>3, <3>1, <3>2 DEF Batch
  <2>5. Polled' = Polled /\ \A k : Owner(k)' = Owner(k)
    <3>1. pc # "done" /\ pc' # "done" BY <2>2, <2>3 DEF Then
    <3> QED BY <2>2, <3>1 DEF Polled, Owner
  <2>6. \A n \in ToSet(nodes') : Told(n)' BY <2>2 DEF Base, Told
  <2>7. pc' \in {"resources", "nodes", "done"} \cup DOMAIN Then /\ pc' \notin {"resources", "done"}
    BY <2>3 DEF Then
  <2>8. IsList(snap') /\ EnumsWhole(snap') /\ \A s \in ToSet(snap') : \E k \in Polled' : Keyed(s, Owner(k)')
    BY <2>2, <2>5 DEF Base
  <2> QED BY <2>2, <2>4, <2>6, <2>7, <2>8 DEF Base
<1>4. CASE pc = "nodes" /\ \E i \in DOMAIN nodes : Node(i)
  <2>1. PICK i \in DOMAIN nodes : Node(i) BY <1>4
  <2>2. /\ i \in 1 .. Len(nodes) /\ nodes' = RemoveAt(nodes, i)
        /\ UNCHANGED <<setup, target, pc, clusterID, snap, up>>
    BY <1>4, <2>1, NodeBrings
  <2>10. PICK jobs, subs, guests, J, U, G : NodeMerges(nodes[i], jobs, subs, guests, J, U, G)
    BY <1>4, <2>1, NodeBrings
  <2>3. /\ Batch(J, {"replication"}) /\ Batch(U, {"subscription"}) /\ Batch(G, {"onboot"})
        /\ out' = ((out \o J) \o U) \o G
    BY <2>10 DEF NodeMerges, NodeAnswers
  <2>4. Batch(((out \o J) \o U) \o G,
              ((Seen(pc) \cup {"replication"}) \cup {"subscription"}) \cup {"onboot"})
    <3>1. Batch(out, Seen(pc)) BY DEF Base
    <3>2. Batch(out \o J, Seen(pc) \cup {"replication"}) BY <2>3, <3>1, BatchConcat
    <3>3. Batch((out \o J) \o U, (Seen(pc) \cup {"replication"}) \cup {"subscription"})
      BY <2>3, <3>2, BatchConcat
    <3> QED BY <2>3, <3>3, BatchConcat
  <2>5. Batch(out, Seen(pc))'
    <3>1. Name' = Name BY <2>2 DEF Name
    <3>2. ((Seen(pc) \cup {"replication"}) \cup {"subscription"}) \cup {"onboot"} = Seen(pc)
      BY <1>4 DEF Seen
    <3> QED BY <2>2, <2>3, <2>4, <3>1, <3>2 DEF Batch
  <2>6. IsList(nodes') /\ ToSet(nodes') \subseteq ToSet(nodes)
    BY <2>2, RemoveAtIs DEF Base
  <2>7. \A n \in ToSet(nodes') : Told(n)' BY <2>2, <2>6 DEF Base, Told
  <2>8. Polled' = Polled /\ \A k : Owner(k)' = Owner(k) BY <2>2 DEF Polled, Owner
  <2>9. IsList(snap') /\ EnumsWhole(snap') /\ \A s \in ToSet(snap') : \E k \in Polled' : Keyed(s, Owner(k)')
    BY <2>2, <2>8 DEF Base
  <2> QED BY <1>4, <2>2, <2>5, <2>6, <2>7, <2>9 DEF Base
<1>5. CASE UNCHANGED vars
  <2>1. Name' = Name /\ Polled' = Polled /\ \A k : Owner(k)' = Owner(k)
    BY <1>5 DEF vars, Name, Polled, Owner
  <2>2. Batch(out, Seen(pc))' BY <1>5, <2>1 DEF vars, Base, Batch
  <2>3. \A n \in ToSet(nodes') : Told(n)' BY <1>5 DEF vars, Base, Told
  <2>4. \A s \in ToSet(snap') : \E k \in Polled' : Keyed(s, Owner(k)')
    BY <1>5, <2>1 DEF vars, Base
  <2> QED BY <1>5, <2>2, <2>3, <2>4 DEF vars, Base
<1> QED BY <1>1, <1>2, <1>3, <1>4, <1>5 DEF Next, Published

(* Base holds in every state: samples have the keys of their names and the     *)
(* label of their target, out holds samples of the calls made so far only,     *)
(* and enumerations stand whole, for any answers that satisfy the assumption.  *)
THEOREM Shape == Spec => []Base
BY BaseInit, BaseStep, PTL DEF Spec

-----------------------------------------------------------------------------
(* What the backends show of the samples of a snapshot *)

(* Values tell series of a name apart as well as keys and values do *)
LEMMA DupIsSeries ==
    ASSUME NEW s, NEW t, NEW c, NEW d, Keyed(s, c), Keyed(t, d)
    PROVE  Dup(s, t) <=> Series(s) = Series(t)
<1>1. ASSUME Series(s) = Series(t) PROVE Dup(s, t)
  BY <1>1 DEF Series, Dup, LabelValues
<1>2. ASSUME Dup(s, t) PROVE Series(s) = Series(t)
  <2> DEFINE n == Len(s.labels)
  <2>1. s.name = t.name /\ Len(t.labels) = n BY <1>2 DEF Dup, Keyed
  <2>2. /\ s.labels = [i \in 1 .. n |-> <<KeysOf(s.name)[i], s.labels[i][2]>>]
        /\ t.labels = [i \in 1 .. n |-> <<KeysOf(s.name)[i], t.labels[i][2]>>]
    BY <2>1 DEF Keyed
  <2> HIDE DEF n
  <2>3. DOMAIN s.labels = 1 .. n /\ DOMAIN t.labels = 1 .. n BY <2>2
  <2>4. \A i \in 1 .. n : s.labels[i][2] = t.labels[i][2]
    <3> TAKE i \in 1 .. n
    <3>1. LabelValues(s)[i] = LabelValues(t)[i] BY <1>2 DEF Dup
    <3> QED BY <2>3, <3>1 DEF LabelValues
  <2>5. s.labels = t.labels BY <2>2, <2>4
  <2> QED BY <2>1, <2>5 DEF Series
<1> QED BY <1>1, <1>2

(* In a snapshot, Collect's comparison is one of series, whichever targets     *)
(* the samples are of.                                                         *)
LEMMA SnapKeyed ==
    ASSUME Base
    PROVE  /\ Len(snap) \in Nat /\ DOMAIN snap = 1 .. Len(snap)
           /\ \A i \in 1 .. Len(snap) : snap[i] \in ToSet(snap)
           /\ \A i \in 1 .. Len(snap) : \E c : Keyed(snap[i], c)
           /\ \A i, j \in 1 .. Len(snap) :
                 Dup(snap[i], snap[j]) <=> Series(snap[i]) = Series(snap[j])
<1>1. /\ Len(snap) \in Nat /\ DOMAIN snap = 1 .. Len(snap)
      /\ \A i \in 1 .. Len(snap) : snap[i] \in ToSet(snap)
  BY ListFacts DEF Base
<1>2. \A i \in 1 .. Len(snap) : \E c : Keyed(snap[i], c)
  BY <1>1 DEF Base
<1>3. \A i, j \in 1 .. Len(snap) :
         Dup(snap[i], snap[j]) <=> Series(snap[i]) = Series(snap[j])
  <2> TAKE i, j \in 1 .. Len(snap)
  <2>1. PICK c : Keyed(snap[i], c) BY <1>2
  <2>2. PICK d : Keyed(snap[j], d) BY <1>2
  <2> QED BY <2>1, <2>2, DupIsSeries
<1> QED BY <1>1, <1>2, <1>3

(* Prometheus shows the first sample of each series, OTLP the last *)
LEMMA EachShown ==
    ASSUME Base, NEW i \in DOMAIN snap
    PROVE  /\ \E k \in Prometheus : Series(snap[k]) = Series(snap[i])
           /\ \E k \in OTLP : Series(snap[k]) = Series(snap[i])
<1> DEFINE n == Len(snap)
           T == {k \in 1 .. n : Series(snap[k]) = Series(snap[i])}
<1>1. n \in Nat /\ DOMAIN snap = 1 .. n /\ i \in 1 .. n
      /\ \A j, k \in 1 .. n : Dup(snap[j], snap[k]) <=> Series(snap[j]) = Series(snap[k])
  BY SnapKeyed
<1> HIDE DEF n
<1>2. T \in SUBSET Nat /\ T # {} /\ T \in SUBSET (1 .. n) BY <1>1
<1>3. \E k \in Prometheus : Series(snap[k]) = Series(snap[i])
  <2>1. PICK k \in T : \A j \in T : k <= j BY <1>2, LeastOf
  <2>2. k \in 1 .. n /\ Series(snap[k]) = Series(snap[i]) OBVIOUS
  <2>3. ASSUME NEW j \in 1 .. k - 1 PROVE ~Dup(snap[j], snap[k])
    <3>1. j \in 1 .. n /\ ~(k <= j) BY <1>1, <2>2
    <3>2. j \notin T BY <2>1, <3>1
    <3> QED BY <1>1, <2>2, <3>1, <3>2
  <2>4. k \in Prometheus BY <1>1, <2>2, <2>3 DEF Prometheus
  <2> QED BY <2>2, <2>4
<1>4. \E k \in OTLP : Series(snap[k]) = Series(snap[i])
  <2>1. PICK k \in T : \A j \in T : j <= k
    <3>1. n \in Nat /\ T \in SUBSET (1 .. n) /\ T # {} BY <1>1, <1>2
    <3> HIDE DEF T
    <3> QED BY <3>1, GreatestOf
  <2>2. k \in 1 .. n /\ Series(snap[k]) = Series(snap[i]) OBVIOUS
  <2>3. ASSUME NEW j \in k + 1 .. n PROVE Series(snap[j]) # Series(snap[k])
    <3>1. j \in 1 .. n /\ ~(j <= k) BY <1>1, <2>2
    <3>2. j \notin T BY <2>1, <3>1
    <3> QED BY <2>2, <3>1, <3>2
  <2>4. k \in OTLP BY <1>1, <2>2, <2>3 DEF OTLP, n
  <2> QED BY <2>2, <2>4
<1> QED BY <1>3, <1>4

(* Hence Prometheus shows each series once. *)
LEMMA ScrapeIsAccepted ==
    ASSUME Base
    PROVE  ScrapeAccepted
<1>1. Prometheus \subseteq DOMAIN snap BY DEF Prometheus
<1>2. ASSUME NEW i \in Prometheus, NEW j \in Prometheus, Series(snap[i]) = Series(snap[j])
      PROVE  i = j
  <2>1. i \in 1 .. Len(snap) /\ j \in 1 .. Len(snap) /\ Len(snap) \in Nat
    BY <1>1, SnapKeyed
  <2>2. Dup(snap[i], snap[j]) /\ Dup(snap[j], snap[i]) BY <1>2, <2>1, SnapKeyed
  <2>3. ~(i \in 1 .. j - 1) /\ ~(j \in 1 .. i - 1) BY <2>2 DEF Prometheus
  <2> QED BY <2>1, <2>3
<1>3. {Series(snap[i]) : i \in DOMAIN snap} = {Series(snap[i]) : i \in Prometheus}
  BY <1>1, EachShown
<1> QED BY <1>2, <1>3 DEF ScrapeAccepted

(* The registry accepts every scrape: each series of a snapshot is shown once,  *)
(* although Collect compares values only, because a name has the same keys in   *)
(* every sample of every target.                                                *)
THEOREM EveryScrapeAccepted == Spec => []ScrapeAccepted
<1>1. Base => ScrapeAccepted BY ScrapeIsAccepted
<1> QED BY <1>1, Shape, PTL

-----------------------------------------------------------------------------
(* NumbersAsSent: the numbers in the snapshot and in what is being polled are   *)
(* those the API sent                                                           *)

NumbersOf(samples) ==
    {<<s.name, s.labels[2][2], s.value>> : s \in {t \in samples : t.name \in Numeric}}
NumbersKept == NumbersOf(ToSet(snap)) \cup NumbersOf(ToSet(out)) = sent

(* Numbers of samples taken together. *)
LEMMA NumbersOfUnion ==
    ASSUME NEW A, NEW B
    PROVE  NumbersOf(A \cup B) = NumbersOf(A) \cup NumbersOf(B)
BY DEF NumbersOf

(* Calls other than two bring no numbers. *)
LEMMA NoNumbers ==
    ASSUME NEW b, NEW calls, Batch(b, calls), calls \cap {"resources", "replication"} = {}
    PROVE  NumbersOf(ToSet(b)) = {}
BY NamesOfCalls DEF Batch, NumbersOf

(* The numbers that JSON holds. *)
LEMMA NumbersIs ==
    ASSUME NEW json, NEW id, NEW x
    PROVE  x \in Numbers(json, id) <=> \E m \in DOMAIN json : \E v \in Flex(json[m]) : x = <<m, id, v>>
BY DEF Numbers, Flex

(* The samples of rows have the rows' numbers. *)
LEMMA ResourceNumbers ==
    ASSUME NEW rows, IsList(rows), \A r \in ToSet(rows) : IsRow(r), NEW samples,
           \A s : s \in samples <=> \E r \in ToSet(rows) : s \in ToSet(ResourceSamples(r))
    PROVE  NumbersOf(samples) = UNION {Numbers(rows[i].json, rows[i].id) : i \in DOMAIN rows}
<1> DEFINE N == UNION {Numbers(rows[i].json, rows[i].id) : i \in DOMAIN rows}
<1>1. \A x : x \in N <=> \E r \in ToSet(rows) : x \in Numbers(r.json, r.id)
  <2>1. /\ DOMAIN rows = 1 .. Len(rows)
        /\ \A i \in 1 .. Len(rows) : rows[i] \in ToSet(rows)
        /\ \A r \in ToSet(rows) : \E i \in 1 .. Len(rows) : r = rows[i]
    BY ListFacts
  <2> QED BY <2>1
<1> HIDE DEF N
<1>2. ASSUME NEW s \in samples, s.name \in Numeric
      PROVE  <<s.name, s.labels[2][2], s.value>> \in N
  <2>1. PICK r \in ToSet(rows) : s \in ToSet(ResourceSamples(r)) OBVIOUS
  <2>2. /\ s.labels[2] = Id(r.id) /\ s.name \in DOMAIN r.json
        /\ s.value \in Flex(r.json[s.name])
    BY <1>2, <2>1, ResourceMembers
  <2>3. s.labels[2][2] = r.id BY <2>2 DEF Id
  <2>4. <<s.name, r.id, s.value>> \in Numbers(r.json, r.id) BY <2>2, NumbersIs
  <2> QED BY <1>1, <2>1, <2>3, <2>4
<1>3. ASSUME NEW x \in N PROVE x \in NumbersOf(samples)
  <2>1. PICK r \in ToSet(rows) : x \in Numbers(r.json, r.id) BY <1>1
  <2>2. PICK m \in DOMAIN r.json : \E v \in Flex(r.json[m]) : x = <<m, r.id, v>>
    BY <2>1, NumbersIs
  <2>. PICK v \in Flex(r.json[m]) : x = <<m, r.id, v>> BY <2>2
  <2>3. PICK s \in ToSet(ResourceSamples(r)) : s.name = m /\ s.value = v
    BY <2>2, ResourceMembers
  <2>4. s.labels[2][2] = r.id
    <3>1. s.labels[2] = Id(r.id) BY ResourceMembers
    <3> QED BY <3>1 DEF Id
  <2>5. m \in Numeric
    <3>1. DOMAIN Metrics = {"node", "qemu", "lxc", "storage"} BY DEF Metrics
    <3>2. r.type \in DOMAIN Metrics /\ m \in ToSet(Metrics[r.type]) BY DEF IsRow
    <3>3. Metrics[r.type] \in {HostMetrics, GuestMetrics, StorageMetrics}
      BY <3>1, <3>2 DEF Metrics
    <3> QED BY <3>2, <3>3, MetricLists, NumericNames DEF GuestNames
  <2>6. s \in samples BY <2>1, <2>3
  <2> QED BY <2>2, <2>3, <2>4, <2>5, <2>6 DEF NumbersOf
<1>4. NumbersOf(samples) \subseteq N BY <1>2 DEF NumbersOf
<1> QED BY <1>3, <1>4 DEF N

(* The samples of jobs have the numbers of the jobs' statuses. *)
LEMMA JobNumbers ==
    ASSUME NEW jobs, \A j \in ToSet(jobs) : IsJob(j), NEW samples,
           \A s : s \in samples <=> \E j \in ToSet(jobs) : s \in ToSet(JobSamples(j))
    PROVE  NumbersOf(samples) =
             UNION {UNION {Numbers(st, j.id) : st \in j.status} : j \in ToSet(jobs)}
<1> DEFINE N == UNION {UNION {Numbers(st, j.id) : st \in j.status} : j \in ToSet(jobs)}
<1>1. \A x : x \in N <=> \E j \in ToSet(jobs) : \E st \in j.status : x \in Numbers(st, j.id)
  OBVIOUS
<1> HIDE DEF N
<1>2. ASSUME NEW s \in samples, s.name \in Numeric
      PROVE  <<s.name, s.labels[2][2], s.value>> \in N
  <2>1. PICK j \in ToSet(jobs) : s \in ToSet(JobSamples(j)) OBVIOUS
  <2>2. /\ s.labels[2] = Id(j.id)
        /\ \E st \in j.status : s.name \in DOMAIN st /\ s.value \in Flex(st[s.name])
    BY <1>2, <2>1, JobMembers
  <2>3. s.labels[2][2] = j.id BY <2>2 DEF Id
  <2>4. PICK st \in j.status : s.name \in DOMAIN st /\ s.value \in Flex(st[s.name]) BY <2>2
  <2>5. <<s.name, j.id, s.value>> \in Numbers(st, j.id) BY <2>4, NumbersIs
  <2> QED BY <1>1, <2>1, <2>3, <2>4, <2>5
<1>3. ASSUME NEW x \in N PROVE x \in NumbersOf(samples)
  <2>1. PICK j \in ToSet(jobs) : \E st \in j.status : x \in Numbers(st, j.id) BY <1>1
  <2>. PICK st \in j.status : x \in Numbers(st, j.id) BY <2>1
  <2>2. PICK m \in DOMAIN st : \E v \in Flex(st[m]) : x = <<m, j.id, v>> BY <2>1, NumbersIs
  <2>. PICK v \in Flex(st[m]) : x = <<m, j.id, v>> BY <2>2
  <2>3. PICK s \in ToSet(JobSamples(j)) : s.name = m /\ s.value = v BY <2>1, <2>2, JobMembers
  <2>4. s.labels[2][2] = j.id
    <3>1. s.labels[2] = Id(j.id) BY JobMembers
    <3> QED BY <3>1 DEF Id
  <2>5. m \in Numeric
    <3>1. DOMAIN st = ToSet(ReplicationMetrics) BY DEF IsJob
    <3> QED BY <3>1, MetricLists, NumericNames
  <2>6. s \in samples BY <2>1, <2>3
  <2> QED BY <2>2, <2>3, <2>4, <2>5, <2>6 DEF NumbersOf
<1>4. NumbersOf(samples) \subseteq N BY <1>2 DEF NumbersOf
<1> QED BY <1>3, <1>4 DEF N

(* What out holds once a node has merged. *)
LEMMA NodeAddsTo ==
    ASSUME Base, NEW n, NEW jobs, NEW subs, NEW guests, NEW J, NEW U, NEW G,
           NodeAnswers(n, jobs, subs, guests, J, U, G)
    PROVE  ToSet(((out \o J) \o U) \o G) = ToSet(out) \cup (ToSet(J) \cup ToSet(U) \cup ToSet(G))
<1>1. Batch(out, Seen(pc)) BY DEF Base
<1>2. Batch(J, {"replication"}) /\ Batch(U, {"subscription"}) /\ Batch(G, {"onboot"})
  BY DEF NodeAnswers
<1>3. /\ Batch(out \o J, Seen(pc) \cup {"replication"})
      /\ ToSet(out \o J) = ToSet(out) \cup ToSet(J)
  BY <1>1, <1>2, BatchConcat
<1>4. /\ Batch((out \o J) \o U, (Seen(pc) \cup {"replication"}) \cup {"subscription"})
      /\ ToSet((out \o J) \o U) = ToSet(out \o J) \cup ToSet(U)
  BY <1>2, <1>3, BatchConcat
<1>5. ToSet(((out \o J) \o U) \o G) = ToSet((out \o J) \o U) \cup ToSet(G)
  BY <1>2, <1>4, BatchConcat
<1> QED BY <1>3, <1>4, <1>5

(* Every step keeps the numbers. *)
LEMMA NumbersStep ==
    ASSUME Base, NumbersKept, [Next]_vars
    PROVE  NumbersKept'
<1>1. CASE PrimaryFails \/ Finish
  <2>1. PICK v, x, b :
           /\ EndPoll(out \o b) /\ Batch(b, {"end"})
           /\ UNCHANGED <<setup, sent>> /\ pc \in {"resources", "nodes"}
    BY <1>1, EndPollIs
  <2>2. ToSet(snap') = ToSet(snap) \cup (ToSet(out) \cup ToSet(b)) /\ ToSet(out') = {}
    BY <2>1, PollEnded, ListEmpty
  <2>3. NumbersOf(ToSet(b)) = {} BY <2>1, NoNumbers
  <2>4. NumbersOf(ToSet(snap')) = NumbersOf(ToSet(snap)) \cup NumbersOf(ToSet(out))
    <3>1. NumbersOf(ToSet(out) \cup ToSet(b)) = NumbersOf(ToSet(out))
      BY <2>3, NumbersOfUnion
    <3>2. NumbersOf(ToSet(snap) \cup (ToSet(out) \cup ToSet(b)))
            = NumbersOf(ToSet(snap)) \cup NumbersOf(ToSet(out))
      BY <3>1, NumbersOfUnion
    <3> QED BY <2>2, <3>2
  <2>5. NumbersOf(ToSet(out')) = {} BY <2>2 DEF NumbersOf
  <2> QED BY <2>1, <2>4, <2>5 DEF NumbersKept
<1>2. CASE Resources
  <2>1. PICK rows \in setup.resources :
           /\ IsList(rows) /\ \A r \in ToSet(rows) : IsRow(r)
           /\ \A s : s \in ToSet(out') <=> \E r \in ToSet(rows) : s \in ToSet(ResourceSamples(r))
           /\ sent' = sent \cup UNION {Numbers(rows[i].json, rows[i].id) : i \in DOMAIN rows}
    BY <1>2, ResourcesBring
  <2>2. NumbersOf(ToSet(out')) = UNION {Numbers(rows[i].json, rows[i].id) : i \in DOMAIN rows}
    BY <2>1, ResourceNumbers
  <2>3. snap' = snap /\ pc = "resources" BY <1>2, ResourcesBring
  <2>4. ToSet(out) = {} BY <2>3, ListEmpty DEF Base
  <2>5. NumbersOf(ToSet(out)) = {} BY <2>4 DEF NumbersOf
  <2> QED BY <2>1, <2>2, <2>3, <2>5 DEF NumbersKept
<1>3. CASE NoAnswer \/ Status \/ Version \/ QDevice \/ Backup \/ HAStatus
  <2>1. PICK samples : Brings(pc, samples) /\ Batch(samples, {pc}) BY <1>3, CallBrings
  <2>2. pc \in DOMAIN Then /\ out' = out \o samples /\ UNCHANGED <<snap, sent>>
    <3>1. pc \in DOMAIN Then
      BY <1>3 DEF NoAnswer, Status, Version, QDevice, Backup, HAStatus, Brings, Then
    <3> QED BY <2>1, <3>1 DEF Brings
  <2>3. NumbersOf(ToSet(samples)) = {}
    <3>1. pc \notin {"resources", "replication"} BY <2>2 DEF Then
    <3> QED BY <2>1, <3>1, NoNumbers
  <2>4. ToSet(out') = ToSet(out) \cup ToSet(samples) BY <2>1, <2>2, BatchConcat DEF Base
  <2> QED BY <2>2, <2>3, <2>4, NumbersOfUnion DEF NumbersKept
<1>4. CASE pc = "nodes" /\ \E i \in DOMAIN nodes : Node(i)
  <2>1. PICK i \in DOMAIN nodes : Node(i) BY <1>4
  <2>2. PICK jobs, subs, guests, J, U, G : NodeMerges(nodes[i], jobs, subs, guests, J, U, G)
    BY <1>4, <2>1, NodeBrings
  <2>3. snap' = snap BY <1>4, <2>1, NodeBrings
  <2>4. NodeAnswers(nodes[i], jobs, subs, guests, J, U, G) BY <2>2 DEF NodeMerges
  <2>5. ToSet(out') = ToSet(out) \cup (ToSet(J) \cup ToSet(U) \cup ToSet(G))
    BY <2>2, <2>4, NodeAddsTo DEF NodeMerges
  <2>6. NumbersOf(ToSet(U)) = {} /\ NumbersOf(ToSet(G)) = {} BY <2>4, NoNumbers DEF NodeAnswers
  <2>7. NumbersOf(ToSet(J)) = UNION {UNION {Numbers(st, j.id) : st \in j.status} : j \in ToSet(jobs)}
    BY <2>4, JobNumbers DEF NodeAnswers
  <2>8. NumbersOf(ToSet(out')) = NumbersOf(ToSet(out)) \cup NumbersOf(ToSet(J))
    <3>1. NumbersOf(ToSet(J) \cup ToSet(U)) = NumbersOf(ToSet(J)) BY <2>6, NumbersOfUnion
    <3>2. NumbersOf((ToSet(J) \cup ToSet(U)) \cup ToSet(G)) = NumbersOf(ToSet(J))
      BY <2>6, <3>1, NumbersOfUnion
    <3>3. NumbersOf(ToSet(out) \cup ((ToSet(J) \cup ToSet(U)) \cup ToSet(G)))
            = NumbersOf(ToSet(out)) \cup NumbersOf(ToSet(J))
      BY <3>2, NumbersOfUnion
    <3>4. (ToSet(J) \cup ToSet(U)) \cup ToSet(G) = ToSet(J) \cup ToSet(U) \cup ToSet(G)
      OBVIOUS
    <3> QED BY <2>5, <3>3, <3>4
  <2>9. sent' = sent \cup UNION {UNION {Numbers(st, j.id) : st \in j.status} : j \in ToSet(jobs)}
    BY <2>2 DEF NodeMerges
  <2> QED BY <2>3, <2>7, <2>8, <2>9 DEF NumbersKept
<1>5. CASE UNCHANGED vars
  BY <1>5 DEF vars, NumbersKept
<1> QED BY <1>1, <1>2, <1>3, <1>4, <1>5 DEF Next, Published

(* The numbers shown are those the API sent: none is lost, and none is made up  *)
(* for a value that is missing, null, empty or no number.                       *)
THEOREM NumbersShownAsSent == Spec => []NumbersAsSent
<1>1. Init => NumbersKept
  <2> SUFFICES ASSUME Init PROVE NumbersKept OBVIOUS
  <2>1. ToSet(snap) = {} /\ ToSet(out) = {} /\ sent = {} BY ListEmpty DEF Init
  <2> QED BY <2>1 DEF NumbersKept, NumbersOf
<1>2. Base /\ NumbersKept /\ [Next]_vars => NumbersKept' BY NumbersStep
<1>3. Base /\ NumbersKept => NumbersAsSent
  <2> SUFFICES ASSUME Base, NumbersKept, Done PROVE NumbersOf(ToSet(snap)) = sent
    BY DEF NumbersAsSent, NumbersOf
  <2>1. ToSet(out) = {} BY ListEmpty DEF Base, Done
  <2> QED BY <2>1 DEF NumbersKept, NumbersOf
<1> QED BY <1>1, <1>2, <1>3, Shape, PTL DEF Spec

-----------------------------------------------------------------------------
(* TargetsAreShown: a target that was polled has told of itself, once, and      *)
(* truly, and the target that is polled is up once its primary call succeeded   *)

(* What samples say of target t as a whole *)
OwnIn(samples, name, t) ==
    {s \in samples : /\ s.name = name /\ s.labels[1] = <<"cluster", t>>
                     /\ s.labels[2][2][1] = "cluster"}
TellsOf(samples, t, isUp) ==
    /\ \E s \in OwnIn(samples, "pve_up", t) :
          OwnIn(samples, "pve_up", t) = {s} /\ s.value = BoolToFloat(isUp)
    /\ \A name \in SelfNames :
          {s.labels[2] : s \in OwnIn(samples, name, t)} = {Id(<<"cluster", t>>)}

TargetsTold ==
    /\ \A k \in Polled : TellsOf(ToSet(snap), Owner(k), Owner(k) \in up)
    /\ \A k \in 1 .. Len(setup.targets) : k > target => Owner(k) \notin up
    /\ pc = "resources" => Name \notin up
    /\ pc \notin {"resources", "done"} => Name \in up

(* Only what a poll ends with is of the target as a whole *)
LEMMA OwnEnds ==
    ASSUME NEW s, s.name \in SelfNames \/ (s.name = "pve_up" /\ s.labels[2][2][1] = "cluster")
    PROVE  CallOf(s) = "end"
BY DEF CallOf, SelfNames, ReplicationNames

(* What the end of a poll says of the target, and that it says nothing of another *)
LEMMA EndTells ==
    ASSUME Base, NEW v, NEW x, NEW b,
           b = Add("pve_up", v, <<Id(<<"cluster", x>>)>>) \o SelfSamples,
           Batch(b, {"end"}), EndPoll(out \o b), UNCHANGED setup, pc \in {"resources", "nodes"}
    PROVE  /\ \A k \in Polled, name \in SelfNames \cup {"pve_up"} :
                 OwnIn(ToSet(snap'), name, Owner(k)) = OwnIn(ToSet(snap), name, Owner(k))
           /\ \A isUp : v = BoolToFloat(isUp) => TellsOf(ToSet(snap'), Owner(target), isUp)
<1> DEFINE S == ToSet(snap)
           new == ToSet(snap')
           B == ToSet(b)
           up1 == Sample("pve_up", v, <<Id(<<"cluster", x>>)>>)
<1>1. /\ new = S \cup (ToSet(out) \cup B)
      /\ \A s \in ToSet(out) \cup B : Keyed(s, Owner(target))
      /\ Polled = 1 .. target - 1
  BY PollEnded
<1>2. /\ target \in 1 .. Len(setup.targets) /\ Len(setup.targets) \in Nat
      /\ \A k, l \in 1 .. Len(setup.targets) : Owner(k) = Owner(l) => k = l
      /\ Name = Owner(target)
  BY CaseFacts
<1>3. \A k \in Polled : k \in 1 .. Len(setup.targets) /\ k # target /\ Owner(k) # Owner(target)
  BY <1>1, <1>2
<1>4. \A s \in S : \E k \in Polled : s.labels[1] = <<"cluster", Owner(k)>>
  BY DEF Base, Keyed
<1>5. \A s \in ToSet(out) \cup B : s.labels[1] = <<"cluster", Owner(target)>>
  BY <1>1 DEF Keyed
<1>6. \A s \in ToSet(out) : CallOf(s) # "end"
  <2>1. "end" \notin Seen(pc) BY DEF Seen
  <2> QED BY <2>1 DEF Base, Batch
<1>7. /\ \A s \in B :
            /\ s.labels[2][2][1] = "cluster"
            /\ s.name = "pve_up" => s = up1
            /\ s.name \in SelfNames => s.labels[2] = Id(SelfId)
      /\ up1 \in B
      /\ \A name \in SelfNames : \E s \in B : s.name = name
  <2>1. Ends(b, v, x) BY EndMembers
  <2> QED BY <2>1 DEF Ends, B, up1
<1>8. up1.name = "pve_up" /\ up1.value = v
  <2>1. up1 = Sample("pve_up", v, <<<<"id", <<"cluster", x>>>>>>) BY DEF Id
  <2> HIDE DEF up1
  <2> QED BY <2>1, Sample1
<1> HIDE DEF S, new, B, up1
<1>9. ASSUME NEW k \in Polled, NEW name \in SelfNames \cup {"pve_up"}
      PROVE  OwnIn(new, name, Owner(k)) = OwnIn(S, name, Owner(k))
  <2>1. \A s \in ToSet(out) \cup B : s.labels[1] # <<"cluster", Owner(k)>>
    BY <1>3, <1>5
  <2> QED BY <1>1, <2>1 DEF OwnIn
<1>10. \A name \in SelfNames \cup {"pve_up"} :
          OwnIn(new, name, Owner(target)) = {s \in B : s.name = name}
  <2> TAKE name \in SelfNames \cup {"pve_up"}
  <2>1. \A s \in S : s.labels[1] # <<"cluster", Owner(target)>> BY <1>3, <1>4
  <2>2. \A s \in ToSet(out) : ~(s.name = name /\ s.labels[2][2][1] = "cluster")
    BY <1>6, OwnEnds
  <2> QED BY <1>1, <1>5, <1>7, <2>1, <2>2 DEF OwnIn
<1>11. OwnIn(new, "pve_up", Owner(target)) = {up1}
  BY <1>7, <1>8, <1>10
<1>12. ASSUME NEW name \in SelfNames
       PROVE  {s.labels[2] : s \in OwnIn(new, name, Owner(target))} = {Id(<<"cluster", Owner(target)>>)}
  <2>1. Id(SelfId) = Id(<<"cluster", Owner(target)>>) BY <1>2 DEF SelfId
  <2>2. OwnIn(new, name, Owner(target)) = {s \in B : s.name = name} BY <1>10
  <2>3. \A s \in OwnIn(new, name, Owner(target)) : s.labels[2] = Id(<<"cluster", Owner(target)>>)
    BY <1>7, <2>1, <2>2
  <2>4. \E s \in B : s \in OwnIn(new, name, Owner(target)) BY <1>7, <2>2
  <2> QED BY <2>3, <2>4
<1>13. ASSUME NEW isUp, v = BoolToFloat(isUp) PROVE TellsOf(new, Owner(target), isUp)
  BY <1>8, <1>11, <1>12, <1>13 DEF TellsOf
<1> QED BY <1>9, <1>13 DEF S, new

(* Every step keeps what targets have told. *)
LEMMA TargetsStep ==
    ASSUME Base, TargetsTold, [Next]_vars
    PROVE  TargetsTold'
<1>0. /\ target \in 1 .. Len(setup.targets) /\ Len(setup.targets) \in Nat
      /\ \A k, l \in 1 .. Len(setup.targets) : Owner(k) = Owner(l) => k = l
      /\ Name = Owner(target)
  BY CaseFacts
<1>1. CASE PrimaryFails \/ Finish
  <2>1. PICK v, x, b :
           /\ b = Add("pve_up", v, <<Id(<<"cluster", x>>)>>) \o SelfSamples
           /\ EndPoll(out \o b) /\ Batch(b, {"end"}) /\ UNCHANGED <<setup, up>>
           /\ v = IF pc = "resources" THEN 0 ELSE 1
           /\ pc \in {"resources", "nodes"}
    BY <1>1, EndPollIs
  <2>2. /\ Polled = 1 .. target - 1 /\ Polled' = 1 .. target
        /\ \/ pc' = "done" /\ target' = target /\ target = Len(setup.targets)
           \/ pc' = "resources" /\ target' = target + 1
        /\ target' \in 1 .. Len(setup.targets)
    BY <2>1, PollEnded
  <2>3. \A k : Owner(k)' = Owner(k) BY <2>1 DEF Owner
  <2>4. TellsOf(ToSet(snap'), Owner(target), Owner(target) \in up)
    <3>1. v = BoolToFloat(Owner(target) \in up) BY <1>0, <2>1 DEF TargetsTold, BoolToFloat
    <3> QED BY <2>1, <3>1, EndTells
  <2>5. ASSUME NEW k \in Polled PROVE TellsOf(ToSet(snap'), Owner(k), Owner(k) \in up)
    <3>1. \A name \in SelfNames \cup {"pve_up"} :
             OwnIn(ToSet(snap'), name, Owner(k)) = OwnIn(ToSet(snap), name, Owner(k))
      BY <2>1, EndTells
    <3>2. TellsOf(ToSet(snap), Owner(k), Owner(k) \in up) BY DEF TargetsTold
    <3> QED BY <3>1, <3>2 DEF TellsOf
  <2>6. ASSUME NEW k \in Polled' PROVE TellsOf(ToSet(snap'), Owner(k)', Owner(k)' \in up')
    <3>1. k = target \/ k \in Polled BY <1>0, <2>2
    <3> QED BY <2>1, <2>3, <2>4, <2>5, <3>1
  <2>7. ASSUME NEW k \in 1 .. Len(setup.targets), k > target' PROVE Owner(k)' \notin up'
    <3>1. k > target BY <1>0, <2>2, <2>7
    <3> QED BY <2>1, <2>3, <3>1 DEF TargetsTold
  <2>8. pc' = "resources" => Name' \notin up'
    <3> HAVE pc' = "resources"
    <3>1. target' > target /\ target' \in 1 .. Len(setup.targets) BY <1>0, <2>2
    <3>2. Name' = Owner(target') BY <2>1 DEF Name, Owner
    <3> QED BY <2>1, <3>1, <3>2 DEF TargetsTold
  <2>9. pc' \in {"resources", "done"} BY <2>2
  <2> QED BY <2>1, <2>6, <2>7, <2>8, <2>9 DEF TargetsTold
<1>2. CASE Resources
  <2>1. /\ pc = "resources" /\ pc' = "status" /\ up' = up \cup {Name}
        /\ UNCHANGED <<setup, target, clusterID, snap>>
    BY <1>2, ResourcesBring
  <2>2. Polled' = Polled /\ Polled = 1 .. target - 1 /\ Name' = Name /\ \A k : Owner(k)' = Owner(k)
    BY <2>1 DEF Polled, Owner, Name
  <2>3. \A k \in 1 .. Len(setup.targets) : k # target => Owner(k) # Name BY <1>0
  <2>4. ASSUME NEW k \in Polled PROVE TellsOf(ToSet(snap'), Owner(k)', Owner(k)' \in up')
    <3>1. k \in 1 .. Len(setup.targets) /\ k # target BY <1>0, <2>2
    <3>2. (Owner(k) \in up') <=> (Owner(k) \in up) BY <2>1, <2>3, <3>1
    <3>3. TellsOf(ToSet(snap), Owner(k), Owner(k) \in up) BY DEF TargetsTold
    <3> QED BY <2>1, <2>2, <3>2, <3>3 DEF TellsOf, BoolToFloat
  <2>5. ASSUME NEW k \in 1 .. Len(setup.targets), k > target PROVE Owner(k) \notin up'
    <3>1. Owner(k) \notin up /\ k # target BY <1>0, <2>5 DEF TargetsTold
    <3> QED BY <2>1, <2>3, <3>1
  <2> QED BY <2>1, <2>2, <2>4, <2>5 DEF TargetsTold
<1>3. CASE NoAnswer \/ Status \/ Version \/ QDevice \/ Backup \/ HAStatus
  <2>1. PICK samples : Brings(pc, samples) BY <1>3, CallBrings
  <2>2. pc \in DOMAIN Then
    BY <1>3 DEF NoAnswer, Status, Version, QDevice, Backup, HAStatus, Brings, Then
  <2>3. pc' = Then[pc] /\ UNCHANGED <<setup, target, snap, up>> BY <2>1 DEF Brings
  <2>4. pc \notin {"resources", "done"} /\ pc' \notin {"resources", "done"} BY <2>2, <2>3 DEF Then
  <2>5. Polled' = Polled /\ Name' = Name /\ \A k : Owner(k)' = Owner(k)
    BY <2>3, <2>4 DEF Polled, Owner, Name
  <2> QED BY <2>3, <2>4, <2>5 DEF TargetsTold
<1>4. CASE pc = "nodes" /\ \E i \in DOMAIN nodes : Node(i)
  <2>1. UNCHANGED <<setup, target, pc, snap, up>> BY <1>4, NodeBrings
  <2>2. Polled' = Polled /\ Name' = Name /\ \A k : Owner(k)' = Owner(k)
    BY <2>1 DEF Polled, Owner, Name
  <2> QED BY <2>1, <2>2 DEF TargetsTold
<1>5. CASE UNCHANGED vars
  <2>1. UNCHANGED <<setup, target, pc, snap, up>> BY <1>5 DEF vars
  <2>2. Polled' = Polled /\ Name' = Name /\ \A k : Owner(k)' = Owner(k)
    BY <2>1 DEF Polled, Owner, Name
  <2> QED BY <2>1, <2>2 DEF TargetsTold
<1> QED BY <1>1, <1>2, <1>3, <1>4, <1>5 DEF Next, Published

(* A backend shows one sample of each series, so all that targets told *)
LEMMA ShownTells ==
    ASSUME Base, NEW t, NEW isUp, TellsOf(ToSet(snap), t, isUp), isUp = (t \in up),
           NEW shown \in SUBSET (DOMAIN snap),
           \A i \in DOMAIN snap : \E k \in shown : Series(snap[k]) = Series(snap[i])
    PROVE  ShowsTarget(shown, t)
<1> DEFINE all == ToSet(snap)
           own(name) == {snap[i] : i \in {j \in shown : /\ snap[j].name = name
                                 /\ snap[j].labels[1] = <<"cluster", t>>
                                 /\ snap[j].labels[2][2][1] = "cluster"}}
<1>1. /\ \A i \in DOMAIN snap : snap[i] \in all
      /\ \A s \in all : \E i \in DOMAIN snap : s = snap[i]
  BY ListFacts DEF Base
<1>2. \A name : own(name) \subseteq OwnIn(all, name, t) BY <1>1 DEF OwnIn
<1>3. ASSUME NEW name, NEW s \in OwnIn(all, name, t)
      PROVE  \E u \in own(name) : u.labels = s.labels
  <2>1. PICK i \in DOMAIN snap : s = snap[i] BY <1>1 DEF OwnIn
  <2>2. PICK k \in shown : Series(snap[k]) = Series(snap[i]) OBVIOUS
  <2>3. snap[k].name = s.name /\ snap[k].labels = s.labels BY <2>1, <2>2 DEF Series
  <2>4. snap[k] \in own(name) BY <2>3 DEF OwnIn
  <2> QED BY <2>3, <2>4
<1> HIDE DEF own, all
<1>4. \E s \in own("pve_up") : own("pve_up") = {s} /\ s.value = BoolToFloat(t \in up)
  <2>1. PICK s \in OwnIn(all, "pve_up", t) :
           OwnIn(all, "pve_up", t) = {s} /\ s.value = BoolToFloat(isUp)
    BY DEF TellsOf, all
  <2> QED BY <1>2, <1>3, <2>1
<1>5. ASSUME NEW name \in SelfNames
      PROVE  {s.labels[2] : s \in own(name)} = {Id(<<"cluster", t>>)}
  <2>1. {s.labels[2] : s \in OwnIn(all, name, t)} = {Id(<<"cluster", t>>)} BY DEF TellsOf, all
  <2>2. {s.labels[2] : s \in own(name)} = {s.labels[2] : s \in OwnIn(all, name, t)}
    BY <1>2, <1>3
  <2> QED BY <2>1, <2>2
<1> QED BY <1>4, <1>5 DEF ShowsTarget, own, SelfNames

(* Each target is shown up or down by one series, and has its duration and its  *)
(* failure counter under its configured name, in either backend, even when the  *)
(* targets are one cluster by its own name or a row of theirs has the name of   *)
(* another.                                                                     *)
THEOREM EveryTargetShown == Spec => []TargetsAreShown
<1>1. Init => TargetsTold
  <2> SUFFICES ASSUME Init PROVE TargetsTold OBVIOUS
  <2>1. Polled = {} BY DEF Init, Polled
  <2> QED BY <2>1 DEF Init, TargetsTold
<1>2. Base /\ TargetsTold /\ [Next]_vars => TargetsTold' BY TargetsStep
<1>3. Base /\ TargetsTold => TargetsAreShown
  <2> SUFFICES ASSUME Base, TargetsTold, Done, NEW t \in ToSet(setup.targets)
               PROVE  ShowsTarget(Prometheus, t) /\ ShowsTarget(OTLP, t)
    BY DEF TargetsAreShown
  <2>1. PICK k \in 1 .. Len(setup.targets) : t = Owner(k) BY CaseFacts, ListFacts DEF Owner
  <2>2. k \in Polled BY <2>1 DEF Polled, Done, Base
  <2>3. TellsOf(ToSet(snap), t, t \in up) BY <2>1, <2>2 DEF TargetsTold
  <2>4. Prometheus \in SUBSET (DOMAIN snap) /\ OTLP \in SUBSET (DOMAIN snap)
    BY DEF Prometheus, OTLP
  <2> DEFINE isUp == t \in up
  <2>5. isUp = (t \in up) /\ TellsOf(ToSet(snap), t, isUp) BY <2>3
  <2> HIDE DEF isUp
  <2> QED BY <2>4, <2>5, EachShown, ShownTells
<1> QED BY <1>1, <1>2, <1>3, Shape, PTL DEF Spec

-----------------------------------------------------------------------------
(* EnumsAreWhole: of several enumerations of a subject one backend shows the    *)
(* first as a whole and the other the last                                      *)

(* Two samples of the enumeration of one subject *)
SameEnum(s, t) == s.name = t.name /\ s.labels[1] = t.labels[1] /\ s.labels[2] = t.labels[2]

(* Samples of an enumeration have one series exactly if subject and state are  *)
(* the same.                                                                   *)
LEMMA EnumSubjects ==
    ASSUME NEW s, NEW t, NEW c, NEW d, Keyed(s, c), Keyed(t, d), t.name \in Enums
    PROVE  /\ s.name = t.name /\ Subject(s) = Subject(t) <=> SameEnum(s, t)
           /\ SameEnum(s, t) => EnumOf(s) = EnumOf(t)
           /\ Series(s) = Series(t) <=> SameEnum(s, t) /\ s.labels[3] = t.labels[3]
<1>1. KeysOf(t.name) = <<"cluster", "id", "state">> BY DEF KeysOf, Enums
<1>2. ASSUME NEW u, NEW e, Keyed(u, e), u.name = t.name
      PROVE  /\ DOMAIN u.labels = 1 .. 3 /\ u.labels = [i \in 1 .. 3 |-> u.labels[i]]
             /\ Subject(u) = [i \in 1 .. 2 |-> u.labels[i]]
  <2> DEFINE w == u.labels
  <2>1. Len(w) = 3 /\ w = [i \in 1 .. Len(w) |-> <<KeysOf(u.name)[i], w[i][2]>>]
    BY <1>1, <1>2 DEF Keyed
  <2>2. DOMAIN w = 1 .. 3 /\ w = [i \in 1 .. 3 |-> w[i]]
    <3> HIDE DEF w
    <3> QED BY <2>1
  <2> HIDE DEF w
  <2>3. w \in Seq(ToSet(w)) BY <2>2, ListMade DEF IsList
  <2>4. /\ SubSeq(w, 1, 2) \in Seq(ToSet(w)) /\ Len(SubSeq(w, 1, 2)) = 2
        /\ \A i \in 1 .. 2 : SubSeq(w, 1, 2)[i] = w[i]
    <3>1. 1 \in 1 .. Len(w) + 1 /\ 2 \in 1 - 1 .. Len(w) BY <2>1
    <3>2. /\ SubSeq(w, 1, 2) \in Seq(ToSet(w)) /\ Len(SubSeq(w, 1, 2)) = 2 - 1 + 1
          /\ \A i \in 1 .. 2 - 1 + 1 : SubSeq(w, 1, 2)[i] = w[1 + i - 1]
      BY <2>3, <3>1, SubSeqProperties
    <3> QED BY <3>2
  <2>5. SubSeq(w, 1, 2) = [i \in 1 .. 2 |-> w[i]]
    <3>1. SubSeq(w, 1, 2) = [i \in 1 .. 2 |-> SubSeq(w, 1, 2)[i]] BY <2>4, LenProperties
    <3> QED BY <2>4, <3>1
  <2> QED BY <2>2, <2>5 DEF w, Subject
<1>3. CASE s.name # t.name BY <1>3 DEF SameEnum, Series
<1>4. CASE s.name = t.name
  <2>1. /\ s.labels = [i \in 1 .. 3 |-> s.labels[i]] /\ t.labels = [i \in 1 .. 3 |-> t.labels[i]]
        /\ Subject(s) = [i \in 1 .. 2 |-> s.labels[i]] /\ Subject(t) = [i \in 1 .. 2 |-> t.labels[i]]
    BY <1>2, <1>4
  <2>2. Subject(s) = Subject(t) <=> s.labels[1] = t.labels[1] /\ s.labels[2] = t.labels[2]
    <3>1. \A i \in 1 .. 2 : i = 1 \/ i = 2 OBVIOUS
    <3>2. Subject(s)[1] = s.labels[1] /\ Subject(s)[2] = s.labels[2] BY <2>1
    <3>3. Subject(t)[1] = t.labels[1] /\ Subject(t)[2] = t.labels[2] BY <2>1
    <3> QED BY <2>1, <3>1, <3>2, <3>3
  <2>3. s.labels = t.labels <=> \A i \in 1 .. 3 : s.labels[i] = t.labels[i]
    BY <2>1
  <2>4. Series(s) = Series(t) <=> SameEnum(s, t) /\ s.labels[3] = t.labels[3]
    <3>1. \A i \in 1 .. 3 : i = 1 \/ i = 2 \/ i = 3 OBVIOUS
    <3> QED BY <1>4, <2>3, <3>1 DEF Series, SameEnum
  <2> QED BY <1>4, <2>2, <2>4 DEF SameEnum, EnumOf
<1> QED BY <1>3, <1>4

(* The states of e are at o + 1 .. o + n, in snap *)
Block(o, e, states, n) ==
    /\ o \in Nat
    /\ \A m \in 1 .. n :
          /\ o + m \in DOMAIN snap /\ SameEnum(snap[o + m], e)
          /\ snap[o + m].labels[3] = <<"state", states[m]>>
    /\ \A l, m \in 1 .. n : snap[o + l].value = 1 /\ snap[o + m].value = 1 => l = m
    /\ states = HaNodeStates => \E m \in 1 .. n : snap[o + m].value = 1

(* A sample of an enumeration is in a block of its subject. *)
LEMMA InBlock ==
    ASSUME Base, NEW i \in DOMAIN snap, snap[i].name \in Enums,
           NEW p \in DOMAIN snap, SameEnum(snap[p], snap[i]),
           NEW states, states = EnumOf(snap[i]), NEW n, n = Len(states)
    PROVE  \E o : p \in o + 1 .. o + n /\ Block(o, snap[i], states, n)
<1> DEFINE e == snap[p]
           f == snap[i]
<1>1. DOMAIN snap = 1 .. Len(snap) /\ Len(snap) \in Nat BY SnapKeyed
<1>2. e.name = f.name /\ e.labels[1] = f.labels[1] /\ e.labels[2] = f.labels[2]
  BY DEF SameEnum
<1>3. EnumOf(e) = states BY <1>2 DEF EnumOf
<1>4. e.name \in Enums BY <1>2
<1>5. PICK o \in Nat : p \in o + 1 .. o + Len(EnumOf(snap[p])) /\ EnumAt(snap, o, snap[p])
  BY <1>1, <1>4 DEF Base, EnumsWhole
<1>6. n \in Nat
  <2>1. states \in {HaNodeStates, HaGuestStates, LockStates, SubStates} BY DEF EnumOf
  <2> QED BY <2>1, StateLists, ListFacts
<1>7. EnumAt(snap, o, e) /\ p \in o + 1 .. o + n BY <1>3, <1>5
<1> HIDE DEF e, f
<1>8. /\ o + n <= Len(snap)
      /\ \A m \in 1 .. n :
            snap[o + m] = [name |-> e.name, value |-> snap[o + m].value,
                           labels |-> <<e.labels[1], e.labels[2], <<"state", states[m]>>>>]
      /\ \A l, m \in 1 .. n : snap[o + l].value = 1 /\ snap[o + m].value = 1 => l = m
      /\ states = HaNodeStates => \E m \in 1 .. n : snap[o + m].value = 1
  BY <1>3, <1>7 DEF EnumAt
<1>9. ASSUME NEW m \in 1 .. n
      PROVE  /\ o + m \in DOMAIN snap /\ SameEnum(snap[o + m], f)
             /\ snap[o + m].labels[3] = <<"state", states[m]>>
  <2>1. o + m \in DOMAIN snap BY <1>1, <1>6, <1>8
  <2>2. /\ snap[o + m].name = e.name
        /\ snap[o + m].labels = <<e.labels[1], e.labels[2], <<"state", states[m]>>>>
    <3> DEFINE s == snap[o + m]
    <3>1. s = [name |-> e.name, value |-> s.value,
               labels |-> <<e.labels[1], e.labels[2], <<"state", states[m]>>>>]
      BY <1>8
    <3> HIDE DEF s
    <3>2. s.name = e.name /\ s.labels = <<e.labels[1], e.labels[2], <<"state", states[m]>>>>
      BY <3>1
    <3> QED BY <3>2 DEF s
  <2>3. /\ snap[o + m].labels[1] = e.labels[1] /\ snap[o + m].labels[2] = e.labels[2]
        /\ snap[o + m].labels[3] = <<"state", states[m]>>
    BY <2>2
  <2> QED BY <1>2, <2>1, <2>2, <2>3 DEF SameEnum
<1>10. Block(o, f, states, n) BY <1>8, <1>9 DEF Block
<1> QED BY <1>7, <1>10 DEF f

(* What WholeEnums asks of what is shown of the subject of i *)
ShownOf(shown, i) ==
    {snap[j] : j \in {k \in shown : /\ snap[k].name = snap[i].name
                                    /\ Subject(snap[k]) = Subject(snap[i])}}
WholeAs(all, states) ==
    /\ {s.labels[3][2] : s \in all} = ToSet(states)
    /\ \A s, t \in all : s.value = 1 /\ t.value = 1 => s = t
    /\ states = HaNodeStates => \E s \in all : s.value = 1

(* WholeEnums, subject by subject. *)
LEMMA WholeEnumsIs ==
    ASSUME NEW shown,
           \A i \in shown : snap[i].name \in Enums => WholeAs(ShownOf(shown, i), EnumOf(snap[i]))
    PROVE  WholeEnums(shown)
<1> SUFFICES ASSUME NEW i \in shown, snap[i].name \in Enums
             PROVE  LET all == ShownOf(shown, i)
                        active == {s \in all : s.value = 1}
                    IN  /\ {s.labels[3][2] : s \in all} = ToSet(EnumOf(snap[i]))
                        /\ \A s, t \in active : s = t
                        /\ EnumOf(snap[i]) = HaNodeStates => active # {}
  BY DEF WholeEnums, ShownOf
<1> DEFINE all == ShownOf(shown, i)
<1>1. WholeAs(all, EnumOf(snap[i])) OBVIOUS
<1> HIDE DEF all
<1>2. {s.labels[3][2] : s \in all} = ToSet(EnumOf(snap[i])) BY <1>1 DEF WholeAs
<1>3. \A s, t \in {u \in all : u.value = 1} : s = t BY <1>1 DEF WholeAs
<1>4. EnumOf(snap[i]) = HaNodeStates => {u \in all : u.value = 1} # {} BY <1>1 DEF WholeAs
<1> QED BY <1>2, <1>3, <1>4 DEF all

(* A block, shown alone, is a whole enumeration. *)
LEMMA BlockIsWhole ==
    ASSUME NEW o, NEW e, NEW states, IsList(states), NEW n, n = Len(states),
           Block(o, e, states, n), NEW all,
           \A s : s \in all <=> \E m \in 1 .. n : s = snap[o + m]
    PROVE  WholeAs(all, states)
<1>1. \A m \in 1 .. n : snap[o + m].labels[3][2] = states[m] BY DEF Block
<1>2. /\ \A m \in 1 .. n : states[m] \in ToSet(states)
      /\ \A x \in ToSet(states) : \E m \in 1 .. n : x = states[m]
  BY ListFacts
<1>3. {s.labels[3][2] : s \in all} = ToSet(states) BY <1>1, <1>2
<1>4. \A s, t \in all : s.value = 1 /\ t.value = 1 => s = t BY DEF Block
<1>5. states = HaNodeStates => \E s \in all : s.value = 1 BY DEF Block
<1> QED BY <1>3, <1>4, <1>5 DEF WholeAs

(* A backend that shows just one block of a subject shows a whole enumeration *)
LEMMA OneBlockShown ==
    ASSUME Base, NEW i \in DOMAIN snap, snap[i].name \in Enums,
           NEW states, states = EnumOf(snap[i]), NEW n, n = Len(states),
           NEW o, Block(o, snap[i], states, n), NEW shown \in SUBSET (DOMAIN snap),
           {k \in shown : SameEnum(snap[k], snap[i])} = {o + m : m \in 1 .. n}
    PROVE  WholeAs(ShownOf(shown, i), states)
<1>1. \A k \in shown : snap[k].name = snap[i].name /\ Subject(snap[k]) = Subject(snap[i])
                         <=> SameEnum(snap[k], snap[i])
  <2> TAKE k \in shown
  <2>0. DOMAIN snap = 1 .. Len(snap) BY SnapKeyed
  <2>1. PICK c : Keyed(snap[k], c) BY <2>0, SnapKeyed
  <2>2. PICK d : Keyed(snap[i], d) BY <2>0, SnapKeyed
  <2> QED BY <2>1, <2>2, EnumSubjects
<1>2. \A s : s \in ShownOf(shown, i) <=> \E m \in 1 .. n : s = snap[o + m]
  <2>1. \A s : s \in ShownOf(shown, i) <=>
               \E k \in {l \in shown : SameEnum(snap[l], snap[i])} : s = snap[k]
    BY <1>1 DEF ShownOf
  <2> QED BY <2>1
<1>3. IsList(states)
  <2>1. states \in {HaNodeStates, HaGuestStates, LockStates, SubStates} BY DEF EnumOf
  <2> QED BY <2>1, StateLists
<1> QED BY <1>2, <1>3, BlockIsWhole

(* Prometheus shows the first block of a subject and OTLP the last, and        *)
(* nothing else of the subject.                                                *)
LEMMA FirstBlockShown ==
    ASSUME Base, NEW i \in DOMAIN snap, snap[i].name \in Enums,
           NEW states, states = EnumOf(snap[i]), NEW n, n = Len(states)
    PROVE  /\ \E o : /\ Block(o, snap[i], states, n)
                     /\ {k \in Prometheus : SameEnum(snap[k], snap[i])} = {o + m : m \in 1 .. n}
           /\ \E o : /\ Block(o, snap[i], states, n)
                     /\ {k \in OTLP : SameEnum(snap[k], snap[i])} = {o + m : m \in 1 .. n}
<1> DEFINE N == Len(snap)
           T == {k \in 1 .. N : SameEnum(snap[k], snap[i])}
<1>1. /\ N \in Nat /\ DOMAIN snap = 1 .. N
      /\ \A j, k \in 1 .. N : Dup(snap[j], snap[k]) <=> Series(snap[j]) = Series(snap[k])
  BY SnapKeyed
<1>2. n \in Nat /\ \A l, m \in 1 .. n : states[l] = states[m] => l = m
  <2>1. states \in {HaNodeStates, HaGuestStates, LockStates, SubStates} BY DEF EnumOf
  <2> QED BY <2>1, StateLists, ListFacts DEF Distinct
<1>3. i \in T /\ T \subseteq 1 .. N BY <1>1 DEF SameEnum
<1>4. \A p \in T : \E o : p \in o + 1 .. o + n /\ Block(o, snap[i], states, n)
  BY <1>1, InBlock
<1>5. ASSUME NEW k \in 1 .. N, NEW l \in T, Series(snap[k]) = Series(snap[l])
      PROVE  k \in T /\ snap[k].labels[3] = snap[l].labels[3]
  BY <1>5 DEF Series, SameEnum
<1>6. ASSUME NEW k \in T, NEW l \in T, snap[k].labels[3] = snap[l].labels[3]
      PROVE  Series(snap[k]) = Series(snap[l])
  <2>1. PICK c : Keyed(snap[k], c) BY <1>1, SnapKeyed
  <2>2. PICK d : Keyed(snap[l], d) BY <1>1, SnapKeyed
  <2>3. snap[l].name \in Enums /\ SameEnum(snap[k], snap[l]) BY DEF SameEnum
  <2> QED BY <1>6, <2>1, <2>2, <2>3, EnumSubjects
<1>7. ASSUME NEW o, Block(o, snap[i], states, n), NEW m \in 1 .. n
      PROVE  o \in Nat /\ o + m \in T /\ snap[o + m].labels[3] = <<"state", states[m]>>
  BY <1>1, <1>7 DEF Block
<1> HIDE DEF N, T
<1>8. \E o : /\ Block(o, snap[i], states, n)
             /\ {k \in Prometheus : SameEnum(snap[k], snap[i])} = {o + m : m \in 1 .. n}
  <2>1. PICK p \in T : \A k \in T : p <= k
    <3>1. T \in SUBSET Nat /\ T # {} BY <1>1, <1>3
    <3> QED BY <3>1, LeastOf
  <2>2. PICK o : p \in o + 1 .. o + n /\ Block(o, snap[i], states, n) BY <1>4
  <2>3. o \in Nat BY <2>2 DEF Block
  <2>4. \A k \in T : k \in Nat /\ o + 1 <= k BY <1>1, <1>3, <2>1, <2>2, <2>3
  <2>5. ASSUME NEW m \in 1 .. n PROVE o + m \in Prometheus /\ SameEnum(snap[o + m], snap[i])
    <3>1. o + m \in T /\ o + m \in 1 .. N BY <1>3, <1>7, <2>2
    <3>2. ASSUME NEW j \in 1 .. (o + m) - 1 PROVE ~Dup(snap[j], snap[o + m])
      <4>1. SUFFICES ASSUME Dup(snap[j], snap[o + m]) PROVE FALSE OBVIOUS
      <4>2. j \in 1 .. N BY <1>1, <3>1
      <4>3. j \in T /\ snap[j].labels[3] = snap[o + m].labels[3] BY <1>1, <1>5, <3>1, <4>1, <4>2
      <4>4. j - o \in 1 .. n /\ o + (j - o) = j /\ j - o # m BY <1>2, <2>3, <2>4, <4>3
      <4>5. snap[o + (j - o)].labels[3] = <<"state", states[j - o]>> BY <1>7, <2>2, <4>4
      <4>6. snap[o + m].labels[3] = <<"state", states[m]>> BY <1>7, <2>2
      <4> QED BY <1>2, <4>3, <4>4, <4>5, <4>6
    <3> QED BY <1>1, <3>1, <3>2 DEF Prometheus, T
  <2>6. ASSUME NEW k \in Prometheus, SameEnum(snap[k], snap[i])
        PROVE  \E m \in 1 .. n : k = o + m
    <3>1. k \in T BY <1>1, <2>6 DEF Prometheus, T
    <3>2. PICK q : k \in q + 1 .. q + n /\ Block(q, snap[i], states, n) BY <1>4, <3>1
    <3>3. q \in Nat /\ k - q \in 1 .. n /\ q + (k - q) = k BY <1>2, <3>2 DEF Block
    <3>4. snap[k].labels[3] = <<"state", states[k - q]>> BY <1>7, <3>2, <3>3
    <3>5. o + (k - q) \in T /\ snap[o + (k - q)].labels[3] = <<"state", states[k - q]>>
      BY <1>7, <2>2, <3>3
    <3>6. Series(snap[o + (k - q)]) = Series(snap[k]) BY <1>6, <3>1, <3>4, <3>5
    <3>7. ~(o + (k - q) \in 1 .. k - 1) BY <1>1, <1>3, <3>1, <3>5, <3>6 DEF Prometheus
    <3>8. o + 1 <= k /\ k <= o + (k - q) BY <1>2, <2>3, <2>4, <3>1, <3>3, <3>7
    <3>9. k - o \in 1 .. n /\ o + (k - o) = k BY <1>2, <2>3, <3>3, <3>8
    <3> QED BY <3>9
  <2>7. {k \in Prometheus : SameEnum(snap[k], snap[i])} = {o + m : m \in 1 .. n}
    BY <2>5, <2>6
  <2> QED BY <2>2, <2>7
<1>9. \E o : /\ Block(o, snap[i], states, n)
             /\ {k \in OTLP : SameEnum(snap[k], snap[i])} = {o + m : m \in 1 .. n}
  <2>1. PICK p \in T : \A k \in T : k <= p BY <1>1, <1>3, GreatestOf
  <2>2. PICK o : p \in o + 1 .. o + n /\ Block(o, snap[i], states, n) BY <1>4
  <2>3. o \in Nat BY <2>2 DEF Block
  <2>4. \A k \in T : k \in Nat /\ k <= o + n BY <1>1, <1>2, <1>3, <2>1, <2>2, <2>3
  <2>5. ASSUME NEW m \in 1 .. n PROVE o + m \in OTLP /\ SameEnum(snap[o + m], snap[i])
    <3>1. o + m \in T /\ o + m \in 1 .. N BY <1>3, <1>7, <2>2
    <3>2. ASSUME NEW j \in (o + m) + 1 .. N PROVE Series(snap[j]) # Series(snap[o + m])
      <4>1. SUFFICES ASSUME Series(snap[j]) = Series(snap[o + m]) PROVE FALSE OBVIOUS
      <4>2. j \in 1 .. N BY <1>1, <3>1
      <4>3. j \in T /\ snap[j].labels[3] = snap[o + m].labels[3] BY <1>5, <3>1, <4>1, <4>2
      <4>4. j - o \in 1 .. n /\ o + (j - o) = j /\ j - o # m BY <1>1, <1>2, <2>3, <2>4, <4>3
      <4>5. snap[o + (j - o)].labels[3] = <<"state", states[j - o]>> BY <1>7, <2>2, <4>4
      <4>6. snap[o + m].labels[3] = <<"state", states[m]>> BY <1>7, <2>2
      <4> QED BY <1>2, <4>3, <4>4, <4>5, <4>6
    <3> QED BY <1>1, <3>1, <3>2 DEF OTLP, T, N
  <2>6. ASSUME NEW k \in OTLP, SameEnum(snap[k], snap[i])
        PROVE  \E m \in 1 .. n : k = o + m
    <3>1. k \in T BY <1>1, <2>6 DEF OTLP, T
    <3>2. PICK q : k \in q + 1 .. q + n /\ Block(q, snap[i], states, n) BY <1>4, <3>1
    <3>3. q \in Nat /\ k - q \in 1 .. n /\ q + (k - q) = k BY <1>2, <3>2 DEF Block
    <3>4. snap[k].labels[3] = <<"state", states[k - q]>> BY <1>7, <3>2, <3>3
    <3>5. o + (k - q) \in T /\ snap[o + (k - q)].labels[3] = <<"state", states[k - q]>>
      BY <1>7, <2>2, <3>3
    <3>6. Series(snap[o + (k - q)]) = Series(snap[k]) BY <1>6, <3>1, <3>4, <3>5
    <3>7. ~(o + (k - q) \in k + 1 .. N) BY <3>6 DEF OTLP, N
    <3>8. k <= o + n /\ o + (k - q) <= k
      BY <1>1, <1>2, <1>3, <2>3, <2>4, <3>1, <3>3, <3>5, <3>7
    <3>9. k - o \in 1 .. n /\ o + (k - o) = k BY <1>2, <2>3, <3>3, <3>8
    <3> QED BY <3>9
  <2>7. {k \in OTLP : SameEnum(snap[k], snap[i])} = {o + m : m \in 1 .. n}
    BY <2>5, <2>6
  <2> QED BY <2>2, <2>7
<1> QED BY <1>8, <1>9

(* Hence both show whole enumerations. *)
LEMMA EnumsShown ==
    ASSUME Base
    PROVE  EnumsAreWhole
<1>1. Prometheus \in SUBSET (DOMAIN snap) /\ OTLP \in SUBSET (DOMAIN snap)
  BY DEF Prometheus, OTLP
<1>2. WholeEnums(Prometheus)
  <2> SUFFICES ASSUME NEW i \in Prometheus, snap[i].name \in Enums
               PROVE  WholeAs(ShownOf(Prometheus, i), EnumOf(snap[i]))
    BY WholeEnumsIs
  <2> DEFINE states == EnumOf(snap[i])
             n == Len(states)
  <2>1. n = Len(states) /\ states = EnumOf(snap[i]) /\ i \in DOMAIN snap BY <1>1
  <2> HIDE DEF n, states
  <2>2. PICK o : /\ Block(o, snap[i], states, n)
                 /\ {k \in Prometheus : SameEnum(snap[k], snap[i])} = {o + m : m \in 1 .. n}
    BY <2>1, FirstBlockShown
  <2>3. WholeAs(ShownOf(Prometheus, i), states) BY <1>1, <2>1, <2>2, OneBlockShown
  <2> QED BY <2>1, <2>3
<1>3. WholeEnums(OTLP)
  <2> SUFFICES ASSUME NEW i \in OTLP, snap[i].name \in Enums
               PROVE  WholeAs(ShownOf(OTLP, i), EnumOf(snap[i]))
    BY WholeEnumsIs
  <2> DEFINE states == EnumOf(snap[i])
             n == Len(states)
  <2>1. n = Len(states) /\ states = EnumOf(snap[i]) /\ i \in DOMAIN snap BY <1>1
  <2> HIDE DEF n, states
  <2>2. PICK o : /\ Block(o, snap[i], states, n)
                 /\ {k \in OTLP : SameEnum(snap[k], snap[i])} = {o + m : m \in 1 .. n}
    BY <2>1, FirstBlockShown
  <2>3. WholeAs(ShownOf(OTLP, i), states) BY <1>1, <2>1, <2>2, OneBlockShown
  <2> QED BY <2>1, <2>3
<1> QED BY <1>2, <1>3 DEF EnumsAreWhole

(* However often answers tell of the state of one guest or node, in whichever   *)
(* order nodes merge, each backend shows all states of its enumeration, at most *)
(* one of them active, and exactly one for a node's HA state.                   *)
THEOREM EveryEnumIsWhole == Spec => []EnumsAreWhole
<1>1. Base => EnumsAreWhole BY EnumsShown
<1> QED BY <1>1, Shape, PTL

-----------------------------------------------------------------------------
(* BackendsAgree: as long as answers told of each thing once, no series has two *)
(* values, for which what a node adds must be nothing that is there already     *)

(* The node's samples that are still to come are not in out, and a job that is  *)
(* in out has told of itself, so that OfTwoNodes knows it                       *)
NodesApart ==
    /\ Distinct(nodes)
    /\ \A n \in ToSet(nodes), s \in ToSet(out) :
          /\ CallOf(s) = "subscription" => s.labels[2] # Id(<<"node", n>>)
          /\ CallOf(s) = "onboot" => s.labels[3] # <<"node", n>>
    /\ \A s \in ToSet(out) : CallOf(s) = "replication" =>
          \E t \in ToSet(out) : t.name = "pve_replication_info" /\ t.labels[2] = s.labels[2]
OneValueEach ==
    ~repeated => Consistent(ToSet(snap)) /\ Consistent(ToSet(out)) /\ NodesApart

(* What a node brings agrees with itself and with what is in out *)
LEMMA NodeAgrees ==
    ASSUME Base, NodesApart, Consistent(ToSet(out)), ~repeated',
           NEW n \in ToSet(nodes), NEW jobs, NEW subs, NEW guests, NEW J, NEW U, NEW G,
           NodeMerges(n, jobs, subs, guests, J, U, G)
    PROVE  Consistent(ToSet(out'))
<1>1. NodeAnswers(n, jobs, subs, guests, J, U, G) BY DEF NodeMerges
<1>2. ~Repeats(jobs, ById) /\ ~OfTwoNodes(jobs) /\ ~Repeats(guests, ByVMID) BY DEF NodeMerges
<1>3. Consistent(ToSet(J)) BY <1>1, <1>2, JobsAgree DEF NodeAnswers
<1>4. Consistent(ToSet(U)) BY <1>1, SubscriptionAgrees DEF NodeAnswers
<1>5. Consistent(ToSet(G)) BY <1>1, <1>2, OnbootAgrees DEF NodeAnswers
<1>6. /\ \A s \in ToSet(J) : CallOf(s) = "replication"
      /\ \A s \in ToSet(U) : CallOf(s) = "subscription"
      /\ \A s \in ToSet(G) : CallOf(s) = "onboot"
  BY <1>1 DEF NodeAnswers, Batch
<1>7. ASSUME NEW s \in ToSet(out), NEW t \in ToSet(J) PROVE Series(s) # Series(t)
  <2> SUFFICES ASSUME Series(s) = Series(t) PROVE FALSE OBVIOUS
  <2>1. s.labels = t.labels /\ CallOf(s) = "replication" BY <1>6, SeriesIs
  <2>2. PICK j \in ToSet(jobs) : t \in ToSet(JobSamples(j)) BY <1>1 DEF NodeAnswers
  <2>3. t.labels[2] = Id(j.id) BY <1>1, <2>2, JobMembers DEF NodeAnswers
  <2>4. PICK u \in ToSet(out) : u.name = "pve_replication_info" /\ u.labels[2] = s.labels[2]
    BY <2>1 DEF NodesApart
  <2>5. u.labels[2] = Id(j.id) BY <2>1, <2>3, <2>4
  <2> QED BY <1>2, <2>2, <2>4, <2>5 DEF OfTwoNodes
<1>8. ASSUME NEW s \in ToSet(out), NEW t \in ToSet(U) PROVE Series(s) # Series(t)
  <2> SUFFICES ASSUME Series(s) = Series(t) PROVE FALSE OBVIOUS
  <2>1. s.labels = t.labels /\ CallOf(s) = "subscription" BY <1>6, SeriesIs
  <2>2. PICK sub \in ToSet(subs) : t \in ToSet(SubscriptionSamples(n, sub)) BY <1>1 DEF NodeAnswers
  <2>3. t.labels[2] = Id(<<"node", n>>) BY <2>2, SubscriptionMembers
  <2> QED BY <2>1, <2>3 DEF NodesApart
<1>9. ASSUME NEW s \in ToSet(out), NEW t \in ToSet(G) PROVE Series(s) # Series(t)
  <2> SUFFICES ASSUME Series(s) = Series(t) PROVE FALSE OBVIOUS
  <2>1. s.labels = t.labels /\ CallOf(s) = "onboot" BY <1>6, SeriesIs
  <2>2. PICK g \in ToSet(guests) : t \in ToSet(OnbootSamples(n, g)) BY <1>1 DEF NodeAnswers
  <2>3. t.labels[3] = <<"node", n>> BY <2>2, OnbootMembers
  <2> QED BY <2>1, <2>3 DEF NodesApart
<1>10. \A s \in ToSet(J), t \in ToSet(U) : Series(s) # Series(t) BY <1>6, SeriesIs
<1>11. \A s \in ToSet(J) \cup ToSet(U), t \in ToSet(G) : Series(s) # Series(t)
  BY <1>6, SeriesIs
<1>12. Consistent(ToSet(J) \cup ToSet(U)) BY <1>3, <1>4, <1>10, ConsistentUnion
<1> DEFINE K == (ToSet(J) \cup ToSet(U)) \cup ToSet(G)
<1>13. Consistent(K) BY <1>5, <1>11, <1>12, ConsistentUnion
<1>14. \A s \in ToSet(out), t \in K : Series(s) # Series(t) BY <1>7, <1>8, <1>9
<1>15. ToSet(out') = ToSet(out) \cup K
  <2>1. ToSet(((out \o J) \o U) \o G) = ToSet(out) \cup (ToSet(J) \cup ToSet(U) \cup ToSet(G))
    BY <1>1, NodeAddsTo
  <2> QED BY <2>1 DEF NodeMerges
<1> HIDE DEF K
<1> QED BY <1>13, <1>14, <1>15, ConsistentUnion

(* After a node has merged, what it brought is apart from the other nodes *)
LEMMA NodeStaysApart ==
    ASSUME Base, NodesApart, NEW i \in 1 .. Len(nodes), nodes' = RemoveAt(nodes, i),
           NEW jobs, NEW subs, NEW guests, NEW J, NEW U, NEW G,
           NodeMerges(nodes[i], jobs, subs, guests, J, U, G)
    PROVE  NodesApart'
<1> DEFINE n == nodes[i]
<1>1. NodeAnswers(n, jobs, subs, guests, J, U, G) BY DEF NodeMerges
<1>2. /\ ToSet(nodes') \subseteq ToSet(nodes)
      /\ Distinct(nodes') /\ n \notin ToSet(nodes')
  BY RemoveAtIs DEF Base, NodesApart
<1>3. ToSet(out') = ToSet(out) \cup (ToSet(J) \cup ToSet(U) \cup ToSet(G))
  <2>1. ToSet(((out \o J) \o U) \o G) = ToSet(out) \cup (ToSet(J) \cup ToSet(U) \cup ToSet(G))
    BY <1>1, NodeAddsTo
  <2> QED BY <2>1 DEF NodeMerges
<1> HIDE DEF n
<1>4. /\ \A s \in ToSet(J) : CallOf(s) = "replication"
      /\ \A s \in ToSet(U) : CallOf(s) = "subscription"
      /\ \A s \in ToSet(G) : CallOf(s) = "onboot"
  BY <1>1 DEF NodeAnswers, Batch
<1>5. \A s \in ToSet(U) : s.labels[2] = Id(<<"node", n>>)
  BY <1>1, SubscriptionMembers DEF NodeAnswers
<1>6. \A s \in ToSet(G) : s.labels[3] = <<"node", n>>
  BY <1>1, OnbootMembers DEF NodeAnswers
<1>7. ASSUME NEW m \in ToSet(nodes'), NEW s \in ToSet(out')
      PROVE  /\ CallOf(s) = "subscription" => s.labels[2] # Id(<<"node", m>>)
             /\ CallOf(s) = "onboot" => s.labels[3] # <<"node", m>>
  <2>1. m \in ToSet(nodes) /\ m # n BY <1>2
  <2>2. CASE s \in ToSet(out) BY <2>1, <2>2 DEF NodesApart
  <2>3. CASE s \in ToSet(J) BY <1>4, <2>3
  <2>4. CASE s \in ToSet(U)
    <3>1. s.labels[2] = Id(<<"node", n>>) /\ CallOf(s) = "subscription" BY <1>4, <1>5, <2>4
    <3>2. Id(<<"node", n>>) # Id(<<"node", m>>) BY <2>1 DEF Id
    <3> QED BY <3>1, <3>2
  <2>5. CASE s \in ToSet(G)
    <3>1. s.labels[3] = <<"node", n>> /\ CallOf(s) = "onboot" BY <1>4, <1>6, <2>5
    <3> QED BY <2>1, <3>1
  <2> QED BY <1>3, <2>2, <2>3, <2>4, <2>5
<1>8. ASSUME NEW s \in ToSet(out'), CallOf(s) = "replication"
      PROVE  \E t \in ToSet(out') : t.name = "pve_replication_info" /\ t.labels[2] = s.labels[2]
  <2>1. CASE s \in ToSet(out) BY <1>3, <1>8, <2>1 DEF NodesApart
  <2>2. CASE s \in ToSet(J)
    <3>1. PICK j \in ToSet(jobs) : s \in ToSet(JobSamples(j)) BY <1>1, <2>2 DEF NodeAnswers
    <3>2. IsJob(j) BY <1>1 DEF NodeAnswers
    <3>3. PICK t \in ToSet(JobSamples(j)) : t.name = "pve_replication_info" BY <3>2, JobMembers
    <3>4. s.labels[2] = Id(j.id) /\ t.labels[2] = Id(j.id) BY <3>1, <3>2, JobMembers
    <3>5. t \in ToSet(J) BY <1>1, <3>3 DEF NodeAnswers
    <3> QED BY <1>3, <3>3, <3>4, <3>5
  <2> QED BY <1>3, <1>4, <1>8, <2>1, <2>2
<1> QED BY <1>2, <1>7, <1>8 DEF NodesApart

(* Every step keeps series to one value. *)
LEMMA OneValueStep ==
    ASSUME Base, OneValueEach, [Next]_vars
    PROVE  OneValueEach'
<1> SUFFICES ASSUME ~repeated'
             PROVE  Consistent(ToSet(snap')) /\ Consistent(ToSet(out')) /\ NodesApart'
  BY DEF OneValueEach
<1>0. ASSUME ~repeated
      PROVE  Consistent(ToSet(snap)) /\ Consistent(ToSet(out)) /\ NodesApart
  BY <1>0 DEF OneValueEach
<1>1. CASE PrimaryFails \/ Finish
  <2>1. PICK v, x, b :
           /\ b = Add("pve_up", v, <<Id(<<"cluster", x>>)>>) \o SelfSamples
           /\ EndPoll(out \o b) /\ Batch(b, {"end"}) /\ UNCHANGED <<setup, repeated>>
           /\ pc \in {"resources", "nodes"}
    BY <1>1, EndPollIs
  <2>2. Consistent(ToSet(snap)) /\ Consistent(ToSet(out)) BY <1>0, <2>1
  <2>3. /\ ToSet(snap') = ToSet(snap) \cup (ToSet(out) \cup ToSet(b))
        /\ \A s \in ToSet(out) \cup ToSet(b) : Keyed(s, Owner(target))
        /\ Polled = 1 .. target - 1 /\ out' = <<>> /\ nodes' = <<>>
    BY <2>1, PollEnded
  <2>4. Consistent(ToSet(b))
    <3>1. Ends(b, v, x) BY <2>1, EndMembers
    <3> QED BY <3>1, EndAgrees
  <2>5. \A s \in ToSet(out), t \in ToSet(b) : Series(s) # Series(t)
    <3>1. \A s \in ToSet(out) : CallOf(s) # "end"
      <4>1. "end" \notin Seen(pc) BY DEF Seen
      <4> QED BY <4>1 DEF Base, Batch
    <3>2. \A t \in ToSet(b) : CallOf(t) = "end" BY <2>1 DEF Batch
    <3> QED BY <3>1, <3>2, SeriesIs
  <2> DEFINE B == ToSet(out) \cup ToSet(b)
  <2>6. Consistent(B) BY <2>2, <2>4, <2>5, ConsistentUnion
  <2>7. \A s \in ToSet(snap), t \in B : Series(s) # Series(t)
    <3> TAKE s \in ToSet(snap), t \in B
    <3>1. PICK k \in Polled : Keyed(s, Owner(k)) BY DEF Base
    <3>2. k \in 1 .. Len(setup.targets) /\ k # target BY <2>3, CaseFacts
    <3>3. Owner(k) # Owner(target) BY <3>2, CaseFacts
    <3>4. s.labels[1] = <<"cluster", Owner(k)>> /\ t.labels[1] = <<"cluster", Owner(target)>>
      BY <2>3, <3>1 DEF Keyed
    <3>5. s.labels[1] # t.labels[1] BY <3>3, <3>4
    <3> QED BY <3>5, SeriesIs
  <2>8. Consistent(ToSet(snap'))
    <3> HIDE DEF B
    <3>1. Consistent(ToSet(snap) \cup B) BY <2>2, <2>6, <2>7, ConsistentUnion
    <3> QED BY <2>3, <3>1 DEF B
  <2>9. ToSet(out') = {} /\ Len(nodes') = 0 BY <2>3, ListEmpty
  <2> QED BY <2>8, <2>9 DEF Consistent, NodesApart, Distinct
<1>2. CASE Resources
  <2>1. /\ pc = "resources" /\ snap' = snap /\ Batch(out', {"resources"})
        /\ repeated => repeated'
    BY <1>2, ResourcesBring
  <2>2. PICK rows \in setup.resources :
           /\ IsList(rows) /\ \A r \in ToSet(rows) : IsRow(r)
           /\ \A s : s \in ToSet(out') <=> \E r \in ToSet(rows) : s \in ToSet(ResourceSamples(r))
           /\ nodes' = ForEach(rows, NodeNames)
           /\ repeated' = (repeated \/ Repeats(rows, ById))
    BY <1>2, ResourcesBring
  <2>3. ~Repeats(rows, ById) BY <2>2
  <2>4. Consistent(ToSet(out')) BY <2>2, <2>3, ResourcesAgree
  <2>5. Distinct(nodes') BY <2>2, <2>3, NodeNamesLoop
  <2>6. \A s \in ToSet(out') : CallOf(s) = "resources" BY <2>1 DEF Batch
  <2> QED BY <1>0, <2>1, <2>4, <2>5, <2>6 DEF NodesApart
<1>3. CASE NoAnswer \/ Status \/ Version \/ QDevice \/ Backup \/ HAStatus
  <2>1. PICK samples : /\ Brings(pc, samples) /\ Batch(samples, {pc})
                       /\ ~repeated' => ~repeated /\ Consistent(ToSet(samples))
    BY <1>3, CallBrings
  <2>2. pc \in DOMAIN Then /\ out' = out \o samples /\ UNCHANGED <<snap, nodes>>
    <3>1. pc \in DOMAIN Then
      BY <1>3 DEF NoAnswer, Status, Version, QDevice, Backup, HAStatus, Brings, Then
    <3> QED BY <2>1, <3>1 DEF Brings
  <2>3. ToSet(out') = ToSet(out) \cup ToSet(samples) BY <2>1, <2>2, BatchConcat DEF Base
  <2>4. /\ \A s \in ToSet(samples) : CallOf(s) = pc
        /\ \A s \in ToSet(out) : CallOf(s) # pc
    <3>1. pc \notin Seen(pc) BY <2>2 DEF Then, Seen
    <3> QED BY <2>1, <3>1 DEF Base, Batch
  <2>5. Consistent(ToSet(out'))
    <3>1. \A s \in ToSet(out), t \in ToSet(samples) : Series(s) # Series(t)
      BY <2>4, SeriesIs
    <3> QED BY <1>0, <2>1, <2>3, <3>1, ConsistentUnion
  <2>6. NodesApart'
    <3>1. pc \notin {"replication", "subscription", "onboot"} BY <2>2 DEF Then
    <3>2. NodesApart BY <1>0, <2>1
    <3> QED BY <2>2, <2>3, <2>4, <3>1, <3>2 DEF NodesApart
  <2> QED BY <1>0, <2>1, <2>2, <2>5, <2>6
<1>4. CASE pc = "nodes" /\ \E i \in DOMAIN nodes : Node(i)
  <2>1. PICK i \in DOMAIN nodes : Node(i) BY <1>4
  <2>2. i \in 1 .. Len(nodes) /\ nodes' = RemoveAt(nodes, i) /\ snap' = snap
    BY <1>4, <2>1, NodeBrings
  <2>3. PICK jobs, subs, guests, J, U, G : NodeMerges(nodes[i], jobs, subs, guests, J, U, G)
    BY <1>4, <2>1, NodeBrings
  <2>4. Consistent(ToSet(snap)) /\ Consistent(ToSet(out)) /\ NodesApart
    <3>1. repeated => repeated' BY <2>3 DEF NodeMerges
    <3> QED BY <1>0, <3>1
  <2>5. nodes[i] \in ToSet(nodes) BY <2>2, ListFacts DEF Base
  <2>6. Consistent(ToSet(out')) BY <2>3, <2>4, <2>5, NodeAgrees
  <2>7. NodesApart' BY <2>2, <2>3, <2>4, NodeStaysApart
  <2> QED BY <2>2, <2>4, <2>6, <2>7
<1>5. CASE UNCHANGED vars
  <2>1. UNCHANGED <<snap, out, nodes, repeated>> BY <1>5 DEF vars
  <2> QED BY <1>0, <2>1 DEF NodesApart
<1> QED BY <1>1, <1>2, <1>3, <1>4, <1>5 DEF Next, Published

(* Prometheus keeps the first sample of a series and OTLP the last.  Where each *)
(* answer tells of each thing once, and no job is of two nodes, that makes no   *)
(* difference: the mapping gives no series two values.                          *)
THEOREM TheBackendsAgree == Spec => []BackendsAgree
<1>1. Init => OneValueEach
  <2> SUFFICES ASSUME Init PROVE OneValueEach OBVIOUS
  <2>1. ToSet(snap) = {} /\ ToSet(out) = {} /\ Len(nodes) = 0 BY ListEmpty DEF Init
  <2> QED BY <2>1 DEF OneValueEach, Consistent, NodesApart, Distinct
<1>2. Base /\ OneValueEach /\ [Next]_vars => OneValueEach' BY OneValueStep
<1>3. Base /\ OneValueEach => BackendsAgree
  <2>1. Base => \A i \in DOMAIN snap : snap[i] \in ToSet(snap) BY SnapKeyed
  <2> QED BY <2>1 DEF OneValueEach, Consistent, BackendsAgree
<1> QED BY <1>1, <1>2, <1>3, Shape, PTL DEF Spec
=============================================================================
