------------------------------- MODULE Folding -------------------------------
(***************************************************************************)
(* What a left fold over a sequence computes, for any step: the values it  *)
(* runs through, of which the last is its result.  The operations of a     *)
(* SCIM patch are such a fold (domain/scim/patch.ts), so what they do is   *)
(* shown by induction along that run.                                      *)
(***************************************************************************)
EXTENDS SequencesExt, WellFoundedInduction, TLAPS

CONSTANT Op(_, _)

(* Induction up to n, for a set of numbers. *)
LEMMA Climbing ==
  ASSUME NEW n \in Nat, NEW S, 0 \in S, \A i \in 0 .. n - 1 : i \in S => i + 1 \in S
  PROVE  0 .. n \subseteq S
<1> DEFINE T == {i \in 0 .. n : i \notin S}
<1>1. SUFFICES ASSUME T # {} PROVE FALSE
  OBVIOUS
<1>2. T \subseteq Nat
  OBVIOUS
<1>3. PICK i \in T : \A j \in T : <<j, i>> \notin OpToRel(<, Nat)
  <2> HIDE DEF T
  <2>1. QED
    BY <1>1, <1>2, WFMin, NatLessThanWellFounded, Zenon
<1>4. \A j \in T : ~(j < i)
  <2>1. \A j \in T : <<j, i>> \in Nat \X Nat
    BY <1>2
  <2> HIDE DEF T
  <2>2. QED
    BY <1>3, <2>1, Zenon DEF OpToRel
<1>5. i # 0 /\ i - 1 \in 0 .. n - 1 /\ i - 1 + 1 = i
  OBVIOUS
<1>6. i - 1 \in T
  BY <1>5
<1>7. QED
  BY <1>4, <1>5, <1>6

(* The fold of the elements whose places are in a set, greatest place last *)
(* (the function that FoldLeft defines).                                   *)
Iterates(g, base, seq, places) ==
  g = [s \in SUBSET places |->
         IF s = {} THEN base ELSE Op(g[s \ {Max(s)}], seq[Max(s)])]

LEMMA TopIsMax ==
  ASSUME NEW k \in Nat, NEW s \in SUBSET (1 .. k), k \in s
  PROVE  Max(s) = k
<1>1. \A y \in s : k >= y
  OBVIOUS
<1>2. \A x \in s : (\A y \in s : x >= y) => x = k
  OBVIOUS
<1>3. QED
  BY <1>1, <1>2, Zenon DEF Max

LEMMA IterationsExist ==
  ASSUME NEW base, NEW seq, NEW n \in Nat
  PROVE  \E g : Iterates(g, base, seq, 1 .. n)
<1> DEFINE S == {k \in 0 .. n : \E g : Iterates(g, base, seq, 1 .. k)}
<1>1. 0 \in S
  <2> DEFINE g == [s \in SUBSET (1 .. 0) |-> base]
  <2>1. \A s \in SUBSET (1 .. 0) : s = {}
    OBVIOUS
  <2>2. Iterates(g, base, seq, 1 .. 0)
    BY <2>1 DEF Iterates
  <2>3. QED
    BY <2>2
<1>2. ASSUME NEW k \in 0 .. n - 1, k \in S PROVE k + 1 \in S
  <2>1. PICK g : Iterates(g, base, seq, 1 .. k)
    BY <1>2
  <2> DEFINE h == [s \in SUBSET (1 .. k + 1) |->
                     IF k + 1 \in s THEN Op(g[s \ {k + 1}], seq[k + 1]) ELSE g[s]]
  <2>2. ASSUME NEW s \in SUBSET (1 .. k + 1), s # {}
        PROVE  h[s] = Op(h[s \ {Max(s)}], seq[Max(s)])
    <3>1. CASE k + 1 \in s
      <4>1. Max(s) = k + 1
        BY <3>1, TopIsMax
      <4>2. s \ {k + 1} \in SUBSET (1 .. k + 1) /\ k + 1 \notin s \ {k + 1}
        OBVIOUS
      <4>3. h[s \ {k + 1}] = g[s \ {k + 1}]
        BY <4>2
      <4>4. h[s] = Op(g[s \ {k + 1}], seq[k + 1])
        BY <3>1
      <4>5. QED
        BY <4>1, <4>3, <4>4
    <3>2. CASE k + 1 \notin s
      <4>1. s \in SUBSET (1 .. k)
        BY <3>2
      <4>2. g[s] = Op(g[s \ {Max(s)}], seq[Max(s)])
        BY <2>1, <2>2, <4>1 DEF Iterates
      <4>3. s \ {Max(s)} \in SUBSET (1 .. k + 1) /\ k + 1 \notin s \ {Max(s)}
        BY <3>2
      <4>4. h[s] = g[s] /\ h[s \ {Max(s)}] = g[s \ {Max(s)}]
        BY <3>2, <4>3
      <4>5. QED
        BY <4>2, <4>4
    <3>3. QED
      BY <3>1, <3>2
  <2>3. h[{}] = base
    <3>1. {} \in SUBSET (1 .. k + 1) /\ {} \in SUBSET (1 .. k)
      OBVIOUS
    <3>2. QED
      BY <2>1, <3>1 DEF Iterates
  <2>4. Iterates(h, base, seq, 1 .. k + 1)
    <3>1. h = [s \in SUBSET (1 .. k + 1) |-> h[s]]
      OBVIOUS
    <3> HIDE DEF h
    <3>2. QED
      BY <2>2, <2>3, <3>1 DEF Iterates
  <2>5. QED
    BY <2>4
<1>3. 0 .. n \subseteq S
  <2> HIDE DEF S
  <2>1. QED
    BY <1>1, <1>2, Climbing
<1>4. QED
  BY <1>3

(* The run of a fold. *)
Runs(f, base, seq) ==
  /\ f[0] = base
  /\ \A i \in 1 .. Len(seq) : f[i] = Op(f[i - 1], seq[i])

LEMMA FoldsRun ==
  ASSUME NEW base, NEW seq, Len(seq) \in Nat, DOMAIN seq = 1 .. Len(seq)
  PROVE  \E f : Runs(f, base, seq) /\ FoldLeft(Op, base, seq) = f[Len(seq)]
<1> DEFINE n == Len(seq)
           g == CHOOSE g : Iterates(g, base, seq, 1 .. n)
           f == [i \in 0 .. n |-> g[1 .. i]]
<1>1. Iterates(g, base, seq, 1 .. n)
  BY IterationsExist
<1>2. FoldLeft(Op, base, seq) = g[1 .. n]
  BY DEF FoldLeft, MapThenFoldSet, Iterates
<1> HIDE DEF g
<1>3. f[0] = base
  <2>1. 1 .. 0 = {} /\ {} \in SUBSET (1 .. n)
    OBVIOUS
  <2>2. QED
    BY <1>1, <2>1 DEF Iterates
<1>4. ASSUME NEW i \in 1 .. n PROVE f[i] = Op(f[i - 1], seq[i])
  <2>1. 1 .. i \in SUBSET (1 .. n) /\ 1 .. i # {} /\ i \in 1 .. i
    <3>1. n \in Nat /\ i \in Nat /\ 1 <= i /\ i <= n
      OBVIOUS
    <3> HIDE DEF n
    <3>2. i \in 1 .. i
      BY <3>1
    <3>3. \A j \in 1 .. i : j \in 1 .. n
      BY <3>1
    <3>4. QED
      BY <3>2, <3>3
  <2>2. Max(1 .. i) = i
    BY <2>1, TopIsMax
  <2>3. (1 .. i) \ {i} = 1 .. i - 1 /\ i - 1 \in 0 .. n
    OBVIOUS
  <2>4. g[1 .. i] = Op(g[1 .. i - 1], seq[i])
    BY <1>1, <2>1, <2>2, <2>3 DEF Iterates
  <2>5. QED
    BY <2>3, <2>4
<1>5. FoldLeft(Op, base, seq) = f[n]
  BY <1>2
<1> HIDE DEF f
<1>6. QED
  BY <1>3, <1>4, <1>5 DEF Runs
=============================================================================
