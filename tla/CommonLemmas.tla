----------------------------- MODULE CommonLemmas ------------------------------
(***************************************************************************)
(* What several of the proofs rest on: least numbers, induction over an    *)
(* initial segment of the naturals, functions that are defined by          *)
(* recursion over one, and sequences that lose an element.  What is shown  *)
(* by induction is given as the set of numbers it holds for, and a         *)
(* recursion as a function from a value and a position to the next value.  *)
(***************************************************************************)
EXTENDS Integers, SequencesExt, SequenceTheorems, WellFoundedInduction, TLAPS

LEMMA LeastNatural ==
  ASSUME NEW S, S \subseteq Nat, S # {}
  PROVE  \E m \in S : \A k \in S : m <= k
<1>1. IsWellFoundedOn(OpToRel(<, Nat), Nat)
  BY NatLessThanWellFounded, Zenon
<1>2. PICK m \in S : \A k \in S : <<k, m>> \notin OpToRel(<, Nat)
  BY <1>1, WFMin, Zenon
<1>3. \A k \in S : ~ (k < m)
  BY <1>2 DEF OpToRel
<1>4. \A k \in S : m <= k
  BY <1>3
<1> QED
  BY <1>4

(* What holds of 0, and of each i up to n if it does of its predecessor,   *)
(* holds of every number up to n.                                          *)
LEMMA UpTo ==
  ASSUME NEW n \in Nat, NEW S, 0 \in S, \A i \in 1 .. n : i - 1 \in S => i \in S
  PROVE  \A i \in 0 .. n : i \in S
<1> DEFINE missed == {i \in 0 .. n : i \notin S}
<1> SUFFICES ASSUME missed # {} PROVE FALSE
  OBVIOUS
<1>1. missed \subseteq Nat
  OBVIOUS
<1>2. PICK m \in missed : \A k \in missed : m <= k
  BY <1>1, LeastNatural
<1>3. m \in 1 .. n /\ m - 1 \in 0 .. n
  BY <1>2
<1>4. m - 1 \in S
  BY <1>2, <1>3
<1> QED
  BY <1>2, <1>3, <1>4

(* f lists the values of a recursion at the positions up to n.             *)
Unfolds(f, n, first, step) ==
    f[0] = first /\ \A i \in 1 .. n : f[i] = step[<<f[i - 1], i>>]

(* A recursion has a value at every position.                               *)
LEMMA Recursive ==
  ASSUME NEW n \in Nat, NEW T, NEW first \in T, NEW step \in [T \X (1 .. n) -> T]
  PROVE  \E f \in [0 .. n -> T] : Unfolds(f, n, first, step)
<1> DEFINE Fits(f, k) == f \in [0 .. k -> T] /\ Unfolds(f, k, first, step)
           S == {k \in 0 .. n : \E f : Fits(f, k)}
<1>1. 0 \in S
  <2> DEFINE g == [i \in {0} |-> first]
  <2>1. /\ 0 .. 0 = {0} /\ 1 .. 0 = {} /\ 0 \in 0 .. n
    OBVIOUS
  <2>2. g \in [0 .. 0 -> T] /\ g[0] = first
    BY <2>1
  <2> HIDE DEF g
  <2>3. Fits(g, 0)
    BY <2>1, <2>2 DEF Unfolds
  <2> HIDE DEF Fits
  <2> QED
    BY <2>1, <2>3
<1>2. ASSUME NEW i \in 1 .. n, i - 1 \in S PROVE i \in S
  <2>1. PICK f : Fits(f, i - 1)
    BY <1>2
  <2> DEFINE last == step[<<f[i - 1], i>>]
             g    == [j \in 0 .. i |-> IF j = i THEN last ELSE f[j]]
  <2>2. f[i - 1] \in T
    BY <2>1
  <2>3. last \in T
    BY <2>2
  <2> HIDE DEF last
  <2>4. ASSUME NEW j \in 0 .. i PROVE g[j] \in T
    BY <2>1, <2>3
  <2>5. g[0] = first /\ g[i] = last /\ g[i - 1] = f[i - 1] /\ g \in [0 .. i -> T]
    BY <2>1, <2>4 DEF Unfolds
  <2>6. ASSUME NEW j \in 1 .. i - 1 PROVE g[j] = step[<<g[j - 1], j>>]
    <3>1. g[j] = f[j] /\ g[j - 1] = f[j - 1]
      OBVIOUS
    <3> QED
      BY <2>1, <3>1 DEF Unfolds
  <2>7. g[i] = step[<<g[i - 1], i>>]
    BY <2>5 DEF last
  <2> HIDE DEF g
  <2>8. ASSUME NEW j \in 1 .. i PROVE g[j] = step[<<g[j - 1], j>>]
    <3>1. CASE j = i
      BY <3>1, <2>7
    <3>2. CASE j # i
      BY <3>2, <2>6
    <3> QED
      BY <3>1, <3>2
  <2>9. Fits(g, i)
    BY <2>5, <2>8 DEF Unfolds
  <2> HIDE DEF Fits
  <2> QED
    BY <2>9
<1>3. \A k \in 0 .. n : k \in S
  <2> HIDE DEF S
  <2> QED
    BY <1>1, <1>2, UpTo
<1> QED
  BY <1>3

(* The beginning of a sequence grows by one element at a time.             *)
LEMMA PrefixGrows ==
  ASSUME NEW T, NEW s \in Seq(T), NEW i \in 1 .. Len(s)
  PROVE  SubSeq(s, 1, i) = Append(SubSeq(s, 1, i - 1), s[i])
<1>1. 1 \in 1 .. Len(s) /\ i \in 1 .. Len(s)
  OBVIOUS
<1>2. SubSeq(s, 1, i) = SubSeq(s, 1, i - 1) \o <<s[i]>>
  BY <1>1, SubSeqRecursiveSecond
<1>3. s[i] \in T /\ \A j \in 1 .. i - 1 : s[j] \in T
  BY ElementOfSeq
<1>4. SubSeq(s, 1, i - 1) \in Seq(T)
  <2>1. 1 \in Int /\ i - 1 \in Int
    OBVIOUS
  <2> QED
    BY <1>3, <2>1, SubSeqProperties
<1> QED
  BY <1>2, <1>3, <1>4, AppendIsConcat

(* A sequence that loses an element closes up.                             *)
LEMMA RemoveAtElements ==
  ASSUME NEW T, NEW s \in Seq(T), NEW i \in 1 .. Len(s)
  PROVE  /\ RemoveAt(s, i) \in Seq(T) /\ Len(RemoveAt(s, i)) = Len(s) - 1
         /\ \A j \in 1 .. Len(s) - 1 : RemoveAt(s, i)[j] = IF j < i THEN s[j] ELSE s[j + 1]
<1> DEFINE before == SubSeq(s, 1, i - 1)
           after  == SubSeq(s, i + 1, Len(s))
<1>1. \A j \in 1 .. Len(s) : s[j] \in T
  BY ElementOfSeq
<1>2. /\ before \in Seq(T) /\ Len(before) = i - 1
      /\ \A j \in 1 .. i - 1 : before[j] = s[j]
  <2>1. 1 \in Int /\ i - 1 \in Int /\ \A j \in 1 .. i - 1 : s[j] \in T
    BY <1>1
  <2>2. /\ before \in Seq(T) /\ Len(before) = IF 1 <= i - 1 THEN i - 1 - 1 + 1 ELSE 0
        /\ \A j \in 1 .. i - 1 - 1 + 1 : before[j] = s[1 + j - 1]
    BY <2>1, SubSeqProperties
  <2> HIDE DEF before
  <2> QED
    BY <2>2
<1>3. /\ after \in Seq(T) /\ Len(after) = Len(s) - i
      /\ \A j \in 1 .. Len(s) - i : after[j] = s[i + j]
  <2>1. i + 1 \in Int /\ Len(s) \in Int /\ \A j \in i + 1 .. Len(s) : s[j] \in T
    BY <1>1
  <2>2. /\ after \in Seq(T)
        /\ Len(after) = IF i + 1 <= Len(s) THEN Len(s) - (i + 1) + 1 ELSE 0
        /\ \A j \in 1 .. Len(s) - (i + 1) + 1 : after[j] = s[i + 1 + j - 1]
    BY <2>1, SubSeqProperties
  <2> HIDE DEF after
  <2> QED
    BY <2>2
<1> HIDE DEF before, after
<1>4. /\ before \o after \in Seq(T) /\ Len(before \o after) = Len(s) - 1
      /\ \A j \in 1 .. Len(s) - 1 : (before \o after)[j] =
            IF j <= i - 1 THEN before[j] ELSE after[j - (i - 1)]
  <2>1. Len(before) + Len(after) = Len(s) - 1
    BY <1>2, <1>3
  <2>2. /\ before \o after \in Seq(T) /\ Len(before \o after) = Len(before) + Len(after)
        /\ \A j \in 1 .. Len(before) + Len(after) : (before \o after)[j] =
              IF j <= Len(before) THEN before[j] ELSE after[j - Len(before)]
    BY <1>2, <1>3, ConcatProperties
  <2> QED
    BY <1>2, <2>1, <2>2
<1>5. RemoveAt(s, i) = before \o after
  BY DEF RemoveAt, before, after
<1>6. ASSUME NEW j \in 1 .. Len(s) - 1
      PROVE  (before \o after)[j] = IF j < i THEN s[j] ELSE s[j + 1]
  <2>1. CASE j < i
    <3>1. j \in 1 .. i - 1 /\ j <= i - 1
      BY <2>1
    <3>2. (before \o after)[j] = before[j]
      BY <1>4, <3>1
    <3> QED
      BY <1>2, <2>1, <3>1, <3>2
  <2>2. CASE ~(j < i)
    <3>1. j - (i - 1) \in 1 .. Len(s) - i /\ ~(j <= i - 1) /\ i + (j - (i - 1)) = j + 1
      BY <2>2
    <3>2. (before \o after)[j] = after[j - (i - 1)]
      BY <1>4, <3>1
    <3> QED
      BY <1>3, <2>2, <3>1, <3>2
  <2> QED
    BY <2>1, <2>2
<1> QED
  BY <1>4, <1>5, <1>6
==============================================================================
