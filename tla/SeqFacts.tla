------------------------------ MODULE SeqFacts ------------------------------
(***************************************************************************)
(* Facts about the range and the injectivity of sequences: what removing,   *)
(* appending and concatenating does to the set of queued threads.           *)
(***************************************************************************)
EXTENDS SequencesExt, SequenceTheorems, Integers, TLAPS

\* A queue's entries are the values at its positions, and each is in S.
LEMMA RangeFacts ==
  ASSUME NEW S, NEW s \in Seq(S)
  PROVE  /\ Range(s) \subseteq S
         /\ \A i \in 1 .. Len(s) : s[i] \in Range(s)
         /\ \A x \in Range(s) : \E i \in 1 .. Len(s) : x = s[i]
BY DEF Range

\* The empty queue has no entries.
LEMMA EmptyFacts ==
  /\ Range(<<>>) = {}
  /\ IsInjective(<<>>)
BY DEF Range, IsInjective

\* Two positions of a queue without duplicates hold different threads.
LEMMA InjectiveFacts ==
  ASSUME NEW S, NEW s \in Seq(S)
  PROVE  IsInjective(s) <=> \A i, j \in 1 .. Len(s) : s[i] = s[j] => i = j
BY DEF IsInjective

\* Unlinking one entry of a queue without duplicates removes that entry only.
LEMMA RemoveAtFacts ==
  ASSUME NEW S, NEW s \in Seq(S), IsInjective(s), NEW i \in 1 .. Len(s)
  PROVE  /\ RemoveAt(s, i) \in Seq(S)
         /\ IsInjective(RemoveAt(s, i))
         /\ Range(RemoveAt(s, i)) = Range(s) \ {s[i]}
<1> DEFINE a == SubSeq(s, 1, i - 1)
           b == SubSeq(s, i + 1, Len(s))
           r == a \o b
<1>1. /\ a \in Seq(S) /\ Len(a) = i - 1
      /\ \A j \in 1 .. i - 1 : a[j] = s[j]
  OBVIOUS
<1>2. /\ b \in Seq(S) /\ Len(b) = Len(s) - i
      /\ \A j \in 1 .. Len(s) - i : b[j] = s[i + j]
  OBVIOUS
<1> HIDE DEF a, b
<1>3. /\ r \in Seq(S) /\ Len(r) = Len(s) - 1
      /\ \A j \in 1 .. Len(s) - 1 : r[j] = IF j < i THEN s[j] ELSE s[j + 1]
  <2>1. /\ r \in Seq(S) /\ Len(r) = Len(a) + Len(b)
        /\ \A j \in 1 .. Len(a) + Len(b) :
              r[j] = IF j <= Len(a) THEN a[j] ELSE b[j - Len(a)]
    BY <1>1, <1>2, ConcatProperties
  <2> HIDE DEF r
  <2>2. Len(s) \in Nat /\ Len(a) + Len(b) = Len(s) - 1
    BY <1>1, <1>2
  <2>3. \A j \in 1 .. Len(s) - 1 : r[j] = IF j <= i - 1 THEN a[j] ELSE b[j - (i - 1)]
    BY <1>1, <2>1, <2>2
  <2>4. \A j \in 1 .. Len(s) - 1 : ~(j < i) => b[j - (i - 1)] = s[j + 1]
    <3>1. ASSUME NEW j \in 1 .. Len(s) - 1, ~(j < i)
          PROVE  b[j - (i - 1)] = s[j + 1]
      <4>1. j - (i - 1) \in 1 .. Len(s) - i /\ i + (j - (i - 1)) = j + 1
        BY <3>1, <2>2
      <4> QED BY <4>1, <1>2
    <3> QED BY <3>1
  <2>5. \A j \in 1 .. Len(s) - 1 : j < i => a[j] = s[j] /\ j <= i - 1
    BY <1>1, <2>2
  <2>6. \A j \in 1 .. Len(s) - 1 : ~(j < i) => ~(j <= i - 1)
    BY <2>2
  <2> QED BY <2>1, <2>2, <2>3, <2>4, <2>5, <2>6
<1> HIDE DEF r
<1>4. \A j, k \in 1 .. Len(s) : s[j] = s[k] => j = k
  BY InjectiveFacts
<1>5. IsInjective(r)
  BY <1>3, <1>4, InjectiveFacts
<1>6. ASSUME NEW x \in Range(s), x # s[i]
      PROVE  x \in Range(r)
  <2>1. PICK j \in 1 .. Len(s) : x = s[j]
    BY RangeFacts
  <2>2. CASE j < i
    <3>1. j \in 1 .. Len(r) /\ r[j] = x
      BY <1>3, <2>1, <2>2
    <3> QED BY <3>1, <1>3, RangeFacts
  <2>3. CASE j > i
    <3>1. j - 1 \in 1 .. Len(r) /\ r[j - 1] = x
      BY <1>3, <2>1, <2>3
    <3> QED BY <3>1, <1>3, RangeFacts
  <2> QED BY <2>1, <2>2, <2>3, <1>6
<1>7. ASSUME NEW x \in Range(r)
      PROVE  x \in Range(s) /\ x # s[i]
  <2>1. PICK j \in 1 .. Len(r) : x = r[j]
    BY <1>3, RangeFacts
  <2> DEFINE k == IF j < i THEN j ELSE j + 1
  <2>2. k \in 1 .. Len(s) /\ k # i /\ x = s[k]
    BY <1>3, <2>1
  <2> HIDE DEF k
  <2> QED BY <2>2, <1>4, RangeFacts
<1>8. r = RemoveAt(s, i)
  BY DEF r, a, b, RemoveAt
<1> QED BY <1>3, <1>5, <1>6, <1>7, <1>8

\* Appending a thread that is not in the queue.
LEMMA AppendFacts ==
  ASSUME NEW S, NEW s \in Seq(S), NEW e \in S
  PROVE  /\ Append(s, e) \in Seq(S)
         /\ Range(Append(s, e)) = Range(s) \cup {e}
         /\ IsInjective(s) /\ e \notin Range(s) => IsInjective(Append(s, e))
<1> DEFINE r == Append(s, e)
<1>1. /\ r \in Seq(S) /\ Len(r) = Len(s) + 1
      /\ \A i \in 1 .. Len(s) : r[i] = s[i]
      /\ r[Len(s) + 1] = e
  OBVIOUS
<1> HIDE DEF r
<1>2. Range(r) = Range(s) \cup {e}
  <2>1. ASSUME NEW x \in Range(r) PROVE x \in Range(s) \cup {e}
    BY <1>1, RangeFacts
  <2>2. ASSUME NEW x \in Range(s) PROVE x \in Range(r)
    <3>1. PICK i \in 1 .. Len(s) : x = s[i]
      BY RangeFacts
    <3>2. i \in 1 .. Len(r) /\ x = r[i]
      BY <1>1, <3>1
    <3> QED BY <3>2, <1>1, RangeFacts
  <2>3. e \in Range(r)
    <3>1. Len(s) + 1 \in 1 .. Len(r)
      BY <1>1
    <3> QED BY <3>1, <1>1, RangeFacts
  <2> QED BY <2>1, <2>2, <2>3
<1>3. ASSUME IsInjective(s), e \notin Range(s) PROVE IsInjective(r)
  <2>1. \A i, j \in 1 .. Len(s) : s[i] = s[j] => i = j
    BY <1>3, InjectiveFacts
  <2>2. \A i \in 1 .. Len(s) : s[i] # e
    BY <1>3, RangeFacts
  <2>3. \A i, j \in 1 .. Len(r) : r[i] = r[j] => i = j
    BY <1>1, <2>1, <2>2
  <2> QED BY <2>3, <1>1, InjectiveFacts
<1> QED BY <1>1, <1>2, <1>3 DEF r

\* Moving all the entries of one queue to the end of another.
LEMMA ConcatFacts ==
  ASSUME NEW S, NEW s \in Seq(S), NEW t \in Seq(S)
  PROVE  /\ s \o t \in Seq(S)
         /\ Range(s \o t) = Range(s) \cup Range(t)
         /\ IsInjective(s) /\ IsInjective(t) /\ Range(s) \cap Range(t) = {}
              => IsInjective(s \o t)
<1> DEFINE r == s \o t
<1>1. /\ r \in Seq(S) /\ Len(r) = Len(s) + Len(t)
      /\ \A i \in 1 .. Len(s) + Len(t) :
            r[i] = IF i <= Len(s) THEN s[i] ELSE t[i - Len(s)]
  OBVIOUS
<1>2. Range(r) = Range(s) \cup Range(t)
  BY RangeConcatenation
<1> HIDE DEF r
<1>3. ASSUME IsInjective(s), IsInjective(t), Range(s) \cap Range(t) = {}
      PROVE  IsInjective(r)
  <2>1. \A i, j \in 1 .. Len(s) : s[i] = s[j] => i = j
    BY <1>3, InjectiveFacts
  <2>2. \A i, j \in 1 .. Len(t) : t[i] = t[j] => i = j
    BY <1>3, InjectiveFacts
  <2>3. \A i \in 1 .. Len(s), j \in 1 .. Len(t) : s[i] # t[j]
    BY <1>3, RangeFacts
  <2>4. ASSUME NEW i \in 1 .. Len(r), NEW j \in 1 .. Len(r), r[i] = r[j]
        PROVE  i = j
    <3>1. CASE i <= Len(s) /\ j <= Len(s)
      BY <1>1, <2>1, <2>4, <3>1
    <3>2. CASE i > Len(s) /\ j > Len(s)
      <4>1. i - Len(s) \in 1 .. Len(t) /\ j - Len(s) \in 1 .. Len(t)
        BY <1>1, <3>2
      <4>2. t[i - Len(s)] = t[j - Len(s)]
        BY <1>1, <2>4, <3>2
      <4>3. i - Len(s) = j - Len(s)
        BY <4>1, <4>2, <2>2
      <4> QED BY <4>3, <1>1
    <3>3. CASE i <= Len(s) /\ j > Len(s)
      <4>1. j - Len(s) \in 1 .. Len(t) /\ i \in 1 .. Len(s)
        BY <1>1, <3>3
      <4>2. r[j] = t[j - Len(s)]
        BY <1>1, <3>3
      <4>3. r[i] = s[i]
        BY <1>1, <3>3
      <4>4. s[i] # t[j - Len(s)]
        BY <4>1, <2>3
      <4> QED BY <4>2, <4>3, <4>4, <2>4, Zenon
    <3>4. CASE i > Len(s) /\ j <= Len(s)
      <4>1. i - Len(s) \in 1 .. Len(t) /\ j \in 1 .. Len(s)
        BY <1>1, <3>4
      <4>2. r[i] = t[i - Len(s)]
        BY <1>1, <3>4
      <4>3. r[j] = s[j]
        BY <1>1, <3>4
      <4>4. s[j] # t[i - Len(s)]
        BY <4>1, <2>3
      <4> QED BY <4>2, <4>3, <4>4, <2>4, Zenon
    <3> QED BY <3>1, <3>2, <3>3, <3>4, <1>1
  <2> QED BY <2>4, <1>1, InjectiveFacts
<1> QED BY <1>1, <1>2, <1>3 DEF r

\* Popping the head of a queue without duplicates.
LEMMA HeadTailFacts ==
  ASSUME NEW S, NEW s \in Seq(S), s # <<>>
  PROVE  /\ Head(s) \in Range(s) /\ Head(s) \in S /\ Head(s) = s[1]
         /\ 1 \in 1 .. Len(s)
         /\ Tail(s) \in Seq(S)
         /\ Range(s) = Range(Tail(s)) \cup {Head(s)}
         /\ IsInjective(s) => IsInjective(Tail(s)) /\ Head(s) \notin Range(Tail(s))
<1> DEFINE r == Tail(s)
<1>1. /\ r \in Seq(S) /\ Len(r) = Len(s) - 1 /\ Len(s) \in Nat \ {0}
      /\ \A i \in 1 .. Len(s) - 1 : r[i] = s[i + 1]
      /\ Head(s) = s[1] /\ 1 \in 1 .. Len(s) /\ Head(s) \in S
  OBVIOUS
<1> HIDE DEF r
<1>2. Head(s) \in Range(s)
  BY <1>1, RangeFacts
<1>3. Range(s) = Range(r) \cup {Head(s)}
  <2>1. ASSUME NEW x \in Range(s), x # Head(s) PROVE x \in Range(r)
    <3>1. PICK i \in 1 .. Len(s) : x = s[i]
      BY RangeFacts
    <3>2. i - 1 \in 1 .. Len(r) /\ x = r[i - 1]
      BY <1>1, <2>1, <3>1
    <3> QED BY <3>2, <1>1, RangeFacts
  <2>2. ASSUME NEW x \in Range(r) PROVE x \in Range(s)
    <3>1. PICK i \in 1 .. Len(r) : x = r[i]
      BY <1>1, RangeFacts
    <3>2. i + 1 \in 1 .. Len(s) /\ x = s[i + 1]
      BY <1>1, <3>1
    <3> QED BY <3>2, RangeFacts
  <2> QED BY <1>2, <2>1, <2>2
<1>4. ASSUME IsInjective(s) PROVE IsInjective(r) /\ Head(s) \notin Range(r)
  <2>1. \A i, j \in 1 .. Len(s) : s[i] = s[j] => i = j
    BY <1>4, InjectiveFacts
  <2>2. \A i, j \in 1 .. Len(r) : r[i] = r[j] => i = j
    BY <1>1, <2>1
  <2>3. \A i \in 1 .. Len(r) : r[i] # s[1]
    BY <1>1, <2>1
  <2> QED BY <1>1, <2>2, <2>3, InjectiveFacts, RangeFacts
<1> QED BY <1>1, <1>2, <1>3, <1>4 DEF r

\* A queue of one thread.
LEMMA SingletonFacts ==
  ASSUME NEW S, NEW e \in S
  PROVE  /\ <<e>> \in Seq(S)
         /\ Range(<<e>>) = {e}
         /\ IsInjective(<<e>>)
BY DEF Range, IsInjective

\* Entering a thread at the head of a queue.
LEMMA ConsFacts ==
  ASSUME NEW S, NEW s \in Seq(S), NEW e \in S
  PROVE  /\ <<e>> \o s \in Seq(S)
         /\ Range(<<e>> \o s) = {e} \cup Range(s)
         /\ IsInjective(s) /\ e \notin Range(s) => IsInjective(<<e>> \o s)
<1> DEFINE one == <<e>>
<1>1. one \in Seq(S) /\ Range(one) = {e} /\ IsInjective(one)
  BY SingletonFacts
<1> HIDE DEF one
<1>2. /\ one \o s \in Seq(S)
      /\ Range(one \o s) = Range(one) \cup Range(s)
      /\ IsInjective(one) /\ IsInjective(s) /\ Range(one) \cap Range(s) = {}
           => IsInjective(one \o s)
  BY <1>1, ConcatFacts
<1>3. /\ one \o s \in Seq(S)
      /\ Range(one \o s) = {e} \cup Range(s)
      /\ IsInjective(s) /\ e \notin Range(s) => IsInjective(one \o s)
  BY <1>1, <1>2
<1> QED BY <1>3 DEF one
=============================================================================
