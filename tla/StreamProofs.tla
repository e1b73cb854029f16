------------------------------ MODULE StreamProofs ------------------------------
(****************************************************************************)
(* What the viewers get of the scan stream, through the relay of            *)
(* angle_monitor.py (Relay) and through a decoder (Protocol).               *)
(*                                                                          *)
(* Relay, for every set of viewers: a viewer is on the list once and leaves  *)
(* it only when it was found gone (Lists), so what it was sent is a run that  *)
(* ends with the piece due to it (StreamInv).                                *)
(*                                                                          *)
(* Protocol, for every layout of headers, every scan and every cut of the    *)
(* stream into chunks: buffer and wire are the end of the stream (Window),    *)
(* and the reader stands behind a packet or within one it has refused        *)
(* (Progress).  That a search can only stop where a packet begins, or with    *)
(* the last bytes that may begin one, follows from the format: it is the     *)
(* longest part of the argument and comes first.                             *)
(****************************************************************************)
EXTENDS Relay, Protocol, SequenceTheorems, WellFoundedInduction, TLAPS

-----------------------------------------------------------------------------
(* Numbers                                                                   *)

\* A nonempty set of numbers has a least one.
LEMMA Least ==
    ASSUME NEW T \in SUBSET Nat, T # {}
    PROVE  \E n \in T : \A m \in T : n <= m
<1> DEFINE Below == {pair \in Nat \X Nat : pair[1] < pair[2]}
<1>1. \E n \in T : \A m \in T : <<m, n>> \notin Below
  <2>1. IsWellFoundedOn(Below, Nat)
    BY NatLessThanWellFounded DEF OpToRel
  <2>2. QED
    BY <2>1, WFMin
<1>2. \A n, m \in T : <<m, n>> \notin Below => n <= m
  <2> SUFFICES ASSUME NEW n \in T, NEW m \in T, <<m, n>> \notin Below PROVE n <= m
    OBVIOUS
  <2>1. n \in Nat /\ m \in Nat /\ <<m, n>> \in Nat \X Nat
    OBVIOUS
  <2>2. QED
    BY <2>1
<1>3. QED
  BY <1>1, <1>2

\* Induction, for a property given as the set of numbers that have it.
LEMMA FromZero ==
    ASSUME NEW T, 0 \in T, \A n \in Nat : n \in T => n + 1 \in T
    PROVE  Nat \subseteq T
<1> SUFFICES ASSUME Nat \ T # {} PROVE FALSE
  OBVIOUS
<1>1. PICK n \in Nat \ T : \A m \in Nat \ T : n <= m
  BY Least
<1>2. n - 1 \in T
  BY <1>1
<1>3. QED
  BY <1>1, <1>2

-----------------------------------------------------------------------------
(* Lists without repetition: the clients of the relay                        *)

\* An empty list has nothing on it.
LEMMA EmptyList == Range(<<>>) = {} /\ IsInjective(<<>>)
BY DEF Range, IsInjective

\* What is on a list that grew at its end.
LEMMA AppendList ==
    ASSUME NEW S, NEW s \in Seq(S), NEW e \in S, IsInjective(s), e \notin Range(s)
    PROVE  /\ Append(s, e) \in Seq(S) /\ IsInjective(Append(s, e))
           /\ Range(Append(s, e)) = Range(s) \cup {e}
<1>1. /\ Append(s, e) \in Seq(S) /\ Len(Append(s, e)) = Len(s) + 1
      /\ \A i \in 1 .. Len(s) : Append(s, e)[i] = s[i]
      /\ Append(s, e)[Len(s) + 1] = e
      /\ DOMAIN Append(s, e) = 1 .. Len(s) + 1 /\ DOMAIN s = 1 .. Len(s) /\ Len(s) \in Nat
  BY AppendProperties, LenProperties
<1>2. \A i \in 1 .. Len(s) + 1 : i \in 1 .. Len(s) \/ i = Len(s) + 1
  BY <1>1
<1>3. IsInjective(Append(s, e))
  BY <1>1, <1>2 DEF IsInjective, Range
<1>4. Range(Append(s, e)) = Range(s) \cup {e}
  BY <1>1, <1>2 DEF Range
<1>5. QED
  BY <1>1, <1>3, <1>4

\* And of one whose first entry is done.
LEMMA TailList ==
    ASSUME NEW S, NEW s \in Seq(S), s # <<>>, IsInjective(s)
    PROVE  /\ Tail(s) \in Seq(S) /\ IsInjective(Tail(s)) /\ Head(s) \in Range(s)
           /\ Range(Tail(s)) = Range(s) \ {Head(s)}
<1>1. /\ Tail(s) \in Seq(S) /\ Len(s) \in Nat /\ Len(s) > 0 /\ DOMAIN s = 1 .. Len(s)
      /\ Len(Tail(s)) = Len(s) - 1 /\ DOMAIN Tail(s) = 1 .. Len(s) - 1
      /\ \A i \in 1 .. Len(s) - 1 : Tail(s)[i] = s[i + 1]
      /\ Head(s) = s[1]
  BY HeadTailProperties, LenProperties, EmptySeq
<1>2. \A i \in 1 .. Len(s) : i = 1 \/ (i - 1 \in 1 .. Len(s) - 1 /\ (i - 1) + 1 = i)
  BY <1>1
<1>3. \A i \in 1 .. Len(s) - 1 : i + 1 \in 1 .. Len(s) /\ i + 1 # 1
  BY <1>1
<1>4. ASSUME NEW i \in 1 .. Len(s) - 1, NEW j \in 1 .. Len(s) - 1, Tail(s)[i] = Tail(s)[j]
      PROVE  i = j
  <2>1. i + 1 = j + 1
    BY <1>1, <1>3, <1>4 DEF IsInjective
  <2>2. QED
    BY <2>1
<1>5. IsInjective(Tail(s))
  BY <1>1, <1>4 DEF IsInjective
<1>6. ASSUME NEW x PROVE x \in Range(Tail(s)) <=> x \in Range(s) /\ x # Head(s)
  <2>1. ASSUME x \in Range(Tail(s)) PROVE x \in Range(s) /\ x # Head(s)
    <3>1. PICK i \in 1 .. Len(s) - 1 : x = s[i + 1]
      BY <1>1, <2>1 DEF Range
    <3>2. i + 1 \in DOMAIN s /\ 1 \in DOMAIN s /\ i + 1 # 1
      BY <1>1, <1>3
    <3>3. QED
      BY <1>1, <3>1, <3>2 DEF Range, IsInjective
  <2>2. ASSUME x \in Range(s), x # Head(s) PROVE x \in Range(Tail(s))
    <3>1. PICK i \in 1 .. Len(s) : x = s[i]
      BY <1>1, <2>2 DEF Range
    <3>2. i - 1 \in 1 .. Len(s) - 1 /\ Tail(s)[i - 1] = x
      <4>1. i # 1
        BY <1>1, <2>2, <3>1
      <4>2. i - 1 \in 1 .. Len(s) - 1 /\ (i - 1) + 1 = i
        BY <1>2, <4>1
      <4>3. QED
        BY <1>1, <3>1, <4>2
    <3>3. QED
      BY <1>1, <3>2 DEF Range
  <2>3. QED
    BY <2>1, <2>2
<1>7. Head(s) \in Range(s)
  BY <1>1 DEF Range
<1>8. QED
  BY <1>1, <1>5, <1>6, <1>7

\* remove() takes the one entry away and leaves the others.
LEMMA RemoveList ==
    ASSUME NEW S, NEW s \in Seq(S), NEW e, IsInjective(s)
    PROVE  /\ RemoveFirst(s, e) \in Seq(S) /\ IsInjective(RemoveFirst(s, e))
           /\ Range(RemoveFirst(s, e)) = Range(s) \ {e}
<1>0. DOMAIN s = 1 .. Len(s) /\ Len(s) \in Nat /\ \A i \in 1 .. Len(s) : s[i] \in S
  BY LenProperties, ElementOfSeq
<1>1. CASE ~\E i \in 1 .. Len(s) : s[i] = e
  BY <1>0, <1>1 DEF RemoveFirst, Range
<1>2. CASE \E i \in 1 .. Len(s) : s[i] = e
  <2> DEFINE I == {i \in 1 .. Len(s) : s[i] = e}
             k == SelectInSeq(s, LAMBDA v : v = e)
             low == SubSeq(s, 1, k - 1)
             high == SubSeq(s, k + 1, Len(s))
             t == RemoveFirst(s, e)
  <2>1. k \in 1 .. Len(s) /\ s[k] = e
    <3>0. I \in SUBSET Nat /\ I # {}
      BY <1>0, <1>2
    <3> HIDE DEF I
    <3>1. PICK n \in I : \A m \in I : n <= m
      BY <3>0, Least
    <3>2. Min(I) \in I
      BY <3>1 DEF Min
    <3>3. k = Min(I)
      BY <1>2 DEF SelectInSeq, I
    <3>4. QED
      BY <3>2, <3>3 DEF I
  <2>2. t = low \o high
    BY <1>2 DEF RemoveFirst, RemoveAt
  <2> HIDE DEF k
  <2>3. /\ low \in Seq(S) /\ Len(low) = k - 1 /\ \A i \in 1 .. k - 1 : low[i] = s[i]
        /\ high \in Seq(S) /\ Len(high) = Len(s) - k /\ \A i \in 1 .. Len(s) - k : high[i] = s[k + i]
    <3>1. k - 1 \in Int /\ k + 1 \in Int /\ Len(s) \in Int
      BY <1>0, <2>1
    <3>2. (\A i \in 1 .. k - 1 : s[i] \in S) /\ (\A i \in k + 1 .. Len(s) : s[i] \in S)
      BY <1>0, <2>1
    <3>3. /\ low \in Seq(S) /\ Len(low) = IF 1 <= k - 1 THEN k - 1 - 1 + 1 ELSE 0
          /\ \A i \in 1 .. k - 1 - 1 + 1 : low[i] = s[1 + i - 1]
      BY <3>1, <3>2, SubSeqProperties
    <3>4. /\ high \in Seq(S) /\ Len(high) = IF k + 1 <= Len(s) THEN Len(s) - (k + 1) + 1 ELSE 0
          /\ \A i \in 1 .. Len(s) - (k + 1) + 1 : high[i] = s[k + 1 + i - 1]
      BY <3>1, <3>2, SubSeqProperties
    <3> HIDE DEF low, high
    <3>5. Len(low) = k - 1 /\ k - 1 - 1 + 1 = k - 1 /\ \A i \in 1 .. k - 1 : 1 + i - 1 = i
      BY <1>0, <2>1, <3>3
    <3>6. /\ Len(high) = Len(s) - k /\ Len(s) - (k + 1) + 1 = Len(s) - k
          /\ \A i \in 1 .. Len(s) - k : k + 1 + i - 1 = k + i
      <4>1. Len(s) - (k + 1) + 1 = Len(s) - k /\ \A i \in 1 .. Len(s) - k : k + 1 + i - 1 = k + i
        BY <1>0, <2>1
      <4>2. CASE k + 1 <= Len(s)
        BY <3>4, <4>1, <4>2
      <4>3. CASE ~(k + 1 <= Len(s))
        <5>1. Len(s) - k = 0
          <6>1. k \in Int /\ Len(s) \in Int /\ k <= Len(s)
            BY <1>0, <2>1
          <6> HIDE DEF low, high
          <6>2. QED
            BY <4>3, <6>1
        <5>2. QED
          BY <3>4, <4>1, <4>3, <5>1
      <4>4. QED
        BY <4>2, <4>3
    <3>7. QED
      BY <3>3, <3>4, <3>5, <3>6
  <2> HIDE DEF low, high, t
  <2>4. /\ t \in Seq(S) /\ Len(t) = Len(s) - 1 /\ DOMAIN t = 1 .. Len(s) - 1
        /\ \A i \in 1 .. Len(s) - 1 : t[i] = IF i < k THEN s[i] ELSE s[i + 1]
    <3>1. /\ t \in Seq(S) /\ Len(t) = Len(low) + Len(high)
          /\ \A i \in 1 .. Len(low) + Len(high) :
                t[i] = IF i <= Len(low) THEN low[i] ELSE high[i - Len(low)]
      BY <2>2, <2>3, ConcatProperties
    <3>2. Len(low) + Len(high) = Len(s) - 1
      BY <1>0, <2>1, <2>3
    <3>3. ASSUME NEW i \in 1 .. Len(s) - 1 PROVE t[i] = IF i < k THEN s[i] ELSE s[i + 1]
      <4>1. CASE i < k
        <5>1. i <= Len(low) /\ i \in 1 .. k - 1 /\ i \in 1 .. Len(low) + Len(high)
          BY <1>0, <2>1, <2>3, <3>2, <4>1
        <5>2. QED
          BY <2>3, <3>1, <4>1, <5>1
      <4>2. CASE ~(i < k)
        <5>1. ~(i <= Len(low)) /\ i - Len(low) \in 1 .. Len(s) - k /\ k + (i - Len(low)) = i + 1
          BY <1>0, <2>1, <2>3, <4>2
        <5>2. QED
          BY <2>3, <3>1, <3>2, <4>2, <5>1
      <4>3. QED
        BY <4>1, <4>2
    <3>4. QED
      BY <3>1, <3>2, <3>3, LenProperties
  <2> DEFINE from(i) == IF i < k THEN i ELSE i + 1
  <2>5. \A i \in 1 .. Len(s) - 1 : from(i) \in 1 .. Len(s) /\ from(i) # k /\ t[i] = s[from(i)]
    BY <1>0, <2>1, <2>4
  <2>6. \A i, j \in 1 .. Len(s) - 1 : from(i) = from(j) => i = j
    BY <1>0, <2>1
  <2>7. \A i \in 1 .. Len(s) : i = k \/ \E j \in 1 .. Len(s) - 1 : from(j) = i
    <3> SUFFICES ASSUME NEW i \in 1 .. Len(s), i # k PROVE \E j \in 1 .. Len(s) - 1 : from(j) = i
      OBVIOUS
    <3>1. CASE i < k
      BY <1>0, <2>1, <3>1
    <3>2. CASE i > k
      <4>1. i - 1 \in 1 .. Len(s) - 1 /\ from(i - 1) = i
        BY <1>0, <2>1, <3>2
      <4>2. QED
        BY <4>1
    <3>3. QED
      BY <1>0, <2>1, <3>1, <3>2
  <2> HIDE DEF from
  <2>8. IsInjective(t)
    BY <1>0, <2>4, <2>5, <2>6 DEF IsInjective
  <2>9. ASSUME NEW x PROVE x \in Range(t) <=> x \in Range(s) /\ x # e
    <3>1. ASSUME x \in Range(t) PROVE x \in Range(s) /\ x # e
      <4>1. PICK i \in 1 .. Len(s) - 1 : x = s[from(i)]
        BY <2>4, <2>5, <3>1 DEF Range
      <4>2. QED
        BY <1>0, <2>1, <2>5, <4>1 DEF Range, IsInjective
    <3>2. ASSUME x \in Range(s), x # e PROVE x \in Range(t)
      <4>1. PICK i \in 1 .. Len(s) : x = s[i]
        BY <1>0, <3>2 DEF Range
      <4>2. PICK j \in 1 .. Len(s) - 1 : from(j) = i
        BY <2>1, <2>7, <3>2, <4>1
      <4>3. QED
        BY <2>4, <2>5, <4>1, <4>2 DEF Range
    <3>3. QED
      BY <3>1, <3>2
  <2>10. QED
    BY <2>4, <2>8, <2>9 DEF t
<1>3. QED
  BY <1>1, <1>2

\* What remove() leaves, called for one after the other.
LEMMA WithoutList ==
    ASSUME NEW S, NEW list \in Seq(S), NEW gone \in Seq(S), IsInjective(list)
    PROVE  /\ Without(list, gone) \in Seq(S) /\ IsInjective(Without(list, gone))
           /\ Range(Without(list, gone)) = Range(list) \ Range(gone)
<1> DEFINE F(f, n) == [i \in 0 .. n |-> IF i = 0 THEN list ELSE RemoveFirst(f[i - 1], gone[i])]
           T == {n \in Nat : \E f : f = F(f, n)}
           left == CHOOSE f : f = F(f, Len(gone))
           Upto(i) == {gone[j] : j \in 1 .. i}
           U == {i \in Nat : i <= Len(gone) =>
                    /\ left[i] \in Seq(S) /\ IsInjective(left[i])
                    /\ Range(left[i]) = Range(list) \ Upto(i)}
<1>1. 0 \in T
  <2> DEFINE g == [i \in 0 .. 0 |-> list]
  <2>1. g = F(g, 0)
    OBVIOUS
  <2> HIDE DEF F
  <2>2. QED
    BY <2>1
<1>2. ASSUME NEW n \in Nat, n \in T PROVE n + 1 \in T
  <2>1. PICK f : f = F(f, n)
    BY <1>2
  <2> DEFINE g == [i \in 0 .. n + 1 |-> IF i = n + 1 THEN RemoveFirst(f[n], gone[n + 1]) ELSE f[i]]
  <2>2. \A i \in 0 .. n : f[i] = IF i = 0 THEN list ELSE RemoveFirst(f[i - 1], gone[i])
    BY <2>1
  <2>3. \A i \in 0 .. n + 1 : g[i] = IF i = 0 THEN list ELSE RemoveFirst(g[i - 1], gone[i])
    <3>1. g[n + 1] = RemoveFirst(g[n], gone[n + 1])
      OBVIOUS
    <3>2. \A i \in 0 .. n : g[i] = f[i]
      OBVIOUS
    <3> HIDE DEF g
    <3>3. QED
      BY <2>2, <3>1, <3>2
  <2>4. g = F(g, n + 1)
    BY <2>3
  <2> HIDE DEF g, F
  <2>5. QED
    BY <2>4
<1>3. Len(gone) \in T
  <2> HIDE DEF T
  <2>1. QED
    BY <1>1, <1>2, FromZero
<1>4. left = F(left, Len(gone))
  <2> HIDE DEF F
  <2>1. QED
    BY <1>3
<1>5. \A i \in 0 .. Len(gone) : left[i] = IF i = 0 THEN list ELSE RemoveFirst(left[i - 1], gone[i])
  <2> HIDE DEF left
  <2>1. QED
    BY <1>4
<1>6. Without(list, gone) = left[Len(gone)]
  BY DEF Without
<1> HIDE DEF left
<1>7. 0 \in U
  <2>1. left[0] = list
    <3>1. 0 \in 0 .. Len(gone)
      BY LenProperties
    <3>2. QED
      BY <1>5, <3>1
  <2>3. Upto(0) = {}
    OBVIOUS
  <2>2. QED
    BY <2>1, <2>3
<1>8. ASSUME NEW i \in Nat, i \in U PROVE i + 1 \in U
  <2> SUFFICES ASSUME i + 1 <= Len(gone)
               PROVE  /\ left[i + 1] \in Seq(S) /\ IsInjective(left[i + 1])
                      /\ Range(left[i + 1]) = Range(list) \ Upto(i + 1)
    OBVIOUS
  <2>1. /\ left[i] \in Seq(S) /\ IsInjective(left[i])
        /\ Range(left[i]) = Range(list) \ Upto(i)
    BY <1>8
  <2>2. left[i + 1] = RemoveFirst(left[i], gone[i + 1])
    BY <1>5
  <2>3. Upto(i + 1) = Upto(i) \cup {gone[i + 1]}
    <3>1. \A j \in 1 .. i + 1 : j \in 1 .. i \/ j = i + 1
      OBVIOUS
    <3>2. \A j \in 1 .. i : j \in 1 .. i + 1
      OBVIOUS
    <3>3. QED
      BY <3>1, <3>2
  <2> HIDE DEF Upto
  <2>4. QED
    BY <2>1, <2>2, <2>3, RemoveList
<1>9. Len(gone) \in U
  <2> HIDE DEF U
  <2>1. QED
    BY <1>7, <1>8, FromZero
<1>10. Upto(Len(gone)) = Range(gone)
  BY RangeEquality
<1>11. QED
  BY <1>6, <1>9, <1>10

-----------------------------------------------------------------------------
(* Streams                                                                   *)

\* A run of pieces in order and without a gap.
Run(s) == \A i \in 1 .. Len(s) - 1 : s[i + 1] = s[i] + 1

\* What is behind a viewer and on its way to it, when a piece is sent and when one
\* is read.
LEMMA StreamSteps ==
    ASSUME NEW S, NEW g \in Seq(S), NEW w \in Seq(S), NEW x \in S
    PROVE  /\ g \o Append(w, x) = Append(g \o w, x)
           /\ w # <<>> => Append(g, Head(w)) \o Tail(w) = g \o w
<1>1. g \o Append(w, x) = Append(g \o w, x)
  <2>1. <<x>> \in Seq(S) /\ g \o w \in Seq(S)
    BY ConcatProperties
  <2>2. (g \o w) \o <<x>> = g \o (w \o <<x>>)
    BY <2>1, ConcatAssociative
  <2>3. QED
    BY <2>1, <2>2, AppendIsConcat
<1>2. ASSUME w # <<>> PROVE Append(g, Head(w)) \o Tail(w) = g \o w
  <2>1. Head(w) \in S /\ Tail(w) \in Seq(S)
    BY <1>2, HeadTailProperties
  <2>2. Append(g, Head(w)) = g \o <<Head(w)>> /\ <<Head(w)>> \in Seq(S)
    BY <2>1, AppendIsConcat
  <2>3. (g \o <<Head(w)>>) \o Tail(w) = g \o (<<Head(w)>> \o Tail(w))
    BY <2>1, <2>2, ConcatAssociative
  <2>4. <<Head(w)>> \o Tail(w) = w
    BY <1>2
  <2>5. QED
    BY <2>2, <2>3, <2>4
<1>3. QED
  BY <1>1, <1>2

\* The next piece continues a run.
LEMMA RunGrows ==
    ASSUME NEW s \in Seq(Nat), NEW x \in Nat, Run(s), s = <<>> \/ Last(s) = x - 1
    PROVE  Run(Append(s, x)) /\ Append(s, x) # <<>> /\ Last(Append(s, x)) = x
<1>1. /\ Len(Append(s, x)) = Len(s) + 1 /\ Len(s) \in Nat
      /\ \A i \in 1 .. Len(s) : Append(s, x)[i] = s[i]
      /\ Append(s, x)[Len(s) + 1] = x /\ Append(s, x) # <<>>
  BY AppendProperties, LenProperties
<1>2. Last(Append(s, x)) = x
  BY <1>1 DEF Last
<1>3. ASSUME NEW i \in 1 .. Len(s) PROVE Append(s, x)[i + 1] = Append(s, x)[i] + 1
  <2>1. CASE i = Len(s)
    <3>1. s # <<>> /\ s[Len(s)] = x - 1
      BY <2>1 DEF Last
    <3>2. QED
      BY <1>1, <2>1, <3>1
  <2>2. CASE i # Len(s)
    <3>1. i \in 1 .. Len(s) - 1 /\ i + 1 \in 1 .. Len(s)
      BY <1>1, <2>2
    <3>2. QED
      BY <1>1, <3>1 DEF Run
  <2>3. QED
    BY <2>1, <2>2
<1>4. QED
  BY <1>1, <1>2, <1>3 DEF Run

-----------------------------------------------------------------------------
(* The invariant                                                             *)

\* What a viewer on the list has had last.
Due(v) ==
    IF mpc = "copy" THEN received - Len(chunk)
    ELSE IF round # <<>> /\ v = Head(round) THEN received - Len(rest)
    ELSE IF v \in Range(round) THEN received - Len(chunk)
    ELSE received

RelayTypes ==
    /\ mpc \in MonitorPC /\ session \in {"none", "open", "closed"} /\ received \in 0 .. Pieces
    /\ chunk \in Seq(Nat) /\ rest \in Seq(Nat)
    /\ clients \in Seq(Viewers) /\ round \in Seq(Viewers) /\ dead \in Seq(Viewers)
    /\ apc \in {"accept", "append", "ended"} /\ conn \subseteq Viewers
    /\ peer \in [Viewers -> {"away", "backlog", "open", "left"}]
    /\ inflight \in [Viewers -> Seq(Nat)] /\ got \in [Viewers -> Seq(Nat)]
    /\ \A v \in Viewers : Len(inflight[v]) <= SocketRoom

\* A viewer is on the list once; the snapshot and the dead are of the list, and
\* the dead have left; one that was accepted and not appended is not on it yet.
Lists ==
    /\ IsInjective(clients) /\ IsInjective(round) /\ IsInjective(dead)
    /\ Range(round) \subseteq Range(clients) /\ Range(dead) \subseteq Range(clients)
    /\ Range(round) \cap Range(dead) = {}
    /\ mpc # "send" => round = <<>> /\ dead = <<>>
    /\ \A v \in Range(dead) : peer[v] = "left"
    /\ \A v \in Range(clients) : peer[v] \in {"open", "left"}
    /\ \A v \in conn : peer[v] \in {"open", "left"} /\ v \notin Range(clients)
    /\ \A u, v \in conn : u = v
    /\ conn # {} => apc = "append"

\* The last pieces received are what is sent, and what is still to be sent is the end of
\* them.
IsLast(s) == s # <<>> /\ \A i \in 1 .. Len(s) : s[i] = received - Len(s) + i
Cut ==
    /\ mpc \in {"copy", "send"} => IsLast(chunk)
    /\ round # <<>> => IsLast(rest)

StreamInv(v) ==
    /\ Run(StreamTo(v))
    /\ v \in Range(clients) /\ v \notin Range(dead) /\ StreamTo(v) # <<>>
          => Last(StreamTo(v)) = Due(v)
    /\ v \notin Range(clients) /\ peer[v] # "left" => StreamTo(v) = <<>>
    /\ v \in conn => StreamTo(v) = <<>>

RelayIInv == RelayTypes /\ Lists /\ Cut /\ \A v \in Viewers : StreamInv(v)

LEMMA RelayInitIInv == RelayInit => RelayIInv
<1> SUFFICES ASSUME RelayInit PROVE RelayIInv
  OBVIOUS
<1>1. \A S : <<>> \in Seq(S)
  BY EmptySeq
<1>2. RelayTypes
  <2>1. /\ chunk \in Seq(Nat) /\ rest \in Seq(Nat)
        /\ clients \in Seq(Viewers) /\ round \in Seq(Viewers) /\ dead \in Seq(Viewers)
    BY <1>1 DEF RelayInit
  <2>2. /\ inflight \in [Viewers -> Seq(Nat)] /\ got \in [Viewers -> Seq(Nat)]
        /\ peer \in [Viewers -> {"away", "backlog", "open", "left"}]
    BY <1>1 DEF RelayInit
  <2>3. ASSUME NEW v \in Viewers PROVE Len(inflight[v]) <= SocketRoom
    <3>1. Len(inflight[v]) = 0
      BY EmptySeq DEF RelayInit
    <3>2. QED
      BY <3>1, RelayAssumption
  <2>4. /\ mpc = "connect" /\ session = "none" /\ received = 0 /\ apc = "accept" /\ conn = {}
    BY DEF RelayInit
  <2>5. QED
    BY <2>1, <2>2, <2>3, <2>4, RelayAssumption DEF RelayTypes, MonitorPC
<1>3. Lists
  BY EmptyList DEF RelayInit, Lists
<1>4. Cut
  BY DEF RelayInit, Cut
<1>5. ASSUME NEW v \in Viewers PROVE StreamInv(v)
  <2>1. StreamTo(v) = <<>>
    BY <1>1, ConcatEmptySeq DEF RelayInit, StreamTo
  <2>2. Run(<<>>)
    BY EmptySeq DEF Run
  <2>3. QED
    BY <2>1, <2>2 DEF StreamInv
<1>6. QED
  BY <1>2, <1>3, <1>4, <1>5 DEF RelayIInv

\* Steps that touch neither the lists nor what was sent.
LEMMA SessionSteps ==
    ASSUME RelayIInv, Connect \/ ConnectFails \/ Recv \/ RecvFails \/ Retry \/ NodeCloses
    PROVE  RelayIInv'
<1> USE DEF RelayIInv
<1>1. /\ UNCHANGED <<round, rest, dead, clients, acceptor, viewers>>
      /\ (mpc = "recv" /\ mpc' = "copy") \/ UNCHANGED <<received, chunk>>
      /\ (mpc \notin {"copy", "send"} /\ mpc' # "send") \/ UNCHANGED mpc
      /\ mpc' = "copy" => mpc \in {"copy", "recv"}
  BY DEF Connect, ConnectFails, Recv, RecvFails, Retry, NodeCloses
<1>2. CASE Recv
  <2>1. PICK n \in 1 .. ChunkSize :
           received + n <= Pieces /\ received' = received + n /\ chunk' = [i \in 1 .. n |-> received + i]
    BY <1>2 DEF Recv
  <2>2. n \in Nat /\ received \in Nat /\ n > 0
    BY RelayAssumption DEF RelayTypes
  <2>3. chunk' \in Seq(Nat) /\ Len(chunk') = n /\ chunk' # <<>>
    BY <2>1, <2>2
  <2>4. RelayTypes'
    BY <1>1, <1>2, <2>1, <2>2, <2>3, RelayAssumption
    DEF Recv, RelayTypes, MonitorPC, acceptor, viewers
  <2>5. Lists'
    BY <1>1, <1>2 DEF Recv, Lists, acceptor, viewers
  <2>6. mpc = "recv" /\ mpc' = "copy" /\ round = <<>> /\ round' = <<>>
    BY <1>2 DEF Recv, Lists
  <2>7. Cut'
    BY <2>1, <2>2, <2>3, <2>6 DEF Cut, IsLast
  <2>8. ASSUME NEW v \in Viewers PROVE StreamInv(v)'
    <3>1. Due(v)' = received /\ Due(v) = received
      BY <2>1, <2>2, <2>3, <2>6, EmptyList DEF Due
    <3>2. StreamTo(v)' = StreamTo(v)
      BY <1>1 DEF StreamTo, viewers
    <3>3. QED
      BY <1>1, <3>1, <3>2 DEF StreamInv, acceptor, viewers
  <2>9. QED
    BY <2>4, <2>5, <2>7, <2>8
<1>3. CASE ~Recv
  <2>1. /\ UNCHANGED <<received, chunk>> /\ mpc' \in MonitorPC
        /\ session' \in {"none", "open", "closed"}
        /\ mpc' = "copy" <=> mpc = "copy"
        /\ mpc' = "send" <=> mpc = "send"
    BY <1>3 DEF Connect, ConnectFails, RecvFails, Retry, NodeCloses, RelayTypes, MonitorPC
  <2>2. RelayTypes' /\ Lists' /\ Cut'
    BY <1>1, <2>1 DEF RelayTypes, Lists, Cut, IsLast, acceptor, viewers
  <2>3. ASSUME NEW v \in Viewers PROVE StreamInv(v)'
    <3>1. Due(v)' = Due(v)
      BY <1>1, <2>1 DEF Due
    <3>2. StreamTo(v)' = StreamTo(v)
      BY <1>1 DEF StreamTo, viewers
    <3>3. QED
      BY <1>1, <3>1, <3>2 DEF StreamInv, acceptor, viewers
  <2>4. QED
    BY <2>2, <2>3
<1>4. QED
  BY <1>2, <1>3

\* The snapshot.
LEMMA CopyStep == ASSUME RelayIInv, Copy PROVE RelayIInv'
<1> USE DEF RelayIInv
<1>1. /\ mpc = "copy" /\ mpc' = "send" /\ round' = clients /\ rest' = chunk /\ dead' = <<>>
      /\ UNCHANGED <<session, received, chunk, clients, acceptor, viewers>>
  BY DEF Copy
<1>2. RelayTypes'
  BY <1>1, EmptySeq DEF RelayTypes, MonitorPC, acceptor, viewers
<1>3. Lists'
  BY <1>1, EmptyList DEF Lists, acceptor, viewers
<1>4. Cut'
  BY <1>1 DEF Cut, IsLast
<1>5. ASSUME NEW v \in Viewers PROVE StreamInv(v)'
  <2>1. v \in Range(clients) => Due(v)' = Due(v)
    BY <1>1 DEF Due
  <2>2. StreamTo(v)' = StreamTo(v) /\ dead = <<>>
    BY <1>1 DEF StreamTo, viewers, Lists
  <2>3. QED
    BY <1>1, <2>1, <2>2 DEF StreamInv, acceptor, viewers
<1>6. QED
  BY <1>2, <1>3, <1>4, <1>5

\* A piece into the socket of the viewer whose turn it is.
LEMMA SendStep == ASSUME RelayIInv, Send PROVE RelayIInv'
<1> USE DEF RelayIInv
<1> DEFINE u == Head(round)
           x == Head(rest)
<1>1. /\ mpc = "send" /\ round # <<>> /\ Len(inflight[u]) < SocketRoom
      /\ inflight' = [inflight EXCEPT ![u] = Append(@, x)]
      /\ IF Tail(rest) # <<>> THEN rest' = Tail(rest) /\ round' = round
                              ELSE rest' = chunk /\ round' = Tail(round)
      /\ UNCHANGED <<mpc, session, received, chunk, dead, clients, acceptor, peer, got>>
  BY DEF Send, Unsent
<1>2. /\ u \in Range(round) /\ u \in Viewers
      /\ Tail(round) \in Seq(Viewers) /\ IsInjective(Tail(round))
      /\ Range(Tail(round)) = Range(round) \ {u}
  BY <1>1, TailList, HeadTailProperties DEF Lists, RelayTypes
<1>3. /\ rest # <<>> /\ Len(rest) \in Nat /\ Len(rest) > 0 /\ x = received - Len(rest) + 1
      /\ x \in Nat /\ Tail(rest) \in Seq(Nat) /\ Len(Tail(rest)) = Len(rest) - 1
      /\ Tail(rest) # <<>> => IsLast(Tail(rest))
      /\ Tail(rest) = <<>> => Len(rest) = 1
  <2>1. rest \in Seq(Nat) /\ IsLast(rest) /\ received \in Nat
    BY <1>1 DEF Cut, RelayTypes
  <2>2. /\ rest # <<>> /\ Len(rest) \in Nat /\ Len(rest) > 0 /\ x = rest[1] /\ x \in Nat
        /\ Tail(rest) \in Seq(Nat) /\ Len(Tail(rest)) = Len(rest) - 1
        /\ \A i \in 1 .. Len(Tail(rest)) : Tail(rest)[i] = rest[i + 1]
    BY <2>1, HeadTailProperties, EmptySeq DEF IsLast
  <2>3. x = received - Len(rest) + 1
    BY <2>1, <2>2 DEF IsLast
  <2>4. ASSUME NEW i \in 1 .. Len(Tail(rest))
        PROVE  Tail(rest)[i] = received - Len(Tail(rest)) + i
    <3>1. i + 1 \in 1 .. Len(rest)
      BY <2>2
    <3>2. rest[i + 1] = received - Len(rest) + (i + 1)
      BY <2>1, <3>1 DEF IsLast
    <3>3. QED
      BY <2>1, <2>2, <3>2
  <2>5. ASSUME Tail(rest) = <<>> PROVE Len(rest) = 1
    <3>1. Len(Tail(rest)) = 0
      BY <2>5, EmptySeq
    <3> HIDE DEF x
    <3>2. Len(rest) - 1 = 0 /\ Len(rest) \in Nat
      BY <2>2, <3>1
    <3>3. QED
      BY <3>2
  <2>6. QED
    BY <2>2, <2>3, <2>4, <2>5 DEF IsLast
<1> HIDE DEF u, x
<1>4. \A v \in Viewers : inflight'[v] = IF v = u THEN Append(inflight[v], x) ELSE inflight[v]
  BY <1>1 DEF RelayTypes
<1>5. RelayTypes'
  <2>1. /\ inflight' \in [Viewers -> Seq(Nat)]
        /\ \A v \in Viewers : Len(inflight'[v]) <= SocketRoom
    <3>1. Append(inflight[u], x) \in Seq(Nat) /\ Len(Append(inflight[u], x)) = Len(inflight[u]) + 1
      BY <1>2, <1>3, AppendProperties DEF RelayTypes
    <3>2. Len(inflight[u]) + 1 <= SocketRoom
      <4>1. Len(inflight[u]) \in Nat /\ SocketRoom \in Nat
        BY <1>2, LenProperties, RelayAssumption DEF RelayTypes
      <4>2. QED
        BY <1>1, <4>1
    <3>3. QED
      BY <1>1, <1>4, <3>1, <3>2 DEF RelayTypes
  <2>2. rest' \in Seq(Nat) /\ round' \in Seq(Viewers)
    BY <1>1, <1>2, <1>3 DEF RelayTypes
  <2>3. QED
    BY <1>1, <2>1, <2>2 DEF RelayTypes, acceptor
<1>6. Lists'
  BY <1>1, <1>2 DEF Lists, acceptor
<1>7. Cut'
  BY <1>1, <1>3 DEF Cut, IsLast
<1>8. ASSUME NEW v \in Viewers PROVE StreamInv(v)'
  <2>1. CASE v = u
    <3>1. StreamTo(v)' = Append(StreamTo(v), x) /\ StreamTo(v) \in Seq(Nat)
      <4>1. got[v] \in Seq(Nat) /\ inflight[v] \in Seq(Nat) /\ got'[v] = got[v]
            /\ inflight'[v] = Append(inflight[v], x)
        BY <1>1, <1>4, <2>1 DEF RelayTypes
      <4>2. got[v] \o Append(inflight[v], x) = Append(got[v] \o inflight[v], x)
        BY <1>3, <4>1, StreamSteps
      <4>3. QED
        BY <4>1, <4>2, ConcatProperties DEF StreamTo
    <3>2. /\ v \in Range(clients) /\ v \notin Range(dead) /\ v \in Range(round)
          /\ v \notin conn
      BY <1>2, <2>1 DEF Lists
    <3>3. Due(v) = x - 1 /\ received \in Nat
      BY <1>1, <1>3, <2>1 DEF Due, u, RelayTypes
    <3>4. StreamTo(v) = <<>> \/ Last(StreamTo(v)) = x - 1
      BY <3>2, <3>3 DEF StreamInv
    <3>5. /\ Run(StreamTo(v)') /\ StreamTo(v)' # <<>> /\ Last(StreamTo(v)') = x
      BY <1>3, <3>1, <3>4, RunGrows DEF StreamInv
    <3>6. Due(v)' = x
      <4>1. CASE Tail(rest) # <<>>
        <5>1. Due(v)' = received - Len(Tail(rest))
          BY <1>1, <2>1, <4>1 DEF Due, u
        <5>2. QED
          BY <1>3, <3>3, <5>1
      <4>2. CASE Tail(rest) = <<>>
        <5>1. v \notin Range(round') /\ round' = Tail(round) /\ x = received
          <6>1. x = received
            <7>1. Len(rest) = 1 /\ x = received - Len(rest) + 1
              BY <1>3, <4>2
            <7>2. received - 1 + 1 = received
              BY <3>3
            <7>3. QED
              BY <7>1, <7>2
          <6>2. QED
            BY <1>1, <1>2, <2>1, <4>2, <6>1
        <5>2. round' # <<>> => Head(round') \in Range(round')
          BY <1>2, <5>1, TailList
        <5>3. QED
          BY <1>1, <5>1, <5>2 DEF Due
      <4>3. QED
        BY <4>1, <4>2
    <3>7. QED
      BY <1>1, <3>2, <3>5, <3>6 DEF StreamInv, acceptor
  <2>2. CASE v # u
    <3>1. StreamTo(v)' = StreamTo(v)
      BY <1>1, <1>4, <2>2 DEF StreamTo
    <3>2. Due(v)' = Due(v)
      <4>1. CASE Tail(rest) # <<>>
        BY <1>1, <2>2, <4>1 DEF Due, u
      <4>2. CASE Tail(rest) = <<>>
        <5>1. /\ v \in Range(round') <=> v \in Range(round)
              /\ round' = Tail(round) /\ rest' = chunk
          BY <1>1, <1>2, <2>2, <4>2
        <5>2. round' # <<>> => Head(round') \in Range(round')
          BY <1>2, <5>1, TailList
        <5>3. QED
          BY <1>1, <2>2, <5>1, <5>2 DEF Due, u
      <4>3. QED
        BY <4>1, <4>2
    <3>3. QED
      BY <1>1, <3>1, <3>2 DEF StreamInv, acceptor
  <2>3. QED
    BY <2>1, <2>2
<1>9. QED
  BY <1>5, <1>6, <1>7, <1>8

\* A viewer that has left is noted, and the next one's turn comes.
LEMMA SendFailsStep == ASSUME RelayIInv, SendFails PROVE RelayIInv'
<1> USE DEF RelayIInv
<1> DEFINE u == Head(round)
<1>1. /\ mpc = "send" /\ round # <<>> /\ peer[u] = "left"
      /\ dead' = Append(dead, u) /\ round' = Tail(round) /\ rest' = chunk
      /\ UNCHANGED <<mpc, session, received, chunk, clients, acceptor, viewers>>
  BY DEF SendFails, AfterError
<1>2. /\ u \in Range(round) /\ u \in Viewers
      /\ Tail(round) \in Seq(Viewers) /\ IsInjective(Tail(round))
      /\ Range(Tail(round)) = Range(round) \ {u}
  BY <1>1, TailList, HeadTailProperties DEF Lists, RelayTypes
<1>3. /\ Append(dead, u) \in Seq(Viewers) /\ IsInjective(Append(dead, u))
      /\ Range(Append(dead, u)) = Range(dead) \cup {u}
  BY <1>2, AppendList DEF Lists, RelayTypes
<1> HIDE DEF u
<1>4. RelayTypes'
  BY <1>1, <1>2, <1>3 DEF RelayTypes, acceptor, viewers
<1>5. Lists'
  BY <1>1, <1>2, <1>3 DEF Lists, acceptor, viewers
<1>6. Cut'
  BY <1>1 DEF Cut, IsLast
<1>7. ASSUME NEW v \in Viewers PROVE StreamInv(v)'
  <2>1. StreamTo(v)' = StreamTo(v)
    BY <1>1 DEF StreamTo, viewers
  <2>2. v # u => Due(v)' = Due(v)
    <3>1. v # u => (v \in Range(round') <=> v \in Range(round))
      BY <1>1, <1>2
    <3>2. round' # <<>> => Head(round') \in Range(round')
      BY <1>1, <1>2, TailList
    <3>3. QED
      BY <1>1, <3>1, <3>2 DEF Due, u
  <2>3. u \in Range(dead')
    BY <1>1, <1>3
  <2>4. Range(dead) \subseteq Range(dead')
    BY <1>1, <1>3
  <2>5. QED
    BY <1>1, <2>1, <2>2, <2>3, <2>4 DEF StreamInv, acceptor, viewers
<1>8. QED
  BY <1>4, <1>5, <1>6, <1>7

\* The end of a round.
LEMMA EndStep == ASSUME RelayIInv, EndOfRound PROVE RelayIInv'
<1> USE DEF RelayIInv
<1>1. /\ mpc = "send" /\ mpc' = "recv" /\ round = <<>>
      /\ clients' = Without(clients, dead) /\ dead' = <<>>
      /\ UNCHANGED <<session, received, chunk, round, rest, acceptor, viewers>>
  BY DEF EndOfRound
<1>2. /\ clients' \in Seq(Viewers) /\ IsInjective(clients')
      /\ Range(clients') = Range(clients) \ Range(dead)
  BY <1>1, WithoutList DEF RelayTypes, Lists
<1>3. RelayTypes'
  BY <1>1, <1>2, EmptySeq DEF RelayTypes, MonitorPC, acceptor, viewers
<1>4. Lists'
  BY <1>1, <1>2, EmptyList DEF Lists, acceptor, viewers
<1>5. Cut'
  BY <1>1 DEF Cut
<1>6. ASSUME NEW v \in Viewers PROVE StreamInv(v)'
  <2>1. StreamTo(v)' = StreamTo(v)
    BY <1>1 DEF StreamTo, viewers
  <2>2. Due(v) = received /\ Due(v)' = received
    BY <1>1, EmptyList DEF Due
  <2>3. v \in Range(dead) => peer[v] = "left"
    BY DEF Lists
  <2>4. QED
    BY <1>1, <1>2, <2>1, <2>2, <2>3 DEF StreamInv, acceptor, viewers
<1>7. QED
  BY <1>3, <1>4, <1>5, <1>6

\* The accept thread.
LEMMA AcceptSteps == ASSUME RelayIInv, Accept \/ AppendClient \/ AcceptFails PROVE RelayIInv'
<1> USE DEF RelayIInv
<1>1. UNCHANGED <<monitor, inflight, got>>
  BY DEF Accept, AppendClient, AcceptFails, viewers
<1>2. \A v \in Viewers : StreamTo(v)' = StreamTo(v)
  BY <1>1 DEF StreamTo
<1>3. \A v \in Viewers : Due(v)' = Due(v)
  BY <1>1 DEF Due, monitor
<1>4. Cut'
  BY <1>1 DEF Cut, IsLast, monitor
<1>5. CASE Accept
  <2>1. PICK v \in Viewers :
           peer[v] = "backlog" /\ conn' = {v} /\ peer' = [peer EXCEPT ![v] = "open"]
    BY <1>5 DEF Accept
  <2>2. /\ v \notin Range(clients) /\ StreamTo(v) = <<>>
        /\ apc' = "append" /\ UNCHANGED clients
    BY <1>5, <2>1 DEF Accept, Lists, StreamInv
  <2>3. \A w \in Viewers : peer'[w] = IF w = v THEN "open" ELSE peer[w]
    BY <2>1 DEF RelayTypes
  <2>4. RelayTypes'
    BY <1>1, <2>1, <2>2 DEF RelayTypes, monitor
  <2>5. Lists'
    <3>1. Range(clients) \subseteq Viewers /\ Range(dead) \subseteq Viewers
      BY RangeOfSeq DEF RelayTypes
    <3>2. \A w \in Range(clients) : w # v /\ peer'[w] = peer[w]
      BY <2>2, <2>3, <3>1
    <3>3. \A w \in Range(dead) : peer'[w] = "left"
      BY <3>2 DEF Lists
    <3>4. QED
      BY <1>1, <2>1, <2>2, <2>3, <3>2, <3>3 DEF Lists, monitor
  <2>6. ASSUME NEW w \in Viewers PROVE StreamInv(w)'
    BY <1>1, <1>2, <1>3, <2>1, <2>2, <2>3 DEF StreamInv, monitor
  <2>7. QED
    BY <1>4, <2>4, <2>5, <2>6
<1>6. CASE AppendClient
  <2>1. PICK v \in conn : clients' = Append(clients, v)
    BY <1>6 DEF AppendClient
  <2>2. /\ v \in Viewers /\ v \notin Range(clients) /\ peer[v] \in {"open", "left"}
        /\ StreamTo(v) = <<>> /\ conn' = {} /\ apc' = "accept" /\ UNCHANGED peer
    BY <1>6, <2>1 DEF AppendClient, Lists, StreamInv, RelayTypes, viewers
  <2>3. /\ clients' \in Seq(Viewers) /\ IsInjective(clients')
        /\ Range(clients') = Range(clients) \cup {v}
    BY <2>1, <2>2, AppendList DEF RelayTypes, Lists
  <2>4. RelayTypes'
    BY <1>1, <2>2, <2>3 DEF RelayTypes, monitor
  <2>5. Lists'
    BY <1>1, <2>2, <2>3 DEF Lists, monitor
  <2>6. ASSUME NEW w \in Viewers PROVE StreamInv(w)'
    BY <1>1, <1>2, <1>3, <2>2, <2>3 DEF StreamInv, monitor
  <2>7. QED
    BY <1>4, <2>4, <2>5, <2>6
<1>7. CASE AcceptFails
  <2>1. apc = "accept" /\ apc' = "ended" /\ UNCHANGED <<monitor, clients, conn, viewers>>
    BY <1>7 DEF AcceptFails
  <2>2. RelayTypes' /\ Lists'
    BY <2>1 DEF RelayTypes, Lists, monitor, viewers
  <2>3. ASSUME NEW w \in Viewers PROVE StreamInv(w)'
    BY <1>2, <1>3, <2>1 DEF StreamInv, monitor, viewers
  <2>4. QED
    BY <1>4, <2>2, <2>3
<1>8. QED
  BY <1>5, <1>6, <1>7

\* The viewers.
LEMMA ViewerSteps ==
    ASSUME RelayIInv, ViewerConnects \/ \E v \in Viewers : Read(v) \/ Leave(v)
    PROVE  RelayIInv'
<1> USE DEF RelayIInv
<1>1. UNCHANGED <<monitor, clients, acceptor>>
  BY DEF ViewerConnects, Read, Leave
<1>2. \A v \in Viewers : Due(v)' = Due(v)
  BY <1>1 DEF Due, monitor
<1>3. Cut'
  BY <1>1 DEF Cut, IsLast, monitor
<1>4. Range(clients) \subseteq Viewers /\ Range(dead) \subseteq Viewers /\ conn \subseteq Viewers
  BY RangeOfSeq DEF RelayTypes
<1>5. CASE ViewerConnects \/ \E v \in Viewers : Leave(v)
  <2>1. PICK v \in Viewers :
           \/ peer[v] = "away" /\ peer' = [peer EXCEPT ![v] = "backlog"]
           \/ peer[v] = "open" /\ peer' = [peer EXCEPT ![v] = "left"]
    BY <1>5 DEF ViewerConnects, Leave
  <2>2. UNCHANGED <<inflight, got>>
    BY <1>5 DEF ViewerConnects, Leave
  <2>3. \A w \in Viewers :
          /\ peer[w] \in {"open", "left"} => peer'[w] \in {"open", "left"}
          /\ peer[w] = "left" => peer'[w] = "left"
    BY <2>1 DEF RelayTypes
  <2>4. RelayTypes'
    BY <1>1, <2>1, <2>2 DEF RelayTypes, monitor, acceptor
  <2>5. Lists'
    BY <1>1, <1>4, <2>3 DEF Lists, monitor, acceptor
  <2>6. ASSUME NEW w \in Viewers PROVE StreamInv(w)'
    <3>1. StreamTo(w)' = StreamTo(w)
      BY <2>2 DEF StreamTo
    <3>2. QED
      BY <1>1, <1>2, <2>3, <3>1 DEF StreamInv, monitor, acceptor
  <2>7. QED
    BY <1>3, <2>4, <2>5, <2>6
<1>6. CASE \E v \in Viewers : Read(v)
  <2>1. PICK v \in Viewers : Read(v)
    BY <1>6
  <2>2. /\ inflight[v] \in Seq(Nat) /\ inflight[v] # <<>> /\ got[v] \in Seq(Nat)
        /\ Head(inflight[v]) \in Nat /\ Tail(inflight[v]) \in Seq(Nat)
        /\ Len(Tail(inflight[v])) = Len(inflight[v]) - 1 /\ Len(inflight[v]) \in Nat
        /\ Append(got[v], Head(inflight[v])) \in Seq(Nat)
    BY <2>1, HeadTailProperties, AppendProperties, LenProperties DEF Read, RelayTypes
  <2>3. /\ got' = [got EXCEPT ![v] = Append(got[v], Head(inflight[v]))]
        /\ inflight' = [inflight EXCEPT ![v] = Tail(inflight[v])] /\ UNCHANGED peer
    BY <2>1 DEF Read
  <2>4. RelayTypes'
    <3>1. got' \in [Viewers -> Seq(Nat)] /\ inflight' \in [Viewers -> Seq(Nat)]
      BY <2>2, <2>3 DEF RelayTypes
    <3>2. ASSUME NEW w \in Viewers PROVE Len(inflight'[w]) <= SocketRoom
      <4>1. inflight'[w] = IF w = v THEN Tail(inflight[v]) ELSE inflight[w]
        BY <2>3 DEF RelayTypes
      <4>2. Len(inflight[v]) <= SocketRoom /\ Len(inflight[w]) <= SocketRoom /\ SocketRoom \in Nat
        BY RelayAssumption DEF RelayTypes
      <4>3. Len(inflight[v]) - 1 <= SocketRoom
        BY <2>2, <4>2
      <4>4. QED
        BY <2>2, <4>1, <4>2, <4>3
    <3>3. QED
      BY <1>1, <2>3, <3>1, <3>2 DEF RelayTypes, monitor, acceptor
  <2>5. Lists'
    BY <1>1, <2>3 DEF Lists, monitor, acceptor
  <2>6. ASSUME NEW w \in Viewers PROVE StreamInv(w)'
    <3>1. StreamTo(w)' = StreamTo(w)
      <4>1. CASE w = v
        <5>1. got'[v] = Append(got[v], Head(inflight[v])) /\ inflight'[v] = Tail(inflight[v])
          BY <2>3 DEF RelayTypes
        <5>2. QED
          <6>1. Append(got[v], Head(inflight[v])) \o Tail(inflight[v]) = got[v] \o inflight[v]
            BY <2>2, StreamSteps
          <6>2. QED
            BY <4>1, <5>1, <6>1 DEF StreamTo
      <4>2. CASE w # v
        BY <2>3, <4>2 DEF StreamTo, RelayTypes
      <4>3. QED
        BY <4>1, <4>2
    <3>2. QED
      BY <1>1, <1>2, <2>3, <3>1 DEF StreamInv, monitor, acceptor
  <2>7. QED
    BY <1>3, <2>4, <2>5, <2>6
<1>7. QED
  BY <1>5, <1>6

LEMMA RelayStep == RelayIInv /\ [RelayNext]_relayVars => RelayIInv'
<1> SUFFICES ASSUME RelayIInv, [RelayNext]_relayVars PROVE RelayIInv'
  OBVIOUS
<1>1. CASE UNCHANGED relayVars
  <2>1. UNCHANGED <<monitor, clients, acceptor, viewers>>
    BY <1>1 DEF relayVars
  <2>2. RelayTypes' /\ Lists' /\ Cut'
    BY <2>1 DEF RelayIInv, RelayTypes, Lists, Cut, IsLast, monitor, acceptor, viewers
  <2>3. ASSUME NEW v \in Viewers PROVE StreamInv(v)'
    <3>1. StreamTo(v)' = StreamTo(v) /\ Due(v)' = Due(v)
      BY <2>1 DEF StreamTo, Due, monitor, viewers
    <3>2. QED
      BY <2>1, <3>1 DEF RelayIInv, StreamInv, monitor, acceptor, viewers
  <2>4. QED
    BY <2>2, <2>3 DEF RelayIInv
<1>2. QED
  BY <1>1, SessionSteps, CopyStep, SendStep, SendFailsStep, EndStep, AcceptSteps, ViewerSteps
  DEF RelayNext, MonitorStep

\* The lists, the chunks under way and the sockets of the relay stay what they
\* are (angle_monitor.py:81-165).
THEOREM RelayTypeCorrect == RelaySpec => []RelayTypeOK
<1>1. RelayIInv => RelayTypeOK
  <2> SUFFICES ASSUME RelayIInv PROVE RelayTypeOK
    OBVIOUS
  <2>1. /\ Range(clients) \subseteq Viewers /\ Range(round) \subseteq Viewers
        /\ Range(dead) \subseteq Viewers
    BY RangeOfSeq DEF RelayIInv, RelayTypes
  <2>2. QED
    BY <2>1 DEF RelayIInv, RelayTypes, Lists, RelayTypeOK
<1>2. QED
  BY RelayInitIInv, RelayStep, <1>1, PTL DEF RelaySpec

\* For any number of viewers, sessions and pieces: what a viewer gets of the
\* stream is a run of pieces without a gap, and up to the last one between two
\* rounds (angle_monitor.py:121, 149-165).  A viewer that stays is on the list
\* once, so that every round sends it each piece once; it is taken off only when
\* it was found gone.
THEOREM Intact == RelaySpec => []StreamIntact
<1>1. RelayIInv => StreamIntact
  <2> SUFFICES ASSUME RelayIInv, NEW v \in Viewers
               PROVE  /\ Run(StreamTo(v))
                      /\ mpc # "send" /\ mpc # "copy" /\ StreamTo(v) # <<>> /\ peer[v] = "open"
                           => Last(StreamTo(v)) = received
    BY DEF StreamIntact, Run
  <2>1. Run(StreamTo(v))
    BY DEF RelayIInv, StreamInv
  <2>2. ASSUME mpc # "send", mpc # "copy", StreamTo(v) # <<>>, peer[v] = "open"
        PROVE  Last(StreamTo(v)) = received
    <3>1. v \in Range(clients) /\ v \notin Range(dead) /\ round = <<>> /\ v \notin Range(round)
      BY <2>2, EmptyList DEF RelayIInv, StreamInv, Lists
    <3>2. Due(v) = received
      BY <2>2, <3>1 DEF Due
    <3>3. QED
      BY <2>2, <3>1, <3>2 DEF RelayIInv, StreamInv
  <2>3. QED
    BY <2>1, <2>2
<1>2. QED
  BY RelayInitIInv, RelayStep, <1>1, PTL DEF RelaySpec

-----------------------------------------------------------------------------
(* Sequences of sequences, one after the other                               *)

\* Where each of them ends.
Ends(ss, end) ==
    /\ end \in [0 .. Len(ss) -> Nat] /\ end[0] = 0
    /\ \A i \in 1 .. Len(ss) : end[i] = end[i - 1] + Len(ss[i])

\* FlattenSeq puts each of them behind the one before.
LEMMA Flattened ==
    ASSUME NEW S, NEW ss \in Seq(Seq(S))
    PROVE  /\ FlattenSeq(ss) \in Seq(S)
           /\ \E end : /\ Ends(ss, end) /\ Len(FlattenSeq(ss)) = end[Len(ss)]
                       /\ \A i \in 1 .. Len(ss) : \A j \in 1 .. Len(ss[i]) :
                             FlattenSeq(ss)[end[i - 1] + j] = ss[i][j]
<1>1. Len(ss) \in Nat /\ \A i \in 1 .. Len(ss) : ss[i] \in Seq(S) /\ Len(ss[i]) \in Nat
  BY LenProperties, ElementOfSeq
<1>2. CASE Len(ss) = 0
  <2>1. ss = <<>> /\ FlattenSeq(ss) = ss
    BY <1>2, EmptySeq DEF FlattenSeq
  <2> DEFINE end == [i \in 0 .. 0 |-> 0]
  <2>2. Ends(ss, end) /\ Len(ss) = end[Len(ss)]
    BY <1>2 DEF Ends
  <2> HIDE DEF end
  <2>3. <<>> \in Seq(S)
    BY EmptySeq
  <2>4. ~\E i \in 1 .. Len(ss) : TRUE
    BY <1>2
  <2>5. QED
    BY <2>1, <2>2, <2>3, <2>4
<1>3. CASE Len(ss) # 0
  <2> DEFINE F(f, n) == [i \in 1 .. n |-> IF i = 1 THEN ss[i] ELSE f[i - 1] \o ss[i]]
             T == {n \in Nat : \E f : f = F(f, n)}
             flatten == CHOOSE f : f = F(f, Len(ss))
             end == [i \in 0 .. Len(ss) |-> IF i = 0 THEN 0 ELSE Len(flatten[i])]
  <2>1. 0 \in T
    <3> DEFINE g == [i \in 1 .. 0 |-> ss[i]]
    <3>1. g = F(g, 0)
      OBVIOUS
    <3> HIDE DEF F
    <3>2. QED
      BY <3>1
  <2>2. ASSUME NEW n \in Nat, n \in T PROVE n + 1 \in T
    <3>1. PICK f : f = F(f, n)
      BY <2>2
    <3> DEFINE g == [i \in 1 .. n + 1 |->
                       IF i = n + 1 THEN IF n = 0 THEN ss[1] ELSE f[n] \o ss[n + 1] ELSE f[i]]
    <3>2. \A i \in 1 .. n : f[i] = IF i = 1 THEN ss[i] ELSE f[i - 1] \o ss[i]
      BY <3>1
    <3>3. \A i \in 1 .. n + 1 : g[i] = IF i = 1 THEN ss[i] ELSE g[i - 1] \o ss[i]
      <4>1. g[n + 1] = IF n = 0 THEN ss[1] ELSE g[n] \o ss[n + 1]
        OBVIOUS
      <4>2. \A i \in 1 .. n : g[i] = f[i]
        OBVIOUS
      <4> HIDE DEF g
      <4> TAKE i \in 1 .. n + 1
      <4>3. CASE i = n + 1
        <5>1. n = 0 => i = 1
          BY <4>3
        <5>2. n # 0 => i # 1 /\ i - 1 = n
          BY <4>3
        <5>3. QED
          BY <4>1, <4>3, <5>1, <5>2
      <4>4. CASE i \in 1 .. n
        <5>1. i # 1 => i - 1 \in 1 .. n
          BY <4>4
        <5>2. g[i] = f[i] /\ (i # 1 => g[i - 1] = f[i - 1])
          BY <4>2, <4>4, <5>1
        <5>3. f[i] = IF i = 1 THEN ss[i] ELSE f[i - 1] \o ss[i]
          BY <3>2, <4>4
        <5>4. QED
          BY <5>2, <5>3
      <4>5. QED
        BY <4>3, <4>4
    <3>4. g = F(g, n + 1)
      BY <3>3
    <3> HIDE DEF g, F
    <3>5. QED
      BY <3>4
  <2>3. Len(ss) \in T
    <3> HIDE DEF T
    <3>1. QED
      BY <1>1, <2>1, <2>2, FromZero
  <2>4. flatten = F(flatten, Len(ss))
    <3> HIDE DEF F
    <3>1. QED
      BY <2>3
  <2>5. \A i \in 1 .. Len(ss) : flatten[i] = IF i = 1 THEN ss[i] ELSE flatten[i - 1] \o ss[i]
    <3> HIDE DEF flatten
    <3>1. QED
      BY <2>4
  <2>6. FlattenSeq(ss) = flatten[Len(ss)]
    BY <1>3 DEF FlattenSeq
  <2> HIDE DEF flatten
  <2> DEFINE Laid(i) ==
               /\ flatten[i] \in Seq(S) /\ end[i] = end[i - 1] + Len(ss[i]) /\ end[i] \in Nat
               /\ \A m \in 0 .. i : end[m] \in Nat /\ end[m] <= end[i]
               /\ \A m \in 1 .. i : end[m] = end[m - 1] + Len(ss[m])
               /\ \A m \in 1 .. i : \A j \in 1 .. Len(ss[m]) : flatten[i][end[m - 1] + j] = ss[m][j]
             U == {n \in Nat : n + 1 <= Len(ss) => Laid(n + 1)}
  <2>7. end[0] = 0 /\ \A i \in 1 .. Len(ss) : end[i] = Len(flatten[i])
    BY <1>1
  <2>7a. \A i \in 1 .. Len(ss) : flatten[i] \in Seq(S) => end[i] \in Nat
    BY <2>7, LenProperties
  <2> HIDE DEF end
  <2>8. 0 \in U
    <3>1. 1 \in 1 .. Len(ss)
      BY <1>1, <1>3
    <3>2. flatten[1] = ss[1] /\ end[1] = Len(ss[1]) /\ Len(ss[1]) \in Nat /\ ss[1] \in Seq(S)
      BY <1>1, <2>5, <2>7, <3>1
    <3>3. \A m \in 0 .. 1 : m = 0 \/ m = 1
      OBVIOUS
    <3>4. Laid(1)
      BY <2>7, <3>2, <3>3
    <3> HIDE DEF Laid
    <3>5. QED
      BY <3>4
  <2>9. ASSUME NEW n \in Nat, n \in U PROVE n + 1 \in U
    <3> SUFFICES ASSUME n + 2 <= Len(ss) PROVE Laid(n + 2)
      OBVIOUS
    <3>1. Laid(n + 1)
      BY <2>9
    <3> DEFINE k == n + 1
    <3>2. k + 1 \in 1 .. Len(ss) /\ k \in 1 .. Len(ss) /\ k + 1 # 1 /\ (k + 1) - 1 = k /\ k \in Nat
      BY <1>1
    <3>3. /\ flatten[k] \in Seq(S) /\ end[k] \in Nat
          /\ \A m \in 0 .. k : end[m] \in Nat /\ end[m] <= end[k]
          /\ \A m \in 1 .. k : end[m] = end[m - 1] + Len(ss[m])
          /\ \A m \in 1 .. k : \A j \in 1 .. Len(ss[m]) : flatten[k][end[m - 1] + j] = ss[m][j]
      BY <3>1
    <3> HIDE DEF Laid, k
    <3>4. flatten[k + 1] = flatten[k] \o ss[k + 1] /\ end[k] = Len(flatten[k])
          /\ end[k + 1] = Len(flatten[k + 1]) /\ ss[k + 1] \in Seq(S) /\ Len(ss[k + 1]) \in Nat
      BY <1>1, <2>5, <2>7, <3>2
    <3>5. /\ flatten[k + 1] \in Seq(S) /\ end[k + 1] = end[k] + Len(ss[k + 1])
          /\ \A x \in 1 .. end[k] + Len(ss[k + 1]) :
               flatten[k + 1][x] = IF x <= end[k] THEN flatten[k][x] ELSE ss[k + 1][x - end[k]]
      <4>1. Len(flatten[k]) = end[k] /\ flatten[k] \in Seq(S) /\ ss[k + 1] \in Seq(S)
        BY <3>3, <3>4
      <4>2. /\ flatten[k] \o ss[k + 1] \in Seq(S)
            /\ Len(flatten[k] \o ss[k + 1]) = Len(flatten[k]) + Len(ss[k + 1])
            /\ \A x \in 1 .. Len(flatten[k]) + Len(ss[k + 1]) :
                 (flatten[k] \o ss[k + 1])[x] =
                   IF x <= Len(flatten[k]) THEN flatten[k][x] ELSE ss[k + 1][x - Len(flatten[k])]
        BY <4>1, ConcatProperties
      <4>3. QED
        BY <3>4, <4>1, <4>2
    <3>6. \A m \in 0 .. k + 1 : m \in 0 .. k \/ m = k + 1
      BY <3>2
    <3>7. \A m \in 1 .. k + 1 : m \in 1 .. k \/ m = k + 1
      BY <3>2
    <3>8. end[k + 1] \in Nat /\ end[k] <= end[k + 1]
      <4>1. end[k] \in Nat /\ Len(ss[k + 1]) \in Nat /\ end[k + 1] = end[k] + Len(ss[k + 1])
        BY <3>3, <3>4, <3>5
      <4>2. QED
        BY <4>1
    <3>9. ASSUME NEW m \in 0 .. k + 1 PROVE end[m] \in Nat /\ end[m] <= end[k + 1]
      <4>1. CASE m = k + 1
        BY <3>8, <4>1
      <4>2. CASE m \in 0 .. k
        <5>1. end[m] \in Nat /\ end[k] \in Nat /\ end[k + 1] \in Nat /\ end[m] <= end[k]
              /\ end[k] <= end[k + 1]
          BY <3>3, <3>8, <4>2
        <5>2. QED
          BY <5>1
      <4>3. QED
        BY <3>6, <4>1, <4>2
    <3>10. ASSUME NEW m \in 1 .. k + 1, NEW j \in 1 .. Len(ss[m])
           PROVE  flatten[k + 1][end[m - 1] + j] = ss[m][j]
      <4>1. CASE m = k + 1
        <5>1. end[m - 1] = end[k] /\ j \in 1 .. Len(ss[k + 1])
          BY <3>2, <4>1
        <5>2. \A e \in Nat, l \in Nat : \A x \in 1 .. l :
                e + x \in 1 .. e + l /\ ~(e + x <= e) /\ (e + x) - e = x
          OBVIOUS
        <5>3. /\ end[k] + j \in 1 .. end[k] + Len(ss[k + 1]) /\ ~(end[k] + j <= end[k])
              /\ (end[k] + j) - end[k] = j
          <6>1. end[k] \in Nat /\ Len(ss[k + 1]) \in Nat
            BY <3>3, <3>4
          <6>2. QED
            BY <5>1, <5>2, <6>1
        <5>4. flatten[k + 1][end[k] + j] = ss[k + 1][j]
          BY <3>5, <5>3
        <5>5. QED
          BY <4>1, <5>1, <5>4
      <4>2. CASE m \in 1 .. k
        <5>1. /\ end[m] = end[m - 1] + Len(ss[m]) /\ end[m] <= end[k]
              /\ flatten[k][end[m - 1] + j] = ss[m][j]
          <6>1. m \in 0 .. k
            BY <4>2
          <6>2. end[m] = end[m - 1] + Len(ss[m])
            BY <3>3, <4>2
          <6>3. end[m] <= end[k]
            BY <3>3, <6>1
          <6>4. flatten[k][end[m - 1] + j] = ss[m][j]
            BY <3>3, <4>2
          <6>5. QED
            BY <6>2, <6>3, <6>4
        <5>2. end[m - 1] \in Nat /\ Len(ss[m]) \in Nat /\ end[k] \in Nat /\ Len(ss[k + 1]) \in Nat
          BY <1>1, <3>2, <3>3, <3>4, <4>2
        <5>2a. \A e \in Nat, l \in Nat, f \in Nat, o \in Nat : \A x \in 1 .. l :
                e + l <= f => e + x \in 1 .. f + o /\ e + x <= f
          OBVIOUS
        <5>3. end[m - 1] + j \in 1 .. end[k] + Len(ss[k + 1]) /\ end[m - 1] + j <= end[k]
          BY <5>1, <5>2, <5>2a
        <5>4. QED
          BY <3>5, <5>1, <5>3
      <4>3. QED
        BY <3>7, <4>1, <4>2
    <3>11. ASSUME NEW m \in 1 .. k + 1 PROVE end[m] = end[m - 1] + Len(ss[m])
      BY <3>2, <3>3, <3>5, <3>7
    <3>12. Laid(k + 1)
      BY <3>2, <3>5, <3>8, <3>9, <3>10, <3>11 DEF Laid
    <3>13. QED
      BY <3>12 DEF k
  <2>10. Laid(Len(ss))
    <3>1. Len(ss) - 1 \in Nat /\ (Len(ss) - 1) + 1 = Len(ss)
      BY <1>1, <1>3
    <3>2. Len(ss) - 1 \in U
      <4> HIDE DEF U
      <4>1. QED
        BY <2>8, <2>9, <3>1, FromZero
    <3> HIDE DEF Laid
    <3>3. QED
      BY <3>1, <3>2
  <2>11. end \in [0 .. Len(ss) -> Nat]
    <3>1. \A i \in 0 .. Len(ss) : end[i] \in Nat
      BY <2>10
    <3>2. QED
      BY <3>1 DEF end
  <2>12. Ends(ss, end)
    BY <2>7, <2>10, <2>11 DEF Ends
  <2>13. Len(ss) \in 1 .. Len(ss)
    BY <1>1, <1>3
  <2>14. flatten[Len(ss)] \in Seq(S) /\ Len(flatten[Len(ss)]) = end[Len(ss)]
    BY <2>7, <2>10, <2>13
  <2>16. \A i \in 1 .. Len(ss) : \A j \in 1 .. Len(ss[i]) :
           flatten[Len(ss)][end[i - 1] + j] = ss[i][j]
    BY <2>10
  <2> HIDE DEF Laid, F, T, U
  <2>17. QED
    BY <2>6, <2>12, <2>14, <2>16
<1>4. QED
  BY <1>1, <1>2, <1>3

-----------------------------------------------------------------------------
(* The cells of a packet                                                     *)

LEMMA MagicCells ==
    /\ Len(Magic) = 4 /\ HeaderSize = 5 /\ Magic \in Seq(AllCells)
    /\ Magic[1] = "1" /\ Magic[2] = "A" /\ Magic[3] = "E" /\ Magic[4] = "B"
<1>1. Len(Magic) = 4 /\ Magic[1] = "1" /\ Magic[2] = "A" /\ Magic[3] = "E" /\ Magic[4] = "B"
  BY DEF Magic
<1>2. DOMAIN Magic = 1 .. 4 /\ Magic = [i \in 1 .. 4 |-> Magic[i]]
  BY DEF Magic
<1>3. \A i \in 1 .. 4 : Magic[i] \in AllCells
  BY <1>2 DEF AllCells, Range
<1>4. Magic \in Seq(AllCells)
  <2>1. Magic \in [1 .. 4 -> AllCells]
    BY <1>2, <1>3
  <2>2. QED
    BY <2>1, SeqDef
<1>5. QED
  BY <1>1, <1>4 DEF HeaderSize

\* What is on the stream is a header with its points; all of them, if there
\* are no more than may be.
LEMMA SentTypes ==
    ASSUME NEW p \in Sendable
    PROVE  /\ p \in Frame /\ Layouts[p.header] \in Fields
           /\ CountAllowed(Layouts[p.header]) => Len(p.points) = Layouts[p.header].count
<1>1. \A s \in Scans : s \in Seq(PointCells)
  <2> TAKE s \in Scans
  <2>1. Range(s) \subseteq PointCells
    BY DEF PointCells
  <2>2. QED
    BY <2>1, ScansAssumption, SeqMonotonic
<1>2. CASE p \in {Encode(s) : s \in Scans}
  <2>1. PICK s \in Scans : p = Encode(s)
    BY <1>2
  <2> DEFINE n == Written(s)
             c == V1(n)
  <2>2. Len(s) \in Nat /\ n \in 0 .. Len(s)
    <3>1. Len(s) \in Nat
      BY <1>1, LenProperties
    <3>2. QED
      BY <3>1, BoundsAssumption DEF Written
  <2>3. c \in DOMAIN Layouts /\ IsV1(c, n)
    BY ScansAssumption DEF V1
  <2>4. p.header = c /\ p.points = SubSeq(s, 1, n) /\ p = [header |-> c, points |-> SubSeq(s, 1, n)]
    BY <2>1 DEF Encode
  <2> HIDE DEF n, c
  <2>5. SubSeq(s, 1, n) \in Seq(PointCells) /\ Len(SubSeq(s, 1, n)) = n
    <3>1. /\ Len(SubSeq(s, 1, n)) = IF 1 <= n THEN n - 1 + 1 ELSE 0
          /\ SubSeq(s, 1, n) \in Seq(PointCells)
      <4>1. s \in Seq(PointCells) /\ 1 \in 1 .. Len(s) + 1 /\ n \in 1 - 1 .. Len(s)
        BY <1>1, <2>2
      <4>2. QED
        BY <4>1, SubSeqProperties
    <3>2. QED
      BY <2>2, <3>1
  <2>6. Layouts[c].count = n
    BY <2>3 DEF IsV1
  <2>7. QED
    BY <2>3, <2>4, <2>5, <2>6, LayoutsAssumption DEF Frame
<1>3. CASE p \in {q \in [header : Newer, points : Scans] :
                    LET n == Layouts[q.header].count IN Len(q.points) = n \/ n > MaxPoints}
  <2>1. /\ p \in [header : Newer, points : Scans]
        /\ Len(p.points) = Layouts[p.header].count \/ Layouts[p.header].count > MaxPoints
    BY <1>3
  <2>2. p.header \in DOMAIN Layouts /\ p.points \in Seq(PointCells)
    BY <1>1, <2>1, LayoutsAssumption
  <2>3. p \in Frame /\ Layouts[p.header] \in Fields
    BY <2>1, <2>2, LayoutsAssumption DEF Frame
  <2>4. Layouts[p.header].count \in Nat
    BY <2>3 DEF Fields
  <2>5. QED
    BY <2>1, <2>3, <2>4, BoundsAssumption DEF CountAllowed
<1>4. QED
  BY <1>2, <1>3 DEF Sendable

\* The cells of one point, and where the points begin.
Width(h) == IF h.stride > 1 THEN h.stride ELSE 1
HeadLen(h) == IF h.header > HeaderSize THEN h.header ELSE HeaderSize

LEMMA WidthTypes ==
    ASSUME NEW h \in Fields
    PROVE  Width(h) \in Nat /\ Width(h) >= 1 /\ HeadLen(h) \in Nat /\ HeadLen(h) >= 5 /\ Trailer(h) \in 0 .. 1
BY MagicCells DEF Width, HeadLen, Trailer, Fields

LEMMA AddedCells ==
    ASSUME NEW n \in Int
    PROVE  /\ Added(n) \in Seq({"added"}) /\ Len(Added(n)) = (IF n > 0 THEN n ELSE 0)
           /\ \A i \in 1 .. n : Added(n)[i] = "added"
<1>1. CASE n > 0
  BY <1>1, IsASeq DEF Added
<1>2. CASE ~(n > 0)
  <2>1. 1 .. n = {} /\ 1 .. n = 1 .. 0
    BY <1>2
  <2>2. Added(n) = [i \in 1 .. 0 |-> "added"]
    BY <2>1 DEF Added
  <2>3. Added(n) \in Seq({"added"}) /\ Len(Added(n)) = 0
    BY <2>2, IsASeq
  <2>4. QED
    BY <1>2, <2>1, <2>3
<1>3. QED
  BY <1>1, <1>2

\* One point with what is added to it.
LEMMA OnePoint ==
    ASSUME NEW h \in Fields, NEW x \in PointCells
    PROVE  LET c == <<x>> \o Added(h.stride - 1)
           IN  /\ c \in Seq(AllCells) /\ Len(c) = Width(h) /\ c[1] = x
               /\ \A j \in 2 .. Width(h) : c[j] = "added"
<1> DEFINE a == Added(h.stride - 1)
<1>1. h.stride \in Nat /\ h.stride - 1 \in Int
  BY DEF Fields
<1>2. /\ a \in Seq({"added"}) /\ Len(a) = (IF h.stride - 1 > 0 THEN h.stride - 1 ELSE 0)
      /\ \A i \in 1 .. h.stride - 1 : a[i] = "added"
  BY <1>1, AddedCells
<1> HIDE DEF a
<1>3. <<x>> \in Seq(AllCells) /\ Len(<<x>>) = 1 /\ <<x>>[1] = x /\ a \in Seq(AllCells)
  <2>1. x \in AllCells /\ {"added"} \subseteq AllCells
    BY DEF AllCells
  <2>2. QED
    BY <1>2, <2>1, SeqMonotonic
<1>4. Len(a) \in Nat /\ 1 + Len(a) = Width(h)
  BY <1>1, <1>2 DEF Width
<1>5. /\ <<x>> \o a \in Seq(AllCells) /\ Len(<<x>> \o a) = Len(<<x>>) + Len(a)
      /\ \A j \in 1 .. Len(<<x>>) + Len(a) :
           (<<x>> \o a)[j] = IF j <= Len(<<x>>) THEN <<x>>[j] ELSE a[j - Len(<<x>>)]
  BY <1>3, ConcatProperties
<1>6. (<<x>> \o a)[1] = x
  BY <1>3, <1>4, <1>5
<1>7. ASSUME NEW j \in 2 .. Width(h) PROVE (<<x>> \o a)[j] = "added"
  <2>1. j \in 1 .. 1 + Len(a) /\ ~(j <= 1) /\ j - 1 \in 1 .. h.stride - 1
    BY <1>1, <1>4 DEF Width
  <2>2. QED
    BY <1>2, <1>3, <1>5, <2>1
<1>8. QED
  BY <1>3, <1>4, <1>5, <1>6, <1>7 DEF a

\* All the points, each with what is added to it.
LEMMA AllPoints ==
    ASSUME NEW h \in Fields, NEW pts \in Seq(PointCells)
    PROVE  LET f == FlattenSeq([i \in 1 .. Len(pts) |-> <<pts[i]>> \o Added(h.stride - 1)])
               w == Width(h)
           IN  /\ f \in Seq(AllCells) /\ Len(f) = Len(pts) * w
               /\ \A i \in 1 .. Len(pts) :
                     /\ f[(i - 1) * w + 1] = pts[i]
                     /\ \A j \in 2 .. w : f[(i - 1) * w + j] = "added"
<1> DEFINE ss == [i \in 1 .. Len(pts) |-> <<pts[i]>> \o Added(h.stride - 1)]
           f == FlattenSeq(ss)
           w == Width(h)
<1>1. Len(pts) \in Nat /\ w \in Nat /\ w >= 1
  BY LenProperties, WidthTypes
<1>2. \A i \in 1 .. Len(pts) : pts[i] \in PointCells
  BY ElementOfSeq
<1>3. \A i \in 1 .. Len(pts) : /\ ss[i] \in Seq(AllCells) /\ Len(ss[i]) = w /\ ss[i][1] = pts[i]
                               /\ \A j \in 2 .. w : ss[i][j] = "added"
  BY <1>2, OnePoint
<1>4. ss \in Seq(Seq(AllCells)) /\ Len(ss) = Len(pts)
  <2>1. ss \in [1 .. Len(pts) -> Seq(AllCells)]
    BY <1>3
  <2> HIDE DEF ss
  <2>2. QED
    BY <1>1, <2>1, SeqDef
<1> HIDE DEF ss, w
<1>5. f \in Seq(AllCells)
  BY <1>4, Flattened
<1>6. PICK end : /\ Ends(ss, end) /\ Len(f) = end[Len(ss)]
                 /\ \A i \in 1 .. Len(ss) : \A j \in 1 .. Len(ss[i]) : f[end[i - 1] + j] = ss[i][j]
  BY <1>4, Flattened
<1> HIDE DEF f
<1> DEFINE T == {n \in Nat : n <= Len(pts) => end[n] = n * w}
<1>7. end[0] = 0 /\ \A i \in 1 .. Len(pts) : end[i] = end[i - 1] + w
  BY <1>3, <1>4, <1>6 DEF Ends
<1>8. 0 \in T
  BY <1>1, <1>7
<1>9. ASSUME NEW n \in Nat, n \in T PROVE n + 1 \in T
  <2> SUFFICES ASSUME n + 1 <= Len(pts) PROVE end[n + 1] = (n + 1) * w
    OBVIOUS
  <2>1. n + 1 \in 1 .. Len(pts) /\ (n + 1) - 1 = n /\ n <= Len(pts)
    BY <1>1
  <2>2. end[n] = n * w /\ end[n + 1] = end[n] + w
    BY <1>7, <1>9, <2>1
  <2>3. n * w + w = (n + 1) * w
    BY <1>1
  <2>4. QED
    BY <2>2, <2>3
<1>10. \A n \in 0 .. Len(pts) : end[n] = n * w
  <2>1. Nat \subseteq T
    <3> HIDE DEF T
    <3>1. QED
      BY <1>8, <1>9, FromZero
  <2>2. QED
    BY <1>1, <2>1
<1>11. Len(f) = Len(pts) * w
  BY <1>1, <1>4, <1>6, <1>10
<1>12. ASSUME NEW i \in 1 .. Len(pts)
       PROVE  /\ f[(i - 1) * w + 1] = pts[i]
              /\ \A j \in 2 .. w : f[(i - 1) * w + j] = "added"
  <2>1. i - 1 \in 0 .. Len(pts)
    BY <1>1
  <2>2. end[i - 1] = (i - 1) * w
    BY <1>10, <2>1
  <2>3. \A j \in 1 .. w : f[(i - 1) * w + j] = ss[i][j]
    BY <1>3, <1>4, <1>6, <2>2
  <2>4. 1 \in 1 .. w /\ \A j \in 2 .. w : j \in 1 .. w
    BY <1>1
  <2>5. QED
    BY <1>3, <2>3, <2>4
<1>13. QED
  BY <1>5, <1>11, <1>12 DEF f, ss, w

\* What each cell of a packet is.
LEMMA CellsOf ==
    ASSUME NEW p \in Frame, NEW h \in Fields, h = Layouts[p.header]
    PROVE  LET c == Cells(p)
               n == Len(p.points)
               o == HeadLen(h)
               w == Width(h)
           IN  /\ c \in Seq(AllCells) /\ n \in Nat /\ Len(c) = o + n * w + Trailer(h)
               /\ c[1] = "1" /\ c[2] = "A" /\ c[3] = "E" /\ c[4] = "B" /\ c[5] = p.header
               /\ \A i \in 6 .. o : c[i] = "added"
               /\ \A i \in 1 .. n : /\ c[o + (i - 1) * w + 1] = p.points[i]
                                    /\ \A j \in 2 .. w : c[o + (i - 1) * w + j] = "added"
               /\ \A i \in o + n * w + 1 .. Len(c) : c[i] = "crc"
<1> DEFINE n == Len(p.points)
           o == HeadLen(h)
           w == Width(h)
           head == <<p.header>>
           ext == Added(h.header - HeaderSize)
           pts == FlattenSeq([i \in 1 .. n |-> <<p.points[i]>> \o Added(h.stride - 1)])
           end == IF "crc" \in h.flags THEN <<"crc">> ELSE <<>>
           A == Magic \o head
           B == A \o ext
           C == B \o pts
<1>1. p.header \in DOMAIN Layouts /\ p.points \in Seq(PointCells)
  BY DEF Frame
<1>2. /\ n \in Nat /\ o \in Nat /\ o >= 5 /\ w \in Nat /\ w >= 1 /\ Trailer(h) \in 0 .. 1
      /\ h.header \in Nat /\ n * w \in Nat
  <2>1. n \in Nat
    BY <1>1, LenProperties
  <2>2. o \in Nat /\ o >= 5 /\ w \in Nat /\ w >= 1 /\ Trailer(h) \in 0 .. 1
    BY WidthTypes
  <2>3. QED
    BY <2>1, <2>2 DEF Fields
<1>3. head \in Seq(AllCells) /\ Len(head) = 1 /\ head[1] = p.header
  <2>1. p.header \in AllCells
    BY <1>1 DEF AllCells
  <2>2. QED
    BY <2>1
<1>4. /\ ext \in Seq(AllCells) /\ Len(ext) = o - 5
      /\ \A i \in 1 .. o - 5 : ext[i] = "added"
  <2>1. h.header - HeaderSize \in Int /\ HeaderSize = 5
    BY <1>2, MagicCells
  <2>2. /\ ext \in Seq({"added"}) /\ \A i \in 1 .. h.header - HeaderSize : ext[i] = "added"
        /\ Len(ext) = IF h.header - HeaderSize > 0 THEN h.header - HeaderSize ELSE 0
    BY <2>1, AddedCells
  <2>3. {"added"} \subseteq AllCells
    BY DEF AllCells
  <2>4. ext \in Seq(AllCells)
    BY <2>2, <2>3, SeqMonotonic
  <2> HIDE DEF ext
  <2>5. o = IF h.header > 5 THEN h.header ELSE 5
    BY <2>1 DEF HeadLen
  <2>6. QED
    BY <1>2, <2>1, <2>2, <2>4, <2>5
<1>5. /\ pts \in Seq(AllCells) /\ Len(pts) = n * w
      /\ \A i \in 1 .. n : /\ pts[(i - 1) * w + 1] = p.points[i]
                           /\ \A j \in 2 .. w : pts[(i - 1) * w + j] = "added"
  BY <1>1, AllPoints
<1>6. end \in Seq(AllCells) /\ Len(end) = Trailer(h) /\ \A i \in 1 .. Len(end) : end[i] = "crc"
  <2>1. "crc" \in AllCells
    BY DEF AllCells
  <2>2. QED
    BY <2>1 DEF Trailer
<1>7. Cells(p) = C \o end
  BY DEF Cells
<1> HIDE DEF n, o, w, head, ext, pts, end
<1>8. /\ A \in Seq(AllCells) /\ Len(A) = 5
      /\ A[1] = "1" /\ A[2] = "A" /\ A[3] = "E" /\ A[4] = "B" /\ A[5] = p.header
  <2>1. /\ A \in Seq(AllCells) /\ Len(A) = Len(Magic) + Len(head)
        /\ \A i \in 1 .. Len(Magic) + Len(head) :
              A[i] = IF i <= Len(Magic) THEN Magic[i] ELSE head[i - Len(Magic)]
    BY <1>3, MagicCells, ConcatProperties
  <2> HIDE DEF A
  <2>2. Len(Magic) = 4 /\ 4 + 1 = 5 /\ 5 - 4 = 1
    BY MagicCells
  <2>3. \A i \in 1 .. 5 : A[i] = IF i <= 4 THEN Magic[i] ELSE head[i - 4]
    BY <1>3, <2>1, <2>2
  <2>4. QED
    BY <1>3, <2>1, <2>2, <2>3, MagicCells
<1> HIDE DEF A
<1>9. /\ B \in Seq(AllCells) /\ Len(B) = o /\ \A i \in 1 .. 5 : B[i] = A[i]
      /\ \A i \in 6 .. o : B[i] = "added"
  <2>1. /\ B \in Seq(AllCells) /\ Len(B) = Len(A) + Len(ext)
        /\ \A i \in 1 .. Len(A) + Len(ext) :
              B[i] = IF i <= Len(A) THEN A[i] ELSE ext[i - Len(A)]
    BY <1>4, <1>8, ConcatProperties
  <2> HIDE DEF B
  <2>2. Len(A) + Len(ext) = o
    BY <1>2, <1>4, <1>8
  <2>3. \A i \in 1 .. o : B[i] = IF i <= 5 THEN A[i] ELSE ext[i - 5]
    BY <1>8, <2>1, <2>2
  <2>4. \A i \in 1 .. 5 : i \in 1 .. o /\ i <= 5
    BY <1>2
  <2>5. \A i \in 6 .. o : i \in 1 .. o /\ ~(i <= 5) /\ i - 5 \in 1 .. o - 5
    BY <1>2
  <2>6. QED
    BY <1>4, <2>1, <2>2, <2>3, <2>4, <2>5
<1> HIDE DEF B
<1>10. /\ C \in Seq(AllCells) /\ Len(C) = o + n * w /\ \A i \in 1 .. o : C[i] = B[i]
       /\ \A i \in 1 .. n * w : C[o + i] = pts[i]
  <2>1. /\ C \in Seq(AllCells) /\ Len(C) = Len(B) + Len(pts)
        /\ \A i \in 1 .. Len(B) + Len(pts) :
              C[i] = IF i <= Len(B) THEN B[i] ELSE pts[i - Len(B)]
    BY <1>5, <1>9, ConcatProperties
  <2> HIDE DEF C
  <2>2. \A a \in Nat, b \in Nat :
          /\ \A i \in 1 .. a : i \in 1 .. a + b /\ i <= a
          /\ \A i \in 1 .. b : a + i \in 1 .. a + b /\ ~(a + i <= a) /\ (a + i) - a = i
    OBVIOUS
  <2>3. QED
    BY <1>2, <1>5, <1>9, <2>1, <2>2
<1> HIDE DEF C
<1>11. /\ Cells(p) \in Seq(AllCells) /\ Len(Cells(p)) = o + n * w + Trailer(h)
       /\ \A i \in 1 .. o + n * w : Cells(p)[i] = C[i]
       /\ \A i \in o + n * w + 1 .. o + n * w + Trailer(h) : Cells(p)[i] = "crc"
  <2>1. /\ C \o end \in Seq(AllCells) /\ Len(C \o end) = Len(C) + Len(end)
        /\ \A i \in 1 .. Len(C) + Len(end) :
              (C \o end)[i] = IF i <= Len(C) THEN C[i] ELSE end[i - Len(C)]
    BY <1>6, <1>10, ConcatProperties
  <2>2. \A a \in Nat, b \in Nat :
          /\ \A i \in 1 .. a : i \in 1 .. a + b /\ i <= a
          /\ \A i \in a + 1 .. a + b : i \in 1 .. a + b /\ ~(i <= a) /\ i - a \in 1 .. b
    OBVIOUS
  <2>3. o + n * w \in Nat /\ Trailer(h) \in Nat
    BY <1>2
  <2> DEFINE q == o + n * w
  <2>4. q \in Nat /\ Len(C) = q /\ Len(end) = Trailer(h) /\ Trailer(h) \in Nat
    BY <1>6, <1>10, <2>3
  <2> HIDE DEF q
  <2>5. /\ \A i \in 1 .. q : (C \o end)[i] = C[i]
        /\ \A i \in q + 1 .. q + Trailer(h) : (C \o end)[i] = "crc"
    BY <1>6, <2>1, <2>2, <2>4
  <2>6. QED
    BY <1>7, <2>1, <2>4, <2>5 DEF q
<1>12. ASSUME NEW i \in 1 .. n
       PROVE  /\ Cells(p)[o + (i - 1) * w + 1] = p.points[i]
              /\ \A j \in 2 .. w : Cells(p)[o + (i - 1) * w + j] = "added"
  <2>1. ASSUME NEW j \in 1 .. w PROVE Cells(p)[o + (i - 1) * w + j] = pts[(i - 1) * w + j]
    <3> DEFINE x == (i - 1) * w + j
    <3>1. x \in 1 .. n * w
      <4>1. (i - 1) * w \in Nat
        BY <1>2
      <4>2. (i - 1) * w + w <= n * w
        <5>1. (i - 1) * w + w = i * w
          BY <1>2
        <5>2. i * w <= n * w
          BY <1>2
        <5>3. i * w \in Nat
          BY <1>2
        <5>4. QED
          BY <5>1, <5>2
      <4>3. QED
        BY <1>2, <4>1, <4>2
    <3>2. o + (i - 1) * w + j = o + x
      BY <1>2
    <3> HIDE DEF x
    <3>3. x \in Nat /\ o + x \in 1 .. o + n * w
      BY <1>2, <3>1
    <3>4. Cells(p)[o + x] = pts[x]
      BY <1>10, <1>11, <3>1, <3>3
    <3>5. QED
      BY <3>2, <3>4 DEF x
  <2>2. 1 \in 1 .. w /\ \A j \in 2 .. w : j \in 1 .. w
    BY <1>2
  <2>3. QED
    BY <1>5, <2>1, <2>2
<1>13. \A i \in 1 .. o : Cells(p)[i] = B[i]
  <2>1. \A i \in 1 .. o : i \in 1 .. o + n * w
    BY <1>2
  <2>2. QED
    BY <1>10, <1>11, <2>1
<1>14. /\ Cells(p)[1] = "1" /\ Cells(p)[2] = "A" /\ Cells(p)[3] = "E" /\ Cells(p)[4] = "B"
       /\ Cells(p)[5] = p.header
  <2>1. \A i \in 1 .. 5 : i \in 1 .. o
    BY <1>2
  <2>2. \A i \in 1 .. 5 : Cells(p)[i] = A[i]
    BY <1>9, <1>13, <2>1
  <2>3. QED
    BY <1>8, <2>2
<1>15. \A i \in 6 .. o : Cells(p)[i] = "added"
  <2>1. \A i \in 6 .. o : i \in 1 .. o
    BY <1>2
  <2>2. QED
    BY <1>9, <1>13, <2>1
<1>16. QED
  BY <1>2, <1>11, <1>12, <1>14, <1>15 DEF n, o, w

-----------------------------------------------------------------------------
(* The cells on the stream                                                   *)

\* Packet i is on the stream behind end[i - 1] cells.
LaidOut(ps, end) ==
    /\ end \in [0 .. Len(ps) -> Nat] /\ end[0] = 0
    /\ Stream(ps) \in Seq(AllCells) /\ Len(Stream(ps)) = end[Len(ps)]
    /\ \A i \in 1 .. Len(ps) : end[i] = end[i - 1] + Len(Cells(ps[i]))
    /\ \A i \in 1 .. Len(ps) : \A j \in 1 .. Len(Cells(ps[i])) :
          Stream(ps)[end[i - 1] + j] = Cells(ps[i])[j]

End(ps) == CHOOSE end : LaidOut(ps, end)

LEMMA PacketCells ==
    ASSUME NEW p \in Frame
    PROVE  /\ Layouts[p.header] \in Fields /\ p.points \in Seq(PointCells)
           /\ Cells(p) \in Seq(AllCells) /\ Len(Cells(p)) \in Nat /\ Len(Cells(p)) >= 5
<1>1. Layouts[p.header] \in Fields /\ p.points \in Seq(PointCells)
  BY LayoutsAssumption DEF Frame
<1> DEFINE h == Layouts[p.header]
           n == Len(p.points)
<1>2. Cells(p) \in Seq(AllCells) /\ n \in Nat /\ Len(Cells(p)) = HeadLen(h) + n * Width(h) + Trailer(h)
  BY <1>1, CellsOf
<1>3. /\ Width(h) \in Nat /\ Width(h) >= 1 /\ HeadLen(h) \in Nat /\ HeadLen(h) >= 5
      /\ Trailer(h) \in 0 .. 1
  BY <1>1, WidthTypes
<1> HIDE DEF h, n
<1>4. n * Width(h) \in Nat
  BY <1>2, <1>3
<1>5. QED
  BY <1>1, <1>2, <1>3, <1>4

LEMMA EndOf == ASSUME NEW ps \in Seq(Frame) PROVE LaidOut(ps, End(ps))
<1> DEFINE ss == [i \in 1 .. Len(ps) |-> Cells(ps[i])]
<1>1. Len(ps) \in Nat /\ \A i \in 1 .. Len(ps) : ps[i] \in Frame
  BY LenProperties, ElementOfSeq
<1>2. \A i \in 1 .. Len(ps) : ss[i] \in Seq(AllCells)
  BY <1>1, PacketCells
<1>3. ss \in Seq(Seq(AllCells)) /\ Len(ss) = Len(ps)
  <2>1. ss \in [1 .. Len(ps) -> Seq(AllCells)]
    BY <1>2
  <2> HIDE DEF ss
  <2>2. QED
    BY <1>1, <2>1, SeqDef
<1>4. \A i \in 1 .. Len(ps) : ss[i] = Cells(ps[i])
  OBVIOUS
<1>5. Stream(ps) = FlattenSeq(ss)
  BY DEF Stream
<1> HIDE DEF ss
<1>6. FlattenSeq(ss) \in Seq(AllCells)
  BY <1>3, Flattened
<1>7. PICK end : /\ Ends(ss, end) /\ Len(FlattenSeq(ss)) = end[Len(ss)]
                 /\ \A i \in 1 .. Len(ss) : \A j \in 1 .. Len(ss[i]) :
                       FlattenSeq(ss)[end[i - 1] + j] = ss[i][j]
  BY <1>3, Flattened
<1>8. LaidOut(ps, end)
  <2>1. /\ end \in [0 .. Len(ps) -> Nat] /\ end[0] = 0
        /\ \A i \in 1 .. Len(ps) : end[i] = end[i - 1] + Len(Cells(ps[i]))
    BY <1>3, <1>4, <1>7 DEF Ends
  <2>2. Stream(ps) \in Seq(AllCells) /\ Len(Stream(ps)) = end[Len(ps)]
    BY <1>3, <1>5, <1>6, <1>7
  <2>3. \A i \in 1 .. Len(ps) : \A j \in 1 .. Len(Cells(ps[i])) :
          Stream(ps)[end[i - 1] + j] = Cells(ps[i])[j]
    BY <1>3, <1>4, <1>5, <1>7
  <2>4. QED
    BY <2>1, <2>2, <2>3 DEF LaidOut
<1>9. QED
  BY <1>8 DEF End

\* A packet has at least five cells.
LEMMA StartsApart ==
    ASSUME NEW ps \in Seq(Frame), NEW end, LaidOut(ps, end),
           NEW i \in 0 .. Len(ps), NEW j \in 0 .. Len(ps), i < j
    PROVE  end[i] + 5 <= end[j]
<1> DEFINE T == {n \in Nat : i + 1 + n <= Len(ps) => end[i] + 5 <= end[i + 1 + n]}
<1>1. /\ Len(ps) \in Nat
      /\ \A k \in 0 .. Len(ps) : end[k] \in Nat
      /\ \A k \in 1 .. Len(ps) : /\ end[k] = end[k - 1] + Len(Cells(ps[k]))
                                 /\ Len(Cells(ps[k])) \in Nat /\ Len(Cells(ps[k])) >= 5
  <2>1. Len(ps) \in Nat /\ \A k \in 1 .. Len(ps) : ps[k] \in Frame
    BY LenProperties, ElementOfSeq
  <2>2. QED
    BY <2>1, PacketCells DEF LaidOut
<1>2. 0 \in T
  <2> SUFFICES ASSUME i + 1 <= Len(ps) PROVE end[i] + 5 <= end[i + 1]
    OBVIOUS
  <2>1. i + 1 \in 1 .. Len(ps) /\ (i + 1) - 1 = i
    BY <1>1
  <2>2. end[i + 1] = end[i] + Len(Cells(ps[i + 1])) /\ end[i] \in Nat
        /\ Len(Cells(ps[i + 1])) \in Nat /\ Len(Cells(ps[i + 1])) >= 5
    BY <1>1, <2>1
  <2>3. QED
    BY <2>2
<1>3. ASSUME NEW n \in Nat, n \in T PROVE n + 1 \in T
  <2> SUFFICES ASSUME i + 1 + (n + 1) <= Len(ps) PROVE end[i] + 5 <= end[i + 1 + (n + 1)]
    OBVIOUS
  <2> DEFINE k == i + 1 + (n + 1)
  <2>1. k \in 1 .. Len(ps) /\ k - 1 = i + 1 + n /\ k - 1 \in 0 .. Len(ps) /\ i + 1 + n <= Len(ps)
    BY <1>1
  <2>2. end[i] + 5 <= end[k - 1]
    BY <1>3, <2>1
  <2> HIDE DEF k
  <2>3. /\ end[k] = end[k - 1] + Len(Cells(ps[k])) /\ end[i] \in Nat /\ end[k - 1] \in Nat
        /\ Len(Cells(ps[k])) \in Nat
    BY <1>1, <2>1
  <2>4. end[i] + 5 <= end[k]
    BY <2>2, <2>3
  <2>5. QED
    BY <2>4 DEF k
<1>4. j - (i + 1) \in Nat /\ i + 1 + (j - (i + 1)) = j
  BY <1>1
<1>5. j - (i + 1) \in T
  <2> HIDE DEF T
  <2>1. QED
    BY <1>2, <1>3, <1>4, FromZero
<1>6. QED
  BY <1>1, <1>4, <1>5

\* Every cell of the stream is in a packet.
LEMMA InSomePacket ==
    ASSUME NEW ps \in Seq(Frame), NEW end, LaidOut(ps, end),
           NEW x \in Nat, x < end[Len(ps)]
    PROVE  \E k \in 1 .. Len(ps) : end[k - 1] <= x /\ x < end[k]
<1> DEFINE I == {i \in 1 .. Len(ps) : x < end[i]}
<1>1. Len(ps) \in Nat /\ end[0] = 0 /\ \A k \in 0 .. Len(ps) : end[k] \in Nat
  <2>1. Len(ps) \in Nat
    BY LenProperties
  <2>2. QED
    BY <2>1 DEF LaidOut
<1>2. Len(ps) \in I
  <2>1. Len(ps) # 0
    BY <1>1
  <2>2. QED
    BY <1>1, <2>1
<1>3. I \in SUBSET Nat /\ I # {}
  BY <1>1, <1>2
<1>4. PICK i \in I : \A m \in I : i <= m
  <2> HIDE DEF I
  <2>1. QED
    BY <1>3, Least
<1>5. end[i - 1] <= x
  <2>1. i - 1 \notin I /\ i - 1 \in 0 .. Len(ps)
    BY <1>1, <1>4
  <2>2. i - 1 = 0 \/ i - 1 \in 1 .. Len(ps)
    BY <1>1, <2>1
  <2>3. i - 1 = 0 \/ ~(x < end[i - 1])
    BY <2>1, <2>2
  <2>4. end[i - 1] \in Nat
    BY <1>1, <2>1
  <2>5. QED
    BY <1>1, <2>3, <2>4
<1>6. QED
  BY <1>4, <1>5

-----------------------------------------------------------------------------
(* Where a magic is                                                          *)

LEMMA MagicMeans ==
    ASSUME NEW S, NEW b \in Seq(S), NEW i \in Nat, i + 4 <= Len(b)
    PROVE  MagicAt(b, i) <=> b[i + 1] = "1" /\ b[i + 2] = "A" /\ b[i + 3] = "E" /\ b[i + 4] = "B"
<1> DEFINE s == SubSeq(b, i + 1, i + 4)
<1>1. Len(b) \in Nat
  BY LenProperties
<1>2. s \in Seq(S) /\ Len(s) = 4 /\ \A j \in 1 .. 4 : s[j] = b[i + j]
  <2>1. i + 1 \in 1 .. Len(b) + 1 /\ i + 4 \in (i + 1) - 1 .. Len(b)
    BY <1>1
  <2>2. /\ s \in Seq(S) /\ Len(s) = (IF i + 1 <= i + 4 THEN (i + 4) - (i + 1) + 1 ELSE 0)
        /\ \A j \in 1 .. (i + 4) - (i + 1) + 1 : s[j] = b[(i + 1) + j - 1]
    BY <2>1, SubSeqProperties
  <2> HIDE DEF s
  <2>3. (i + 4) - (i + 1) + 1 = 4 /\ i + 1 <= i + 4 /\ \A j \in 1 .. 4 : (i + 1) + j - 1 = i + j
    OBVIOUS
  <2>4. QED
    BY <2>2, <2>3
<1>3. MagicAt(b, i) <=> s = Magic
  BY MagicCells DEF MagicAt
<1> HIDE DEF s
<1>4. s = Magic <=> \A j \in 1 .. 4 : s[j] = Magic[j]
  <2>1. DOMAIN s = 1 .. 4 /\ s = [j \in 1 .. 4 |-> s[j]]
    <3>1. s = [j \in 1 .. Len(s) |-> s[j]] /\ DOMAIN s = 1 .. Len(s)
      BY <1>2, LenProperties
    <3>2. QED
      BY <1>2, <3>1
  <2>2. Magic = [j \in 1 .. 4 |-> Magic[j]]
    BY DEF Magic
  <2>3. QED
    BY <2>1, <2>2
<1>5. \A j \in 1 .. 4 : j = 1 \/ j = 2 \/ j = 3 \/ j = 4
  OBVIOUS
<1>6. 1 \in 1 .. 4 /\ 2 \in 1 .. 4 /\ 3 \in 1 .. 4 /\ 4 \in 1 .. 4
  OBVIOUS
<1>7. QED
  BY <1>2, <1>3, <1>4, <1>5, <1>6, MagicCells

\* The first byte of a magic is found only where a packet begins, and among its points.
LEMMA OnesOf ==
    ASSUME NEW p \in Frame, NEW h \in Fields, h = Layouts[p.header],
           NEW x \in 1 .. Len(Cells(p)), Cells(p)[x] = "1"
    PROVE  x = 1 \/ \E i \in 1 .. Len(p.points) : x = HeadLen(h) + (i - 1) * Width(h) + 1
<1> DEFINE c == Cells(p)
           n == Len(p.points)
           o == HeadLen(h)
           w == Width(h)
<1>1. /\ n \in Nat /\ Len(c) = o + n * w + Trailer(h)
      /\ c[2] = "A" /\ c[3] = "E" /\ c[4] = "B" /\ c[5] = p.header
      /\ \A i \in 6 .. o : c[i] = "added"
      /\ \A i \in 1 .. n : \A j \in 2 .. w : c[o + (i - 1) * w + j] = "added"
      /\ \A i \in o + n * w + 1 .. Len(c) : c[i] = "crc"
  BY CellsOf
<1>2. o \in Nat /\ o >= 5 /\ w \in Nat /\ w >= 1 /\ Trailer(h) \in 0 .. 1 /\ n * w \in Nat
  BY <1>1, WidthTypes
<1>3. c[5] # "1"
  <2>1. p.header \in DOMAIN Layouts
    BY DEF Frame
  <2>2. QED
    BY <1>1, <2>1, LayoutsAssumption, MagicCells
<1>4. x \in Nat /\ x >= 1 /\ x <= o + n * w + Trailer(h) /\ c[x] = "1"
  <2>1. Len(c) \in Nat
    BY <1>1, <1>2
  <2>2. QED
    BY <1>1, <2>1
<1> HIDE DEF c, n, o, w
<1>5. CASE x <= o
  <2>1. x = 1 \/ x = 2 \/ x = 3 \/ x = 4 \/ x = 5 \/ x \in 6 .. o
    BY <1>2, <1>4, <1>5
  <2>2. x # 2 /\ x # 3 /\ x # 4 /\ x # 5 /\ x \notin 6 .. o
    <3>1. c[2] # c[x] /\ c[3] # c[x] /\ c[4] # c[x] /\ c[5] # c[x]
      BY <1>1, <1>3, <1>4
    <3>2. \A i \in 6 .. o : c[i] # c[x]
      BY <1>1, <1>4
    <3>3. QED
      BY <3>1, <3>2
  <2>3. QED
    BY <2>1, <2>2
<1>6. CASE x > o + n * w
  <2>1. x \in o + n * w + 1 .. Len(c)
    BY <1>1, <1>2, <1>4, <1>6
  <2>2. QED
    BY <1>1, <1>4, <2>1
<1>7. CASE o < x /\ x <= o + n * w
  <2> DEFINE y == x - o
             I == {i \in 1 .. n : y <= i * w}
  <2>1. y \in Nat /\ y >= 1 /\ y <= n * w /\ x = o + y
    BY <1>2, <1>4, <1>7
  <2> HIDE DEF y
  <2>2. n # 0
    <3> SUFFICES ASSUME n = 0 PROVE FALSE
      OBVIOUS
    <3>1. n * w = 0
      BY <1>2
    <3>2. QED
      BY <2>1, <3>1
  <2>3. n \in I
    BY <1>1, <2>1, <2>2
  <2>4. PICK i \in I : \A m \in I : i <= m
    <3>1. I \in SUBSET Nat /\ I # {}
      BY <1>1, <2>3
    <3> HIDE DEF I
    <3>2. QED
      BY <3>1, Least
  <2>5. i \in 1 .. n /\ y <= i * w /\ i * w = (i - 1) * w + w /\ (i - 1) * w \in Nat
    BY <1>1, <1>2, <2>4
  <2>6. (i - 1) * w < y
    <3>1. CASE i = 1
      <4>1. (i - 1) * w = 0
        BY <1>2, <3>1
      <4>2. QED
        BY <2>1, <4>1
    <3>2. CASE i # 1
      <4>1. i - 1 \in 1 .. n /\ ~(i <= i - 1)
        BY <1>1, <2>5, <3>2
      <4>2. ~(y <= (i - 1) * w)
        BY <2>4, <4>1
      <4>3. QED
        BY <2>1, <2>5, <4>2
    <3>3. QED
      BY <3>1, <3>2
  <2> HIDE DEF I
  <2> DEFINE a == (i - 1) * w
             j == y - a
  <2>7. a \in Nat /\ j \in 1 .. w /\ y = a + j
    <3>1. a \in Nat /\ a < y /\ y <= a + w
      BY <2>5, <2>6
    <3> HIDE DEF a
    <3>2. QED
      BY <1>2, <2>1, <3>1
  <2>8. x = o + (i - 1) * w + j
    <3>1. x = o + a + j
      <4> HIDE DEF a, j
      <4>1. QED
        BY <1>2, <2>1, <2>7
    <3>2. QED
      BY <3>1
  <2> HIDE DEF a, j
  <2>9. j = 1
    <3>1. j = 1 \/ j \in 2 .. w
      BY <1>2, <2>7
    <3>2. j \in 2 .. w => c[x] = "added"
      BY <1>1, <2>5, <2>8
    <3>3. QED
      BY <1>4, <3>1, <3>2
  <2>10. QED
    BY <2>5, <2>8, <2>9 DEF n, o, w
<1>8. QED
  <2>1. x <= o \/ x > o + n * w \/ (o < x /\ x <= o + n * w)
    BY <1>2, <1>4
  <2>2. QED
    BY <1>5, <1>6, <1>7, <2>1

\* What comes behind the points is the trailer or the next packet.
LEMMA BehindPoints ==
    ASSUME NEW ps \in Seq(Frame), NEW end, LaidOut(ps, end), NEW k \in 1 .. Len(ps),
           NEW h \in Fields, h = Layouts[ps[k].header],
           NEW x \in Nat, x = end[k - 1] + HeadLen(h) + Len(ps[k].points) * Width(h) + 1,
           x <= Len(Stream(ps))
    PROVE  Stream(ps)[x] \in {"1", "crc"}
<1> DEFINE X == Stream(ps)
           c == Cells(ps[k])
           z == HeadLen(h) + Len(ps[k].points) * Width(h)
<1>1. /\ Len(ps) \in Nat /\ \A i \in 1 .. Len(ps) : ps[i] \in Frame
      /\ \A i \in 0 .. Len(ps) : end[i] \in Nat
      /\ Len(X) = end[Len(ps)]
      /\ \A i \in 1 .. Len(ps) : end[i] = end[i - 1] + Len(Cells(ps[i]))
      /\ \A i \in 1 .. Len(ps) : \A j \in 1 .. Len(Cells(ps[i])) : X[end[i - 1] + j] = Cells(ps[i])[j]
  <2>1. Len(ps) \in Nat /\ \A i \in 1 .. Len(ps) : ps[i] \in Frame
    BY LenProperties, ElementOfSeq
  <2>2. QED
    BY <2>1 DEF LaidOut
<1>2. /\ Len(c) = z + Trailer(h) /\ \A i \in z + 1 .. Len(c) : c[i] = "crc"
      /\ Len(ps[k].points) \in Nat
  BY <1>1, CellsOf
<1>3. z \in Nat /\ Trailer(h) \in 0 .. 1
  BY <1>2, WidthTypes
<1>4. x = end[k - 1] + z + 1 /\ k - 1 \in 0 .. Len(ps) /\ k \in 0 .. Len(ps)
  <2>1. HeadLen(h) \in Nat /\ Width(h) \in Nat
    BY WidthTypes
  <2>2. Len(ps[k].points) * Width(h) \in Nat /\ k - 1 \in 0 .. Len(ps) /\ k \in 0 .. Len(ps)
    BY <1>1, <1>2, <2>1
  <2>3. end[k - 1] \in Nat
    BY <1>1, <2>2
  <2>4. QED
    BY <2>1, <2>2, <2>3
<1> HIDE DEF X, c, z
<1>5. CASE Trailer(h) = 1
  <2>1. z + 1 \in z + 1 .. Len(c) /\ z + 1 \in 1 .. Len(c)
    BY <1>2, <1>3, <1>5
  <2>2. X[end[k - 1] + (z + 1)] = c[z + 1]
    BY <1>1, <2>1 DEF c
  <2>3. end[k - 1] + (z + 1) = x
    <3>1. end[k - 1] \in Nat
      BY <1>1, <1>4
    <3>2. QED
      BY <1>3, <1>4, <3>1
  <2>4. QED
    BY <1>2, <2>1, <2>2, <2>3 DEF X
<1>6. CASE Trailer(h) = 0
  <2>1. Len(c) = z
    BY <1>2, <1>3, <1>6
  <2>2. end[k] = end[k - 1] + z
    BY <1>1, <2>1 DEF c
  <2>3. x = end[k] + 1 /\ end[k] \in Nat /\ end[k] < end[Len(ps)]
    <3>1. end[k - 1] \in Nat /\ end[k] \in Nat /\ end[Len(ps)] \in Nat /\ Len(ps) \in 0 .. Len(ps)
      BY <1>1, <1>4
    <3>2. x = end[k] + 1
      BY <1>3, <1>4, <2>2, <3>1
    <3>3. x <= end[Len(ps)]
      BY <1>1 DEF X
    <3>4. QED
      BY <3>1, <3>2, <3>3
  <2>4. k # Len(ps)
    BY <2>3
  <2>5. k + 1 \in 1 .. Len(ps) /\ (k + 1) - 1 = k
    BY <1>1, <2>4
  <2>6. Cells(ps[k + 1])[1] = "1" /\ 1 \in 1 .. Len(Cells(ps[k + 1]))
    <3>1. ps[k + 1] \in Frame
      BY <1>1, <2>5
    <3>2. Layouts[ps[k + 1].header] \in Fields /\ Len(Cells(ps[k + 1])) \in Nat
          /\ Len(Cells(ps[k + 1])) >= 5
      BY <3>1, PacketCells
    <3>3. Cells(ps[k + 1])[1] = "1"
      BY <3>1, <3>2, CellsOf
    <3>4. QED
      BY <3>2, <3>3
  <2>7. X[end[k] + 1] = "1"
    BY <1>1, <2>5, <2>6
  <2>8. QED
    BY <2>3, <2>7 DEF X
<1>7. QED
  BY <1>3, <1>5, <1>6

\* The points of no packet spell a magic.
Unspelled(ps) ==
    \A i \in 1 .. Len(ps) : \A k \in 0 .. Len(ps[i].points) - Len(Magic) : ~MagicAt(ps[i].points, k)

\* A search finds the beginnings of packets and nothing else.
LEMMA MagicOnlyAtStarts ==
    ASSUME NEW ps \in Seq(Frame), NEW end, LaidOut(ps, end), Unspelled(ps),
           NEW m \in Nat, m + 4 <= Len(Stream(ps)), MagicAt(Stream(ps), m)
    PROVE  \E k \in 0 .. Len(ps) : k < Len(ps) /\ m = end[k]
<1> DEFINE X == Stream(ps)
<1>1. /\ Len(ps) \in Nat /\ \A i \in 1 .. Len(ps) : ps[i] \in Frame
      /\ \A i \in 0 .. Len(ps) : end[i] \in Nat
      /\ Len(X) = end[Len(ps)] /\ X \in Seq(AllCells)
      /\ \A i \in 1 .. Len(ps) : end[i] = end[i - 1] + Len(Cells(ps[i]))
      /\ \A i \in 1 .. Len(ps) : \A j \in 1 .. Len(Cells(ps[i])) : X[end[i - 1] + j] = Cells(ps[i])[j]
  <2>1. Len(ps) \in Nat /\ \A i \in 1 .. Len(ps) : ps[i] \in Frame
    BY LenProperties, ElementOfSeq
  <2>2. QED
    BY <2>1 DEF LaidOut
<1>2. X[m + 1] = "1" /\ X[m + 2] = "A" /\ X[m + 3] = "E" /\ X[m + 4] = "B"
  BY <1>1, MagicMeans
<1>3. Len(X) \in Nat /\ m < end[Len(ps)]
  BY <1>1
<1>4. PICK k \in 1 .. Len(ps) : end[k - 1] <= m /\ m < end[k]
  BY <1>3, InSomePacket
<1> DEFINE p == ps[k]
           h == Layouts[p.header]
           c == Cells(p)
           n == Len(p.points)
           o == HeadLen(h)
           w == Width(h)
           s == end[k - 1]
           x == m - s + 1
<1>5. k - 1 \in 0 .. Len(ps) /\ k \in 0 .. Len(ps) /\ s \in Nat /\ end[k] \in Nat /\ k - 1 < Len(ps)
  BY <1>1
<1>6. p \in Frame /\ h \in Fields /\ p.points \in Seq(PointCells)
  BY <1>1, PacketCells
<1>7. /\ n \in Nat /\ Len(c) = o + n * w + Trailer(h)
      /\ \A i \in 1 .. n : /\ c[o + (i - 1) * w + 1] = p.points[i]
                           /\ \A j \in 2 .. w : c[o + (i - 1) * w + j] = "added"
  <2> HIDE DEF p
  <2>1. QED
    BY <1>6, CellsOf
<1>8. o \in Nat /\ o >= 5 /\ w \in Nat /\ w >= 1 /\ Trailer(h) \in 0 .. 1 /\ n * w \in Nat
  BY <1>6, <1>7, WidthTypes
<1>9. Len(c) \in Nat /\ end[k] = s + Len(c) /\ \A j \in 1 .. Len(c) : X[s + j] = c[j]
  BY <1>1, <1>7, <1>8
<1> SUFFICES ASSUME m # s PROVE FALSE
  BY <1>5
<1>10. x \in 1 .. Len(c) /\ x # 1 /\ s + x = m + 1
  <2>1. s <= m /\ m < s + Len(c) /\ s \in Nat /\ Len(c) \in Nat
    BY <1>4, <1>5, <1>9
  <2> HIDE DEF c, s
  <2>2. QED
    BY <2>1
<1>11. c[x] = "1"
  <2> HIDE DEF x, c, s, X
  <2>1. X[s + x] = c[x]
    BY <1>9, <1>10
  <2>2. X[m + 1] = "1"
    BY <1>2
  <2>3. QED
    BY <1>10, <2>1, <2>2
<1>12. PICK i \in 1 .. n : x = o + (i - 1) * w + 1
  <2>1. x = 1 \/ \E i \in 1 .. Len(p.points) : x = HeadLen(h) + (i - 1) * Width(h) + 1
    <3> HIDE DEF x, p, h
    <3>1. QED
      BY <1>6, <1>10, <1>11, OnesOf DEF h
  <2>2. QED
    BY <1>10, <2>1
<1> HIDE DEF x, s, c, n, o, w, h, p, X
<1>13. w = 1
  <2> SUFFICES ASSUME w # 1 PROVE FALSE
    OBVIOUS
  <2>1. 2 \in 2 .. w
    BY <1>8
  <2>2. c[o + (i - 1) * w + 2] = "added"
    BY <1>7, <2>1
  <2> DEFINE a == (i - 1) * w
  <2>3. a \in Nat /\ a + w <= n * w
    <3>1. i - 1 \in Nat /\ i <= n /\ n \in Nat /\ i \in Nat
      BY <1>7
    <3>2. a \in Nat /\ a + w = i * w
      BY <1>8, <3>1
    <3>3. i * w <= n * w
      BY <1>8, <3>1
    <3>4. QED
      BY <3>2, <3>3
  <2>4. x = o + a + 1 /\ c[o + a + 2] = "added"
    BY <1>12, <2>2
  <2> HIDE DEF a
  <2>5. o + a + 2 = x + 1 /\ x + 1 \in 1 .. Len(c)
    BY <1>7, <1>8, <2>1, <2>3, <2>4
  <2>6. X[s + (x + 1)] = "added"
    BY <1>9, <2>4, <2>5
  <2>7. s + (x + 1) = m + 2
    BY <1>5, <1>10
  <2>8. QED
    BY <1>2, <2>6, <2>7
<1>14. x = o + i /\ n * w = n /\ Len(c) = o + n + Trailer(h) /\ i \in Nat /\ i >= 1 /\ i <= n
       /\ \A l \in 1 .. n : c[o + l] = p.points[l]
  <2>1. \A l \in 1 .. n : o + (l - 1) * w + 1 = o + l
    BY <1>7, <1>8, <1>13
  <2>2. n * w = n
    BY <1>7, <1>13
  <2>3. Len(c) = o + n + Trailer(h)
    BY <1>7, <2>2
  <2>4. x = o + i
    BY <1>12, <2>1
  <2>5. QED
    BY <1>7, <2>1, <2>2, <2>3, <2>4
\* The points from the i-th on are what follows on the stream, as long as there are any.
<1>15. ASSUME NEW d \in 0 .. 3, i + d <= n PROVE X[m + 1 + d] = p.points[i + d]
  <2>1. i + d \in 1 .. n /\ o + (i + d) \in 1 .. Len(c)
    <3>1. i + d \in 1 .. n
      <4>1. n \in Nat /\ i \in Nat /\ i >= 1
        BY <1>7, <1>14
      <4>2. QED
        BY <1>15, <4>1
    <3>2. o + (i + d) \in 1 .. o + n + Trailer(h)
      BY <1>7, <1>8, <3>1
    <3>3. QED
      BY <1>14, <3>1, <3>2
  <2>2. X[s + (o + (i + d))] = p.points[i + d]
    BY <1>9, <1>14, <2>1
  <2>3. s + (o + (i + d)) = m + 1 + d
    <3>1. s + (o + i) = m + 1
      BY <1>10, <1>14
    <3>2. s \in Nat /\ o \in Nat /\ i \in Nat /\ d \in Nat
      BY <1>5, <1>8, <1>14
    <3>3. QED
      BY <3>1, <3>2
  <2>4. QED
    BY <2>2, <2>3
<1>16. ASSUME NEW d \in 1 .. 3, i + d = n + 1 PROVE FALSE
  <2>1. m + 1 + d = s + o + n * w + 1
    <3>1. s + (o + i) = m + 1
      BY <1>10, <1>14
    <3>2. s \in Nat /\ o \in Nat /\ i \in Nat /\ d \in Nat
      BY <1>5, <1>8, <1>14
    <3>3. m + 1 + d = s + o + n + 1
      <4>1. n \in Nat /\ i + d = n + 1
        BY <1>7, <1>16
      <4>2. QED
        BY <3>1, <3>2, <4>1
    <3>4. QED
      BY <1>14, <3>3
  <2>2. m + 1 + d \in Nat /\ m + 1 + d <= Len(X)
    BY <1>3 DEF X
  <2>3. X[m + 1 + d] \in {"1", "crc"}
    BY <1>6, <2>1, <2>2, BehindPoints DEF X, s, o, n, w, p, h
  <2>4. d = 1 \/ d = 2 \/ d = 3
    BY <1>16
  <2>5. X[m + 1 + d] \in {"A", "E", "B"}
    <3>1. m + 1 + 1 = m + 2 /\ m + 1 + 2 = m + 3 /\ m + 1 + 3 = m + 4
      OBVIOUS
    <3>2. QED
      BY <1>2, <2>4, <3>1
  <2>6. QED
    BY <2>3, <2>5
<1>17. CASE i + 3 <= n
  <2>1. /\ p.points[i + 0] = X[m + 1 + 0] /\ p.points[i + 1] = X[m + 1 + 1]
        /\ p.points[i + 2] = X[m + 1 + 2] /\ p.points[i + 3] = X[m + 1 + 3]
    <3>1. 0 \in 0 .. 3 /\ 1 \in 0 .. 3 /\ 2 \in 0 .. 3 /\ 3 \in 0 .. 3
      OBVIOUS
    <3>2. i + 0 <= n /\ i + 1 <= n /\ i + 2 <= n
      <4>1. i \in Nat /\ n \in Nat
        BY <1>7, <1>14
      <4>2. QED
        BY <1>17, <4>1
    <3>3. QED
      BY <1>15, <1>17, <3>1, <3>2
  <2>2. /\ m + 1 + 0 = m + 1 /\ m + 1 + 1 = m + 2 /\ m + 1 + 2 = m + 3 /\ m + 1 + 3 = m + 4
        /\ i + 0 = (i - 1) + 1 /\ i + 1 = (i - 1) + 2 /\ i + 2 = (i - 1) + 3 /\ i + 3 = (i - 1) + 4
    BY <1>14
  <2>3. /\ p.points[(i - 1) + 1] = "1" /\ p.points[(i - 1) + 2] = "A"
        /\ p.points[(i - 1) + 3] = "E" /\ p.points[(i - 1) + 4] = "B"
    BY <1>2, <2>1, <2>2
  <2>4. i - 1 \in Nat /\ (i - 1) + 4 <= n
    BY <1>14, <1>17
  <2>5. MagicAt(p.points, i - 1)
    BY <1>6, <2>3, <2>4, MagicMeans DEF n
  <2>6. i - 1 \in 0 .. Len(p.points) - Len(Magic)
    BY <1>7, <2>4, MagicCells DEF n
  <2>7. QED
    BY <2>5, <2>6 DEF Unspelled, p
<1>18. CASE ~(i + 3 <= n)
  <2>1. n + 1 - i \in 1 .. 3 /\ i + (n + 1 - i) = n + 1
    BY <1>7, <1>14, <1>18
  <2>2. QED
    BY <1>16, <2>1
<1>19. QED
  BY <1>17, <1>18

-----------------------------------------------------------------------------
(* The packets a reader should get                                           *)

LEMMA ReadableSteps ==
    ASSUME NEW r, NEW ps \in Seq(Frame), NEW b
    PROVE  LET u == Readable(r, ps, b)
           IN  /\ u[0] = <<>>
               /\ \A i \in 1 .. Len(ps) :
                     /\ u[i] = IF IsReadable(r, ps, b, i) THEN Append(u[i - 1], ps[i]) ELSE u[i - 1]
                     /\ u[i] \in Seq(Frame)
<1> DEFINE F(f, n) == [i \in 0 .. n |-> IF i = 0 THEN <<>>
                                         ELSE IF IsReadable(r, ps, b, i) THEN Append(f[i - 1], ps[i])
                                         ELSE f[i - 1]]
           T == {n \in Nat : \E f : f = F(f, n)}
           upTo == CHOOSE f : f = F(f, Len(ps))
<1>1. Len(ps) \in Nat /\ \A i \in 1 .. Len(ps) : ps[i] \in Frame
  BY LenProperties, ElementOfSeq
<1>2. 0 \in T
  <2> DEFINE g == [i \in 0 .. 0 |-> <<>>]
  <2>1. \A i \in 0 .. 0 : i = 0
    OBVIOUS
  <2>2. g = F(g, 0)
    BY <2>1
  <2> HIDE DEF F
  <2>3. QED
    BY <2>2
<1>3. ASSUME NEW n \in Nat, n \in T PROVE n + 1 \in T
  <2>1. PICK f : f = F(f, n)
    BY <1>3
  <2> DEFINE v == IF IsReadable(r, ps, b, n + 1) THEN Append(f[n], ps[n + 1]) ELSE f[n]
             g == [i \in 0 .. n + 1 |-> IF i = n + 1 THEN v ELSE f[i]]
             Step(q, i) == IF i = 0 THEN <<>>
                           ELSE IF IsReadable(r, ps, b, i) THEN Append(q[i - 1], ps[i])
                           ELSE q[i - 1]
  <2>2. \A i \in 0 .. n : f[i] = Step(f, i)
    BY <2>1
  <2>3. g[n + 1] = v /\ \A i \in 0 .. n : g[i] = f[i]
    OBVIOUS
  <2>4. v = Step(g, n + 1)
    <3>1. g[n] = f[n] /\ (n + 1) - 1 = n /\ n + 1 # 0
      BY <2>3
    <3> HIDE DEF g
    <3>2. QED
      BY <3>1
  <2>5. ASSUME NEW i \in 0 .. n PROVE Step(g, i) = Step(f, i)
    <3>1. i = 0 \/ i - 1 \in 0 .. n
      OBVIOUS
    <3>2. i = 0 \/ g[i - 1] = f[i - 1]
      BY <2>3, <3>1
    <3> HIDE DEF g
    <3>3. QED
      BY <3>2
  <2>6. \A i \in 0 .. n + 1 : g[i] = Step(g, i)
    <3> TAKE i \in 0 .. n + 1
    <3>1. i = n + 1 \/ i \in 0 .. n
      OBVIOUS
    <3> HIDE DEF g, v, Step
    <3>2. QED
      BY <2>2, <2>3, <2>4, <2>5, <3>1
  <2>7. g = F(g, n + 1)
    <3>1. g = [i \in 0 .. n + 1 |-> g[i]]
      OBVIOUS
    <3> HIDE DEF g
    <3>2. QED
      BY <2>6, <3>1
  <2> HIDE DEF g, F
  <2>8. QED
    BY <2>7
<1>4. Len(ps) \in T
  <2> HIDE DEF T
  <2>1. QED
    BY <1>1, <1>2, <1>3, FromZero
<1>5. upTo = F(upTo, Len(ps))
  <2> HIDE DEF F
  <2>1. QED
    BY <1>4
<1>6. Readable(r, ps, b) = upTo
  BY DEF Readable
<1> HIDE DEF upTo
<1>7. /\ upTo[0] = <<>>
      /\ \A i \in 1 .. Len(ps) :
            upTo[i] = IF IsReadable(r, ps, b, i) THEN Append(upTo[i - 1], ps[i]) ELSE upTo[i - 1]
  <2>1. 0 \in 0 .. Len(ps) /\ \A i \in 1 .. Len(ps) : i \in 0 .. Len(ps) /\ i # 0
    BY <1>1
  <2>2. QED
    BY <1>5, <2>1
<1> DEFINE U == {n \in Nat : n <= Len(ps) => upTo[n] \in Seq(Frame)}
<1>8. 0 \in U
  BY <1>7, EmptySeq
<1>9. ASSUME NEW n \in Nat, n \in U PROVE n + 1 \in U
  <2> SUFFICES ASSUME n + 1 <= Len(ps) PROVE upTo[n + 1] \in Seq(Frame)
    OBVIOUS
  <2>1. n + 1 \in 1 .. Len(ps) /\ (n + 1) - 1 = n /\ n <= Len(ps)
    BY <1>1
  <2>2. upTo[n] \in Seq(Frame) /\ ps[n + 1] \in Frame
    BY <1>1, <1>9, <2>1
  <2>3. Append(upTo[n], ps[n + 1]) \in Seq(Frame)
    BY <2>2, AppendProperties
  <2>4. QED
    BY <1>7, <2>1, <2>2, <2>3
<1>10. \A i \in 1 .. Len(ps) : upTo[i] \in Seq(Frame)
  <2>1. Nat \subseteq U
    <3> HIDE DEF U
    <3>1. QED
      BY <1>8, <1>9, FromZero
  <2>2. QED
    BY <1>1, <2>1
<1>11. QED
  BY <1>6, <1>7, <1>10

\* What is to be read of the first i packets is what is to be read of the
\* first j begins with; the rest is of the packets between.
Growth(r, ps, b, i, j) ==
    LET u == Readable(r, ps, b)
    IN  /\ u[i] \in Seq(Frame) /\ u[j] \in Seq(Frame) /\ Len(u[i]) <= Len(u[j])
        /\ \A x \in 1 .. Len(u[i]) : u[j][x] = u[i][x]
        /\ \A x \in Len(u[i]) + 1 .. Len(u[j]) :
              \E m \in i + 1 .. j : IsReadable(r, ps, b, m) /\ u[j][x] = ps[m]

LEMMA ReadableGrows ==
    ASSUME NEW r, NEW ps \in Seq(Frame), NEW b,
           NEW i \in 0 .. Len(ps), NEW j \in 0 .. Len(ps), i <= j
    PROVE  Growth(r, ps, b, i, j)
<1> DEFINE u == Readable(r, ps, b)
           Grown(n) == /\ Len(u[i]) <= Len(u[n])
                       /\ \A x \in 1 .. Len(u[i]) : u[n][x] = u[i][x]
                       /\ \A x \in Len(u[i]) + 1 .. Len(u[n]) :
                             \E m \in i + 1 .. n : IsReadable(r, ps, b, m) /\ u[n][x] = ps[m]
           T == {n \in Nat : i + n <= Len(ps) => Grown(i + n)}
<1>1. /\ u[0] = <<>>
      /\ \A k \in 1 .. Len(ps) :
            /\ u[k] = IF IsReadable(r, ps, b, k) THEN Append(u[k - 1], ps[k]) ELSE u[k - 1]
            /\ u[k] \in Seq(Frame)
  BY ReadableSteps
<1> HIDE DEF u
<1>2. Len(ps) \in Nat /\ \A k \in 1 .. Len(ps) : ps[k] \in Frame
  BY LenProperties, ElementOfSeq
<1>3. \A k \in 0 .. Len(ps) : u[k] \in Seq(Frame) /\ Len(u[k]) \in Nat
  <2> TAKE k \in 0 .. Len(ps)
  <2>1. k = 0 \/ k \in 1 .. Len(ps)
    BY <1>2
  <2>2. u[k] \in Seq(Frame)
    BY <1>1, <2>1, EmptySeq
  <2>3. QED
    BY <2>2, LenProperties
<1>4. 0 \in T
  <2>1. i + 0 = i /\ i \in 0 .. Len(ps) /\ Len(u[i]) \in Nat
    BY <1>3
  <2>2. Len(u[i]) + 1 .. Len(u[i]) = {}
    BY <2>1
  <2>3. Grown(i)
    BY <2>1, <2>2
  <2> HIDE DEF Grown
  <2>4. QED
    BY <2>1, <2>3
<1>5. ASSUME NEW n \in Nat, n \in T PROVE n + 1 \in T
  <2> HIDE DEF Grown
  <2> SUFFICES ASSUME i + (n + 1) <= Len(ps) PROVE Grown(i + (n + 1))
    OBVIOUS
  <2> USE DEF Grown
  <2> DEFINE k == i + n
  <2>1. k \in 0 .. Len(ps) /\ k + 1 \in 1 .. Len(ps) /\ (k + 1) - 1 = k /\ k + 1 = i + (n + 1)
        /\ i + n <= Len(ps) /\ k >= i
    BY <1>2
  <2>2. Grown(k)
    <3> HIDE DEF Grown
    <3>1. QED
      BY <1>5, <2>1
  <2> HIDE DEF k
  <2>3. u[k] \in Seq(Frame) /\ Len(u[k]) \in Nat /\ Len(u[i]) \in Nat /\ ps[k + 1] \in Frame
    BY <1>2, <1>3, <2>1
  <2>4. \A m \in i + 1 .. k : m \in i + 1 .. k + 1
    BY <2>1
  <2>5. CASE ~IsReadable(r, ps, b, k + 1)
    <3>1. u[k + 1] = u[k]
      BY <1>1, <2>1, <2>5
    <3>2. Grown(k + 1)
      BY <2>2, <2>4, <3>1
    <3> HIDE DEF Grown
    <3>3. QED
      BY <2>1, <3>2
  <2>6. CASE IsReadable(r, ps, b, k + 1)
    <3>1. u[k + 1] = Append(u[k], ps[k + 1])
      BY <1>1, <2>1, <2>6
    <3>2. /\ Len(u[k + 1]) = Len(u[k]) + 1 /\ u[k + 1][Len(u[k]) + 1] = ps[k + 1]
          /\ \A x \in 1 .. Len(u[k]) : u[k + 1][x] = u[k][x]
      BY <2>3, <3>1, AppendProperties
    <3>3. Len(u[i]) <= Len(u[k + 1])
      BY <2>2, <2>3, <3>2
    <3>4. ASSUME NEW x \in 1 .. Len(u[i]) PROVE u[k + 1][x] = u[i][x]
      <4>1. x \in 1 .. Len(u[k])
        BY <2>2, <2>3
      <4>2. QED
        BY <2>2, <3>2, <4>1
    <3>5. ASSUME NEW x \in Len(u[i]) + 1 .. Len(u[k + 1])
          PROVE  \E m \in i + 1 .. k + 1 : IsReadable(r, ps, b, m) /\ u[k + 1][x] = ps[m]
      <4>1. x = Len(u[k]) + 1 \/ (x \in Len(u[i]) + 1 .. Len(u[k]) /\ x \in 1 .. Len(u[k]))
        BY <2>3, <3>2
      <4>2. k + 1 \in i + 1 .. k + 1
        BY <2>1
      <4>3. CASE x = Len(u[k]) + 1
        BY <2>6, <3>2, <4>2, <4>3
      <4>4. CASE x \in Len(u[i]) + 1 .. Len(u[k]) /\ x \in 1 .. Len(u[k])
        <5>1. PICK m \in i + 1 .. k : IsReadable(r, ps, b, m) /\ u[k][x] = ps[m]
          BY <2>2, <4>4
        <5>2. QED
          BY <2>4, <3>2, <4>4, <5>1
      <4>5. QED
        BY <4>1, <4>3, <4>4
    <3>6. Grown(k + 1)
      BY <3>3, <3>4, <3>5
    <3> HIDE DEF Grown
    <3>7. QED
      BY <2>1, <3>6
  <2>7. QED
    BY <2>5, <2>6
<1>6. Grown(j)
  <2>1. j - i \in Nat /\ i + (j - i) = j
    BY <1>2
  <2>2. j - i \in T
    <3> HIDE DEF T
    <3>1. QED
      BY <1>4, <1>5, <2>1, FromZero
  <2> HIDE DEF Grown
  <2>3. QED
    BY <2>1, <2>2
<1>7. QED
  BY <1>3, <1>6 DEF Growth, u

-----------------------------------------------------------------------------
(* The readers                                                               *)

\* Cells of the stream that the reader is done with.
Passed == Len(Stream(sent)) - Len(wire) - Len(buffer)

ReaderTypes ==
    /\ reader \in Readers /\ draining \in BOOLEAN
    /\ sent \in [1 .. Packets -> Sendable]
    /\ begun \in 0 .. Len(Cells(sent[1])) - 1
    /\ wire \in Seq(AllCells) /\ buffer \in Seq(AllCells)

\* Behind what was passed the buffer goes on, and behind the buffer the wire.
Window ==
    /\ begun <= Passed
    /\ \A i \in 1 .. Len(buffer) : buffer[i] = Stream(sent)[Passed + i]
    /\ \A i \in 1 .. Len(wire) : wire[i] = Stream(sent)[Passed + Len(buffer) + i]

\* What was handed on is what u asks for.
HandedOn(r, fs, u) ==
    /\ fs \in Seq({Shown(r, f) : f \in Frame}) /\ Len(fs) = Len(u)
    /\ \A i \in 1 .. Len(u) : fs[i] = Shown(r, u[i])

\* Every packet up to the k-th was decoded or refused.  The reader stands
\* behind the k-th, or within it if it could not be used.
DoneWith(k) ==
    /\ Passed <= End(sent)[k] /\ (k > 0 => End(sent)[k - 1] < Passed)
    /\ k > 0 /\ IsReadable(reader, sent, begun, k) => Passed = End(sent)[k]
    /\ HandedOn(reader, frames, Readable(reader, sent, begun)[k])

Progress == Decidable => \E k \in 0 .. Len(sent) : DoneWith(k)

\* Out of the loop the reader waits for cells, or has just searched.
Idle ==
    ~draining =>
        \/ Status(buffer) = "NeedMoreData"
        \/ reader = "viewer" /\ (Decidable => Resynchronises)

ReaderIInv == ReaderTypes /\ Window /\ Progress /\ Idle

LEMMA SentFacts ==
    ASSUME ReaderTypes
    PROVE  /\ sent \in Seq(Frame) /\ Len(sent) = Packets /\ Packets \in Nat \ {0}
           /\ \A i \in 1 .. Len(sent) : sent[i] \in Sendable /\ sent[i] \in Frame
           /\ LaidOut(sent, End(sent))
           /\ \A i \in 0 .. Len(sent) : End(sent)[i] \in Nat
           /\ Stream(sent) \in Seq(AllCells) /\ Len(Stream(sent)) \in Nat
           /\ Len(Stream(sent)) = End(sent)[Len(sent)]
           /\ Len(wire) \in Nat /\ Len(buffer) \in Nat
<1>1. Packets \in Nat \ {0} /\ sent \in [1 .. Packets -> Sendable]
  BY BoundsAssumption DEF ReaderTypes
<1>2. \A i \in 1 .. Packets : sent[i] \in Sendable /\ sent[i] \in Frame
  BY <1>1, SentTypes
<1>3. sent \in [1 .. Packets -> Frame]
  BY <1>1, <1>2
<1>4. sent \in Seq(Frame) /\ Len(sent) = Packets
  BY <1>1, <1>3, SeqDef
<1>5. LaidOut(sent, End(sent))
  BY <1>4, EndOf
<1>6. /\ \A i \in 0 .. Len(sent) : End(sent)[i] \in Nat
      /\ Stream(sent) \in Seq(AllCells) /\ Len(Stream(sent)) = End(sent)[Len(sent)]
  BY <1>5 DEF LaidOut
<1>7. Len(wire) \in Nat /\ Len(buffer) \in Nat /\ Len(Stream(sent)) \in Nat
  BY <1>6, LenProperties DEF ReaderTypes
<1>8. QED
  BY <1>1, <1>2, <1>4, <1>5, <1>6, <1>7

\* Where a packet begins there is its magic, and its cells follow.
LEMMA AtStart ==
    ASSUME ReaderTypes, NEW k \in 1 .. Len(sent)
    PROVE  LET c == Cells(sent[k])
               x == End(sent)[k - 1]
           IN  /\ x \in Nat /\ End(sent)[k] = x + Len(c) /\ Len(c) \in Nat /\ Len(c) >= 5
               /\ End(sent)[k] <= Len(Stream(sent))
               /\ \A j \in 1 .. Len(c) : Stream(sent)[x + j] = c[j]
               /\ MagicAt(Stream(sent), x)
<1> DEFINE c == Cells(sent[k])
           x == End(sent)[k - 1]
           h == Layouts[sent[k].header]
           X == Stream(sent)
<1>1. /\ sent \in Seq(Frame) /\ Len(sent) \in Nat /\ sent[k] \in Frame /\ LaidOut(sent, End(sent))
      /\ k - 1 \in 0 .. Len(sent) /\ k \in 0 .. Len(sent) /\ k <= Len(sent)
      /\ Len(sent) \in 0 .. Len(sent)
  <2>1. Len(sent) \in Nat
    BY SentFacts
  <2>2. QED
    BY <2>1, SentFacts
<1>2. /\ x \in Nat /\ End(sent)[k] \in Nat /\ X \in Seq(AllCells) /\ Len(X) \in Nat
      /\ Len(X) = End(sent)[Len(sent)]
  BY <1>1, SentFacts
<1>3. End(sent)[k] = x + Len(c) /\ \A j \in 1 .. Len(c) : X[x + j] = c[j]
  BY <1>1 DEF LaidOut
<1>4. h \in Fields /\ Len(c) \in Nat /\ Len(c) >= 5
  BY <1>1, PacketCells
<1>5. End(sent)[k] <= Len(X)
  <2>1. CASE k = Len(sent)
    BY <1>2, <2>1
  <2>2. CASE k # Len(sent)
    <3>1. k < Len(sent)
      BY <1>1, <2>2
    <3>2. End(sent)[k] + 5 <= End(sent)[Len(sent)]
      <4>1. \A i \in 0 .. Len(sent), j \in 0 .. Len(sent) : i < j => End(sent)[i] + 5 <= End(sent)[j]
        BY <1>1, StartsApart
      <4>2. QED
        BY <1>1, <3>1, <4>1
    <3>3. QED
      BY <1>2, <3>2
  <2>3. QED
    BY <2>1, <2>2
<1>6. c[1] = "1" /\ c[2] = "A" /\ c[3] = "E" /\ c[4] = "B"
  BY <1>1, <1>4, CellsOf
<1> HIDE DEF c, x, X, h
<1>7. X[x + 1] = "1" /\ X[x + 2] = "A" /\ X[x + 3] = "E" /\ X[x + 4] = "B"
  <2>1. 1 \in 1 .. Len(c) /\ 2 \in 1 .. Len(c) /\ 3 \in 1 .. Len(c) /\ 4 \in 1 .. Len(c)
    BY <1>4
  <2>2. QED
    BY <1>3, <1>6, <2>1
<1>8. x + 4 <= Len(X)
  <2>1. x + Len(c) <= Len(X)
    BY <1>3, <1>5
  <2>2. QED
    BY <1>2, <1>4, <2>1
<1>9. MagicAt(X, x)
  BY <1>2, <1>7, <1>8, MagicMeans
<1>10. QED
  BY <1>2, <1>3, <1>4, <1>5, <1>9 DEF c, x, X

\* A magic in the buffer is one on the stream.
LEMMA BufferMagic ==
    ASSUME ReaderTypes, Window, NEW i \in Nat, i + 4 <= Len(buffer)
    PROVE  /\ Passed \in Nat /\ Passed + i \in Nat /\ (Passed + i) + 4 <= Len(Stream(sent))
           /\ MagicAt(buffer, i) <=> MagicAt(Stream(sent), Passed + i)
<1> DEFINE X == Stream(sent)
           P == Passed
<1>1. /\ X \in Seq(AllCells) /\ Len(X) \in Nat /\ Len(wire) \in Nat /\ Len(buffer) \in Nat
      /\ buffer \in Seq(AllCells) /\ begun \in Nat
  <2>1. begun \in Nat
    BY DEF ReaderTypes
  <2>2. QED
    BY <2>1, SentFacts DEF ReaderTypes
<1>2. P = Len(X) - Len(wire) - Len(buffer) /\ begun <= P
  BY DEF Window, Passed
<1>3. \A j \in 1 .. Len(buffer) : buffer[j] = X[P + j]
  BY DEF Window
<1> HIDE DEF P, X
<1>4. P \in Nat /\ P + Len(buffer) <= Len(X)
  BY <1>1, <1>2
<1>5. P + i \in Nat /\ (P + i) + 4 <= Len(X)
  BY <1>1, <1>4
<1>6. \A d \in 1 .. 4 : i + d \in 1 .. Len(buffer) /\ P + (i + d) = (P + i) + d
  BY <1>1, <1>4
<1>7. \A d \in 1 .. 4 : buffer[i + d] = X[(P + i) + d]
  BY <1>3, <1>6
<1>8. 1 \in 1 .. 4 /\ 2 \in 1 .. 4 /\ 3 \in 1 .. 4 /\ 4 \in 1 .. 4
  OBVIOUS
<1>9. /\ buffer[i + 1] = X[(P + i) + 1] /\ buffer[i + 2] = X[(P + i) + 2]
      /\ buffer[i + 3] = X[(P + i) + 3] /\ buffer[i + 4] = X[(P + i) + 4]
  BY <1>7, <1>8
<1>10. MagicAt(buffer, i) <=>
         buffer[i + 1] = "1" /\ buffer[i + 2] = "A" /\ buffer[i + 3] = "E" /\ buffer[i + 4] = "B"
  BY <1>1, MagicMeans
<1>11. MagicAt(X, P + i) <=>
         /\ X[(P + i) + 1] = "1" /\ X[(P + i) + 2] = "A"
         /\ X[(P + i) + 3] = "E" /\ X[(P + i) + 4] = "B"
  BY <1>1, <1>5, MagicMeans
<1>12. QED
  BY <1>4, <1>5, <1>9, <1>10, <1>11 DEF P, X

\* A search passes at least one cell, and no magic; it stops at the next one
\* or with the last three cells.
LEMMA SearchEnds ==
    ASSUME NEW b \in Seq(AllCells), Len(b) >= 5
    PROVE  \E n \in 1 .. Len(b) :
              /\ Resynchronise(b) = Drop(b, n)
              /\ n + 3 <= Len(b)
              /\ \A i \in 1 .. n - 1 : ~MagicAt(b, i)
<1> DEFINE found == {i \in SearchFrom .. (Len(b) - Len(Magic)) : MagicAt(b, i)}
           first == CHOOSE i \in found : \A j \in found : i <= j
<1>1. Len(b) \in Nat /\ Len(Magic) = 4 /\ SearchFrom = 1 /\ Keep = 3
  BY MagicCells, LenProperties DEF SearchFrom, Keep
<1>2. \A i \in 1 .. Len(b) - 4 : MagicAt(b, i) => i \in found
  BY <1>1
<1>3. found \subseteq 1 .. Len(b) - 4 /\ \A i \in found : MagicAt(b, i)
  BY <1>1
<1>4. CASE found # {}
  <2>1. Resynchronise(b) = Drop(b, first)
    BY <1>4 DEF Resynchronise
  <2>2. found \in SUBSET Nat
    BY <1>1, <1>3
  <2> HIDE DEF found
  <2>3. \E i \in found : \A j \in found : i <= j
    BY <1>4, <2>2, Least
  <2>4. first \in found /\ \A j \in found : first <= j
    BY <2>3
  <2> HIDE DEF first
  <2>5. first \in 1 .. Len(b) /\ first + 3 <= Len(b)
    BY <1>1, <1>3, <2>4
  <2>6. ASSUME NEW i \in 1 .. first - 1, MagicAt(b, i) PROVE FALSE
    <3>1. i \in 1 .. Len(b) - 4 /\ ~(first <= i)
      BY <1>1, <1>3, <2>4
    <3>2. QED
      BY <1>2, <2>4, <2>6, <3>1
  <2>7. QED
    BY <2>1, <2>5, <2>6
<1>5. CASE found = {}
  <2>1. Resynchronise(b) = Drop(b, Len(b) - 3)
    BY <1>1, <1>5 DEF Resynchronise
  <2>2. Len(b) - 3 \in 1 .. Len(b) /\ (Len(b) - 3) + 3 <= Len(b)
    BY <1>1
  <2>3. ASSUME NEW i \in 1 .. (Len(b) - 3) - 1 PROVE ~MagicAt(b, i)
    <3>1. i \in 1 .. Len(b) - 4
      BY <1>1
    <3>2. QED
      BY <1>2, <1>5, <3>1
  <2>4. QED
    BY <2>1, <2>2, <2>3
<1>6. QED
  BY <1>4, <1>5

LEMMA DropCells ==
    ASSUME NEW S, NEW b \in Seq(S), NEW n \in 0 .. Len(b)
    PROVE  /\ Drop(b, n) \in Seq(S) /\ Len(Drop(b, n)) = Len(b) - n
           /\ \A i \in 1 .. Len(b) - n : Drop(b, n)[i] = b[n + i]
<1>1. Len(b) \in Nat
  BY LenProperties
<1>2. n + 1 \in 1 .. Len(b) + 1 /\ Len(b) \in (n + 1) - 1 .. Len(b)
  BY <1>1
<1>3. /\ SubSeq(b, n + 1, Len(b)) \in Seq(S)
      /\ Len(SubSeq(b, n + 1, Len(b))) = IF n + 1 <= Len(b) THEN Len(b) - (n + 1) + 1 ELSE 0
      /\ \A i \in 1 .. Len(b) - (n + 1) + 1 : SubSeq(b, n + 1, Len(b))[i] = b[(n + 1) + i - 1]
  BY <1>2, SubSeqProperties
<1>4. (n + 1 <= Len(b) => Len(b) - (n + 1) + 1 = Len(b) - n) /\ (~(n + 1 <= Len(b)) => Len(b) - n = 0)
      /\ Len(b) - (n + 1) + 1 = Len(b) - n
  BY <1>1
<1>5. \A i \in 1 .. Len(b) - n : (n + 1) + i - 1 = n + i
  BY <1>1
<1>6. QED
  BY <1>3, <1>4, <1>5 DEF Drop

\* The header cell of a buffer.
LEMMA HeaderType == ASSUME NEW b PROVE HeaderOf(b) \in Fields /\ PacketSize(HeaderOf(b)) \in Nat
<1>1. NoHeader \in Fields
  BY DEF NoHeader, Fields
<1>2. HeaderOf(b) \in Fields
  BY <1>1, LayoutsAssumption DEF HeaderOf
<1> DEFINE h == HeaderOf(b)
<1>3. h.header \in Nat /\ h.count \in Nat /\ h.stride \in Nat /\ Trailer(h) \in 0 .. 1
  BY <1>2, WidthTypes DEF Fields
<1> HIDE DEF h
<1>4. h.count * h.stride \in Nat
  BY <1>3
<1>5. PacketSize(h) \in Nat
  BY <1>3, <1>4 DEF PacketSize
<1>6. QED
  BY <1>2, <1>5 DEF h

LEMMA StatusMeans ==
    ASSUME NEW b \in Seq(AllCells)
    PROVE  /\ Status(b) \in {"Ok", "NeedMoreData", "BadMagic", "BadHeader"}
           /\ Status(b) = "Ok" =>
                /\ Len(b) >= 5 /\ MagicAt(b, 0) /\ Usable(reader, HeaderOf(b))
                /\ PacketSize(HeaderOf(b)) <= Len(b)
           /\ Status(b) = "BadHeader" => Len(b) >= 5 /\ MagicAt(b, 0) /\ ~Usable(reader, HeaderOf(b))
           /\ Status(b) = "BadMagic" => Len(b) >= 5 /\ ~MagicAt(b, 0)
           /\ Status(b) = "NeedMoreData" =>
                \/ Len(b) < 5
                \/ /\ MagicAt(b, 0) /\ Usable(reader, HeaderOf(b))
                   /\ Len(b) < PacketSize(HeaderOf(b))
<1>1. Len(b) \in Nat /\ HeaderSize = 5 /\ PacketSize(HeaderOf(b)) \in Nat
  BY MagicCells, LenProperties, HeaderType
<1>2. Status(b) = IF Len(b) < 5 THEN "NeedMoreData"
                  ELSE IF ~MagicAt(b, 0) THEN "BadMagic"
                  ELSE IF ~Usable(reader, HeaderOf(b)) THEN "BadHeader"
                  ELSE IF Len(b) < PacketSize(HeaderOf(b)) THEN "NeedMoreData"
                  ELSE "Ok"
  BY <1>1 DEF Status
<1>3. CASE Len(b) < 5
  BY <1>2, <1>3
<1>4. CASE ~(Len(b) < 5) /\ ~MagicAt(b, 0)
  BY <1>1, <1>2, <1>4
<1>5. CASE ~(Len(b) < 5) /\ MagicAt(b, 0) /\ ~Usable(reader, HeaderOf(b))
  BY <1>1, <1>2, <1>5
<1>6. CASE ~(Len(b) < 5) /\ MagicAt(b, 0) /\ Usable(reader, HeaderOf(b))
  BY <1>1, <1>2, <1>6
<1>7. QED
  BY <1>3, <1>4, <1>5, <1>6

\* A packet as the reader sees it when it stands at its beginning.
LEMMA PacketAtHead ==
    ASSUME ReaderTypes, Window, NEW k \in 0 .. Len(sent), k < Len(sent),
           Passed = End(sent)[k], Len(buffer) >= 5
    PROVE  LET p == sent[k + 1]
               h == HeaderOf(buffer)
           IN  /\ MagicAt(buffer, 0) /\ h = Layouts[p.header]
               /\ Usable(reader, h) => PacketSize(h) = Len(Cells(p))
               /\ Usable(reader, h) /\ PacketSize(h) <= Len(buffer) => FrameAt(buffer) = p
<1> DEFINE p == sent[k + 1]
           h == Layouts[p.header]
           c == Cells(p)
           X == Stream(sent)
<1>1. /\ k + 1 \in 1 .. Len(sent) /\ (k + 1) - 1 = k /\ p \in Sendable /\ p \in Frame
      /\ Len(buffer) \in Nat /\ buffer \in Seq(AllCells)
  <2>1. Len(sent) \in Nat
    BY SentFacts
  <2>2. k + 1 \in 1 .. Len(sent) /\ (k + 1) - 1 = k
    BY <2>1
  <2>3. QED
    BY <2>2, SentFacts DEF ReaderTypes
<1>2. /\ Passed \in Nat /\ Len(c) \in Nat /\ Len(c) >= 5 /\ MagicAt(X, Passed)
      /\ \A j \in 1 .. Len(c) : X[Passed + j] = c[j]
  BY <1>1, AtStart
<1>3. MagicAt(buffer, 0)
  <2>1. 0 \in Nat /\ 0 + 4 <= Len(buffer) /\ Passed + 0 = Passed
    BY <1>1, <1>2
  <2>2. QED
    BY <1>2, <2>1, BufferMagic
<1>4. \A j \in 1 .. Len(buffer) : j <= Len(c) => buffer[j] = c[j]
  <2>1. \A j \in 1 .. Len(buffer) : buffer[j] = X[Passed + j]
    BY DEF Window
  <2>2. \A j \in 1 .. Len(buffer) : j <= Len(c) => j \in 1 .. Len(c)
    BY <1>1, <1>2
  <2> HIDE DEF X, c
  <2>3. QED
    BY <1>2, <2>1, <2>2
<1>5. h \in Fields /\ p.header \in DOMAIN Layouts /\ p.points \in Seq(PointCells)
  BY <1>1, PacketCells DEF Frame
<1>6. /\ Len(p.points) \in Nat /\ Len(c) = HeadLen(h) + Len(p.points) * Width(h) + Trailer(h)
      /\ c[5] = p.header
      /\ \A i \in 1 .. Len(p.points) : c[HeadLen(h) + (i - 1) * Width(h) + 1] = p.points[i]
  BY <1>1, <1>5, CellsOf
<1>7. buffer[5] = p.header
  <2>1. 5 \in 1 .. Len(buffer) /\ 5 <= Len(c)
    BY <1>1, <1>2
  <2>2. QED
    BY <1>4, <1>6, <2>1
<1>8. HeaderOf(buffer) = h
  BY <1>5, <1>7, MagicCells DEF HeaderOf
<1>9. ASSUME Usable(reader, h)
      PROVE  /\ HeadLen(h) = h.header /\ Width(h) = h.stride /\ h.count = Len(p.points)
             /\ PacketSize(h) = Len(c)
  <2>1. h.header \in Nat /\ h.stride \in Nat /\ h.count \in Nat
    BY <1>5 DEF Fields
  <2>2. h.header >= 5 /\ h.stride >= 1 /\ CountAllowed(h)
    BY <1>9, MagicCells DEF Usable
  <2>3. HeadLen(h) = h.header /\ Width(h) = h.stride
    BY <2>1, <2>2, MagicCells DEF HeadLen, Width
  <2>4. h.count = Len(p.points)
    BY <1>1, <2>2, SentTypes
  <2>5. PacketSize(h) = HeadLen(h) + Len(p.points) * Width(h) + Trailer(h)
    BY <2>3, <2>4 DEF PacketSize
  <2>6. QED
    BY <1>6, <2>3, <2>4, <2>5
<1>10. ASSUME Usable(reader, h), PacketSize(h) <= Len(buffer)
       PROVE  FrameAt(buffer) = p
  <2>1. Len(c) <= Len(buffer) /\ h.count = Len(p.points) /\ HeadLen(h) = h.header /\ Width(h) = h.stride
    BY <1>9, <1>10
  <2>2. ASSUME NEW i \in 1 .. h.count PROVE buffer[PointAt(h, i)] = p.points[i]
    <3> DEFINE x == HeadLen(h) + (i - 1) * Width(h) + 1
    <3>1. PointAt(h, i) = x /\ c[x] = p.points[i]
      BY <1>6, <2>1 DEF PointAt
    <3>2. x \in 1 .. Len(c)
      <4>1. HeadLen(h) \in Nat /\ Width(h) \in Nat /\ Width(h) >= 1 /\ Trailer(h) \in 0 .. 1
        BY <1>5, WidthTypes
      <4>2. i \in Nat /\ i >= 1 /\ i <= Len(p.points) /\ i - 1 \in Nat
        BY <1>6, <2>1
      <4>3. (i - 1) * Width(h) + Width(h) = i * Width(h) /\ i * Width(h) <= Len(p.points) * Width(h)
            /\ (i - 1) * Width(h) \in Nat /\ i * Width(h) \in Nat /\ Len(p.points) * Width(h) \in Nat
        <5>1. \A j \in Nat, n \in Nat, w \in Nat : j >= 1 /\ j <= n =>
                /\ (j - 1) * w + w = j * w /\ j * w <= n * w
                /\ (j - 1) * w \in Nat /\ j * w \in Nat /\ n * w \in Nat
          OBVIOUS
        <5>2. Len(p.points) \in Nat
          BY <1>6
        <5>3. QED
          BY <4>1, <4>2, <5>1, <5>2
      <4> DEFINE a == (i - 1) * Width(h)
                 z == Len(p.points) * Width(h)
      <4>4. a \in Nat /\ z \in Nat /\ a + Width(h) <= z /\ Len(c) = HeadLen(h) + z + Trailer(h)
            /\ x = HeadLen(h) + a + 1
        BY <1>6, <4>3
      <4> HIDE DEF a, z, x
      <4>5. QED
        BY <4>1, <4>4
    <3> HIDE DEF x
    <3>3. x \in 1 .. Len(buffer) /\ x <= Len(c)
      BY <1>1, <1>2, <2>1, <3>2
    <3>4. QED
      BY <1>4, <3>1, <3>3
  <2>3. p.points = [i \in 1 .. h.count |-> p.points[i]]
    BY <1>5, <2>1, LenProperties
  <2>4. [i \in 1 .. h.count |-> buffer[PointAt(h, i)]] = p.points
    BY <2>2, <2>3
  <2>5. p = [header |-> p.header, points |-> p.points]
    BY <1>1 DEF Frame
  <2>6. FrameAt(buffer) = [header |-> buffer[5], points |-> [i \in 1 .. h.count |-> buffer[PointAt(h, i)]]]
    BY <1>8, MagicCells DEF FrameAt
  <2> HIDE DEF p, h
  <2>7. QED
    BY <1>7, <2>4, <2>5, <2>6
<1>11. QED
  BY <1>3, <1>8, <1>9, <1>10

\* A packet that is passed over makes the reader search.
LEMMA PassedOver ==
    ASSUME ReaderTypes, NEW k \in 1 .. Len(sent), ~IsReadable(reader, sent, begun, k)
    PROVE  Resynchronises
<1>1. begun \in Nat
  BY DEF ReaderTypes
<1>2. (k <= 1 /\ begun # 0) \/ ~Usable(reader, Layouts[sent[k].header])
  BY DEF IsReadable
<1>3. begun # 0 => begun > 0
  BY <1>1
<1>4. QED
  BY <1>2, <1>3 DEF Resynchronises

\* With a magic before it the reader stands at the beginning of a packet, and
\* without one within a packet that it passes over.
LEMMA Standing ==
    ASSUME ReaderTypes, Window, Decidable, NEW k \in 0 .. Len(sent), DoneWith(k), Len(buffer) >= 5
    PROVE  /\ MagicAt(buffer, 0) => k < Len(sent) /\ Passed = End(sent)[k]
           /\ ~MagicAt(buffer, 0) =>
                k > 0 /\ Passed < End(sent)[k] /\ ~IsReadable(reader, sent, begun, k)
<1> DEFINE end == End(sent)
<1>1. /\ sent \in Seq(Frame) /\ Len(sent) \in Nat /\ LaidOut(sent, end)
      /\ \A i \in 0 .. Len(sent) : end[i] \in Nat
      /\ Len(Stream(sent)) = end[Len(sent)] /\ end[0] = 0
  <2>1. LaidOut(sent, end) => end[0] = 0
    BY DEF LaidOut
  <2>2. QED
    BY <2>1, SentFacts
<1>2. /\ Passed \in Nat /\ Passed + 4 <= Len(Stream(sent))
      /\ MagicAt(buffer, 0) <=> MagicAt(Stream(sent), Passed)
  <2>1. 0 \in Nat /\ 0 + 4 <= Len(buffer)
    <3>1. Len(buffer) \in Nat
      BY SentFacts
    <3>2. QED
      BY <3>1
  <2>2. Passed \in Nat => Passed + 0 = Passed
    OBVIOUS
  <2>3. QED
    BY <2>1, <2>2, BufferMagic
<1>3. /\ Passed <= end[k] /\ (k > 0 => end[k - 1] < Passed)
      /\ k > 0 /\ IsReadable(reader, sent, begun, k) => Passed = end[k]
  BY DEF DoneWith
<1> HIDE DEF end
<1>4. Passed = end[k] => k < Len(sent)
  <2>1. Passed < end[Len(sent)]
    BY <1>1, <1>2
  <2>2. QED
    BY <1>1, <2>1
<1>5. Passed # end[k] => k > 0 /\ Passed < end[k] /\ ~IsReadable(reader, sent, begun, k)
  <2>1. end[k] \in Nat
    BY <1>1
  <2>2. QED
    BY <1>1, <1>2, <1>3, <2>1
<1>6. Passed = end[k] => MagicAt(buffer, 0)
  <2> SUFFICES ASSUME Passed = end[k] PROVE MagicAt(Stream(sent), Passed)
    BY <1>2
  <2>1. k + 1 \in 1 .. Len(sent) /\ (k + 1) - 1 = k
    BY <1>1, <1>4
  <2>2. MagicAt(Stream(sent), end[(k + 1) - 1])
    BY <2>1, AtStart DEF end
  <2>3. QED
    BY <2>1, <2>2
<1>7. Passed # end[k] => ~MagicAt(buffer, 0)
  <2> SUFFICES ASSUME Passed # end[k], MagicAt(Stream(sent), Passed) PROVE FALSE
    BY <1>2
  <2>1. k \in 1 .. Len(sent)
    BY <1>1, <1>5
  <2>2. Resynchronises
    BY <1>5, <2>1, PassedOver
  <2>3. Unspelled(sent)
    BY <2>2 DEF Decidable, Spelled, Unspelled
  <2>4. PICK j \in 0 .. Len(sent) : j < Len(sent) /\ Passed = end[j]
    BY <1>1, <1>2, <2>3, MagicOnlyAtStarts
  <2>5. end[k - 1] < end[j] /\ end[j] < end[k] /\ k - 1 \in 0 .. Len(sent)
        /\ end[k - 1] \in Nat /\ end[j] \in Nat /\ end[k] \in Nat
    <3>1. k - 1 \in 0 .. Len(sent)
      BY <1>1, <2>1
    <3>2. QED
      BY <1>1, <1>3, <1>5, <2>4, <3>1
  <2>6. \A a \in 0 .. Len(sent), b \in 0 .. Len(sent) : a < b => end[a] + 5 <= end[b]
    BY <1>1, StartsApart
  <2>7. j <= k - 1 \/ k <= j
    BY <1>1
  <2>8. CASE j <= k - 1
    <3>1. j = k - 1 \/ j < k - 1
      BY <1>1, <2>5, <2>8
    <3>2. j < k - 1 => end[j] + 5 <= end[k - 1]
      BY <2>5, <2>6
    <3>3. QED
      BY <2>5, <3>1, <3>2
  <2>9. CASE k <= j
    <3>1. j = k \/ k < j
      BY <1>1, <2>9
    <3>2. k < j => end[k] + 5 <= end[j]
      BY <2>6
    <3>3. QED
      BY <2>5, <3>1, <3>2
  <2>10. QED
    BY <2>7, <2>8, <2>9
<1>8. QED
  BY <1>4, <1>5, <1>6, <1>7 DEF end

\* The packet at which the reader cannot go on.
LEMMA RefusedPacket ==
    ASSUME ReaderTypes, Window, Decidable, Progress, Status(buffer) \in {"BadMagic", "BadHeader"}
    PROVE  /\ Resynchronises
           /\ \E k \in 1 .. Len(sent) :
                /\ End(sent)[k - 1] <= Passed /\ Passed < End(sent)[k]
                /\ ~IsReadable(reader, sent, begun, k)
                /\ HandedOn(reader, frames, Readable(reader, sent, begun)[k])
<1> DEFINE end == End(sent)
           u == Readable(reader, sent, begun)
<1>1. PICK k \in 0 .. Len(sent) : DoneWith(k)
  BY DEF Progress
<1>2. /\ Len(sent) \in Nat /\ \A i \in 0 .. Len(sent) : end[i] \in Nat
      /\ sent \in Seq(Frame) /\ Len(buffer) >= 5
      /\ Status(buffer) = "BadMagic" => ~MagicAt(buffer, 0)
      /\ Status(buffer) = "BadHeader" => MagicAt(buffer, 0) /\ ~Usable(reader, HeaderOf(buffer))
  <2>1. buffer \in Seq(AllCells)
    BY DEF ReaderTypes
  <2>2. QED
    BY <2>1, SentFacts, StatusMeans
<1>3. /\ Passed <= end[k] /\ (k > 0 => end[k - 1] < Passed) /\ Passed \in Nat
      /\ HandedOn(reader, frames, u[k])
  <2>1. 0 \in Nat /\ 0 + 4 <= Len(buffer)
    <3>1. Len(buffer) \in Nat
      BY SentFacts
    <3>2. QED
      BY <1>2, <3>1
  <2>2. Passed \in Nat
    BY <2>1, BufferMagic
  <2>3. QED
    BY <1>1, <2>2 DEF DoneWith
<1>4. CASE Status(buffer) = "BadMagic"
  <2>1. k > 0 /\ Passed < end[k] /\ ~IsReadable(reader, sent, begun, k)
    BY <1>1, <1>2, <1>4, Standing
  <2> HIDE DEF end, u
  <2>2. k \in 1 .. Len(sent) /\ k - 1 \in 0 .. Len(sent)
    BY <1>2, <2>1
  <2>3. end[k - 1] <= Passed
    BY <1>2, <1>3, <2>1, <2>2
  <2>4. Resynchronises
    BY <2>1, <2>2, PassedOver
  <2>5. QED
    BY <1>3, <2>1, <2>2, <2>3, <2>4 DEF end, u
<1>5. CASE Status(buffer) = "BadHeader"
  <2>1. k < Len(sent) /\ Passed = end[k]
    BY <1>1, <1>2, <1>5, Standing
  <2>2. k + 1 \in 1 .. Len(sent) /\ (k + 1) - 1 = k
    BY <1>2, <2>1
  <2>3. HeaderOf(buffer) = Layouts[sent[k + 1].header]
    BY <1>2, <2>1, PacketAtHead
  <2>4. ~IsReadable(reader, sent, begun, k + 1)
    BY <1>2, <1>5, <2>3 DEF IsReadable
  <2>5. u[k + 1] = u[k]
    BY <1>2, <2>2, <2>4, ReadableSteps
  <2>6. end[k + 1] = end[k] + Len(Cells(sent[k + 1])) /\ Len(Cells(sent[k + 1])) \in Nat
        /\ Len(Cells(sent[k + 1])) >= 5
    BY <2>2, AtStart
  <2> HIDE DEF end, u
  <2>7. Passed < end[k + 1] /\ end[(k + 1) - 1] <= Passed
    BY <1>2, <1>3, <2>1, <2>2, <2>6
  <2>8. Resynchronises
    BY <2>2, <2>4, PassedOver
  <2>9. QED
    BY <1>3, <2>2, <2>4, <2>5, <2>7, <2>8 DEF end, u
<1>6. QED
  BY <1>4, <1>5

-----------------------------------------------------------------------------
(* The steps                                                                 *)

\* The window moves with what is taken from the buffer.
LEMMA Shift ==
    ASSUME ReaderTypes, Window, NEW n \in 0 .. Len(buffer), buffer' = Drop(buffer, n),
           UNCHANGED <<reader, sent, begun, wire>>
    PROVE  /\ Window' /\ Passed' = Passed + n
           /\ buffer' \in Seq(AllCells) /\ Len(buffer') = Len(buffer) - n
<1> DEFINE X == Stream(sent)
           P == Passed
           b == Drop(buffer, n)
<1>1. /\ Len(X) \in Nat /\ Len(wire) \in Nat /\ Len(buffer) \in Nat /\ begun \in Nat /\ n \in Nat
      /\ P = Len(X) - Len(wire) - Len(buffer) /\ begun <= P
      /\ \A i \in 1 .. Len(buffer) : buffer[i] = X[P + i]
      /\ \A i \in 1 .. Len(wire) : wire[i] = X[P + Len(buffer) + i]
  <2>1. begun \in Nat
    BY DEF ReaderTypes
  <2>2. Len(X) \in Nat /\ Len(wire) \in Nat /\ Len(buffer) \in Nat
    BY SentFacts
  <2>3. QED
    BY <2>1, <2>2 DEF Window, Passed
<1>2. /\ b \in Seq(AllCells) /\ Len(b) = Len(buffer) - n
      /\ \A i \in 1 .. Len(buffer) - n : b[i] = buffer[n + i]
  BY DropCells DEF ReaderTypes
<1>3. Passed' = Len(X) - Len(wire) - Len(b)
  BY DEF Passed
<1> HIDE DEF X, P, b
<1>4. P \in Nat /\ Len(X) - Len(wire) - Len(b) = P + n /\ begun <= P + n
  BY <1>1, <1>2
<1>5. \A i \in 1 .. Len(b) : b[i] = X[P + n + i]
  <2> TAKE i \in 1 .. Len(b)
  <2>1. i \in 1 .. Len(buffer) - n /\ n + i \in 1 .. Len(buffer) /\ P + (n + i) = P + n + i
    BY <1>1, <1>2, <1>4
  <2>2. b[i] = buffer[n + i] /\ buffer[n + i] = X[P + (n + i)]
    BY <1>1, <1>2, <2>1
  <2>3. QED
    BY <2>1, <2>2
<1>6. \A i \in 1 .. Len(wire) : wire[i] = X[P + n + Len(b) + i]
  <2>1. \A i \in 1 .. Len(wire) : P + n + Len(b) + i = P + Len(buffer) + i
    BY <1>1, <1>2, <1>4
  <2>2. QED
    BY <1>1, <2>1
<1>7. Passed' = P + n /\ Stream(sent)' = X /\ buffer' = b /\ wire' = wire /\ begun' = begun
  BY <1>3, <1>4 DEF X, b
<1>8. Window'
  BY <1>4, <1>5, <1>6, <1>7 DEF Window
<1>9. QED
  BY <1>2, <1>7, <1>8 DEF P

\* What was sent stays decidable or not.
LEMMA SameTruth ==
    ASSUME UNCHANGED <<reader, sent, begun>>
    PROVE  (Decidable <=> Decidable') /\ (Resynchronises <=> Resynchronises')
BY DEF Decidable, Resynchronises, Spelled

\* The reader passes over the rest of a packet.
LEMMA SkipWithin ==
    ASSUME ReaderTypes, NEW k \in 1 .. Len(sent), NEW n \in Nat, Passed \in Nat, n > 0,
           End(sent)[k - 1] <= Passed, Passed + n <= End(sent)[k],
           ~IsReadable(reader, sent, begun, k),
           HandedOn(reader, frames, Readable(reader, sent, begun)[k]),
           Passed' = Passed + n, UNCHANGED <<reader, sent, begun, frames>>
    PROVE  Progress'
<1>1. /\ Len(sent) \in Nat /\ k \in 0 .. Len(sent) /\ k - 1 \in 0 .. Len(sent)
      /\ End(sent)[k - 1] \in Nat /\ End(sent)[k] \in Nat
  <2>1. Len(sent) \in Nat
    BY SentFacts
  <2>2. k \in 0 .. Len(sent) /\ k - 1 \in 0 .. Len(sent)
    BY <2>1
  <2>3. QED
    BY <2>1, <2>2, SentFacts
<1>2. End(sent)[k - 1] < Passed + n
  BY <1>1
<1>3. End(sent)' = End(sent) /\ IsReadable(reader, sent, begun, k)' = IsReadable(reader, sent, begun, k)
      /\ Readable(reader, sent, begun)' = Readable(reader, sent, begun)
  OBVIOUS
<1>4. DoneWith(k)'
  BY <1>2, <1>3 DEF DoneWith
<1>5. QED
  BY <1>1, <1>4 DEF Progress

\* A search passes over what is left of the packet refused, and nothing else.
LEMMA SearchStep ==
    ASSUME ReaderTypes, Window, Progress, Status(buffer) \in {"BadMagic", "BadHeader"},
           buffer' = Resynchronise(buffer), UNCHANGED <<reader, sent, begun, wire, frames>>
    PROVE  Window' /\ Progress' /\ buffer' \in Seq(AllCells) /\ (Decidable => Resynchronises)
<1>1. buffer \in Seq(AllCells) /\ Len(buffer) >= 5 /\ Len(buffer) \in Nat
  <2>1. buffer \in Seq(AllCells) /\ Len(buffer) \in Nat
    BY SentFacts DEF ReaderTypes
  <2>2. QED
    BY <2>1, StatusMeans
<1>2. PICK n \in 1 .. Len(buffer) :
        /\ Resynchronise(buffer) = Drop(buffer, n) /\ n + 3 <= Len(buffer)
        /\ \A i \in 1 .. n - 1 : ~MagicAt(buffer, i)
  BY <1>1, SearchEnds
<1>3. n \in 0 .. Len(buffer) /\ n \in Nat /\ n > 0
  BY <1>1
<1>4. Window' /\ Passed' = Passed + n /\ buffer' \in Seq(AllCells)
  BY <1>2, <1>3, Shift
<1>5. ASSUME Decidable PROVE Progress' /\ Resynchronises
  <2>1. Resynchronises
    BY <1>5, RefusedPacket
  <2>2. PICK k \in 1 .. Len(sent) :
          /\ End(sent)[k - 1] <= Passed /\ Passed < End(sent)[k]
          /\ ~IsReadable(reader, sent, begun, k)
          /\ HandedOn(reader, frames, Readable(reader, sent, begun)[k])
    BY <1>5, RefusedPacket
  <2> DEFINE e == End(sent)[k]
             N == Len(Stream(sent))
             P == Passed
  <2>3. /\ N \in Nat /\ e \in Nat /\ P \in Nat /\ P + Len(buffer) <= N /\ P < e /\ e <= N
        /\ Len(sent) \in Nat
    <3>1. begun \in Nat /\ begun <= Passed /\ Passed = N - Len(wire) - Len(buffer)
      BY DEF ReaderTypes, Window, Passed
    <3>2. N \in Nat /\ Len(wire) \in Nat /\ Len(buffer) \in Nat /\ Len(sent) \in Nat
      BY SentFacts
    <3>3. e \in Nat /\ e <= N
      <4>1. k \in 0 .. Len(sent)
        BY <3>2
      <4>2. QED
        BY <4>1, SentFacts, AtStart
    <3> HIDE DEF N, e
    <3>4. QED
      BY <2>2, <3>1, <3>2, <3>3 DEF e
  <2>4. P + n <= e
    <3> SUFFICES ASSUME e < P + n PROVE FALSE
      <4> HIDE DEF e, P
      <4>1. QED
        BY <1>3, <2>3
    <3>1. k # Len(sent)
      <4>1. k = Len(sent) => e = N
        BY SentFacts
      <4> HIDE DEF e, N, P
      <4>2. QED
        BY <1>1, <1>3, <2>3, <4>1
    <3>2. k + 1 \in 1 .. Len(sent) /\ (k + 1) - 1 = k
      BY <2>3, <3>1
    <3>3. MagicAt(Stream(sent), e)
      BY <3>2, AtStart
    <3> DEFINE i == e - P
    <3> HIDE DEF e, N, P
    <3>4. i \in 1 .. n - 1 /\ i \in Nat /\ i + 4 <= Len(buffer) /\ P + i = e
      BY <1>1, <1>2, <1>3, <2>3
    <3> HIDE DEF i
    <3>5. MagicAt(buffer, i)
      BY <3>3, <3>4, BufferMagic DEF P
    <3>6. QED
      BY <1>2, <3>4, <3>5
  <2>5. Progress'
    BY <1>3, <1>4, <2>2, <2>3, <2>4, SkipWithin
  <2>6. QED
    BY <2>1, <2>5
<1>6. ~Decidable => Progress'
  BY SameTruth DEF Progress
<1>7. QED
  BY <1>4, <1>5, <1>6

LEMMA HandOn ==
    ASSUME NEW r, NEW fs, NEW u \in Seq(Frame), NEW p \in Frame, HandedOn(r, fs, u)
    PROVE  HandedOn(r, Append(fs, Shown(r, p)), Append(u, p))
<1> DEFINE S == {Shown(r, f) : f \in Frame}
           gs == Append(fs, Shown(r, p))
           v == Append(u, p)
<1>1. fs \in Seq(S) /\ Len(fs) = Len(u) /\ Len(u) \in Nat /\ Shown(r, p) \in S
      /\ \A i \in 1 .. Len(u) : fs[i] = Shown(r, u[i])
  BY LenProperties DEF HandedOn
<1>2. /\ gs \in Seq(S) /\ Len(gs) = Len(fs) + 1 /\ gs[Len(fs) + 1] = Shown(r, p)
      /\ \A i \in 1 .. Len(fs) : gs[i] = fs[i]
  <2> HIDE DEF S
  <2>1. QED
    BY <1>1, AppendProperties
<1>3. v \in Seq(Frame) /\ Len(v) = Len(u) + 1 /\ v[Len(u) + 1] = p
      /\ \A i \in 1 .. Len(u) : v[i] = u[i]
  BY AppendProperties
<1> HIDE DEF gs, v
<1>4. \A i \in 1 .. Len(v) : gs[i] = Shown(r, v[i])
  <2> TAKE i \in 1 .. Len(v)
  <2>1. i = Len(u) + 1 \/ i \in 1 .. Len(u)
    BY <1>1, <1>3
  <2>2. QED
    BY <1>1, <1>2, <1>3, <2>1
<1>5. HandedOn(r, gs, v)
  BY <1>1, <1>2, <1>3, <1>4 DEF HandedOn
<1>6. QED
  BY <1>5 DEF gs, v

LEMMA ReaderInit == Init => ReaderIInv
<1> SUFFICES ASSUME Init PROVE ReaderIInv
  OBVIOUS
<1> DEFINE X == Stream(sent)
<1>1. /\ reader \in Readers /\ draining = FALSE /\ sent \in [1 .. Packets -> Sendable]
      /\ begun \in 0 .. Len(Cells(sent[1])) - 1 /\ buffer = <<>> /\ frames = <<>>
      /\ wire = Drop(X, begun)
  BY DEF Init
<1>2. buffer \in Seq(AllCells) /\ Len(buffer) = 0
  BY <1>1, EmptySeq
<1>3. Packets \in Nat \ {0} /\ \A i \in 1 .. Packets : sent[i] \in Frame
  BY <1>1, BoundsAssumption, SentTypes
<1>4. sent \in Seq(Frame) /\ Len(sent) = Packets
  <2>1. sent \in [1 .. Packets -> Frame]
    BY <1>1, <1>3
  <2>2. QED
    BY <1>3, <2>1, SeqDef
<1>5. X \in Seq(AllCells) /\ Len(X) \in Nat
  <2>1. X \in Seq(AllCells)
    BY <1>4, EndOf DEF LaidOut
  <2>2. QED
    BY <2>1, LenProperties
<1>6. begun \in Nat /\ begun < Len(Cells(sent[1])) /\ Len(Cells(sent[1])) <= Len(X)
  <2>1. 1 \in 1 .. Packets /\ 1 \in 0 .. Packets /\ Packets \in 0 .. Packets /\ (1 = Packets \/ 1 < Packets)
    BY <1>3
  <2>2. Len(Cells(sent[1])) \in Nat
    BY <1>3, <2>1, PacketCells
  <2>3. End(sent)[1] = Len(Cells(sent[1])) /\ End(sent)[Packets] = Len(X)
        /\ End(sent)[Packets] \in Nat
    <3>1. LaidOut(sent, End(sent))
      BY <1>4, EndOf
    <3>2. End(sent)[1] = End(sent)[1 - 1] + Len(Cells(sent[1])) /\ End(sent)[0] = 0
          /\ End(sent)[Packets] = Len(X) /\ End(sent)[Packets] \in Nat
      BY <1>4, <2>1, <3>1 DEF LaidOut
    <3>3. QED
      BY <2>2, <3>2
  <2>4. 1 < Packets => End(sent)[1] + 5 <= End(sent)[Packets]
    <3>1. LaidOut(sent, End(sent))
      BY <1>4, EndOf
    <3>2. \A i \in 0 .. Packets, j \in 0 .. Packets : i < j => End(sent)[i] + 5 <= End(sent)[j]
      BY <1>4, <3>1, StartsApart
    <3>3. QED
      BY <2>1, <3>2
  <2> HIDE DEF X
  <2>5. begun \in Nat /\ begun < Len(Cells(sent[1]))
    BY <1>1, <2>2
  <2>6. Len(Cells(sent[1])) <= Len(X)
    BY <2>1, <2>2, <2>3, <2>4
  <2>7. QED
    BY <2>5, <2>6 DEF X
<1>7. /\ wire \in Seq(AllCells) /\ Len(wire) = Len(X) - begun
      /\ \A i \in 1 .. Len(X) - begun : wire[i] = X[begun + i]
  <2>1. begun \in 0 .. Len(X)
    <3>1. Len(Cells(sent[1])) \in Int
      <4>1. 1 \in 1 .. Packets
        BY <1>3
      <4>2. QED
        BY <1>3, <4>1, PacketCells
    <3> HIDE DEF X
    <3>2. QED
      BY <1>5, <1>6, <3>1
  <2>2. QED
    BY <1>1, <1>5, <2>1, DropCells
<1>8. ReaderTypes
  BY <1>1, <1>2, <1>7 DEF ReaderTypes
<1>9. Passed = begun
  <2> HIDE DEF X
  <2>1. Len(X) - Len(wire) - Len(buffer) = begun
    BY <1>2, <1>5, <1>6, <1>7
  <2>2. QED
    BY <2>1 DEF Passed, X
<1>10. Window
  <2>1. \A i \in 1 .. Len(buffer) : FALSE
    BY <1>2
  <2>2. begun + Len(buffer) = begun
    BY <1>2, <1>6
  <2>3. \A i \in 1 .. Len(wire) : wire[i] = X[begun + i]
    BY <1>7
  <2>4. QED
    BY <1>6, <1>9, <2>1, <2>2, <2>3 DEF Window
<1>11. HandedOn(reader, frames, <<>>)
  <2>1. frames \in Seq({Shown(reader, f) : f \in Frame}) /\ Len(frames) = 0
    BY <1>1
  <2>2. QED
    BY <2>1 DEF HandedOn
<1>12. Progress
  <2> DEFINE u == Readable(reader, sent, begun)
  <2>1. u[0] = <<>> /\ \A i \in 1 .. Len(sent) : u[i] =
           IF IsReadable(reader, sent, begun, i) THEN Append(u[i - 1], sent[i]) ELSE u[i - 1]
    BY <1>4, ReadableSteps
  <2>2. End(sent)[0] = 0 /\ End(sent)[1] = Len(Cells(sent[1])) /\ 0 \in 0 .. Len(sent)
        /\ 1 \in 1 .. Len(sent) /\ 1 \in 0 .. Len(sent) /\ 1 - 1 = 0
    <3>1. 0 \in 0 .. Len(sent) /\ 1 \in 1 .. Len(sent) /\ 1 \in 0 .. Len(sent) /\ 1 - 1 = 0
      BY <1>3, <1>4
    <3>2. End(sent)[0] = 0
      BY <1>4, EndOf DEF LaidOut
    <3>3. End(sent)[1] = End(sent)[1 - 1] + Len(Cells(sent[1])) /\ Len(Cells(sent[1])) \in Nat
      BY <1>8, <3>1, AtStart
    <3>4. QED
      BY <3>1, <3>2, <3>3
  <2> HIDE DEF u
  <2>3. CASE begun = 0
    <3>1. DoneWith(0)
      <4>1. u[0] = Readable(reader, sent, begun)[0]
        BY DEF u
      <4>2. QED
        BY <1>9, <1>11, <2>1, <2>2, <2>3, <4>1 DEF DoneWith
    <3>2. QED
      BY <2>2, <3>1 DEF Progress
  <2>4. CASE begun # 0
    <3>1. ~IsReadable(reader, sent, begun, 1)
      BY <2>4 DEF IsReadable
    <3>2. Readable(reader, sent, begun)[1] = <<>>
      BY <2>1, <2>2, <3>1 DEF u
    <3>3. begun <= End(sent)[1] /\ End(sent)[1 - 1] < begun
      <4>1. Len(Cells(sent[1])) \in Nat
        BY <1>3, <1>4, <2>2, PacketCells
      <4>2. QED
        BY <1>6, <2>2, <2>4, <4>1
    <3>4. DoneWith(1)
      BY <1>9, <1>11, <3>1, <3>2, <3>3 DEF DoneWith
    <3>5. QED
      BY <2>2, <3>4 DEF Progress
  <2>5. QED
    BY <2>3, <2>4
<1>13. Idle
  BY <1>2, MagicCells DEF Idle, Status
<1>14. QED
  BY <1>8, <1>10, <1>12, <1>13 DEF ReaderIInv

LEMMA SameStatus == ASSUME UNCHANGED <<reader, buffer>> PROVE Status(buffer)' = Status(buffer)
BY DEF Status

\* A frame is decoded from the head of the buffer: the packet there.
LEMMA DecodeOkStep == ASSUME ReaderIInv, DecodeOk PROVE ReaderIInv'
<1>1. /\ draining /\ Status(buffer) = "Ok" /\ UNCHANGED <<reader, sent, begun, wire, draining>>
      /\ frames' = Append(frames, Shown(reader, FrameAt(buffer)))
      /\ buffer' = Drop(buffer, PacketSize(HeaderOf(buffer)))
  BY DEF DecodeOk
<1>2. ReaderTypes /\ Window /\ Progress /\ buffer \in Seq(AllCells)
  BY DEF ReaderIInv, ReaderTypes
<1> DEFINE n == PacketSize(HeaderOf(buffer))
<1>3. /\ Len(buffer) >= 5 /\ MagicAt(buffer, 0) /\ Usable(reader, HeaderOf(buffer))
      /\ n <= Len(buffer) /\ n \in Nat /\ Len(buffer) \in Nat
  BY <1>1, <1>2, StatusMeans, HeaderType, SentFacts
<1>4. n \in 0 .. Len(buffer)
  <2> HIDE DEF n
  <2>1. QED
    BY <1>3
<1>5. Window' /\ Passed' = Passed + n /\ buffer' \in Seq(AllCells)
  <2> HIDE DEF n
  <2>1. buffer' = Drop(buffer, n)
    BY <1>1 DEF n
  <2>2. QED
    BY <1>1, <1>2, <1>4, <2>1, Shift
<1>6. ReaderTypes'
  BY <1>1, <1>2, <1>5 DEF ReaderTypes
<1>7. Idle'
  BY <1>1 DEF Idle
<1>8. ASSUME Decidable PROVE Progress'
  <2>1. PICK k \in 0 .. Len(sent) : DoneWith(k)
    BY <1>2, <1>8 DEF Progress
  <2>2. k < Len(sent) /\ Passed = End(sent)[k]
    BY <1>2, <1>3, <1>8, <2>1, Standing
  <2> DEFINE p == sent[k + 1]
             u == Readable(reader, sent, begun)
  <2>3. HeaderOf(buffer) = Layouts[p.header] /\ n = Len(Cells(p)) /\ FrameAt(buffer) = p
    BY <1>2, <1>3, <2>2, PacketAtHead
  <2>4. /\ k + 1 \in 1 .. Len(sent) /\ (k + 1) - 1 = k /\ k + 1 \in 0 .. Len(sent) /\ k + 1 > 0
        /\ sent \in Seq(Frame) /\ p \in Frame
    <3>1. Len(sent) \in Nat
      BY <1>2, SentFacts
    <3>2. k + 1 \in 1 .. Len(sent) /\ (k + 1) - 1 = k /\ k + 1 \in 0 .. Len(sent) /\ k + 1 > 0
      BY <2>2, <3>1
    <3>3. QED
      BY <1>2, <3>2, SentFacts
  <2>5. End(sent)[k + 1] = Passed + n /\ Passed \in Nat /\ n > 0
    <3>1. End(sent)[k + 1] = End(sent)[k] + Len(Cells(p)) /\ End(sent)[k] \in Nat
          /\ Len(Cells(p)) \in Nat /\ Len(Cells(p)) >= 5
      BY <1>2, <2>4, AtStart
    <3> HIDE DEF p, n
    <3>2. n > 0
      BY <2>3, <3>1
    <3>3. QED
      BY <2>2, <2>3, <3>1, <3>2
  <2>6. IsReadable(reader, sent, begun, k + 1)
    <3>1. k + 1 > 1 \/ begun = 0
      <4>1. k = 0 => End(sent)[k] = 0
        BY <2>4, EndOf DEF LaidOut
      <4>2. begun <= Passed /\ begun \in Nat
        BY <1>2 DEF Window, ReaderTypes
      <4>3. QED
        BY <2>2, <4>1, <4>2
    <3>2. QED
      BY <1>3, <2>3, <3>1 DEF IsReadable
  <2>7. u[k + 1] = Append(u[k], p) /\ u[k] \in Seq(Frame)
    <3>1. u[k + 1] = Append(u[k], p)
      BY <2>4, <2>6, ReadableSteps
    <3>2. k = 0 \/ k \in 1 .. Len(sent)
      OBVIOUS
    <3>3. u[k] \in Seq(Frame)
      <4>1. u[0] = <<>> /\ \A i \in 1 .. Len(sent) : u[i] \in Seq(Frame)
        BY <2>4, ReadableSteps
      <4> HIDE DEF u
      <4>2. QED
        BY <3>2, <4>1, EmptySeq
    <3>4. QED
      BY <3>1, <3>3
  <2>8. HandedOn(reader, frames', u[k + 1])
    <3>1. HandedOn(reader, frames, u[k])
      BY <2>1 DEF DoneWith
    <3> HIDE DEF u, p
    <3>2. HandedOn(reader, Append(frames, Shown(reader, p)), Append(u[k], p))
      BY <2>4, <2>7, <3>1, HandOn
    <3>3. QED
      BY <1>1, <2>3, <2>7, <3>2
  <2>9. Passed' = End(sent)[k + 1] /\ End(sent)[(k + 1) - 1] < Passed' /\ Passed' \in Nat
    <3> HIDE DEF n
    <3>1. QED
      BY <1>3, <1>5, <2>2, <2>4, <2>5
  <2>10. DoneWith(k + 1)'
    <3>1. End(sent)' = End(sent) /\ IsReadable(reader, sent, begun, k + 1)'
          /\ Readable(reader, sent, begun)' = u
      BY <1>1, <2>6
    <3> HIDE DEF u
    <3>2. HandedOn(reader', frames', Readable(reader, sent, begun)'[k + 1])
      BY <1>1, <2>8, <3>1
    <3>3. Passed' = End(sent)'[k + 1] /\ End(sent)'[(k + 1) - 1] < Passed' /\ Passed' <= End(sent)'[k + 1]
      BY <2>9, <3>1
    <3>4. QED
      BY <3>2, <3>3 DEF DoneWith
  <2>11. QED
    BY <1>1, <2>4, <2>10 DEF Progress
<1>9. ~Decidable => Progress'
  BY <1>1, SameTruth DEF Progress
<1>10. QED
  BY <1>5, <1>6, <1>7, <1>8, <1>9 DEF ReaderIInv

\* As long as nothing is consumed and nothing arrives, all stays as it is.
LEMMA SameProgress ==
    ASSUME Progress, Passed' = Passed, UNCHANGED <<reader, sent, begun, frames>>
    PROVE  Progress'
<1> SUFFICES ASSUME Decidable' PROVE \E k \in 0 .. Len(sent') : DoneWith(k)'
  BY DEF Progress
<1>1. PICK k \in 0 .. Len(sent) : DoneWith(k)
  BY SameTruth DEF Progress
<1>2. DoneWith(k)'
  BY <1>1 DEF DoneWith
<1>3. QED
  BY <1>2

LEMMA NeedMoreDataStep == ASSUME ReaderIInv, NeedMoreData PROVE ReaderIInv'
<1>1. /\ Status(buffer) = "NeedMoreData" /\ draining' = FALSE
      /\ UNCHANGED <<reader, sent, begun, wire, buffer, frames>>
  BY DEF NeedMoreData
<1>2. Passed' = Passed
  BY <1>1 DEF Passed
<1>3. ReaderTypes'
  BY <1>1 DEF ReaderIInv, ReaderTypes
<1>4. Window'
  BY <1>1, <1>2 DEF ReaderIInv, Window
<1>5. Progress'
  BY <1>1, <1>2, SameProgress DEF ReaderIInv
<1>6. Idle'
  BY <1>1, SameStatus DEF Idle
<1>7. QED
  BY <1>3, <1>4, <1>5, <1>6 DEF ReaderIInv

\* What arrives goes from the wire to the end of the buffer.
LEMMA ReceiveStep == ASSUME ReaderIInv, Receive PROVE ReaderIInv'
<1>1. /\ draining' = TRUE /\ UNCHANGED <<reader, sent, begun, frames>>
      /\ \E n \in 1 .. Len(wire) : /\ buffer' = buffer \o SubSeq(wire, 1, n)
                                   /\ wire' = Drop(wire, n)
  BY DEF Receive
<1>2. PICK n \in 1 .. Len(wire) : buffer' = buffer \o SubSeq(wire, 1, n) /\ wire' = Drop(wire, n)
  BY <1>1
<1> DEFINE X == Stream(sent)
           P == Passed
           s == SubSeq(wire, 1, n)
           b == buffer \o s
           r == Drop(wire, n)
<1>3. /\ Len(X) \in Nat /\ Len(wire) \in Nat /\ Len(buffer) \in Nat /\ begun \in Nat
      /\ P = Len(X) - Len(wire) - Len(buffer) /\ begun <= P
      /\ \A i \in 1 .. Len(buffer) : buffer[i] = X[P + i]
      /\ \A i \in 1 .. Len(wire) : wire[i] = X[P + Len(buffer) + i]
      /\ wire \in Seq(AllCells) /\ buffer \in Seq(AllCells) /\ ReaderTypes
  <2>1. begun \in Nat
    BY DEF ReaderIInv, ReaderTypes
  <2>2. Len(X) \in Nat /\ Len(wire) \in Nat /\ Len(buffer) \in Nat
    BY SentFacts DEF ReaderIInv
  <2>3. QED
    BY <2>1, <2>2 DEF ReaderIInv, ReaderTypes, Window, Passed
<1>4. s \in Seq(AllCells) /\ Len(s) = n /\ \A i \in 1 .. n : s[i] = wire[i]
  <2>1. 1 \in 1 .. Len(wire) + 1 /\ n \in 1 - 1 .. Len(wire) /\ 1 <= n /\ n - 1 + 1 = n
        /\ \A i \in 1 .. n : 1 + i - 1 = i
    BY <1>3
  <2>2. /\ s \in Seq(AllCells) /\ Len(s) = (IF 1 <= n THEN n - 1 + 1 ELSE 0)
        /\ \A i \in 1 .. n - 1 + 1 : s[i] = wire[1 + i - 1]
    BY <1>3, <2>1, SubSeqProperties
  <2> HIDE DEF s
  <2>3. QED
    BY <2>1, <2>2
<1>5. /\ r \in Seq(AllCells) /\ Len(r) = Len(wire) - n
      /\ \A i \in 1 .. Len(wire) - n : r[i] = wire[n + i]
  <2>1. n \in 0 .. Len(wire)
    BY <1>3
  <2>2. QED
    BY <1>3, <2>1, DropCells
<1> HIDE DEF s
<1>6. /\ b \in Seq(AllCells) /\ Len(b) = Len(buffer) + n
      /\ \A i \in 1 .. Len(buffer) + n : b[i] = IF i <= Len(buffer) THEN buffer[i] ELSE s[i - Len(buffer)]
  BY <1>3, <1>4, ConcatProperties
<1>7. buffer' = b /\ wire' = r /\ Stream(sent)' = X
  BY <1>1, <1>2 DEF s
<1>8. Passed' = Len(X) - Len(r) - Len(b)
  BY <1>7 DEF Passed
<1> HIDE DEF X, P, b, r
<1>9. P \in Nat /\ Len(X) - Len(r) - Len(b) = P /\ n \in Nat
  BY <1>3, <1>5, <1>6
<1>10. \A i \in 1 .. Len(b) : b[i] = X[P + i]
  <2> TAKE i \in 1 .. Len(b)
  <2>1. i \in 1 .. Len(buffer) + n
    BY <1>6
  <2>2. CASE i <= Len(buffer)
    <3>1. i \in 1 .. Len(buffer)
      BY <1>3, <2>1, <2>2
    <3>2. QED
      BY <1>3, <1>6, <2>1, <2>2, <3>1
  <2>3. CASE ~(i <= Len(buffer))
    <3>1. i - Len(buffer) \in 1 .. n /\ i - Len(buffer) \in 1 .. Len(wire)
          /\ P + Len(buffer) + (i - Len(buffer)) = P + i
      BY <1>3, <1>9, <2>1, <2>3
    <3>2. b[i] = s[i - Len(buffer)] /\ s[i - Len(buffer)] = wire[i - Len(buffer)]
      BY <1>4, <1>6, <2>1, <2>3, <3>1
    <3>3. wire[i - Len(buffer)] = X[P + Len(buffer) + (i - Len(buffer))]
      BY <1>3, <3>1
    <3>4. QED
      BY <3>1, <3>2, <3>3
  <2>4. QED
    BY <2>2, <2>3
<1>11. \A i \in 1 .. Len(r) : r[i] = X[P + Len(b) + i]
  <2> TAKE i \in 1 .. Len(r)
  <2>1. i \in 1 .. Len(wire) - n /\ n + i \in 1 .. Len(wire)
        /\ P + Len(buffer) + (n + i) = P + Len(b) + i
    BY <1>3, <1>5, <1>6, <1>9
  <2>2. r[i] = wire[n + i] /\ wire[n + i] = X[P + Len(buffer) + (n + i)]
    BY <1>3, <1>5, <2>1
  <2>3. QED
    BY <2>1, <2>2
<1>12. Passed' = P /\ begun' = begun
  BY <1>1, <1>8, <1>9
<1>13. Window'
  BY <1>3, <1>7, <1>10, <1>11, <1>12 DEF Window
<1>14. ReaderTypes'
  BY <1>1, <1>3, <1>5, <1>6, <1>7 DEF ReaderTypes
<1>15. Progress'
  BY <1>1, <1>12, SameProgress DEF ReaderIInv, P
<1>16. Idle'
  BY <1>1 DEF Idle
<1>17. QED
  BY <1>13, <1>14, <1>15, <1>16 DEF ReaderIInv

LEMMA RefuseStep == ASSUME ReaderIInv, Refuse PROVE ReaderIInv'
<1>1. /\ draining /\ reader # "viewer" /\ Status(buffer) \in {"BadMagic", "BadHeader"}
      /\ UNCHANGED <<reader, sent, begun, wire, draining, frames>>
      /\ buffer' = IF reader = "monitor" /\ Status(buffer) = "BadHeader"
                     THEN Drop(buffer, 1) ELSE Resynchronise(buffer)
  BY DEF Refuse
<1>2. ReaderTypes /\ Window /\ Progress
  BY DEF ReaderIInv
<1>3. Idle'
  BY <1>1 DEF Idle
<1>4. CASE buffer' = Resynchronise(buffer)
  <2>1. Window' /\ Progress' /\ buffer' \in Seq(AllCells)
    BY <1>1, <1>2, <1>4, SearchStep
  <2>2. ReaderTypes'
    BY <1>1, <1>2, <2>1 DEF ReaderTypes
  <2>3. QED
    BY <1>3, <2>1, <2>2 DEF ReaderIInv
<1>5. CASE buffer' = Drop(buffer, 1)
  <2>1. Len(buffer) \in Nat /\ Len(buffer) >= 5 /\ buffer \in Seq(AllCells)
    BY <1>1, <1>2, SentFacts, StatusMeans DEF ReaderTypes
  <2>2. 1 \in 0 .. Len(buffer) /\ 0 \in Nat /\ 0 + 4 <= Len(buffer)
    BY <2>1
  <2>3. Window' /\ Passed' = Passed + 1 /\ buffer' \in Seq(AllCells)
    BY <1>1, <1>2, <1>5, <2>2, Shift
  <2>4. ReaderTypes'
    BY <1>1, <1>2, <2>3 DEF ReaderTypes
  <2>5. ASSUME Decidable PROVE Progress'
    <3>1. PICK k \in 1 .. Len(sent) :
            /\ End(sent)[k - 1] <= Passed /\ Passed < End(sent)[k]
            /\ ~IsReadable(reader, sent, begun, k)
            /\ HandedOn(reader, frames, Readable(reader, sent, begun)[k])
      BY <1>1, <1>2, <2>5, RefusedPacket
    <3>2. Passed \in Nat
      BY <1>2, <2>2, BufferMagic
    <3>3. End(sent)[k] \in Nat
      <4>1. Len(sent) \in Nat
        BY <1>2, SentFacts
      <4>2. k \in 0 .. Len(sent)
        BY <4>1
      <4>3. QED
        BY <1>2, <4>2, SentFacts
    <3>4. Passed + 1 <= End(sent)[k] /\ 1 \in Nat /\ 1 > 0
      BY <3>1, <3>2, <3>3
    <3>5. QED
      BY <1>1, <1>2, <2>3, <3>1, <3>2, <3>4, SkipWithin
  <2>6. ~Decidable => Progress'
    BY <1>1, SameTruth DEF Progress
  <2>7. QED
    BY <1>3, <2>3, <2>4, <2>5, <2>6 DEF ReaderIInv
<1>6. QED
  BY <1>1, <1>4, <1>5

LEMMA RefuseAndLeaveStep == ASSUME ReaderIInv, RefuseAndLeave PROVE ReaderIInv'
<1>1. /\ reader = "viewer" /\ Status(buffer) \in {"BadMagic", "BadHeader"}
      /\ buffer' = Resynchronise(buffer) /\ draining' = FALSE
      /\ UNCHANGED <<reader, sent, begun, wire, frames>>
  BY DEF RefuseAndLeave
<1>2. ReaderTypes /\ Window /\ Progress
  BY DEF ReaderIInv
<1>3. Window' /\ Progress' /\ buffer' \in Seq(AllCells) /\ (Decidable => Resynchronises)
  BY <1>1, <1>2, SearchStep
<1>4. ReaderTypes'
  BY <1>1, <1>2, <1>3 DEF ReaderTypes
<1>5. Idle'
  BY <1>1, <1>3, SameTruth DEF Idle
<1>6. QED
  BY <1>3, <1>4, <1>5 DEF ReaderIInv

LEMMA UnchangedReader == ASSUME ReaderIInv, UNCHANGED vars PROVE ReaderIInv'
<1>1. UNCHANGED <<reader, sent, begun, wire, buffer, draining, frames>>
  BY DEF vars
<1>2. Passed' = Passed
  BY <1>1 DEF Passed
<1>3. ReaderTypes'
  BY <1>1 DEF ReaderIInv, ReaderTypes
<1>4. Window'
  BY <1>1, <1>2 DEF ReaderIInv, Window
<1>5. Progress'
  BY <1>1, <1>2, SameProgress DEF ReaderIInv
<1>6. Idle'
  BY <1>1, SameStatus, SameTruth DEF ReaderIInv, Idle
<1>7. QED
  BY <1>3, <1>4, <1>5, <1>6 DEF ReaderIInv

LEMMA ReaderStep == ReaderIInv /\ [Next]_vars => ReaderIInv'
<1> SUFFICES ASSUME ReaderIInv, [Next]_vars PROVE ReaderIInv'
  OBVIOUS
<1>1. CASE Receive
  BY <1>1, ReceiveStep
<1>2. CASE DecodeOk
  BY <1>2, DecodeOkStep
<1>3. CASE NeedMoreData
  BY <1>3, NeedMoreDataStep
<1>4. CASE Refuse
  BY <1>4, RefuseStep
<1>5. CASE RefuseAndLeave
  BY <1>5, RefuseAndLeaveStep
<1>6. CASE UNCHANGED vars
  BY <1>6, UnchangedReader
<1>7. QED
  BY <1>1, <1>2, <1>3, <1>4, <1>5, <1>6 DEF Next, Decode, Finished

\* The invariant holds for every layout of headers, every number of packets and
\* whatever the scans hold.
THEOREM ReaderInvariant == Spec => []ReaderIInv
BY ReaderInit, ReaderStep, PTL DEF Spec

-----------------------------------------------------------------------------
(* What the readers promise                                                  *)

\* Between two reads the decoder of the node keeps less than one packet of the
\* largest kind, whatever the headers claim (Protocol.hpp:104-117).
THEOREM Bounded == Spec => []BufferBounded
<1>1. ReaderIInv => BufferBounded
  <2> SUFFICES ASSUME ReaderIInv, reader = "node", ~draining
               PROVE  Len(buffer) < MaxHeader + MaxPoints * MaxStride + 1
    BY DEF BufferBounded
  <2> DEFINE h == HeaderOf(buffer)
  <2>1. Status(buffer) = "NeedMoreData" /\ buffer \in Seq(AllCells) /\ Len(buffer) \in Nat
    <3>1. ReaderTypes /\ Idle
      BY DEF ReaderIInv
    <3>2. QED
      BY <3>1, SentFacts DEF Idle, ReaderTypes
  <2>2. MaxHeader \in Nat /\ MaxPoints \in Nat /\ MaxStride \in Nat /\ MaxHeader >= 5
    BY BoundsAssumption, MagicCells
  <2>3. MaxPoints * MaxStride \in Nat
    BY <2>2
  <2>4. CASE Len(buffer) < 5
    BY <2>1, <2>2, <2>3, <2>4
  <2>5. CASE Usable(reader, h) /\ Len(buffer) < PacketSize(h)
    <3>1. h.header <= MaxHeader /\ h.stride <= MaxStride /\ h.count <= MaxPoints
      BY <2>5 DEF Usable, CountAllowed
    <3>2. /\ h.header \in Nat /\ h.stride \in Nat /\ h.count \in Nat /\ Trailer(h) \in 0 .. 1
          /\ PacketSize(h) \in Nat
      BY HeaderType, WidthTypes DEF Fields
    <3>3. Len(buffer) < h.header + h.count * h.stride + Trailer(h)
      BY <2>5 DEF PacketSize
    <3> HIDE DEF h
    <3>4. h.count * h.stride <= MaxPoints * MaxStride /\ h.count * h.stride \in Nat
      <4>1. \A a \in Nat, b \in Nat, c \in Nat, d \in Nat : a <= c /\ b <= d => a * b <= c * d /\ a * b \in Nat
        <5> TAKE a \in Nat, b \in Nat, c \in Nat, d \in Nat
        <5> HAVE a <= c /\ b <= d
        <5>1. a * b <= c * b /\ c * b <= c * d /\ a * b \in Nat /\ c * b \in Nat /\ c * d \in Nat
          OBVIOUS
        <5>2. QED
          BY <5>1
      <4>2. QED
        BY <2>2, <3>1, <3>2, <4>1
    <3> DEFINE x == h.count * h.stride
               y == MaxPoints * MaxStride
    <3>5. /\ x <= y /\ x \in Nat /\ y \in Nat /\ Len(buffer) < h.header + x + Trailer(h)
      BY <2>3, <3>3, <3>4
    <3> HIDE DEF x, y
    <3>6. Len(buffer) < MaxHeader + y + 1
      BY <2>1, <2>2, <3>1, <3>2, <3>5
    <3>7. QED
      BY <3>6 DEF y
  <2>6. QED
    BY <2>1, <2>4, <2>5, StatusMeans
<1>2. QED
  BY <1>1, ReaderInvariant, PTL

\* What was handed on is the beginning of what should be, and all of it once
\* the reader is done with the last packet.
LEMMA FramesSoFar ==
    ASSUME ReaderIInv, NEW k \in 0 .. Len(sent), DoneWith(k)
    PROVE  LET u == Readable(reader, sent, begun)[k]
           IN  /\ u \in Seq(Frame) /\ UsablePackets \in Seq(Frame)
               /\ Len(frames) = Len(u) /\ Len(u) \in Nat /\ Len(UsablePackets) \in Nat
               /\ Len(u) <= Len(UsablePackets) /\ Len(Expected) = Len(UsablePackets)
               /\ IsPrefix(frames, Expected)
               /\ k = Len(sent) => frames = Expected
               /\ \A x \in Len(u) + 1 .. Len(UsablePackets) :
                     \E m \in k + 1 .. Len(sent) : UsablePackets[x] = sent[m]
<1> DEFINE u == Readable(reader, sent, begun)
           S == {Shown(reader, f) : f \in Frame}
<1>1. ReaderTypes /\ sent \in Seq(Frame) /\ Len(sent) \in Nat
  BY SentFacts DEF ReaderIInv
<1>2. Len(sent) \in 0 .. Len(sent) /\ k <= Len(sent)
  BY <1>1
<1>3. /\ u[k] \in Seq(Frame) /\ u[Len(sent)] \in Seq(Frame) /\ Len(u[k]) <= Len(u[Len(sent)])
      /\ \A x \in 1 .. Len(u[k]) : u[Len(sent)][x] = u[k][x]
      /\ \A x \in Len(u[k]) + 1 .. Len(u[Len(sent)]) :
            \E m \in k + 1 .. Len(sent) : IsReadable(reader, sent, begun, m) /\ u[Len(sent)][x] = sent[m]
  <2>1. Growth(reader, sent, begun, k, Len(sent))
    BY <1>1, <1>2, ReadableGrows
  <2>2. QED
    BY <2>1 DEF Growth
<1>4. UsablePackets = u[Len(sent)]
  BY DEF UsablePackets
<1>5. /\ frames \in Seq(S) /\ Len(frames) = Len(u[k])
      /\ \A x \in 1 .. Len(u[k]) : frames[x] = Shown(reader, u[k][x])
  BY DEF DoneWith, HandedOn
<1> HIDE DEF u
<1>6. Len(u[k]) \in Nat /\ Len(UsablePackets) \in Nat
  BY <1>3, <1>4, LenProperties
<1>7. /\ Expected \in Seq(S) /\ Len(Expected) = Len(UsablePackets)
      /\ \A x \in 1 .. Len(UsablePackets) : Expected[x] = Shown(reader, UsablePackets[x])
  <2>1. \A x \in 1 .. Len(UsablePackets) : UsablePackets[x] \in Frame
    BY <1>3, <1>4, ElementOfSeq
  <2>2. Expected = [x \in 1 .. Len(UsablePackets) |-> Shown(reader, UsablePackets[x])]
    BY DEF Expected
  <2>3. Expected \in [1 .. Len(UsablePackets) -> S]
    BY <2>1, <2>2
  <2> HIDE DEF S
  <2>4. Expected \in Seq(S)
    BY <1>6, <2>3, SeqDef
  <2>5. Len(Expected) = Len(UsablePackets)
    BY <1>6, <2>3, <2>4, LenProperties
  <2>6. QED
    BY <2>2, <2>4, <2>5
<1> HIDE DEF S
<1>8. \A x \in 1 .. Len(frames) : x \in 1 .. Len(UsablePackets) /\ frames[x] = Expected[x]
  <2> TAKE x \in 1 .. Len(frames)
  <2>1. x \in 1 .. Len(u[k])
    BY <1>5
  <2>2. x \in 1 .. Len(UsablePackets)
    <3>1. Len(u[k]) <= Len(UsablePackets)
      BY <1>3, <1>4
    <3>2. QED
      BY <1>6, <2>1, <3>1
  <2>3. frames[x] = Shown(reader, u[k][x]) /\ UsablePackets[x] = u[k][x]
    BY <1>3, <1>4, <1>5, <2>1
  <2>4. QED
    BY <1>7, <2>2, <2>3
<1>9. IsPrefix(frames, Expected)
  <2> DEFINE n == Len(frames)
             a == SubSeq(frames, 1, n)
             c == SubSeq(Expected, 1, n)
  <2>1. n \in Nat /\ n <= Len(Expected) /\ Len(Expected) \in Nat
    BY <1>3, <1>4, <1>5, <1>6, <1>7
  <2>2. 1 \in 1 .. Len(frames) + 1 /\ n \in 1 - 1 .. Len(frames)
        /\ 1 \in 1 .. Len(Expected) + 1 /\ n \in 1 - 1 .. Len(Expected)
    BY <2>1
  <2>3. /\ a \in Seq(S) /\ Len(a) = (IF 1 <= n THEN n - 1 + 1 ELSE 0)
        /\ \A i \in 1 .. n - 1 + 1 : a[i] = frames[1 + i - 1]
    BY <1>5, <2>2, SubSeqProperties
  <2>4. /\ c \in Seq(S) /\ Len(c) = (IF 1 <= n THEN n - 1 + 1 ELSE 0)
        /\ \A i \in 1 .. n - 1 + 1 : c[i] = Expected[1 + i - 1]
    BY <1>7, <2>2, SubSeqProperties
  <2> HIDE DEF a, c, n
  <2>5. (IF 1 <= n THEN n - 1 + 1 ELSE 0) = n /\ n - 1 + 1 = n /\ \A i \in 1 .. n : 1 + i - 1 = i
    BY <2>1
  <2>6. Len(a) = n /\ Len(c) = n /\ \A i \in 1 .. n : a[i] = c[i]
    BY <1>8, <2>3, <2>4, <2>5 DEF n
  <2>7. a = c
    BY <2>3, <2>4, <2>6, SeqEqual
  <2>8. QED
    BY <2>1, <2>7 DEF IsPrefix, a, c, n
<1>10. k = Len(sent) => frames = Expected
  <2> SUFFICES ASSUME k = Len(sent) PROVE frames = Expected
    OBVIOUS
  <2>1. Len(frames) = Len(Expected)
    BY <1>4, <1>5, <1>7
  <2>2. QED
    BY <1>5, <1>7, <1>8, <2>1, SeqEqual
<1>11. QED
  BY <1>3, <1>4, <1>5, <1>6, <1>7, <1>9, <1>10 DEF u

\* Whatever the chunks, wherever the connection begins and whatever must be
\* refused, no frame is made up, torn, repeated or out of order, as long as no
\* search meets points that spell a magic (Protocol.hpp:343-410): a magic is
\* then found only where a packet begins (MagicOnlyAtStarts), so the reader
\* stands at the beginning of a packet or within one it passes over (Standing).
THEOREM OnlySent == Spec => []OnlyWhatWasSent
<1>1. ReaderIInv => OnlyWhatWasSent
  <2> SUFFICES ASSUME ReaderIInv, Decidable PROVE IsPrefix(frames, Expected)
    BY DEF OnlyWhatWasSent
  <2>1. PICK k \in 0 .. Len(sent) : DoneWith(k)
    BY DEF ReaderIInv, Progress
  <2>2. QED
    BY <2>1, FramesSoFar
<1>2. QED
  BY <1>1, ReaderInvariant, PTL

\* Where everything has arrived, what is not passed is in the buffer.
LEMMA AllArrived ==
    ASSUME ReaderTypes, Window, wire = <<>>
    PROVE  Passed \in Nat /\ Len(buffer) \in Nat /\ Passed + Len(buffer) = Len(Stream(sent))
<1>1. Len(wire) = 0
  OBVIOUS
<1>2. Len(buffer) \in Nat /\ Len(Stream(sent)) \in Nat /\ begun \in Nat /\ begun <= Passed
  <2>1. begun \in Nat /\ begun <= Passed
    BY DEF ReaderTypes, Window
  <2>2. QED
    BY <2>1, SentFacts
<1>3. Passed = Len(Stream(sent)) - 0 - Len(buffer)
  BY <1>1 DEF Passed
<1> HIDE DEF Passed
<1>4. QED
  BY <1>2, <1>3

\* A packet that the reader has not come to is in its buffer.
LEMMA StillThere ==
    ASSUME ReaderTypes, Window, wire = <<>>,
           NEW k \in 0 .. Len(sent), Passed <= End(sent)[k], NEW m \in k + 1 .. Len(sent)
    PROVE  IsBuffered(sent[m])
<1> DEFINE c == Cells(sent[m])
           e == End(sent)[m - 1]
           z == e - Passed
           N == Len(Stream(sent))
<1>1. Passed \in Nat /\ Len(buffer) \in Nat /\ Passed + Len(buffer) = N /\ N \in Nat
  BY AllArrived, SentFacts
<1>2. /\ Len(sent) \in Nat /\ m \in 1 .. Len(sent) /\ m - 1 \in 0 .. Len(sent) /\ k <= m - 1
      /\ sent[m] \in Frame /\ sent \in Seq(Frame)
  <2>1. Len(sent) \in Nat
    BY SentFacts
  <2>2. m \in 1 .. Len(sent) /\ m - 1 \in 0 .. Len(sent) /\ k <= m - 1
    BY <2>1
  <2>3. QED
    BY <2>1, <2>2, SentFacts
<1>3. /\ e \in Nat /\ Len(c) \in Nat /\ e + Len(c) <= N
      /\ \A j \in 1 .. Len(c) : Stream(sent)[e + j] = c[j]
  BY <1>2, AtStart
<1>4. End(sent)[k] <= e /\ End(sent)[k] \in Nat
  <2>1. k = m - 1 \/ k < m - 1
    BY <1>2
  <2>2. End(sent)[k] \in Nat
    BY SentFacts
  <2>3. k < m - 1 => End(sent)[k] + 5 <= e
    BY <1>2, StartsApart, EndOf
  <2> HIDE DEF e
  <2>4. QED
    BY <1>3, <2>1, <2>2, <2>3 DEF e
<1> HIDE DEF e, c, N
<1>5. z \in Nat /\ z + Len(c) <= Len(buffer) /\ Passed + z = e
  BY <1>1, <1>3, <1>4
<1> HIDE DEF z
<1>6. c \in Seq(AllCells) /\ buffer \in Seq(AllCells)
  BY <1>2, PacketCells DEF c, ReaderTypes
<1>7. ASSUME NEW j \in 1 .. Len(c) PROVE buffer[z + j] = c[j]
  <2>1. z + j \in 1 .. Len(buffer) /\ Passed + (z + j) = e + j
    BY <1>1, <1>3, <1>5
  <2>2. buffer[z + j] = Stream(sent)[Passed + (z + j)]
    BY <2>1 DEF Window
  <2>3. QED
    BY <1>3, <2>1, <2>2
<1> DEFINE s == SubSeq(buffer, z + 1, z + Len(c))
<1>8. s \in Seq(AllCells) /\ Len(s) = Len(c) /\ \A j \in 1 .. Len(c) : s[j] = buffer[z + j]
  <2>1. z + 1 \in 1 .. Len(buffer) + 1 /\ z + Len(c) \in (z + 1) - 1 .. Len(buffer)
    BY <1>1, <1>3, <1>5
  <2>2. /\ s \in Seq(AllCells)
        /\ Len(s) = (IF z + 1 <= z + Len(c) THEN (z + Len(c)) - (z + 1) + 1 ELSE 0)
        /\ \A j \in 1 .. (z + Len(c)) - (z + 1) + 1 : s[j] = buffer[(z + 1) + j - 1]
    BY <1>6, <2>1, SubSeqProperties
  <2> HIDE DEF s
  <2>3. /\ (IF z + 1 <= z + Len(c) THEN (z + Len(c)) - (z + 1) + 1 ELSE 0) = Len(c)
        /\ (z + Len(c)) - (z + 1) + 1 = Len(c)
        /\ \A j \in 1 .. Len(c) : (z + 1) + j - 1 = z + j
    BY <1>3, <1>5
  <2>4. QED
    BY <2>2, <2>3
<1> HIDE DEF s
<1>9. s = c
  <2>1. \A j \in 1 .. Len(s) : s[j] = c[j]
    BY <1>7, <1>8
  <2>2. QED
    BY <1>6, <1>8, <2>1, SeqEqual
<1>10. z \in 0 .. Len(buffer) - Len(c)
  BY <1>1, <1>3, <1>5
<1>11. QED
  BY <1>9, <1>10 DEF s, c, IsBuffered

\* A reader that has everything and needs more is done with the last packet.
LEMMA WaitsAtTheEnd ==
    ASSUME ReaderTypes, Window, Decidable, wire = <<>>, Status(buffer) = "NeedMoreData",
           NEW k \in 0 .. Len(sent), DoneWith(k)
    PROVE  k = Len(sent)
<1> SUFFICES ASSUME k # Len(sent) PROVE FALSE
  OBVIOUS
<1> DEFINE end == End(sent)
           N == Len(Stream(sent))
<1>1. Passed \in Nat /\ Len(buffer) \in Nat /\ Passed + Len(buffer) = N
  BY AllArrived
<1>2. /\ Len(sent) \in Nat /\ k + 1 \in 1 .. Len(sent) /\ (k + 1) - 1 = k /\ k < Len(sent)
      /\ end[k] \in Nat /\ N \in Nat
  <2>1. Len(sent) \in Nat
    BY SentFacts
  <2>2. k + 1 \in 1 .. Len(sent) /\ (k + 1) - 1 = k /\ k < Len(sent)
    BY <2>1
  <2>3. QED
    BY <2>1, <2>2, SentFacts
<1>3. /\ end[k + 1] = end[k] + Len(Cells(sent[k + 1])) /\ end[k + 1] <= N
      /\ Len(Cells(sent[k + 1])) \in Nat /\ Len(Cells(sent[k + 1])) >= 5
  BY <1>2, AtStart
<1>4. Passed <= end[k]
  BY DEF DoneWith
<1> HIDE DEF end, N
<1>5. end[k] + Len(Cells(sent[k + 1])) <= N /\ Len(buffer) >= 5
  BY <1>1, <1>2, <1>3, <1>4
<1>6. /\ MagicAt(buffer, 0) /\ Usable(reader, HeaderOf(buffer))
      /\ Len(buffer) < PacketSize(HeaderOf(buffer))
  <2>1. buffer \in Seq(AllCells) /\ ~(Len(buffer) < 5)
    BY <1>1, <1>5 DEF ReaderTypes
  <2>2. QED
    BY <2>1, StatusMeans
<1>7. Passed = end[k]
  BY <1>5, <1>6, Standing DEF end
<1>8. PacketSize(HeaderOf(buffer)) = Len(Cells(sent[k + 1]))
  BY <1>2, <1>5, <1>6, <1>7, PacketAtHead DEF end
<1>9. QED
  BY <1>1, <1>2, <1>3, <1>5, <1>6, <1>7, <1>8

\* When everything has arrived every packet that can be used was handed on, or
\* waits whole in the buffer of a viewer that has just searched: a search passes
\* over no packet, and a packet that is there is never taken for one that is not
\* (Protocol.hpp:421-440, lidar_viewer.py:53-125).
THEOREM NoneLost == Spec => []NothingLost
<1>1. ReaderIInv => NothingLost
  <2> SUFFICES ASSUME ReaderIInv, ~draining, wire = <<>>, Decidable
               PROVE  IF reader = "viewer" /\ Resynchronises
                        THEN \A i \in (Len(frames) + 1) .. Len(UsablePackets) : IsBuffered(UsablePackets[i])
                        ELSE frames = Expected
    BY DEF NothingLost
  <2>1. PICK k \in 0 .. Len(sent) : DoneWith(k)
    BY DEF ReaderIInv, Progress
  <2>2. ReaderTypes /\ Window /\ Idle
    BY DEF ReaderIInv
  <2>3. CASE reader = "viewer" /\ Resynchronises
    <3> SUFFICES ASSUME NEW i \in (Len(frames) + 1) .. Len(UsablePackets)
                 PROVE  IsBuffered(UsablePackets[i])
      BY <2>3
    <3>1. PICK m \in k + 1 .. Len(sent) : UsablePackets[i] = sent[m]
      BY <2>1, FramesSoFar
    <3>2. Passed <= End(sent)[k]
      BY <2>1 DEF DoneWith
    <3>3. QED
      BY <2>2, <3>1, <3>2, StillThere
  <2>4. CASE ~(reader = "viewer" /\ Resynchronises)
    <3>1. Status(buffer) = "NeedMoreData"
      BY <2>2, <2>4 DEF Idle
    <3>2. k = Len(sent)
      BY <2>1, <2>2, <3>1, WaitsAtTheEnd
    <3>3. frames = Expected
      BY <2>1, <3>2, FramesSoFar
    <3>4. QED
      BY <2>4, <3>3
  <2>5. QED
    BY <2>3, <2>4
<1>2. QED
  BY <1>1, ReaderInvariant, PTL

\* Every turn of the decode loop but the last consumes a cell of the buffer, so
\* the loop ends after as many turns as there are cells at most
\* (Protocol.hpp:104-117, lidar_viewer.py:53-125).
THEOREM TurnsConsume == Spec => [][draining /\ draining' => Len(buffer') < Len(buffer)]_vars
<1>1. ASSUME ReaderIInv, [Next]_vars
      PROVE  [draining /\ draining' => Len(buffer') < Len(buffer)]_vars
  <2> SUFFICES ASSUME draining, draining', Next PROVE Len(buffer') < Len(buffer)
    BY <1>1
  <2>1. ReaderTypes /\ Window /\ buffer \in Seq(AllCells) /\ Len(buffer) \in Nat
    BY <1>1, SentFacts DEF ReaderIInv, ReaderTypes
  <2>2. \A n \in 1 .. Len(buffer) : Len(Drop(buffer, n)) < Len(buffer)
    <3> TAKE n \in 1 .. Len(buffer)
    <3>1. n \in 0 .. Len(buffer) /\ n \in Nat /\ n > 0
      BY <2>1
    <3>2. Len(Drop(buffer, n)) = Len(buffer) - n
      BY <2>1, <3>1, DropCells
    <3>3. QED
      BY <2>1, <3>1, <3>2
  <2>3. CASE DecodeOk
    <3> DEFINE n == PacketSize(HeaderOf(buffer))
    <3>1. buffer' = Drop(buffer, n) /\ Status(buffer) = "Ok"
      BY <2>3 DEF DecodeOk
    <3>2. n \in Nat /\ n <= Len(buffer) /\ n >= 5
      <4>1. n <= Len(buffer) /\ Usable(reader, HeaderOf(buffer))
        BY <2>1, <3>1, StatusMeans
      <4> DEFINE h == HeaderOf(buffer)
      <4>2. h.header \in Nat /\ h.count \in Nat /\ h.stride \in Nat /\ Trailer(h) \in 0 .. 1 /\ n \in Nat
        BY HeaderType, WidthTypes DEF Fields
      <4>3. h.header >= 5
        BY <4>1, MagicCells DEF Usable
      <4>4. n = h.header + h.count * h.stride + Trailer(h)
        BY DEF PacketSize
      <4> HIDE DEF h, n
      <4>5. h.count * h.stride \in Nat
        BY <4>2
      <4>6. QED
        BY <4>1, <4>2, <4>3, <4>4, <4>5
    <3> HIDE DEF n
    <3>3. n \in 1 .. Len(buffer)
      BY <2>1, <3>2
    <3>4. QED
      BY <2>2, <3>1, <3>3
  <2>4. CASE Refuse
    <3>1. Status(buffer) \in {"BadMagic", "BadHeader"}
          /\ (buffer' = Drop(buffer, 1) \/ buffer' = Resynchronise(buffer))
      BY <2>4 DEF Refuse
    <3>2. Len(buffer) >= 5
      BY <2>1, <3>1, StatusMeans
    <3>3. 1 \in 1 .. Len(buffer)
      BY <2>1, <3>2
    <3>4. \E n \in 1 .. Len(buffer) : Resynchronise(buffer) = Drop(buffer, n)
      BY <2>1, <3>2, SearchEnds
    <3>5. QED
      BY <2>2, <3>1, <3>3, <3>4
  <2>5. ~Receive /\ ~NeedMoreData /\ ~RefuseAndLeave /\ ~Finished
    BY DEF Receive, NeedMoreData, RefuseAndLeave, Finished
  <2>6. QED
    BY <2>3, <2>4, <2>5 DEF Next, Decode
<1>2. QED
  BY <1>1, ReaderInvariant, PTL DEF Spec
================================================================================
