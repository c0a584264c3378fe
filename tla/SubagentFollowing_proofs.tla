----------------------- MODULE SubagentFollowing_proofs -----------------------
(***************************************************************************)
(* What is kept and read of a subagent's output, for every capacity, every   *)
(* stream, and however it is cut into chunks.                               *)
(***************************************************************************)
EXTENDS SubagentFollowing, SequenceTheorems, WellFoundedInduction, TLAPS

-----------------------------------------------------------------------------
(* Sequences *)

(* The first n elements, and the newest of them that a buffer holds. *)
First(seq, n) == SubSeq(seq, 1, n)

Newest(seq) ==
  LET start == Larger(0, Len(seq) - Capacity)
  IN [start |-> start, bytes |-> SubSeq(seq, start + 1, Len(seq))]

LEMMA FirstExists ==
  ASSUME NEW S \in SUBSET Nat, S # {}
  PROVE  \E i \in S : \A j \in S : i <= j
<1> DEFINE R == OpToRel(<, Nat)
<1>1. IsWellFoundedOn(R, Nat)
  BY NatLessThanWellFounded
<1>2. PICK i \in S : \A j \in S : ~(<<j, i>> \in R)
  BY <1>1, WFMin
<1>3. ASSUME NEW j \in S PROVE i <= j
  <2>1. ~(<<j, i>> \in R)
    BY <1>2
  <2>2. ~(j < i)
    BY <2>1 DEF OpToRel
  <2> QED
    BY <2>2
<1> QED
  BY <1>3

(* Induction up to a number: a set with 0 that is closed under successors. *)
LEMMA Reaches ==
  ASSUME NEW m \in Nat, NEW S, 0 \in S, \A n \in 0 .. m - 1 : n \in S => n + 1 \in S
  PROVE  \A n \in 0 .. m : n \in S
<1> DEFINE T == {n \in 0 .. m : n \notin S}
<1> SUFFICES ASSUME T # {} PROVE FALSE
  OBVIOUS
<1>1. PICK i \in T : \A j \in T : i <= j
  <2>1. T \in SUBSET Nat /\ T # {}
    OBVIOUS
  <2> HIDE DEF T
  <2> QED
    BY <2>1, FirstExists
<1>2. i # 0 /\ i - 1 \in 0 .. m - 1
  BY <1>1
<1>3. i - 1 \in S
  BY <1>1, <1>2
<1> QED
  BY <1>1, <1>2, <1>3

(* Two sequences of one length, element by element. *)
LEMMA SameSeq ==
  ASSUME NEW S, NEW s \in Seq(S), NEW t \in Seq(S), Len(s) = Len(t),
         \A k \in 1 .. Len(s) : s[k] = t[k]
  PROVE  s = t
BY SeqEqual

LEMMA FirstProperties ==
  ASSUME NEW S, NEW s \in Seq(S), NEW n \in 0 .. Len(s)
  PROVE  /\ First(s, n) \in Seq(S) /\ Len(First(s, n)) = n
         /\ \A k \in 1 .. n : First(s, n)[k] = s[k]
BY SubSeqProperties DEF First

(* The elements after the first n. *)
LEMMA RestProperties ==
  ASSUME NEW S, NEW s \in Seq(S), NEW n \in 0 .. Len(s)
  PROVE  /\ SubSeq(s, n + 1, Len(s)) \in Seq(S) /\ Len(SubSeq(s, n + 1, Len(s))) = Len(s) - n
         /\ \A k \in 1 .. Len(s) - n : SubSeq(s, n + 1, Len(s))[k] = s[n + k]
<1>1. Len(s) \in Nat /\ \A k \in 1 .. Len(s) : s[k] \in S
  BY ElementOfSeq, LenProperties
<1>2. n + 1 \in Int /\ Len(s) \in Int /\ \A k \in n + 1 .. Len(s) : s[k] \in S
  BY <1>1
<1>3. /\ SubSeq(s, n + 1, Len(s)) \in Seq(S)
      /\ Len(SubSeq(s, n + 1, Len(s))) = IF n + 1 <= Len(s) THEN Len(s) - (n + 1) + 1 ELSE 0
      /\ \A k \in 1 .. Len(s) - (n + 1) + 1 : SubSeq(s, n + 1, Len(s))[k] = s[n + 1 + k - 1]
  BY <1>2, SubSeqProperties
<1>4. Len(s) - (n + 1) + 1 = Len(s) - n /\ \A k \in 1 .. Len(s) - n : n + 1 + k - 1 = n + k
  BY <1>1
<1>5. ASSUME NEW k \in 1 .. Len(s) - n PROVE SubSeq(s, n + 1, Len(s))[k] = s[n + k]
  BY <1>3, <1>4
<1> QED
  BY <1>1, <1>3, <1>5

(* The elements from + 1 .. from + n of a sequence. *)
LEMMA PartProperties ==
  ASSUME NEW S, NEW s \in Seq(S), NEW from \in 0 .. Len(s), NEW n \in 0 .. Len(s) - from
  PROVE  /\ SubSeq(s, from + 1, from + n) \in Seq(S) /\ Len(SubSeq(s, from + 1, from + n)) = n
         /\ \A k \in 1 .. n : SubSeq(s, from + 1, from + n)[k] = s[from + k]
<1>1. PICK part : part = SubSeq(s, from + 1, from + n)
  OBVIOUS
<1>2. /\ Len(s) \in Nat /\ from + 1 \in Int /\ from + n \in Int
      /\ \A k \in from + 1 .. from + n : s[k] \in S
  BY ElementOfSeq, LenProperties
<1>3. /\ part \in Seq(S) /\ Len(part) = IF from + 1 <= from + n THEN from + n - (from + 1) + 1 ELSE 0
      /\ \A k \in 1 .. from + n - (from + 1) + 1 : part[k] = s[from + 1 + k - 1]
  BY <1>1, <1>2, SubSeqProperties
<1>4. Len(part) = n
  BY <1>2, <1>3
<1>5. ASSUME NEW k \in 1 .. n PROVE part[k] = s[from + k]
  <2>1. k \in 1 .. from + n - (from + 1) + 1 /\ from + 1 + k - 1 = from + k
    BY <1>2
  <2> QED
    BY <1>3, <2>1
<1> QED
  BY <1>1, <1>3, <1>4, <1>5

LEMMA JoinedProperties ==
  ASSUME NEW S, NEW s \in Seq(S), NEW t \in Seq(S)
  PROVE  /\ s \o t \in Seq(S) /\ Len(s \o t) = Len(s) + Len(t)
         /\ Len(s) \in Nat /\ Len(t) \in Nat
         /\ \A k \in 1 .. Len(s) : (s \o t)[k] = s[k]
         /\ \A k \in 1 .. Len(t) : (s \o t)[Len(s) + k] = t[k]
BY ConcatProperties, LenProperties

LEMMA AppendToJoined ==
  ASSUME NEW S, NEW s \in Seq(S), NEW t \in Seq(S), NEW e \in S
  PROVE  s \o Append(t, e) = Append(s \o t, e)
<1>1. <<e>> \in Seq(S) /\ s \o t \in Seq(S)
  BY JoinedProperties
<1> QED
  BY <1>1, AppendIsConcat, ConcatAssociative

(* A chunk that fills the buffer replaces it. *)
LEMMA NewestOfNew ==
  ASSUME NEW S, NEW old \in Seq(S), NEW new \in Seq(S), NEW n \in 0 .. Len(new)
  PROVE  SubSeq(new, n + 1, Len(new)) = SubSeq(old \o new, Len(old) + n + 1, Len(old \o new))
<1>1. PICK all : all = old \o new
  OBVIOUS
<1>2. /\ all \in Seq(S) /\ Len(all) = Len(old) + Len(new) /\ Len(old) \in Nat /\ Len(new) \in Nat
      /\ \A k \in 1 .. Len(new) : all[Len(old) + k] = new[k]
  BY <1>1, JoinedProperties
<1>3. PICK kept : kept = SubSeq(all, Len(old) + n + 1, Len(all))
  OBVIOUS
<1>4. Len(old) + n \in 0 .. Len(all)
  BY <1>2
<1>5. /\ kept \in Seq(S) /\ Len(kept) = Len(all) - (Len(old) + n)
      /\ \A k \in 1 .. Len(all) - (Len(old) + n) : kept[k] = all[Len(old) + n + k]
  BY <1>2, <1>3, <1>4, RestProperties
<1>6. PICK tail : tail = SubSeq(new, n + 1, Len(new))
  OBVIOUS
<1>7. /\ tail \in Seq(S) /\ Len(tail) = Len(new) - n
      /\ \A k \in 1 .. Len(new) - n : tail[k] = new[n + k]
  BY <1>6, RestProperties
<1>8. ASSUME NEW k \in 1 .. Len(tail) PROVE tail[k] = kept[k]
  <2>1. n + k \in 1 .. Len(new) /\ Len(old) + (n + k) = Len(old) + n + k /\ k \in 1 .. Len(new) - n
    BY <1>2, <1>7
  <2> QED
    BY <1>2, <1>5, <1>7, <2>1
<1>9. Len(tail) = Len(kept)
  BY <1>2, <1>5, <1>7
<1> QED
  BY <1>1, <1>3, <1>5, <1>6, <1>7, <1>8, <1>9, SameSeq

(* Otherwise the old elements that are still held precede the new ones. *)
LEMMA NewestOfBoth ==
  ASSUME NEW S, NEW old \in Seq(S), NEW new \in Seq(S), NEW start \in 0 .. Len(old),
         NEW over \in 0 .. Len(old) - start
  PROVE  SubSeq(SubSeq(old, start + 1, Len(old)), over + 1, Len(old) - start) \o new
           = SubSeq(old \o new, start + over + 1, Len(old \o new))
<1>1. PICK all : all = old \o new
  OBVIOUS
<1>2. /\ all \in Seq(S) /\ Len(all) = Len(old) + Len(new) /\ Len(old) \in Nat /\ Len(new) \in Nat
      /\ \A k \in 1 .. Len(old) : all[k] = old[k]
      /\ \A k \in 1 .. Len(new) : all[Len(old) + k] = new[k]
  BY <1>1, JoinedProperties
<1>3. PICK buffered : buffered = SubSeq(old, start + 1, Len(old))
  OBVIOUS
<1>4. /\ buffered \in Seq(S) /\ Len(buffered) = Len(old) - start
      /\ \A k \in 1 .. Len(old) - start : buffered[k] = old[start + k]
  BY <1>3, RestProperties
<1>5. PICK rest : rest = SubSeq(buffered, over + 1, Len(buffered))
  OBVIOUS
<1>6. /\ rest \in Seq(S) /\ Len(rest) = Len(buffered) - over
      /\ \A k \in 1 .. Len(buffered) - over : rest[k] = buffered[over + k]
  BY <1>4, <1>5, RestProperties
<1>7. PICK kept : kept = SubSeq(all, start + over + 1, Len(all))
  OBVIOUS
<1>8. start + over \in 0 .. Len(all)
  BY <1>2
<1>9. /\ kept \in Seq(S) /\ Len(kept) = Len(all) - (start + over)
      /\ \A k \in 1 .. Len(all) - (start + over) : kept[k] = all[start + over + k]
  BY <1>2, <1>7, <1>8, RestProperties
<1>10. PICK both : both = rest \o new
  OBVIOUS
<1>11. /\ both \in Seq(S) /\ Len(both) = Len(rest) + Len(new)
       /\ \A k \in 1 .. Len(rest) : both[k] = rest[k]
       /\ \A k \in 1 .. Len(new) : both[Len(rest) + k] = new[k]
  <2>1. rest \in Seq(S)
    BY <1>6
  <2> QED
    BY <1>10, <2>1, JoinedProperties
<1>12. Len(rest) = Len(old) - (start + over) /\ Len(rest) \in Nat
  BY <1>2, <1>4, <1>6
<1>13. ASSUME NEW k \in 1 .. Len(both) PROVE both[k] = kept[k]
  <2>1. k \in Int /\ k >= 1 /\ k <= Len(rest) + Len(new)
    BY <1>2, <1>11, <1>12
  <2>2. kept[k] = all[start + over + k]
    <3>1. k \in 1 .. Len(all) - (start + over)
      BY <1>2, <1>12, <2>1
    <3> QED
      BY <1>9, <3>1
  <2>3. CASE k <= Len(rest)
    <3>1. /\ k \in 1 .. Len(rest) /\ k \in 1 .. Len(buffered) - over /\ over + k \in 1 .. Len(old) - start
          /\ start + (over + k) = start + over + k /\ start + over + k \in 1 .. Len(old)
      BY <1>2, <1>4, <1>12, <2>1, <2>3
    <3> QED
      BY <1>2, <1>4, <1>6, <1>11, <2>2, <3>1
  <2>4. CASE k > Len(rest)
    <3>1. /\ k - Len(rest) \in 1 .. Len(new) /\ Len(rest) + (k - Len(rest)) = k
          /\ Len(old) + (k - Len(rest)) = start + over + k
      BY <1>2, <1>12, <2>1, <2>4
    <3> QED
      BY <1>2, <1>11, <2>2, <3>1
  <2> QED
    BY <1>12, <2>1, <2>3, <2>4
<1>14. Len(both) = Len(kept)
  BY <1>2, <1>9, <1>11, <1>12
<1>15. both = kept
  BY <1>9, <1>11, <1>13, <1>14, SameSeq
<1> QED
  BY <1>1, <1>3, <1>4, <1>5, <1>7, <1>10, <1>15

(* What a buffer holds before a write and what is written make what it holds   *)
(* after it, whether or not the write fills the buffer.                       *)
LEMMA NewestAppended ==
  ASSUME NEW S, NEW old \in Seq(S), NEW new \in Seq(S)
  PROVE  AppendTo(Newest(old), new) = Newest(old \o new)
<1> USE CapacityAssumption
<1>1. Len(old) \in Nat /\ Len(new) \in Nat /\ Len(old \o new) = Len(old) + Len(new)
  BY JoinedProperties
<1>2. PICK start : start = Larger(0, Len(old) - Capacity)
  OBVIOUS
<1>3. start \in 0 .. Len(old) /\ Len(old) - start <= Capacity /\ (start > 0 => Len(old) - start = Capacity)
  BY <1>1, <1>2 DEF Larger
<1>4. PICK buffered : buffered = SubSeq(old, start + 1, Len(old))
  OBVIOUS
<1>5. Newest(old) = [start |-> start, bytes |-> buffered]
  BY <1>2, <1>4 DEF Newest
<1>6. Len(buffered) = Len(old) - start
  BY <1>3, <1>4, RestProperties
<1>7. CASE Len(new) >= Capacity
  <2>1. AppendTo(Newest(old), new) =
          [start |-> start + Len(buffered) + Len(new) - Capacity,
           bytes |-> SubSeq(new, Len(new) - Capacity + 1, Len(new))]
    BY <1>5, <1>7 DEF AppendTo
  <2>2. /\ start + Len(buffered) + Len(new) - Capacity = Len(old) + (Len(new) - Capacity)
        /\ Larger(0, Len(old \o new) - Capacity) = Len(old) + (Len(new) - Capacity)
        /\ Len(new) - Capacity \in 0 .. Len(new)
    BY <1>1, <1>3, <1>6, <1>7 DEF Larger
  <2>3. SubSeq(new, Len(new) - Capacity + 1, Len(new))
          = SubSeq(old \o new, Len(old) + (Len(new) - Capacity) + 1, Len(old \o new))
    BY <2>2, NewestOfNew
  <2> QED
    BY <2>1, <2>2, <2>3 DEF Newest
<1>8. CASE Len(new) < Capacity
  <2>1. PICK over : over = Larger(0, Len(buffered) + Len(new) - Capacity)
    OBVIOUS
  <2>2. AppendTo(Newest(old), new) =
          [start |-> start + over, bytes |-> SubSeq(buffered, over + 1, Len(buffered)) \o new]
    BY <1>1, <1>5, <1>8, <2>1, CapacityAssumption DEF AppendTo, Overflow
  <2>3. /\ over \in 0 .. Len(old) - start
        /\ Larger(0, Len(old \o new) - Capacity) = start + over
    BY <1>1, <1>3, <1>6, <1>8, <2>1 DEF Larger
  <2>4. SubSeq(buffered, over + 1, Len(buffered)) \o new = SubSeq(old \o new, start + over + 1, Len(old \o new))
    BY <1>3, <1>4, <1>6, <2>3, NewestOfBoth
  <2> QED
    BY <2>2, <2>3, <2>4 DEF Newest
<1> QED
  BY <1>1, <1>7, <1>8

-----------------------------------------------------------------------------
(* The stripper *)

State == {"ground", "escape", "csi", "osc", "oscEscape"}

Stripped == [state : State, plain : Seq(Shown)]

LEMMA StripByteType ==
  ASSUME NEW stripped \in Stripped, NEW byte \in Byte
  PROVE  StripByte(stripped, byte) \in Stripped
<1>1. AfterByte(stripped.state, byte) \in State
  BY DEF AfterByte, Stripped, State
<1>2. byte \in Shown => Append(stripped.plain, byte) \in Seq(Shown)
  BY AppendProperties DEF Stripped
<1> QED
  BY <1>1, <1>2 DEF StripByte, Stripped

(* What a chunk is stripped to, byte by byte. *)
Steps(stripped, bytes, f) ==
  /\ f[0] = stripped
  /\ \A n \in 1 .. Len(bytes) : f[n] = StripByte(f[n - 1], bytes[n])

(* The definition of StripFrom defines a value. *)
LEMMA StripFromSteps ==
  ASSUME NEW stripped, NEW bytes, Len(bytes) \in Nat
  PROVE  \E f : Steps(stripped, bytes, f) /\ StripFrom(stripped, bytes) = f[Len(bytes)]
<1> DEFINE L == Len(bytes)
           Upto(m, g) == g = [n \in 0 .. m |-> IF n = 0 THEN stripped ELSE StripByte(g[n - 1], bytes[n])]
           S == {m \in 0 .. L : \E g : Upto(m, g)}
           f == CHOOSE g : Upto(L, g)
<1>1. 0 \in S
  <2> DEFINE g == [n \in 0 .. 0 |-> stripped]
  <2>1. \A n \in 0 .. 0 : n = 0
    OBVIOUS
  <2>2. Upto(0, g)
    BY <2>1
  <2>3. \E x : Upto(0, x)
    <3> HIDE DEF g
    <3> QED
      BY <2>2
  <2>4. 0 \in 0 .. L
    OBVIOUS
  <2> QED
    BY <2>3, <2>4
<1>2. ASSUME NEW m \in 0 .. L - 1, m \in S PROVE m + 1 \in S
  <2>1. PICK g : Upto(m, g)
    BY <1>2
  <2> DEFINE h == [n \in 0 .. m + 1 |-> IF n = m + 1 THEN StripByte(g[m], bytes[m + 1]) ELSE g[n]]
  <2>2. m \in Nat /\ m + 1 \in 0 .. L
    OBVIOUS
  <2>3. \A n \in 0 .. m : h[n] = g[n]
    BY <2>2
  <2>4. h[m + 1] = StripByte(g[m], bytes[m + 1])
    BY <2>2
  <2>5. ASSUME NEW n \in 0 .. m + 1
        PROVE  h[n] = IF n = 0 THEN stripped ELSE StripByte(h[n - 1], bytes[n])
    <3>1. CASE n = m + 1
      <4>1. n - 1 = m /\ n # 0 /\ m \in 0 .. m
        BY <2>2, <3>1
      <4>2. h[n - 1] = g[m]
        BY <2>3, <4>1
      <4> HIDE DEF h
      <4> QED
        BY <2>4, <3>1, <4>1, <4>2
    <3>2. CASE n # m + 1
      <4>1. n \in 0 .. m /\ (n # 0 => n - 1 \in 0 .. m)
        BY <2>2, <3>2
      <4>2. g[n] = IF n = 0 THEN stripped ELSE StripByte(g[n - 1], bytes[n])
        BY <2>1, <4>1
      <4>3. h[n] = g[n] /\ (n # 0 => h[n - 1] = g[n - 1])
        BY <2>3, <4>1
      <4> HIDE DEF h
      <4> QED
        BY <4>2, <4>3
    <3> QED
      BY <3>1, <3>2
  <2>6. Upto(m + 1, h)
    BY <2>5
  <2> QED
    BY <2>2, <2>6
<1>3. L \in S
  <2>1. L \in 0 .. L
    OBVIOUS
  <2> HIDE DEF S
  <2> QED
    BY <1>1, <1>2, <2>1, Reaches
<1>4. Upto(L, f)
  BY <1>3
<1>5. StripFrom(stripped, bytes) = f[L]
  BY DEF StripFrom
<1>6. Steps(stripped, bytes, f)
  <2> HIDE DEF f
  <2>1. f[0] = stripped
    BY <1>4
  <2>2. ASSUME NEW n \in 1 .. L PROVE f[n] = StripByte(f[n - 1], bytes[n])
    BY <1>4
  <2> QED
    BY <2>1, <2>2 DEF Steps
<1> QED
  BY <1>5, <1>6

(* Chunks that begin alike are stripped alike. *)
LEMMA StepsAgree ==
  ASSUME NEW stripped, NEW a, NEW b, NEW f, NEW g, Steps(stripped, a, f), Steps(stripped, b, g),
         NEW m \in Nat, m <= Len(a), m <= Len(b), Len(a) \in Nat, Len(b) \in Nat,
         \A n \in 1 .. m : a[n] = b[n]
  PROVE  f[m] = g[m]
<1> DEFINE S == {n \in 0 .. m : f[n] = g[n]}
<1>1. 0 \in S
  BY DEF Steps
<1>2. ASSUME NEW n \in 0 .. m - 1, n \in S PROVE n + 1 \in S
  <2>1. n + 1 \in 1 .. m /\ n + 1 \in 1 .. Len(a) /\ n + 1 \in 1 .. Len(b) /\ (n + 1) - 1 = n
    OBVIOUS
  <2>2. f[n + 1] = StripByte(f[n], a[n + 1]) /\ g[n + 1] = StripByte(g[n], b[n + 1])
    BY <2>1 DEF Steps
  <2> QED
    BY <1>2, <2>1, <2>2
<1>3. m \in S
  <2>1. m \in 0 .. m
    OBVIOUS
  <2> HIDE DEF S
  <2> QED
    BY <1>1, <1>2, <2>1, Reaches
<1> QED
  BY <1>3

(* ... so that it can be told byte by byte what a beginning is stripped to.   *)
LEMMA StripFirst ==
  ASSUME NEW S, NEW bytes \in Seq(S), NEW stripped
  PROVE  /\ StripFrom(stripped, First(bytes, 0)) = stripped
         /\ \A n \in 0 .. Len(bytes) - 1 :
              StripFrom(stripped, First(bytes, n + 1))
                = StripByte(StripFrom(stripped, First(bytes, n)), bytes[n + 1])
<1> DEFINE P(n) == StripFrom(stripped, First(bytes, n))
<1>1. Len(bytes) \in Nat
  BY LenProperties
<1>2. PICK f : Steps(stripped, bytes, f)
  BY <1>1, StripFromSteps
<1>3. ASSUME NEW n \in 0 .. Len(bytes) PROVE P(n) = f[n]
  <2>1. /\ Len(First(bytes, n)) = n /\ n \in Nat /\ n <= Len(bytes)
        /\ \A k \in 1 .. n : First(bytes, n)[k] = bytes[k]
    BY <1>1, FirstProperties
  <2>2. PICK g : Steps(stripped, First(bytes, n), g) /\ P(n) = g[n]
    <3>1. Len(First(bytes, n)) \in Nat
      BY <2>1
    <3> QED
      BY <2>1, <3>1, StripFromSteps
  <2> QED
    BY <1>1, <1>2, <2>1, <2>2, StepsAgree
<1>4. ASSUME NEW n \in 0 .. Len(bytes) - 1
      PROVE  f[n + 1] = StripByte(f[n], bytes[n + 1]) /\ P(n) = f[n] /\ P(n + 1) = f[n + 1]
  <2>1. n + 1 \in 1 .. Len(bytes) /\ (n + 1) - 1 = n /\ n \in 0 .. Len(bytes) /\ n + 1 \in 0 .. Len(bytes)
    BY <1>1
  <2>2. f[n + 1] = StripByte(f[n], bytes[n + 1])
    BY <1>2, <2>1 DEF Steps
  <2> QED
    BY <1>3, <2>1, <2>2
<1>5. P(0) = stripped
  BY <1>1, <1>2, <1>3 DEF Steps
<1> QED
  BY <1>4, <1>5

LEMMA StripFromType ==
  ASSUME NEW bytes \in Seq(Byte), NEW stripped \in Stripped
  PROVE  StripFrom(stripped, bytes) \in Stripped
<1> DEFINE P(n) == StripFrom(stripped, First(bytes, n))
           S == {n \in 0 .. Len(bytes) : P(n) \in Stripped}
<1>1. Len(bytes) \in Nat /\ First(bytes, Len(bytes)) = bytes
  BY LenProperties, SubSeqFull DEF First
<1>2. 0 \in S
  BY <1>1, StripFirst
<1>3. ASSUME NEW n \in 0 .. Len(bytes) - 1, n \in S PROVE n + 1 \in S
  <2>1. n + 1 \in 1 .. Len(bytes) /\ n + 1 \in 0 .. Len(bytes) /\ bytes[n + 1] \in Byte
    BY <1>1, ElementOfSeq
  <2>2. P(n + 1) = StripByte(P(n), bytes[n + 1])
    BY StripFirst
  <2>3. P(n) \in Stripped
    BY <1>3
  <2> HIDE DEF P
  <2>4. P(n + 1) \in Stripped
    BY <2>1, <2>2, <2>3, StripByteType
  <2> QED
    BY <2>1, <2>4
<1>4. Len(bytes) \in S
  <2>1. Len(bytes) \in 0 .. Len(bytes)
    BY <1>1
  <2> HIDE DEF S
  <2> QED
    BY <1>1, <1>2, <1>3, <2>1, Reaches
<1> QED
  BY <1>1, <1>4

LEMMA StripType ==
  ASSUME NEW bytes \in Seq(Byte), NEW state \in State
  PROVE  Strip(state, bytes) \in Stripped
<1>1. [state |-> state, plain |-> <<>>] \in Stripped
  BY EmptySeq DEF Stripped
<1> QED
  BY <1>1, StripFromType DEF Strip

(* A chunk after another is stripped as both are together: the output does not *)
(* depend on where it is cut.                                                 *)
LEMMA StripChunks ==
  ASSUME NEW bytes \in Seq(Byte), NEW w \in 0 .. Len(bytes), NEW r \in 0 .. Len(bytes) - w
  PROVE  LET before == Strip("ground", First(bytes, w))
             after == Strip("ground", First(bytes, w + r))
             chunk == Strip(before.state, SubSeq(bytes, w + 1, w + r))
         IN chunk.state = after.state /\ before.plain \o chunk.plain = after.plain
<1> DEFINE ground == [state |-> "ground", plain |-> <<>>]
           P(n) == StripFrom(ground, First(bytes, n))
           cut == SubSeq(bytes, w + 1, w + r)
           here == [state |-> P(w).state, plain |-> <<>>]
           C(n) == StripFrom(here, First(cut, n))
           S == {n \in 0 .. r : C(n).state = P(w + n).state /\ P(w).plain \o C(n).plain = P(w + n).plain}
<1>1. Len(bytes) \in Nat /\ w \in Nat /\ r \in Nat /\ w + r \in 0 .. Len(bytes)
  BY LenProperties
<1>2. /\ cut \in Seq(Byte) /\ Len(cut) = r
      /\ \A k \in 1 .. r : cut[k] = bytes[w + k]
  BY PartProperties
<1>3. ASSUME NEW n \in 0 .. Len(bytes) PROVE P(n) \in Stripped
  <2>1. First(bytes, n) \in Seq(Byte) /\ ground \in Stripped
    BY FirstProperties, EmptySeq DEF Stripped, State
  <2> QED
    BY <2>1, StripFromType
<1>4. here \in Stripped
  <2>1. P(w).state \in State
    BY <1>3 DEF Stripped
  <2> QED
    BY <2>1, EmptySeq DEF Stripped
<1>5. ASSUME NEW n \in 0 .. r PROVE C(n) \in Stripped
  <2>1. First(cut, n) \in Seq(Byte)
    BY <1>2, FirstProperties
  <2> QED
    BY <1>4, <2>1, StripFromType
<1>6. 0 \in S
  <2>1. C(0) = here
    BY <1>2, StripFirst
  <2>2. here.state = P(w).state /\ here.plain = <<>> /\ w + 0 = w
    BY <1>1
  <2>3. P(w).plain \o <<>> = P(w).plain
    BY <1>3, ConcatEmptySeq DEF Stripped
  <2>4. C(0).state = P(w + 0).state /\ P(w).plain \o C(0).plain = P(w + 0).plain
    BY <2>1, <2>2, <2>3
  <2>5. 0 \in 0 .. r
    BY <1>1
  <2> HIDE DEF P, C
  <2> QED
    BY <2>4, <2>5
<1>7. ASSUME NEW n \in 0 .. r - 1, n \in S PROVE n + 1 \in S
  <2>1. n \in 0 .. r /\ n + 1 \in 1 .. r /\ n + 1 \in 0 .. r /\ w + n \in 0 .. Len(bytes) - 1 /\ w + (n + 1) = w + n + 1
    BY <1>1
  <2>2. C(n + 1) = StripByte(C(n), bytes[w + n + 1])
    <3> HIDE DEF cut, here
    <3>1. C(n + 1) = StripByte(C(n), cut[n + 1])
      BY <1>2, <2>1, StripFirst
    <3>2. cut[n + 1] = bytes[w + n + 1]
      BY <1>2, <2>1
    <3> QED
      BY <3>1, <3>2
  <2>3. P(w + n + 1) = StripByte(P(w + n), bytes[w + n + 1])
    BY <2>1, StripFirst
  <2>4. C(n).state = P(w + n).state /\ P(w).plain \o C(n).plain = P(w + n).plain
    BY <1>7
  <2>5. P(w).plain \in Seq(Shown) /\ C(n).plain \in Seq(Shown)
    BY <1>3, <1>5, <2>1 DEF Stripped
  <2>6. ASSUME NEW a \in Seq(Shown), NEW b \in Seq(Shown), NEW byte \in Shown
        PROVE  a \o Append(b, byte) = Append(a \o b, byte)
    BY AppendToJoined
  <2> HIDE DEF C, P
  <2>7. C(n + 1).state = P(w + n + 1).state
    BY <2>2, <2>3, <2>4 DEF StripByte
  <2>8. P(w).plain \o C(n + 1).plain = P(w + n + 1).plain
    <3> DEFINE byte == bytes[w + n + 1]
    <3>1. CASE P(w + n).state = "ground" /\ byte \in Shown
      <4>1. C(n + 1).plain = Append(C(n).plain, byte) /\ P(w + n + 1).plain = Append(P(w + n).plain, byte)
        BY <2>2, <2>3, <2>4, <3>1 DEF StripByte
      <4> QED
        BY <2>4, <2>5, <2>6, <3>1, <4>1
    <3>2. CASE ~(P(w + n).state = "ground" /\ byte \in Shown)
      <4>1. C(n + 1).plain = C(n).plain /\ P(w + n + 1).plain = P(w + n).plain
        BY <2>2, <2>3, <2>4, <3>2 DEF StripByte
      <4> QED
        BY <2>4, <4>1
    <3> QED
      BY <3>1, <3>2
  <2> QED
    BY <2>1, <2>7, <2>8
<1>8. r \in S
  <2>1. r \in 0 .. r
    BY <1>1
  <2> HIDE DEF S
  <2> QED
    BY <1>1, <1>6, <1>7, <2>1, Reaches
<1>9. First(cut, r) = cut
  BY <1>2, SubSeqFull DEF First
<1> QED
  BY <1>8, <1>9 DEF Strip

-----------------------------------------------------------------------------
(* The text *)

Marked == [byte : Byte, text : BOOLEAN]

LEMMA BytesProperties ==
  ASSUME NEW marked \in Seq(Marked)
  PROVE  /\ Bytes(marked) \in Seq(Byte) /\ Len(Bytes(marked)) = Len(marked)
         /\ \A k \in 1 .. Len(marked) : Bytes(marked)[k] = marked[k].byte
<1>1. Len(marked) \in Nat /\ DOMAIN marked = 1 .. Len(marked) /\ \A k \in 1 .. Len(marked) : marked[k] \in Marked
  BY ElementOfSeq, LenProperties
<1>2. Bytes(marked) \in [1 .. Len(marked) -> Byte]
  BY <1>1 DEF Bytes, Marked
<1>3. Bytes(marked) \in Seq(Byte)
  BY <1>1, <1>2, IsASeq
<1> QED
  BY <1>1, <1>2, <1>3 DEF Bytes

(* The bytes of a part are the part of the bytes. *)
LEMMA BytesOfPart ==
  ASSUME NEW marked \in Seq(Marked), NEW w \in 0 .. Len(marked), NEW r \in 0 .. Len(marked) - w
  PROVE  /\ SubSeq(marked, w + 1, w + r) \in Seq(Marked)
         /\ Bytes(SubSeq(marked, w + 1, w + r)) = SubSeq(Bytes(marked), w + 1, w + r)
<1>1. /\ Len(marked) \in Nat
      /\ Bytes(marked) \in Seq(Byte) /\ Len(Bytes(marked)) = Len(marked)
      /\ \A k \in 1 .. Len(marked) : Bytes(marked)[k] = marked[k].byte
  BY LenProperties, BytesProperties
<1>2. PICK part : part = SubSeq(marked, w + 1, w + r)
  OBVIOUS
<1>3. part \in Seq(Marked) /\ Len(part) = r /\ \A k \in 1 .. r : part[k] = marked[w + k]
  BY <1>2, PartProperties
<1>4. PICK cut : cut = SubSeq(Bytes(marked), w + 1, w + r)
  OBVIOUS
<1>5. cut \in Seq(Byte) /\ Len(cut) = r /\ \A k \in 1 .. r : cut[k] = Bytes(marked)[w + k]
  BY <1>1, <1>4, PartProperties
<1>6. /\ Bytes(part) \in Seq(Byte) /\ Len(Bytes(part)) = r
      /\ \A k \in 1 .. r : Bytes(part)[k] = part[k].byte
  BY <1>3, BytesProperties
<1>7. ASSUME NEW k \in 1 .. r PROVE Bytes(part)[k] = cut[k]
  <2>1. w + k \in 1 .. Len(marked)
    BY <1>1
  <2> QED
    BY <1>1, <1>3, <1>5, <1>6, <2>1
<1>8. Bytes(part) = cut
  BY <1>5, <1>6, <1>7, SameSeq
<1> QED
  BY <1>2, <1>3, <1>4, <1>8

LEMMA BytesOfFirst ==
  ASSUME NEW marked \in Seq(Marked), NEW n \in 0 .. Len(marked)
  PROVE  First(marked, n) \in Seq(Marked) /\ Bytes(First(marked, n)) = First(Bytes(marked), n)
<1>1. Len(marked) \in Nat
  BY LenProperties
<1>2. 0 \in 0 .. Len(marked) /\ n \in 0 .. Len(marked) - 0 /\ 0 + 1 = 1 /\ 0 + n = n
  BY <1>1
<1>3. /\ SubSeq(marked, 0 + 1, 0 + n) \in Seq(Marked)
      /\ Bytes(SubSeq(marked, 0 + 1, 0 + n)) = SubSeq(Bytes(marked), 0 + 1, 0 + n)
  BY <1>2, BytesOfPart
<1> QED
  BY <1>2, <1>3 DEF First

TextSteps(marked, f) ==
  /\ f[0] = <<>>
  /\ \A n \in 1 .. Len(marked) :
       f[n] = IF marked[n].text THEN Append(f[n - 1], marked[n]) ELSE f[n - 1]

(* The definition of TextOnly defines a value. *)
LEMMA TextOnlySteps ==
  ASSUME NEW marked, Len(marked) \in Nat
  PROVE  \E f : TextSteps(marked, f) /\ TextOnly(marked) = f[Len(marked)]
<1> DEFINE L == Len(marked)
           Upto(m, g) == g = [n \in 0 .. m |-> IF n = 0 THEN <<>>
                                ELSE IF marked[n].text THEN Append(g[n - 1], marked[n]) ELSE g[n - 1]]
           S == {m \in 0 .. L : \E g : Upto(m, g)}
           f == CHOOSE g : Upto(L, g)
<1>1. 0 \in S
  <2> DEFINE g == [n \in 0 .. 0 |-> <<>>]
  <2>1. \A n \in 0 .. 0 : n = 0
    OBVIOUS
  <2>2. Upto(0, g)
    BY <2>1
  <2>3. \E x : Upto(0, x)
    <3> HIDE DEF g
    <3> QED
      BY <2>2
  <2>4. 0 \in 0 .. L
    OBVIOUS
  <2> QED
    BY <2>3, <2>4
<1>2. ASSUME NEW m \in 0 .. L - 1, m \in S PROVE m + 1 \in S
  <2>1. PICK g : Upto(m, g)
    BY <1>2
  <2> DEFINE last == IF marked[m + 1].text THEN Append(g[m], marked[m + 1]) ELSE g[m]
             h == [n \in 0 .. m + 1 |-> IF n = m + 1 THEN last ELSE g[n]]
  <2>2. m \in Nat /\ m + 1 \in 0 .. L
    OBVIOUS
  <2>3. \A n \in 0 .. m : h[n] = g[n]
    BY <2>2
  <2>4. h[m + 1] = last
    BY <2>2
  <2>5. ASSUME NEW n \in 0 .. m + 1
        PROVE  h[n] = IF n = 0 THEN <<>>
                      ELSE IF marked[n].text THEN Append(h[n - 1], marked[n]) ELSE h[n - 1]
    <3>1. CASE n = m + 1
      <4>1. n - 1 = m /\ n # 0 /\ m \in 0 .. m
        BY <2>2, <3>1
      <4>2. h[n - 1] = g[m]
        BY <2>3, <4>1
      <4> HIDE DEF h
      <4> QED
        BY <2>4, <3>1, <4>1, <4>2
    <3>2. CASE n # m + 1
      <4>1. n \in 0 .. m /\ (n # 0 => n - 1 \in 0 .. m)
        BY <2>2, <3>2
      <4>2. g[n] = IF n = 0 THEN <<>>
                   ELSE IF marked[n].text THEN Append(g[n - 1], marked[n]) ELSE g[n - 1]
        BY <2>1, <4>1
      <4>3. h[n] = g[n] /\ (n # 0 => h[n - 1] = g[n - 1])
        BY <2>3, <4>1
      <4> HIDE DEF h
      <4> QED
        BY <4>2, <4>3
    <3> QED
      BY <3>1, <3>2
  <2>6. Upto(m + 1, h)
    BY <2>5
  <2> QED
    BY <2>2, <2>6
<1>3. L \in S
  <2>1. L \in 0 .. L
    OBVIOUS
  <2> HIDE DEF S
  <2> QED
    BY <1>1, <1>2, <2>1, Reaches
<1>4. Upto(L, f)
  BY <1>3
<1>5. TextOnly(marked) = f[L]
  BY DEF TextOnly
<1>6. TextSteps(marked, f)
  <2> HIDE DEF f
  <2>1. f[0] = <<>>
    BY <1>4
  <2>2. ASSUME NEW n \in 1 .. L
        PROVE  f[n] = IF marked[n].text THEN Append(f[n - 1], marked[n]) ELSE f[n - 1]
    <3>1. n \in 0 .. L /\ n # 0
      OBVIOUS
    <3> QED
      BY <1>4, <3>1
  <2> QED
    BY <2>1, <2>2 DEF TextSteps
<1> QED
  BY <1>5, <1>6

LEMMA TextStepsAgree ==
  ASSUME NEW a, NEW b, NEW f, NEW g, TextSteps(a, f), TextSteps(b, g),
         NEW m \in Nat, m <= Len(a), m <= Len(b), Len(a) \in Nat, Len(b) \in Nat,
         \A n \in 1 .. m : a[n] = b[n]
  PROVE  f[m] = g[m]
<1> DEFINE S == {n \in 0 .. m : f[n] = g[n]}
<1>1. 0 \in S
  BY DEF TextSteps
<1>2. ASSUME NEW n \in 0 .. m - 1, n \in S PROVE n + 1 \in S
  <2>1. n + 1 \in 1 .. m /\ n + 1 \in 1 .. Len(a) /\ n + 1 \in 1 .. Len(b) /\ (n + 1) - 1 = n
    OBVIOUS
  <2>2. /\ f[n + 1] = IF a[n + 1].text THEN Append(f[n], a[n + 1]) ELSE f[n]
        /\ g[n + 1] = IF b[n + 1].text THEN Append(g[n], b[n + 1]) ELSE g[n]
    BY <2>1 DEF TextSteps
  <2> QED
    BY <1>2, <2>1, <2>2
<1>3. m \in S
  <2>1. m \in 0 .. m
    OBVIOUS
  <2> HIDE DEF S
  <2> QED
    BY <1>1, <1>2, <2>1, Reaches
<1> QED
  BY <1>3

LEMMA TextFirst ==
  ASSUME NEW S, NEW marked \in Seq(S)
  PROVE  /\ TextOnly(First(marked, 0)) = <<>>
         /\ \A n \in 0 .. Len(marked) - 1 :
              TextOnly(First(marked, n + 1))
                = IF marked[n + 1].text THEN Append(TextOnly(First(marked, n)), marked[n + 1])
                  ELSE TextOnly(First(marked, n))
<1> DEFINE T(n) == TextOnly(First(marked, n))
<1>1. Len(marked) \in Nat
  BY LenProperties
<1>2. PICK f : TextSteps(marked, f)
  BY <1>1, TextOnlySteps
<1>3. ASSUME NEW n \in 0 .. Len(marked) PROVE T(n) = f[n]
  <2>1. /\ Len(First(marked, n)) = n /\ n \in Nat /\ n <= Len(marked)
        /\ \A k \in 1 .. n : First(marked, n)[k] = marked[k]
    BY <1>1, FirstProperties
  <2>2. PICK g : TextSteps(First(marked, n), g) /\ T(n) = g[n]
    <3>1. Len(First(marked, n)) \in Nat
      BY <2>1
    <3> QED
      BY <2>1, <3>1, TextOnlySteps
  <2> QED
    BY <1>1, <1>2, <2>1, <2>2, TextStepsAgree
<1>4. ASSUME NEW n \in 0 .. Len(marked) - 1
      PROVE  /\ f[n + 1] = IF marked[n + 1].text THEN Append(f[n], marked[n + 1]) ELSE f[n]
             /\ T(n) = f[n] /\ T(n + 1) = f[n + 1]
  <2>1. n + 1 \in 1 .. Len(marked) /\ (n + 1) - 1 = n /\ n \in 0 .. Len(marked) /\ n + 1 \in 0 .. Len(marked)
    BY <1>1
  <2>2. f[n + 1] = IF marked[n + 1].text THEN Append(f[n], marked[n + 1]) ELSE f[n]
    BY <1>2, <2>1 DEF TextSteps
  <2> QED
    BY <1>3, <2>1, <2>2
<1>5. T(0) = <<>>
  BY <1>1, <1>2, <1>3 DEF TextSteps
<1> QED
  BY <1>4, <1>5

LEMMA BytesAppended ==
  ASSUME NEW marked \in Seq(Marked), NEW last \in Marked
  PROVE  Bytes(Append(marked, last)) = Append(Bytes(marked), last.byte)
<1>1. PICK more : more = Append(marked, last)
  OBVIOUS
<1>2. /\ more \in Seq(Marked) /\ Len(more) = Len(marked) + 1 /\ Len(marked) \in Nat
      /\ \A k \in 1 .. Len(marked) : more[k] = marked[k]
      /\ more[Len(marked) + 1] = last
  BY <1>1, AppendProperties, LenProperties
<1>3. PICK bytes : bytes = Append(Bytes(marked), last.byte)
  OBVIOUS
<1>4. last.byte \in Byte /\ Bytes(marked) \in Seq(Byte) /\ Len(Bytes(marked)) = Len(marked)
  BY BytesProperties DEF Marked
<1>5. /\ bytes \in Seq(Byte) /\ Len(bytes) = Len(marked) + 1
      /\ \A k \in 1 .. Len(marked) : bytes[k] = Bytes(marked)[k]
      /\ bytes[Len(marked) + 1] = last.byte
  BY <1>3, <1>4, AppendProperties
<1>6. ASSUME NEW k \in 1 .. Len(more) PROVE Bytes(more)[k] = bytes[k]
  <2>1. Bytes(more)[k] = more[k].byte
    BY <1>2, BytesProperties
  <2>2. CASE k = Len(marked) + 1
    BY <1>2, <1>5, <2>1, <2>2
  <2>3. CASE k \in 1 .. Len(marked)
    BY <1>2, <1>5, <2>1, <2>3, BytesProperties
  <2> QED
    BY <1>2, <2>2, <2>3
<1>7. Bytes(more) \in Seq(Byte) /\ Len(Bytes(more)) = Len(more)
  BY <1>2, BytesProperties
<1>8. Bytes(more) = bytes
  BY <1>2, <1>5, <1>6, <1>7, SameSeq
<1> QED
  BY <1>1, <1>3, <1>8

(* What is left by stripping a stream is its text. *)
LEMMA StrippedIsText ==
  ASSUME NEW marked \in Stream, NEW n \in 0 .. Len(marked)
  PROVE  Bytes(TextOnly(First(marked, n))) = Strip("ground", First(Bytes(marked), n)).plain
<1> DEFINE bytes == Bytes(marked)
           P(k) == Strip("ground", First(bytes, k))
           T(k) == TextOnly(First(marked, k))
           S == {k \in 0 .. n : T(k) \in Seq(Marked) /\ Bytes(T(k)) = P(k).plain}
<1>1. marked \in Seq(Marked) /\ Len(marked) \in Nat /\ bytes \in Seq(Byte) /\ Len(bytes) = Len(marked)
  <2>1. marked \in Seq(Marked)
    BY FollowingAssumption DEF Marked
  <2> QED
    BY <2>1, LenProperties, BytesProperties
<1>2. 0 \in S
  <2>1. T(0) = <<>> /\ P(0).plain = <<>>
    BY <1>1, TextFirst, StripFirst DEF Strip
  <2>2. <<>> \in Seq(Marked) /\ Bytes(<<>>) = <<>>
    BY EmptySeq, BytesProperties
  <2>3. 0 \in 0 .. n
    BY <1>1
  <2> HIDE DEF P, T
  <2> QED
    BY <2>1, <2>2, <2>3
<1>3. ASSUME NEW k \in 0 .. n - 1, k \in S PROVE k + 1 \in S
  <2>1. /\ k \in 0 .. Len(marked) - 1 /\ k + 1 \in 1 .. Len(marked) /\ k + 1 \in 0 .. n
        /\ (k + 1) - 1 = k /\ k \in 0 .. Len(marked) /\ marked[k + 1] \in Marked
        /\ bytes[k + 1] = marked[k + 1].byte /\ k + 1 \in DOMAIN marked
    BY <1>1, BytesProperties, ElementOfSeq, LenProperties
  <2>2. T(k + 1) = IF marked[k + 1].text THEN Append(T(k), marked[k + 1]) ELSE T(k)
    BY <1>1, <2>1, TextFirst
  <2>3. P(k + 1) = StripByte(P(k), bytes[k + 1])
    <3> HIDE DEF bytes
    <3> QED
      BY <1>1, <2>1, StripFirst DEF Strip
  <2>4. marked[k + 1].text <=> marked[k + 1].byte \in Shown /\ P(k).state = "ground"
    <3>1. marked[k + 1].text <=>
            /\ marked[k + 1].byte \in Shown
            /\ Strip("ground", Bytes(SubSeq(marked, 1, (k + 1) - 1))).state = "ground"
      BY <2>1, MarkAssumption
    <3>2. Bytes(SubSeq(marked, 1, (k + 1) - 1)) = First(bytes, k)
      BY <1>1, <2>1, BytesOfFirst DEF First
    <3> QED
      BY <3>1, <3>2
  <2>5. T(k) \in Seq(Marked) /\ Bytes(T(k)) = P(k).plain
    BY <1>3
  <2> HIDE DEF P, T, bytes
  <2>6. CASE marked[k + 1].text
    <3>1. P(k + 1).plain = Append(P(k).plain, marked[k + 1].byte)
      BY <2>1, <2>3, <2>4, <2>6 DEF StripByte
    <3>2. T(k + 1) = Append(T(k), marked[k + 1])
      BY <2>2, <2>6
    <3>3. T(k + 1) \in Seq(Marked) /\ Bytes(T(k + 1)) = Append(Bytes(T(k)), marked[k + 1].byte)
      <4>1. ASSUME NEW old \in Seq(Marked), NEW last \in Marked
            PROVE  /\ Append(old, last) \in Seq(Marked)
                   /\ Bytes(Append(old, last)) = Append(Bytes(old), last.byte)
        BY BytesAppended, AppendProperties
      <4> QED
        BY <2>1, <2>5, <3>2, <4>1
    <3> QED
      BY <2>1, <2>5, <3>1, <3>3
  <2>7. CASE ~marked[k + 1].text
    <3>1. P(k + 1).plain = P(k).plain
      BY <2>1, <2>3, <2>4, <2>7 DEF StripByte
    <3> QED
      BY <2>1, <2>2, <2>5, <2>7, <3>1
  <2> QED
    BY <2>6, <2>7
<1>4. n \in S
  <2>1. n \in 0 .. n /\ n \in Nat
    BY <1>1
  <2> HIDE DEF S
  <2> QED
    BY <1>2, <1>3, <2>1, Reaches
<1> QED
  BY <1>4

-----------------------------------------------------------------------------
(* What has been written *)

Formats == {"raw", "plain"}

HistoryAt(format, n) ==
  IF format = "raw" THEN First(Bytes(stream), n)
  ELSE Strip("ground", First(Bytes(stream), n)).plain

StateAt(n) == Strip("ground", First(Bytes(stream), n)).state

(* What a chunk adds to it. *)
Added(format, w, r) ==
  LET bytes == Bytes(SubSeq(stream, w + 1, w + r))
  IN IF format = "raw" THEN bytes ELSE Strip(StateAt(w), bytes).plain

LEMMA StreamType ==
  ASSUME stream \in Stream
  PROVE  /\ stream \in Seq(Marked) /\ Len(stream) \in Nat
         /\ Bytes(stream) \in Seq(Byte) /\ Len(Bytes(stream)) = Len(stream)
<1>1. stream \in Seq(Marked)
  BY FollowingAssumption DEF Marked
<1> QED
  BY <1>1, LenProperties, BytesProperties

LEMMA HistoryType ==
  ASSUME stream \in Stream, NEW n \in 0 .. Len(stream), NEW format \in Formats
  PROVE  HistoryAt(format, n) \in Seq(Byte) /\ StateAt(n) \in State
<1>1. First(Bytes(stream), n) \in Seq(Byte)
  BY StreamType, FirstProperties
<1>2. Strip("ground", First(Bytes(stream), n)) \in Stripped
  BY <1>1, StripType DEF State
<1>3. Seq(Shown) \subseteq Seq(Byte)
  <2>1. Shown \subseteq Byte
    BY DEF Shown, Byte
  <2> QED
    BY <2>1, SeqMonotonic
<1> QED
  BY <1>1, <1>2, <1>3 DEF HistoryAt, StateAt, Stripped

(* The property's history, which is told by the marks, is what is stripped.    *)
LEMMA HistoryIs ==
  ASSUME stream \in Stream, written \in 0 .. Len(stream), NEW format \in Formats
  PROVE  History(format) = HistoryAt(format, written)
<1>1. SubSeq(stream, 1, written) = First(stream, written)
  BY DEF First
<1>2. CASE format = "raw"
  BY <1>1, <1>2, StreamType, BytesOfFirst DEF History, HistoryAt
<1>3. CASE format = "plain"
  BY <1>1, <1>3, StrippedIsText DEF History, HistoryAt
<1> QED
  BY <1>2, <1>3 DEF Formats

(* A chunk adds to the history of each format, wherever it was cut.            *)
LEMMA HistoryGrows ==
  ASSUME stream \in Stream, NEW w \in 0 .. Len(stream), NEW r \in 0 .. Len(stream) - w,
         NEW format \in Formats
  PROVE  /\ Added(format, w, r) \in Seq(Byte)
         /\ HistoryAt(format, w + r) = HistoryAt(format, w) \o Added(format, w, r)
         /\ StateAt(w + r) = Strip(StateAt(w), Bytes(SubSeq(stream, w + 1, w + r))).state
<1> DEFINE bytes == Bytes(stream)
           cut == SubSeq(bytes, w + 1, w + r)
<1>1. /\ bytes \in Seq(Byte) /\ Len(bytes) = Len(stream) /\ Len(stream) \in Nat
      /\ stream \in Seq(Marked)
  BY StreamType
<1>2. Bytes(SubSeq(stream, w + 1, w + r)) = cut
  BY <1>1, BytesOfPart
<1>3. cut \in Seq(Byte)
  <2>1. SubSeq(stream, w + 1, w + r) \in Seq(Marked)
    BY <1>1, BytesOfPart
  <2> QED
    BY <1>2, <2>1, BytesProperties
<1>4. StateAt(w) \in State
  BY HistoryType DEF Formats
<1>5. Strip(StateAt(w), cut) \in Stripped
  BY <1>3, <1>4, StripType
<1>6. Seq(Shown) \subseteq Seq(Byte)
  <2>1. Shown \subseteq Byte
    BY DEF Shown, Byte
  <2> QED
    BY <2>1, SeqMonotonic
<1>7. Added(format, w, r) \in Seq(Byte)
  BY <1>2, <1>3, <1>5, <1>6 DEF Added, Stripped
<1>8. /\ Strip(StateAt(w), cut).state = StateAt(w + r)
      /\ HistoryAt("plain", w) \o Strip(StateAt(w), cut).plain = HistoryAt("plain", w + r)
  <2> HIDE DEF bytes
  <2>1. w \in 0 .. Len(bytes) /\ r \in 0 .. Len(bytes) - w
    BY <1>1
  <2>2. LET before == Strip("ground", First(bytes, w))
            after == Strip("ground", First(bytes, w + r))
            chunk == Strip(before.state, SubSeq(bytes, w + 1, w + r))
        IN chunk.state = after.state /\ before.plain \o chunk.plain = after.plain
    BY <1>1, <2>1, StripChunks
  <2> QED
    BY <2>2 DEF StateAt, HistoryAt, bytes
<1>9. First(bytes, w) \o cut = First(bytes, w + r)
  <2> HIDE DEF bytes
  <2> QED
    BY <1>1, ConcatAdjacentSubSeq DEF First
<1>10. HistoryAt(format, w + r) = HistoryAt(format, w) \o Added(format, w, r)
  BY <1>2, <1>8, <1>9 DEF HistoryAt, Added, Formats
<1> QED
  BY <1>2, <1>7, <1>8, <1>10

-----------------------------------------------------------------------------
(* What is read *)

(* What comes after does not change them. *)
LEMMA PartKept ==
  ASSUME NEW S, NEW s \in Seq(S), NEW t \in Seq(S), NEW from \in 0 .. Len(s), NEW n \in 0 .. Len(s) - from
  PROVE  SubSeq(s \o t, from + 1, from + n) = SubSeq(s, from + 1, from + n)
<1>1. PICK all : all = s \o t
  OBVIOUS
<1>2. /\ all \in Seq(S) /\ Len(all) = Len(s) + Len(t) /\ Len(s) \in Nat /\ Len(t) \in Nat
      /\ \A k \in 1 .. Len(s) : all[k] = s[k]
  BY <1>1, JoinedProperties
<1>3. PICK long : long = SubSeq(all, from + 1, from + n)
  OBVIOUS
<1>4. long \in Seq(S) /\ Len(long) = n /\ \A k \in 1 .. n : long[k] = all[from + k]
  <2>1. from \in 0 .. Len(all) /\ n \in 0 .. Len(all) - from
    BY <1>2
  <2> QED
    BY <1>2, <1>3, <2>1, PartProperties
<1>5. PICK short : short = SubSeq(s, from + 1, from + n)
  OBVIOUS
<1>6. short \in Seq(S) /\ Len(short) = n /\ \A k \in 1 .. n : short[k] = s[from + k]
  BY <1>5, PartProperties
<1>7. ASSUME NEW k \in 1 .. n PROVE long[k] = short[k]
  <2>1. from + k \in 1 .. Len(s)
    BY <1>2
  <2> QED
    BY <1>2, <1>4, <1>6, <2>1
<1>8. long = short
  BY <1>4, <1>6, <1>7, SameSeq
<1> QED
  BY <1>1, <1>3, <1>5, <1>8

(* The elements of the rest of a sequence are its own. *)
LEMMA PartOfRest ==
  ASSUME NEW S, NEW s \in Seq(S), NEW start \in 0 .. Len(s), NEW from \in start .. Len(s),
         NEW n \in 0 .. Len(s) - from
  PROVE  SubSeq(SubSeq(s, start + 1, Len(s)), from - start + 1, from - start + n)
           = SubSeq(s, from + 1, from + n)
<1>1. PICK rest : rest = SubSeq(s, start + 1, Len(s))
  OBVIOUS
<1>2. /\ rest \in Seq(S) /\ Len(rest) = Len(s) - start /\ Len(s) \in Nat
      /\ \A k \in 1 .. Len(s) - start : rest[k] = s[start + k]
  BY <1>1, RestProperties, LenProperties
<1>3. PICK a : a = SubSeq(rest, from - start + 1, from - start + n)
  OBVIOUS
<1>4. a \in Seq(S) /\ Len(a) = n /\ \A k \in 1 .. n : a[k] = rest[from - start + k]
  <2>1. from - start \in 0 .. Len(rest) /\ n \in 0 .. Len(rest) - (from - start)
    BY <1>2
  <2> QED
    BY <1>2, <1>3, <2>1, PartProperties
<1>5. PICK b : b = SubSeq(s, from + 1, from + n)
  OBVIOUS
<1>6. b \in Seq(S) /\ Len(b) = n /\ \A k \in 1 .. n : b[k] = s[from + k]
  <2>1. from \in 0 .. Len(s)
    BY <1>2
  <2> QED
    BY <1>5, <2>1, PartProperties
<1>7. ASSUME NEW k \in 1 .. n PROVE a[k] = b[k]
  <2>1. from - start + k \in 1 .. Len(s) - start /\ start + (from - start + k) = from + k
    BY <1>2
  <2>2. rest[from - start + k] = s[from + k]
    BY <1>2, <2>1
  <2> QED
    BY <1>4, <1>6, <2>2
<1>8. a = b
  BY <1>4, <1>6, <1>7, SameSeq
<1> QED
  BY <1>1, <1>3, <1>5, <1>8

(* An answer is a part of what was written, from the cursor on or from where   *)
(* the buffer starts, and its cursor is the end of it.                        *)
Answers(chunk, all, end) ==
  /\ chunk.asked \in Nat /\ end \in Nat
  /\ chunk.from = Larger(chunk.asked, end - Capacity)
  /\ chunk.from \in Nat /\ chunk.cursor \in chunk.from .. end /\ end <= Len(all)
  /\ chunk.data = SubSeq(all, chunk.from + 1, chunk.cursor)
  /\ Len(chunk.data) = chunk.cursor - chunk.from
  /\ chunk.truncated <=> chunk.from # chunk.asked
  /\ chunk.data = <<>> => chunk.cursor = end

LEMMA ReadAnswers ==
  ASSUME NEW S, NEW all \in Seq(S), NEW after \in 0 .. Len(all), NEW limit \in Nat \ {0}
  PROVE  LET chunk == Read(Newest(all), after, limit)
         IN chunk.asked = after /\ Answers(chunk, all, Len(all))
<1> USE CapacityAssumption
<1>1. Len(all) \in Nat
  BY LenProperties
<1>2. PICK start : start = Larger(0, Len(all) - Capacity)
  OBVIOUS
<1>3. start \in 0 .. Len(all)
  BY <1>1, <1>2 DEF Larger
<1>4. PICK bytes : bytes = SubSeq(all, start + 1, Len(all))
  OBVIOUS
<1>5. Newest(all) = [start |-> start, bytes |-> bytes]
  BY <1>2, <1>4 DEF Newest
<1>6. Len(bytes) = Len(all) - start
  BY <1>3, <1>4, RestProperties
<1>7. PICK from : from = Larger(after, start)
  OBVIOUS
<1>8. from \in start .. Len(all) /\ from = Larger(after, Len(all) - Capacity)
  BY <1>1, <1>2, <1>3, <1>7 DEF Larger
<1>9. PICK n : n = Smaller(Len(bytes), from - start + limit) - (from - start)
  OBVIOUS
<1>10. n \in 0 .. Len(all) - from /\ (n = 0 => from = Len(all))
  <2>1. /\ start \in Nat /\ from \in Nat /\ limit \in Nat /\ start <= from /\ from <= Len(all)
        /\ limit > 0 /\ Len(bytes) = Len(all) - start
    BY <1>1, <1>3, <1>6, <1>8
  <2>2. CASE Len(bytes) <= from - start + limit
    <3>1. n = Len(all) - from
      BY <1>1, <1>9, <2>1, <2>2 DEF Smaller
    <3> QED
      BY <1>1, <2>1, <3>1
  <2>3. CASE ~(Len(bytes) <= from - start + limit)
    <3>1. n = limit /\ limit < Len(all) - from
      BY <1>1, <1>9, <2>1, <2>3 DEF Smaller
    <3> QED
      BY <1>1, <2>1, <3>1
  <2> QED
    BY <2>2, <2>3
<1>11. PICK data : data = SubSeq(all, from + 1, from + n)
  OBVIOUS
<1>12. SubSeq(bytes, from - start + 1, Smaller(Len(bytes), from - start + limit)) = data
  <2>1. Smaller(Len(bytes), from - start + limit) = from - start + n
    BY <1>1, <1>3, <1>6, <1>8, <1>9 DEF Smaller
  <2> QED
    BY <1>3, <1>4, <1>8, <1>10, <1>11, <2>1, PartOfRest
<1>13. data \in Seq(S) /\ Len(data) = n
  <2>1. from \in 0 .. Len(all)
    BY <1>1, <1>3, <1>8
  <2>2. n \in 0 .. Len(all) - from
    BY <1>10
  <2>3. SubSeq(all, from + 1, from + n) \in Seq(S) /\ Len(SubSeq(all, from + 1, from + n)) = n
    BY <2>1, <2>2, PartProperties
  <2> QED
    BY <1>11, <2>3
<1>14. Read(Newest(all), after, limit) =
         [asked |-> after, from |-> from, data |-> data, cursor |-> from + n,
          truncated |-> after < start]
  <2> DEFINE buffer == Newest(all)
  <2>1. buffer.start = start /\ buffer.bytes = bytes
    BY <1>5
  <2> HIDE DEF buffer
  <2>2. Larger(after, buffer.start) = from
    BY <1>7, <2>1
  <2>3. SubSeq(buffer.bytes, from - buffer.start + 1,
               Smaller(Len(buffer.bytes), from - buffer.start + limit)) = data
    BY <1>12, <2>1
  <2>4. from + Len(data) = from + n /\ (after < buffer.start) = (after < start)
    BY <1>13, <2>1
  <2> QED
    BY <2>2, <2>3, <2>4 DEF Read, buffer
<1>15. (after < start) <=> from # after
  BY <1>1, <1>3, <1>7 DEF Larger
<1>16. data = <<>> => n = 0
  BY <1>13, EmptySeq
<1>17. from \in Nat /\ from + n \in from .. Len(all) /\ n = from + n - from /\ (n = 0 => from + n = Len(all))
  BY <1>1, <1>3, <1>8, <1>10
<1>18. PICK chunk : chunk = Read(Newest(all), after, limit)
  OBVIOUS
<1>19. /\ chunk.asked = after /\ chunk.from = from /\ chunk.data = data /\ chunk.cursor = from + n
       /\ chunk.truncated = (after < start)
  BY <1>14, <1>18
<1>20. Answers(chunk, all, Len(all))
  <2>1. after \in Nat
    BY <1>1
  <2>2. chunk.truncated <=> chunk.from # chunk.asked
    BY <1>15, <1>19
  <2>3. chunk.data = <<>> => chunk.cursor = Len(all)
    BY <1>16, <1>17, <1>19
  <2>4. Len(chunk.data) = chunk.cursor - chunk.from
    BY <1>13, <1>17, <1>19
  <2> QED
    BY <1>1, <1>8, <1>11, <1>17, <1>19, <2>1, <2>2, <2>3, <2>4 DEF Answers
<1> QED
  BY <1>18, <1>19, <1>20

(* An answer stays right when more is written. *)
LEMMA AnswersKept ==
  ASSUME NEW S, NEW all \in Seq(S), NEW new \in Seq(S), NEW chunk, NEW end, Answers(chunk, all, end)
  PROVE  Answers(chunk, all \o new, end)
<1>1. Len(all) \in Nat /\ Len(all \o new) \in Nat /\ Len(all \o new) >= Len(all)
  BY JoinedProperties, LenProperties
<1>2. PICK n : n = chunk.cursor - chunk.from
  OBVIOUS
<1>3. chunk.from \in 0 .. Len(all) /\ n \in 0 .. Len(all) - chunk.from /\ chunk.from + n = chunk.cursor
  <2>1. chunk.from \in Nat /\ chunk.cursor \in chunk.from .. end /\ end \in Nat /\ end <= Len(all)
    BY DEF Answers
  <2> QED
    BY <1>1, <1>2, <2>1
<1>4. SubSeq(all \o new, chunk.from + 1, chunk.cursor) = SubSeq(all, chunk.from + 1, chunk.cursor)
  BY <1>3, PartKept
<1>5. end <= Len(all \o new)
  BY <1>1 DEF Answers
<1> QED
  BY <1>4, <1>5 DEF Answers

-----------------------------------------------------------------------------
(* The threads *)

ThreadsTyped ==
  /\ record \in BOOLEAN /\ stream \in Stream /\ held \in BOOLEAN
  /\ written \in 0 .. Len(stream)
  /\ reader = Done \/ reader \in 0 .. Len(stream) - written
  /\ waiter \in {"waiting", "draining", "published", "cancelling", "publishedLate"}

(* A reader that was not cancelled has dealt with everything. *)
DoneAtEof == reader = Done /\ waiter \in {"waiting", "draining", "published"} => written = Len(stream)

PublishedAfterReader == waiter = "published" => reader = Done

ThreadsInv == ThreadsTyped /\ DoneAtEof /\ PublishedAfterReader

LEMMA ThreadsInit == Init => ThreadsInv
<1> SUFFICES ASSUME Init PROVE ThreadsInv
  OBVIOUS
<1>1. Len(stream) \in Nat
  BY StreamType DEF Init
<1> QED
  BY <1>1 DEF Init, ThreadsInv, ThreadsTyped, DoneAtEof, PublishedAfterReader, Reading, Done

LEMMA ThreadsNext == ThreadsInv /\ [Next]_vars => ThreadsInv'
<1> SUFFICES ASSUME ThreadsInv, [Next]_vars PROVE ThreadsInv'
  OBVIOUS
<1> USE DEF ThreadsInv, ThreadsTyped, DoneAtEof, PublishedAfterReader, Reading, Done
<1>1. Len(stream) \in Nat
  BY StreamType
<1>2. CASE ReaderReads
  <2>1. PICK n \in Chunk : n <= Len(stream) - written /\ reader' = n
    BY <1>2 DEF ReaderReads
  <2>2. n \in 0 .. Len(stream) - written /\ n # Done
    BY <1>1, <2>1, FollowingAssumption
  <2> QED
    BY <1>2, <2>1, <2>2 DEF ReaderReads, ptyVars
<1>3. CASE ReaderAppends
  <2>1. reader > 0 /\ reader \in 0 .. Len(stream) - written /\ written' = written + reader /\ reader' = 0
    BY <1>3 DEF ReaderAppends
  <2>2. written' \in 0 .. Len(stream)
    BY <1>1, <2>1
  <2> QED
    BY <1>1, <1>3, <2>1, <2>2 DEF ReaderAppends, ptyVars
<1>4. CASE ReaderEnds
  BY <1>1, <1>4 DEF ReaderEnds, EndOfFile, Cancelled, ptyVars
<1>5. CASE ChildEnds \/ Waiter
  BY <1>1, <1>5 DEF ChildEnds, Waiter, WaiterPublishes, WaiterCancels, WaiterGivesUp, WaiterGoes, ptyVars
<1>6. CASE Client
  BY <1>6 DEF Client, FollowBegin, FollowRead, FollowEnds, ptyVars
<1>7. CASE Forget
  BY <1>7 DEF Forget, ptyVars
<1>8. CASE UNCHANGED vars
  BY <1>8 DEF vars, ptyVars
<1> QED
  BY <1>2, <1>3, <1>4, <1>5, <1>6, <1>7, <1>8 DEF Next, Reader

-----------------------------------------------------------------------------
(* The output *)

Kept(n) ==
  [raw |-> Newest(HistoryAt("raw", n)), plain |-> Newest(HistoryAt("plain", n)), state |-> StateAt(n)]

OutputInv == record => output = Kept(written)

LEMMA NothingWritten ==
  ASSUME stream \in Stream
  PROVE  Kept(0) = NoOutput
<1>1. HistoryAt("raw", 0) = <<>> /\ HistoryAt("plain", 0) = <<>> /\ StateAt(0) = "ground"
  <2>1. First(Bytes(stream), 0) = <<>>
    BY SubSeqEmpty DEF First
  <2>2. Strip("ground", First(Bytes(stream), 0)) = [state |-> "ground", plain |-> <<>>]
    BY StreamType, StripFirst DEF Strip
  <2> QED
    BY <2>1, <2>2 DEF HistoryAt, StateAt
<1>2. Newest(<<>>) = NoBytes
  <2>1. Len(<<>>) = 0 /\ Larger(0, 0 - Capacity) = 0
    BY CapacityAssumption DEF Larger
  <2>2. SubSeq(<<>>, 0 + 1, 0) = <<>>
    BY SubSeqEmpty
  <2> QED
    BY <2>1, <2>2 DEF Newest, NoBytes
<1> QED
  BY <1>1, <1>2 DEF Kept, NoOutput

(* append_output adds a chunk to what is kept, wherever it was cut. *)
LEMMA KeptAppended ==
  ASSUME stream \in Stream, NEW w \in 0 .. Len(stream), NEW r \in 0 .. Len(stream) - w
  PROVE  AppendOutput(Kept(w), Bytes(SubSeq(stream, w + 1, w + r))) = Kept(w + r)
<1> DEFINE new == Bytes(SubSeq(stream, w + 1, w + r))
<1>1. /\ HistoryAt("raw", w + r) = HistoryAt("raw", w) \o new /\ new \in Seq(Byte)
      /\ HistoryAt("plain", w + r) = HistoryAt("plain", w) \o Strip(StateAt(w), new).plain
      /\ Strip(StateAt(w), new).plain \in Seq(Byte)
      /\ StateAt(w + r) = Strip(StateAt(w), new).state
  BY HistoryGrows DEF Formats, Added
<1>2. HistoryAt("raw", w) \in Seq(Byte) /\ HistoryAt("plain", w) \in Seq(Byte)
  BY HistoryType DEF Formats
<1> HIDE DEF new
<1>3. AppendTo(Kept(w).raw, new) = Kept(w + r).raw
  <2>1. AppendTo(Newest(HistoryAt("raw", w)), new) = Newest(HistoryAt("raw", w) \o new)
    BY <1>1, <1>2, NewestAppended
  <2> QED
    BY <1>1, <2>1 DEF Kept
<1>4. AppendTo(Kept(w).plain, Strip(StateAt(w), new).plain) = Kept(w + r).plain
  <2>1. AppendTo(Newest(HistoryAt("plain", w)), Strip(StateAt(w), new).plain)
          = Newest(HistoryAt("plain", w) \o Strip(StateAt(w), new).plain)
    BY <1>1, <1>2, NewestAppended
  <2> QED
    BY <1>1, <2>1 DEF Kept
<1>5. Kept(w).state = StateAt(w) /\ Kept(w + r).state = StateAt(w + r)
  BY DEF Kept
<1>6. AppendOutput(Kept(w), new) =
        [raw |-> AppendTo(Kept(w).raw, new),
         plain |-> AppendTo(Kept(w).plain, Strip(Kept(w).state, new).plain),
         state |-> Strip(Kept(w).state, new).state]
  BY DEF AppendOutput
<1>7. Kept(w + r) = [raw |-> Kept(w + r).raw, plain |-> Kept(w + r).plain, state |-> Kept(w + r).state]
  BY DEF Kept
<1>8. AppendOutput(Kept(w), new) = Kept(w + r)
  BY <1>1, <1>3, <1>4, <1>5, <1>6, <1>7
<1> QED
  BY <1>8 DEF new

LEMMA OutputInit == Init => OutputInv
BY NothingWritten DEF Init, OutputInv

LEMMA OutputNext == ThreadsInv /\ OutputInv /\ [Next]_vars => OutputInv'
<1> SUFFICES ASSUME ThreadsInv, OutputInv, [Next]_vars PROVE OutputInv'
  OBVIOUS
<1>1. CASE ReaderAppends
  <2>1. /\ reader \in 0 .. Len(stream) - written /\ written' = written + reader /\ stream' = stream
        /\ record' = record /\ stream \in Stream /\ written \in 0 .. Len(stream)
        /\ output' = IF record
                     THEN AppendOutput(output, Bytes(SubSeq(stream, written + 1, written + reader)))
                     ELSE output
    BY <1>1 DEF ReaderAppends, ThreadsInv, ThreadsTyped, Done, ptyVars
  <2>2. record => output' = Kept(written + reader)
    BY <2>1, KeptAppended DEF OutputInv
  <2> QED
    BY <2>1, <2>2 DEF OutputInv, Kept, HistoryAt, StateAt
<1>2. CASE ~ReaderAppends
  <2>1. UNCHANGED <<output, stream, written>> /\ (record' => record)
    <3>1. CASE ReaderReads \/ ReaderEnds
      BY <3>1 DEF ReaderReads, ReaderEnds, ptyVars
    <3>2. CASE ChildEnds \/ Waiter
      BY <3>2 DEF ChildEnds, Waiter, WaiterPublishes, WaiterCancels, WaiterGivesUp, WaiterGoes, ptyVars
    <3>3. CASE Client
      BY <3>3 DEF Client, FollowBegin, FollowRead, FollowEnds, ptyVars
    <3>4. CASE Forget \/ UNCHANGED vars
      BY <3>4 DEF Forget, vars, ptyVars
    <3> QED
      BY <1>2, <3>1, <3>2, <3>3, <3>4 DEF Next, Reader
  <2> QED
    BY <2>1 DEF OutputInv, Kept, HistoryAt, StateAt
<1> QED
  BY <1>1, <1>2

-----------------------------------------------------------------------------
(* The client *)

ClientRight(c, n) ==
  \/ c.op \in {"idle", "unknown"}
  \/ /\ c.op \in {"following", "read"}
     /\ c.format \in Formats
     /\ c.cursor \in 0 .. Len(HistoryAt(c.format, n))
     /\ c.op = "read" =>
          c.cursor = c.chunk.cursor /\ Answers(c.chunk, HistoryAt(c.format, n), c.end)

ClientInv == ClientRight(client, written)

(* The end of what is kept is the end of what was written. *)
LEMMA NewestEnds ==
  ASSUME NEW S, NEW all \in Seq(S)
  PROVE  EndCursor(Newest(all)) = Len(all)
<1>1. Len(all) \in Nat
  BY LenProperties
<1>2. PICK start : start = Larger(0, Len(all) - Capacity)
  OBVIOUS
<1>3. start \in 0 .. Len(all)
  BY <1>1, <1>2, CapacityAssumption DEF Larger
<1>4. Len(SubSeq(all, start + 1, Len(all))) = Len(all) - start
  BY <1>3, RestProperties
<1> QED
  BY <1>1, <1>2, <1>3, <1>4 DEF Newest, EndCursor

LEMMA OutputEnds ==
  ASSUME ThreadsInv, OutputInv, record, NEW format \in Formats
  PROVE  /\ output[format] = Newest(HistoryAt(format, written))
         /\ HistoryAt(format, written) \in Seq(Byte)
         /\ EndCursor(output[format]) = Len(HistoryAt(format, written))
         /\ Len(HistoryAt(format, written)) \in Nat
<1>1. output[format] = Newest(HistoryAt(format, written))
  BY DEF OutputInv, Kept, Formats
<1>2. HistoryAt(format, written) \in Seq(Byte)
  BY HistoryType DEF ThreadsInv, ThreadsTyped
<1> QED
  BY <1>1, <1>2, NewestEnds, LenProperties

LEMMA ClientNext == ThreadsInv /\ OutputInv /\ ClientInv /\ [Next]_vars => ClientInv'
<1> SUFFICES ASSUME ThreadsInv, OutputInv, ClientInv, [Next]_vars PROVE ClientInv'
  OBVIOUS
<1>1. CASE ReaderAppends
  <2>1. /\ reader \in 0 .. Len(stream) - written /\ written' = written + reader /\ stream' = stream
        /\ client' = client /\ stream \in Stream /\ written \in 0 .. Len(stream)
    BY <1>1 DEF ReaderAppends, ThreadsInv, ThreadsTyped, Done, ptyVars
  <2>2. ClientRight(client, written + reader)
    <3>1. CASE client.op \in {"idle", "unknown"}
      BY <3>1 DEF ClientRight
    <3>2. CASE client.op \notin {"idle", "unknown"}
      <4> DEFINE all == HistoryAt(client.format, written)
                 new == Added(client.format, written, reader)
      <4>1. client.format \in Formats /\ client.cursor \in 0 .. Len(all)
        BY <3>2 DEF ClientInv, ClientRight
      <4>2. /\ all \in Seq(Byte) /\ new \in Seq(Byte)
            /\ HistoryAt(client.format, written + reader) = all \o new
        BY <2>1, <4>1, HistoryType, HistoryGrows
      <4>3. client.op = "read" => client.cursor = client.chunk.cursor /\ Answers(client.chunk, all, client.end)
        BY <3>2 DEF ClientInv, ClientRight
      <4>4. client.op \in {"following", "read"}
        BY <3>2 DEF ClientInv, ClientRight
      <4> HIDE DEF all, new
      <4>5. Len(all) \in Nat /\ Len(all \o new) \in Nat /\ Len(all \o new) >= Len(all)
        <5>1. Len(all) \in Nat /\ Len(new) \in Nat /\ Len(all \o new) = Len(all) + Len(new)
          BY <4>2, JoinedProperties
        <5> QED
          BY <5>1
      <4>6. client.op = "read" => Answers(client.chunk, all \o new, client.end)
        BY <4>2, <4>3, AnswersKept
      <4>7. client.cursor \in 0 .. Len(all \o new)
        BY <4>1, <4>5
      <4> QED
        BY <4>1, <4>2, <4>3, <4>4, <4>6, <4>7 DEF ClientRight
    <3> QED
      BY <3>1, <3>2
  <2> QED
    BY <2>1, <2>2 DEF ClientInv, ClientRight, HistoryAt
<1>2. ASSUME NEW format \in Formats, FollowBegin(format) PROVE ClientInv'
  <2>1. record /\ UNCHANGED <<stream, written>>
    BY <1>2 DEF FollowBegin, ptyVars
  <2>2. PICK after \in {0, EndCursor(output[format])} :
          client' = [op |-> "following", format |-> format, cursor |-> after]
    BY <1>2 DEF FollowBegin
  <2>3. after \in 0 .. Len(HistoryAt(format, written))
    BY <2>1, <2>2, OutputEnds
  <2>4. ClientRight(client', written)
    BY <2>2, <2>3 DEF ClientRight
  <2> QED
    BY <2>1, <2>4 DEF ClientInv, ClientRight, HistoryAt
<1>3. ASSUME NEW limit \in ReadLimit, FollowRead(limit) PROVE ClientInv'
  <2>1. UNCHANGED <<stream, written>> /\ client.op \in {"following", "read"}
    BY <1>3 DEF FollowRead, ptyVars
  <2>2. client.format \in Formats /\ client.cursor \in 0 .. Len(HistoryAt(client.format, written))
    BY <2>1 DEF ClientInv, ClientRight
  <2>3. CASE ~record
    BY <1>3, <2>3 DEF FollowRead, ClientInv, ClientRight
  <2>4. CASE record
    <3> DEFINE all == HistoryAt(client.format, written)
               chunk == Read(output[client.format], client.cursor, limit)
    <3>1. /\ output[client.format] = Newest(all) /\ EndCursor(output[client.format]) = Len(all)
          /\ all \in Seq(Byte) /\ Len(all) \in Nat
      BY <2>2, <2>4, OutputEnds
    <3>2. chunk.asked = client.cursor /\ Answers(chunk, all, Len(all))
      <4>1. limit \in Nat \ {0}
        BY FollowingAssumption
      <4> HIDE DEF all
      <4>2. client.cursor \in 0 .. Len(all)
        BY <2>2 DEF all
      <4> QED
        BY <3>1, <4>1, <4>2, ReadAnswers
    <3>3. ~(client.cursor > Len(all))
      BY <2>2, <3>1
    <3>4. client' = [op |-> "read", format |-> client.format, cursor |-> chunk.cursor,
                     chunk |-> chunk, end |-> Len(all)]
      BY <1>3, <2>4, <3>1, <3>3 DEF FollowRead
    <3>5. chunk.cursor \in 0 .. Len(all)
      <4> HIDE DEF all, chunk
      <4>1. chunk.cursor \in chunk.from .. Len(all) /\ chunk.from \in Nat
        BY <3>2 DEF Answers
      <4> QED
        BY <3>1, <4>1
    <3> HIDE DEF chunk
    <3>6. ClientRight(client', written)
      BY <2>2, <3>2, <3>4, <3>5 DEF ClientRight
    <3> QED
      BY <2>1, <3>6 DEF ClientInv, ClientRight, HistoryAt
  <2> QED
    BY <2>3, <2>4
<1>4. CASE FollowEnds
  BY <1>4 DEF FollowEnds, Idle, ClientInv, ClientRight
<1>5. CASE ~ReaderAppends /\ ~Client
  <2>1. UNCHANGED <<client, stream, written>>
    BY <1>5, Zenon DEF Next, Reader, ReaderReads, ReaderEnds, ChildEnds, Waiter, WaiterPublishes,
       WaiterCancels, WaiterGivesUp, WaiterGoes, Forget, vars, ptyVars
  <2> QED
    BY <2>1 DEF ClientInv, ClientRight, HistoryAt
<1> QED
  BY <1>1, <1>2, <1>3, <1>4, <1>5 DEF Client, Formats

-----------------------------------------------------------------------------
(* What the invariants give *)

FollowInv == ThreadsInv /\ OutputInv /\ ClientInv

LEMMA FollowAlways == Spec => []FollowInv
<1>1. Init => FollowInv
  <2>1. Init => ClientInv
    BY DEF Init, Idle, ClientInv, ClientRight
  <2> QED
    BY <2>1, ThreadsInit, OutputInit DEF FollowInv
<1>2. FollowInv /\ [Next]_vars => FollowInv'
  BY ThreadsNext, OutputNext, ClientNext DEF FollowInv
<1> QED
  BY <1>1, <1>2, PTL DEF Spec

(* output.rs: what is kept of a subagent's output is the newest of what was     *)
(* written, raw and stripped, for every stream and however it is cut.          *)
THEOREM HistoryCorrect == Spec => []HistoryIsNewest
<1>1. ASSUME FollowInv PROVE HistoryIsNewest
  <2>1. ASSUME record, NEW format \in {"raw", "plain"}
        PROVE  History(format) = HistoryAt(format, written)
                 /\ output[format] = Newest(HistoryAt(format, written))
    BY <1>1, <2>1, HistoryIs, OutputEnds DEF FollowInv, ThreadsInv, ThreadsTyped, Formats
  <2> QED
    BY <2>1 DEF HistoryIsNewest, Newest
<1> QED
  BY <1>1, FollowAlways, PTL

(* output.rs, read: a client that follows the cursors gets every byte once and  *)
(* in order, or is told where some are missing, and is never refused.          *)
THEOREM FollowerCorrect == Spec => []FollowerMissesNothing
<1>1. ASSUME FollowInv PROVE FollowerMissesNothing
  <2>1. client.op # "invalid"
    BY <1>1 DEF FollowInv, ClientInv, ClientRight
  <2>2. ASSUME client.op = "read"
        PROVE  /\ History(client.format) = HistoryAt(client.format, written)
               /\ Answers(client.chunk, HistoryAt(client.format, written), client.end)
    <3>1. /\ client.format \in Formats
          /\ Answers(client.chunk, HistoryAt(client.format, written), client.end)
      BY <1>1, <2>2 DEF FollowInv, ClientInv, ClientRight
    <3>2. stream \in Stream /\ written \in 0 .. Len(stream)
      BY <1>1 DEF FollowInv, ThreadsInv, ThreadsTyped
    <3> QED
      BY <3>1, <3>2, HistoryIs
  <2>3. ASSUME NEW chunk, NEW all, NEW end, Answers(chunk, all, end)
        PROVE  /\ chunk.data = SubSeq(all, chunk.from + 1, chunk.cursor)
               /\ chunk.cursor = chunk.from + Len(chunk.data)
               /\ chunk.from = Larger(chunk.asked, end - Capacity)
               /\ chunk.truncated <=> chunk.from # chunk.asked
               /\ chunk.data = <<>> => chunk.cursor = end
    <3>1. chunk.from \in Nat /\ chunk.cursor \in chunk.from .. end /\ end \in Nat
          /\ Len(chunk.data) = chunk.cursor - chunk.from
      BY <2>3 DEF Answers
    <3> QED
      BY <2>3, <3>1 DEF Answers
  <2> QED
    BY <2>1, <2>2, <2>3 DEF FollowerMissesNothing
<1> QED
  BY <1>1, FollowAlways, PTL

(* pty.rs, finish_pty_reader: an exit that is not published late is published   *)
(* after everything that was written.                                         *)
THEOREM ExitCorrect == Spec => []ExitIsLast
<1>1. FollowInv => ExitIsLast
  BY DEF FollowInv, ThreadsInv, DoneAtEof, PublishedAfterReader, ExitIsLast
<1> QED
  BY <1>1, FollowAlways, PTL

=============================================================================
