-------------------------- MODULE SlashKeyProofs ----------------------------
(***************************************************************************)
(* A slash is read from its key as it was written, for any width of a byte *)
(* and of an integer, and any addresses, numbers and texts.                *)
(***************************************************************************)
EXTENDS SlashKey, Foundations

-----------------------------------------------------------------------------
(* Integers as bytes *)

IsShift(f, n) == f = [k \in 0 .. IntLen |-> IF k = 0 THEN n ELSE f[k - 1] \div ByteSize]

(* Bytes are numbers. *)
LEMMA BytesAreNat == Bytes \subseteq Nat
BY BytesAssumption DEF Bytes

(* Quotient and remainder by the size of a byte. *)
LEMMA ByteDivision ==
  ASSUME NEW n \in Nat
  PROVE  /\ n \div ByteSize \in Nat /\ n % ByteSize \in Bytes
         /\ n = (n \div ByteSize) * ByteSize + (n % ByteSize)
BY BytesAssumption DEF Bytes

(* The shifts of a number. *)
LEMMA ShiftedFacts ==
  ASSUME NEW n \in Nat
  PROVE  /\ \A k \in 0 .. IntLen : Shifted(n)[k] \in Nat
         /\ Shifted(n)[0] = n
         /\ \A k \in 1 .. IntLen : Shifted(n)[k] = Shifted(n)[k - 1] \div ByteSize
<1> DEFINE D  == Nat \ {0}
           p  == [k \in D |-> k - 1]
           b  == [k \in Nat \ D |-> n]
           st == [x \in D \X Nat |-> x[2] \div ByteSize]
<1>1. IsRecursion(D, p, Nat, b, st)
  <2>1. \A x \in D \X Nat : x[2] \div ByteSize \in Nat
    BY ByteDivision
  <2>2. p \in [D -> Nat] /\ b \in [Nat \ D -> Nat] /\ st \in [D \X Nat -> Nat]
    BY <2>1
  <2>3. \A k \in D : p[k] < k
    OBVIOUS
  <2> HIDE DEF p, b, st
  <2> QED BY <2>2, <2>3 DEF IsRecursion
<1>2. PICK F \in [Nat -> Nat] : Recurs(F, Nat, D, p, b, st)
  <2> HIDE DEF D, p, b, st
  <2> QED BY <1>1, RecursionExists
<1>3. F[0] = n /\ \A k \in D : F[k] = F[k - 1] \div ByteSize
  <2>1. \A k \in Nat : F[k] = IF k \in D THEN st[<<k, F[p[k]]>>] ELSE b[k]
    BY <1>2 DEF Recurs
  <2>2. F[0] = n
    BY <2>1
  <2>3. ASSUME NEW k \in D PROVE F[k] = F[k - 1] \div ByteSize
    <3>1. p[k] = k - 1 /\ F[k - 1] \in Nat
      BY <1>2
    <3>2. st[<<k, F[k - 1]>>] = F[k - 1] \div ByteSize
      BY <3>1
    <3>3. F[k] = st[<<k, F[p[k]]>>]
      BY <2>1
    <3> HIDE DEF st, p
    <3> QED BY <3>1, <3>2, <3>3
  <2> QED BY <2>2, <2>3
<1> DEFINE g == [k \in 0 .. IntLen |-> F[k]]
<1>4. IsShift(g, n)
  <2>1. IntLen \in Nat
    BY BytesAssumption
  <2>2. ASSUME NEW k \in 0 .. IntLen PROVE g[k] = IF k = 0 THEN n ELSE g[k - 1] \div ByteSize
    BY <1>3, <2>1
  <2> QED BY <2>2 DEF IsShift
<1>5. IsShift(Shifted(n), n)
  <2>1. Shifted(n) = CHOOSE f : IsShift(f, n)
    BY DEF Shifted, IsShift
  <2> HIDE DEF g
  <2> QED BY <1>4, <2>1
<1> DEFINE s == Shifted(n)
<1>6. s[0] = n /\ \A k \in 1 .. IntLen : s[k] = s[k - 1] \div ByteSize
  <2>1. IntLen \in Nat
    BY BytesAssumption
  <2> HIDE DEF s
  <2>2. \A k \in 0 .. IntLen : s[k] = IF k = 0 THEN n ELSE s[k - 1] \div ByteSize
    BY <1>5 DEF IsShift, s
  <2> QED BY <2>1, <2>2
<1> HIDE DEF s
<1>7. \A k \in 0 .. IntLen : s[k] \in Nat
  <2> DEFINE G == {k \in Nat : k <= IntLen => s[k] \in Nat}
  <2>1. 0 \in G
    BY <1>6
  <2>2. ASSUME NEW k \in Nat, k \in G PROVE k + 1 \in G
    <3> SUFFICES ASSUME k + 1 <= IntLen PROVE s[k + 1] \in Nat
      OBVIOUS
    <3>1. s[k] \in Nat /\ s[k + 1] = s[k] \div ByteSize
      BY <1>6, <2>2, BytesAssumption
    <3> QED BY <3>1, ByteDivision
  <2> HIDE DEF G
  <2>3. Nat \subseteq G
    BY <2>1, <2>2, StepInduction
  <2> QED BY <2>3, BytesAssumption DEF G
<1> QED BY <1>6, <1>7 DEF s

IsValue(f, s) == f = [i \in 0 .. IntLen |-> IF i = 0 THEN 0 ELSE f[i - 1] * ByteSize + s[i]]

(* The number read from bytes. *)
LEMMA ValueFacts ==
  ASSUME NEW s \in Seq(Bytes), Len(s) = IntLen
  PROVE  \E f : /\ BigEndianToUint64(s) = f[IntLen]
                /\ f[0] = 0
                /\ \A i \in 1 .. IntLen : f[i] = f[i - 1] * ByteSize + s[i]
<1> DEFINE D  == 1 .. IntLen
           p  == [k \in D |-> k - 1]
           b  == [k \in Nat \ D |-> 0]
           st == [x \in D \X Nat |-> x[2] * ByteSize + s[x[1]]]
<1>1. IntLen \in Nat /\ ByteSize \in Nat /\ \A k \in D : s[k] \in Nat
  BY BytesAssumption, ElementOfSeq DEF Bytes
<1>2. IsRecursion(D, p, Nat, b, st)
  <2>1. \A x \in D \X Nat : x[2] * ByteSize + s[x[1]] \in Nat
    <3>1. \A i, j, k \in Nat : i * j + k \in Nat
      OBVIOUS
    <3> QED BY <1>1, <3>1
  <2>2. p \in [D -> Nat] /\ b \in [Nat \ D -> Nat] /\ st \in [D \X Nat -> Nat]
    BY <1>1, <2>1
  <2>3. \A k \in D : p[k] < k
    BY <1>1
  <2>4. D \subseteq Nat
    BY <1>1
  <2> HIDE DEF p, b, st
  <2> QED BY <2>2, <2>3, <2>4 DEF IsRecursion
<1>3. PICK F \in [Nat -> Nat] : Recurs(F, Nat, D, p, b, st)
  <2> HIDE DEF D, p, b, st
  <2> QED BY <1>2, RecursionExists
<1>4. F[0] = 0 /\ \A k \in D : F[k] = F[k - 1] * ByteSize + s[k]
  <2>1. \A k \in Nat : F[k] = IF k \in D THEN st[<<k, F[p[k]]>>] ELSE b[k]
    BY <1>3 DEF Recurs
  <2>0. 0 \in Nat \ D /\ \A k \in D : k \in Nat /\ k - 1 \in Nat
    BY <1>1
  <2>2. F[0] = 0
    <3>1. b[0] = 0
      BY <2>0
    <3> HIDE DEF D, b, st, p
    <3> QED BY <2>0, <2>1, <3>1
  <2>3. ASSUME NEW k \in D PROVE F[k] = F[k - 1] * ByteSize + s[k]
    <3>1. p[k] = k - 1 /\ F[k - 1] \in Nat /\ k \in Nat
      <4>1. p[k] = k - 1
        OBVIOUS
      <4> HIDE DEF p, D
      <4> QED BY <1>3, <2>0, <4>1
    <3>2. st[<<k, F[k - 1]>>] = F[k - 1] * ByteSize + s[k]
      BY <3>1
    <3>3. F[k] = st[<<k, F[p[k]]>>]
      BY <2>1, <3>1
    <3> HIDE DEF st, p
    <3> QED BY <3>1, <3>2, <3>3
  <2> QED BY <2>2, <2>3
<1> DEFINE g == [k \in 0 .. IntLen |-> F[k]]
<1>5. IsValue(g, s)
  <2>1. ASSUME NEW k \in 0 .. IntLen PROVE g[k] = IF k = 0 THEN 0 ELSE g[k - 1] * ByteSize + s[k]
    BY <1>1, <1>4
  <2> QED BY <2>1 DEF IsValue
<1> DEFINE f == CHOOSE h : IsValue(h, s)
<1>6. IsValue(f, s)
  <2> HIDE DEF g
  <2> QED BY <1>5
<1>7. BigEndianToUint64(s) = f[IntLen]
  BY DEF BigEndianToUint64, IsValue
<1> HIDE DEF f
<1>8. f[0] = 0 /\ \A i \in 1 .. IntLen : f[i] = f[i - 1] * ByteSize + s[i]
  <2>1. \A k \in 0 .. IntLen : f[k] = IF k = 0 THEN 0 ELSE f[k - 1] * ByteSize + s[k]
    BY <1>6 DEF IsValue
  <2>2. \A k \in 1 .. IntLen : k \in 0 .. IntLen /\ k # 0
    BY <1>1
  <2>3. 0 \in 0 .. IntLen
    BY <1>1
  <2> QED BY <2>1, <2>2, <2>3
<1> QED BY <1>7, <1>8

(* What PutUint64 wrote, BigEndianToUint64 reads. *)
LEMMA NumberSurvives ==
  ASSUME NEW n \in Numbers
  PROVE  /\ BigEndian(n) \in Seq(Bytes) /\ Len(BigEndian(n)) = IntLen
         /\ BigEndianToUint64(BigEndian(n)) = n
<1> DEFINE s == Shifted(n)
           d == BigEndian(n)
<1>1. n \in Nat /\ IntLen \in Nat /\ ByteSize \in Nat /\ s[IntLen] = 0
  BY BytesAssumption
<1>2. /\ \A k \in 0 .. IntLen : s[k] \in Nat
      /\ s[0] = n /\ \A k \in 1 .. IntLen : s[k] = s[k - 1] \div ByteSize
  BY <1>1, ShiftedFacts
<1> HIDE DEF s
<1>3. d \in Seq(Bytes) /\ Len(d) = IntLen /\ \A i \in 1 .. IntLen : d[i] = s[IntLen - i] % ByteSize
  <2>1. \A i \in 1 .. IntLen : s[IntLen - i] % ByteSize \in Bytes
    BY <1>1, <1>2, ByteDivision
  <2>2. d = [i \in 1 .. IntLen |-> s[IntLen - i] % ByteSize]
    BY DEF BigEndian, s
  <2> HIDE DEF d
  <2>3. d \in [1 .. IntLen -> Bytes]
    BY <2>1, <2>2
  <2> QED BY <1>1, <2>2, <2>3
<1> HIDE DEF d
<1>4. PICK f : /\ BigEndianToUint64(d) = f[IntLen] /\ f[0] = 0
               /\ \A i \in 1 .. IntLen : f[i] = f[i - 1] * ByteSize + d[i]
  BY <1>3, ValueFacts
<1> DEFINE G == {i \in Nat : i <= IntLen => f[i] = s[IntLen - i]}
<1>5. 0 \in G
  BY <1>1, <1>4
<1>6. ASSUME NEW i \in Nat, i \in G PROVE i + 1 \in G
  <2> SUFFICES ASSUME i + 1 <= IntLen PROVE f[i + 1] = s[IntLen - (i + 1)]
    OBVIOUS
  <2> DEFINE k == IntLen - i
  <2>1. k \in 1 .. IntLen /\ k - 1 \in 0 .. IntLen /\ k - 1 = IntLen - (i + 1)
    BY <1>1
  <2>2. f[i] = s[k] /\ s[k] = s[k - 1] \div ByteSize /\ s[k - 1] \in Nat
    BY <1>1, <1>2, <1>6, <2>1
  <2>3. d[i + 1] = s[k - 1] % ByteSize
    BY <1>1, <1>3, <2>1
  <2>4. f[i + 1] = f[i] * ByteSize + d[i + 1]
    <3>1. i + 1 \in 1 .. IntLen /\ (i + 1) - 1 = i
      BY <1>1
    <3> QED BY <1>4, <3>1
  <2>5. s[k - 1] = (s[k - 1] \div ByteSize) * ByteSize + (s[k - 1] % ByteSize)
    BY <2>2, ByteDivision
  <2> HIDE DEF k
  <2> QED BY <2>1, <2>2, <2>3, <2>4, <2>5
<1> HIDE DEF G
<1>7. Nat \subseteq G
  BY <1>5, <1>6, StepInduction
<1>8. f[IntLen] = n
  BY <1>1, <1>2, <1>7 DEF G
<1> QED BY <1>3, <1>4, <1>8 DEF d

-----------------------------------------------------------------------------
(* The key *)

(* A single byte at the end. *)
LEMMA AppendedByte ==
  ASSUME NEW S, NEW s \in Seq(S), NEW t \in Seq(S), Len(t) = 1
  PROVE  (s \o t)[Len(s) + 1] = t[1]
<1> DEFINE i == Len(s) + 1
<1>1. Len(s) \in Nat /\ i \in 1 .. Len(s) + Len(t) /\ ~(i <= Len(s)) /\ i - Len(s) = 1
  BY LenProperties
<1>2. (s \o t)[i] = t[i - Len(s)]
  <2> HIDE DEF i
  <2> QED BY <1>1, ConcatProperties
<1> QED BY <1>1, <1>2

(* The parts of a key, each with where it starts and ends. *)
LEMMA KeyParts ==
  ASSUME NEW val \in ValAddrs, NEW info,
         info.InfractionHeight \in Numbers, info.Power \in Numbers,
         info.TotalSlashAmount \in Amounts, info.SlashFraction \in Fractions
  PROVE  LET K  == BuildPipedValsetOpKey(ValidatorSlashed, val, info)
             n  == Len(val)
             an == Len(info.TotalSlashAmount)
             fn == Len(info.SlashFraction)
             e  == n + 2 + IntLen + IntLen
         IN  /\ K \in Seq(Nat) /\ Len(K) = e + 1 + an + fn
             /\ K[1] = n % ByteSize
             /\ SubSeq(K, 2, n + 1) = val
             /\ K[n + 2] = ValidatorSlashed
             /\ SubSeq(K, n + 3, n + 2 + IntLen) = BigEndian(info.InfractionHeight)
             /\ SubSeq(K, n + 2 + IntLen + 1, e) = BigEndian(info.Power)
             /\ K[e + 1] = an % ByteSize
             /\ SubSeq(K, e + 2, e + 1 + an) = info.TotalSlashAmount
             /\ SubSeq(K, e + 2 + an, Len(K)) = info.SlashFraction
<1> DEFINE a  == info.TotalSlashAmount
           fr == info.SlashFraction
           h  == BigEndian(info.InfractionHeight)
           p  == BigEndian(info.Power)
           n  == Len(val)
           an == Len(a)
           fn == Len(fr)
           e  == n + 2 + IntLen + IntLen
           k1 == <<n % ByteSize>>
           k2 == k1 \o val
           k3 == k2 \o <<ValidatorSlashed>>
           k4 == k3 \o h
           k5 == k4 \o p
           k6 == k5 \o <<an % ByteSize>>
           k7 == k6 \o a
           K  == k7 \o fr
<1>1. BuildPipedValsetOpKey(ValidatorSlashed, val, info) = K
  BY DEF BuildPipedValsetOpKey
<1>2. /\ val \in Seq(Nat) /\ a \in Seq(Nat) /\ fr \in Seq(Nat) /\ h \in Seq(Nat) /\ p \in Seq(Nat)
      /\ Len(h) = IntLen /\ Len(p) = IntLen /\ IntLen \in Nat
  <2>1. \A s \in Seq(Bytes) : s \in Seq(Nat)
    BY BytesAreNat, SeqMonotonic
  <2> QED BY <2>1, NumberSurvives, BytesAssumption
<1>3. n \in Nat /\ an \in Nat /\ fn \in Nat /\ n % ByteSize \in Nat /\ an % ByteSize \in Nat
  <2>1. n \in Nat /\ an \in Nat /\ fn \in Nat
    BY <1>2, LenProperties
  <2>2. n % ByteSize \in Bytes /\ an % ByteSize \in Bytes
    <3> HIDE DEF n, an
    <3> QED BY <2>1, ByteDivision
  <2> QED BY <2>1, <2>2, BytesAreNat
<1> DEFINE x == <<n % ByteSize>>
           y == <<an % ByteSize>>
           o == <<ValidatorSlashed>>
<1>4. /\ x \in Seq(Nat) /\ Len(x) = 1 /\ x[1] = n % ByteSize
      /\ y \in Seq(Nat) /\ Len(y) = 1 /\ y[1] = an % ByteSize
      /\ o \in Seq(Nat) /\ Len(o) = 1 /\ o[1] = ValidatorSlashed
  BY <1>3 DEF ValidatorSlashed
<1> HIDE DEF a, fr, h, p, n, an, fn, x, y, o
<1>5. /\ k1 = x /\ k3 = k2 \o o /\ k6 = k5 \o y
  BY DEF x, y, o
<1> HIDE DEF k1, k3, k6
<1>6. /\ k1 \in Seq(Nat) /\ k2 \in Seq(Nat) /\ k3 \in Seq(Nat) /\ k4 \in Seq(Nat)
      /\ k5 \in Seq(Nat) /\ k6 \in Seq(Nat) /\ k7 \in Seq(Nat) /\ K \in Seq(Nat)
  BY <1>2, <1>4, <1>5, ConcatProperties
<1>7. /\ Len(k1) = 1 /\ Len(k2) = n + 1 /\ Len(k3) = n + 2 /\ Len(k4) = n + 2 + IntLen
      /\ Len(k5) = e /\ Len(k6) = e + 1 /\ Len(k7) = e + 1 + an /\ Len(K) = e + 1 + an + fn
  <2>1. /\ Len(k1) = 1 /\ Len(k2) = Len(k1) + n /\ Len(k3) = Len(k2) + 1 /\ Len(k4) = Len(k3) + IntLen
        /\ Len(k5) = Len(k4) + IntLen /\ Len(k6) = Len(k5) + 1 /\ Len(k7) = Len(k6) + an
        /\ Len(K) = Len(k7) + fn
    <3>1. Len(k2) = Len(k1) + Len(val)
      BY <1>2, <1>6, ConcatProperties
    <3>2. Len(k3) = Len(k2) + Len(o)
      <4> HIDE DEF k2, k4, k5, k7, K
      <4>1. k2 \in Seq(Nat) /\ o \in Seq(Nat) /\ k3 = k2 \o o
        BY <1>4, <1>5, <1>6
      <4> QED BY <4>1, ConcatProperties
    <3>3. Len(k4) = Len(k3) + Len(h)
      BY <1>2, <1>6, ConcatProperties
    <3>4. Len(k5) = Len(k4) + Len(p)
      BY <1>2, <1>6, ConcatProperties
    <3>5. Len(k6) = Len(k5) + Len(y)
      <4> HIDE DEF k2, k4, k5, k7, K
      <4>1. k5 \in Seq(Nat) /\ y \in Seq(Nat) /\ k6 = k5 \o y
        BY <1>4, <1>5, <1>6
      <4> QED BY <4>1, ConcatProperties
    <3>6. Len(k7) = Len(k6) + Len(a)
      BY <1>2, <1>6, ConcatProperties
    <3>7. Len(K) = Len(k7) + Len(fr)
      BY <1>2, <1>6, ConcatProperties
    <3> HIDE DEF k2, k4, k5, k7, K
    <3> QED BY <1>2, <1>4, <1>5, <3>1, <3>2, <3>3, <3>4, <3>5, <3>6, <3>7 DEF n, an, fn
  <2> HIDE DEF k2, k4, k5, k7, K
  <2>2. n \in Nat /\ an \in Nat /\ fn \in Nat /\ IntLen \in Nat
    BY ONLY <1>2, <1>3
  <2>3. PICK l1, l2, l3, l4, l5, l6, l7, l8 :
          /\ l1 = Len(k1) /\ l2 = Len(k2) /\ l3 = Len(k3) /\ l4 = Len(k4)
          /\ l5 = Len(k5) /\ l6 = Len(k6) /\ l7 = Len(k7) /\ l8 = Len(K)
    OBVIOUS
  <2>4. /\ l1 = 1 /\ l2 = l1 + n /\ l3 = l2 + 1 /\ l4 = l3 + IntLen
        /\ l5 = l4 + IntLen /\ l6 = l5 + 1 /\ l7 = l6 + an /\ l8 = l7 + fn
    BY ONLY <2>1, <2>3
  <2>5. /\ l1 = 1 /\ l2 = n + 1 /\ l3 = n + 2 /\ l4 = n + 2 + IntLen
        /\ l5 = e /\ l6 = e + 1 /\ l7 = e + 1 + an /\ l8 = e + 1 + an + fn
    BY ONLY <2>2, <2>4
  <2> QED BY ONLY <2>3, <2>5
<1>8. /\ Starts(K, K) /\ Starts(K, k7) /\ Starts(k7, k6) /\ Starts(k6, k5) /\ Starts(k5, k4) /\ Starts(k4, k3)
      /\ Starts(k3, k2) /\ Starts(k2, k1)
  <2>1. Starts(K, K)
    BY <1>2, <1>3, <1>7 DEF Starts
  <2> QED BY <1>2, <1>4, <1>5, <1>6, <2>1, StartsWithPart
<1> DEFINE Part(s) == Starts(K, s)
<1>9. Part(k7) /\ Part(k6) /\ Part(k5) /\ Part(k4) /\ Part(k3) /\ Part(k2) /\ Part(k1)
  <2> HIDE DEF k2, k4, k5, k7, K
  <2>1. Part(k6)
    BY <1>6, <1>8, StartsTransitive
  <2>2. Part(k5)
    BY <1>6, <1>8, <2>1, StartsTransitive
  <2>3. Part(k4)
    BY <1>6, <1>8, <2>2, StartsTransitive
  <2>4. Part(k3)
    BY <1>6, <1>8, <2>3, StartsTransitive
  <2>5. Part(k2)
    BY <1>6, <1>8, <2>4, StartsTransitive
  <2>6. Part(k1)
    BY <1>6, <1>8, <2>5, StartsTransitive
  <2> QED BY <1>8, <2>1, <2>2, <2>3, <2>4, <2>5, <2>6
<1>10. /\ SubSeq(K, Len(k1) + 1, Len(k1) + Len(val)) = val
       /\ SubSeq(K, Len(k3) + 1, Len(k3) + Len(h)) = h
       /\ SubSeq(K, Len(k4) + 1, Len(k4) + Len(p)) = p
       /\ SubSeq(K, Len(k6) + 1, Len(k6) + Len(a)) = a
       /\ SubSeq(K, Len(k7) + 1, Len(k7) + Len(fr)) = fr
  <2>1. SubSeq(K, Len(k1) + 1, Len(k1) + Len(val)) = val
    BY <1>2, <1>6, <1>9, SliceOfPart
  <2>2. SubSeq(K, Len(k3) + 1, Len(k3) + Len(h)) = h
    BY <1>2, <1>6, <1>9, SliceOfPart
  <2>3. SubSeq(K, Len(k4) + 1, Len(k4) + Len(p)) = p
    BY <1>2, <1>6, <1>9, SliceOfPart
  <2>4. SubSeq(K, Len(k6) + 1, Len(k6) + Len(a)) = a
    BY <1>2, <1>6, <1>9, SliceOfPart
  <2>5. SubSeq(K, Len(k7) + 1, Len(k7) + Len(fr)) = fr
    BY <1>2, <1>6, <1>8, SliceOfPart
  <2> QED BY <2>1, <2>2, <2>3, <2>4, <2>5
<1>11. /\ k1[1] = n % ByteSize /\ k3[n + 2] = ValidatorSlashed /\ k6[e + 1] = an % ByteSize
  <2> HIDE DEF k2, k4, k5, k7, K
  <2>1. k3[Len(k2) + 1] = o[1]
    BY <1>4, <1>5, <1>6, AppendedByte
  <2>2. k6[Len(k5) + 1] = y[1]
    BY <1>4, <1>5, <1>6, AppendedByte
  <2>3. Len(k2) + 1 = n + 2 /\ Len(k5) + 1 = e + 1
    BY <1>3, <1>7
  <2> QED BY <1>4, <1>5, <2>1, <2>2, <2>3
<1> HIDE DEF k2, k4, k5, k7, K
<1>12. K[1] = k1[1] /\ K[n + 2] = k3[n + 2] /\ K[e + 1] = k6[e + 1]
  BY <1>2, <1>3, <1>7, <1>9 DEF Starts
<1>13. /\ Len(k1) + 1 = 2 /\ Len(k1) + n = n + 1
       /\ Len(k3) + 1 = n + 3 /\ Len(k3) + Len(h) = n + 2 + IntLen
       /\ Len(k4) + 1 = n + 2 + IntLen + 1 /\ Len(k4) + Len(p) = e
       /\ Len(k6) + 1 = e + 2 /\ Len(k6) + an = e + 1 + an
       /\ Len(k7) + 1 = e + 2 + an /\ Len(k7) + fn = Len(K)
  BY <1>2, <1>3, <1>7
<1>14. /\ K \in Seq(Nat) /\ Len(K) = e + 1 + an + fn /\ K[1] = n % ByteSize
       /\ SubSeq(K, 2, n + 1) = val /\ K[n + 2] = ValidatorSlashed
       /\ SubSeq(K, n + 3, n + 2 + IntLen) = h
       /\ SubSeq(K, n + 2 + IntLen + 1, e) = p
       /\ K[e + 1] = an % ByteSize
       /\ SubSeq(K, e + 2, e + 1 + an) = a
       /\ SubSeq(K, e + 2 + an, Len(K)) = fr
  <2>1. Len(val) = n /\ Len(a) = an /\ Len(fr) = fn
    BY DEF n, an, fn
  <2> HIDE DEF e
  <2> QED BY <1>6, <1>7, <1>10, <1>11, <1>12, <1>13, <2>1
<1> QED BY <1>1, <1>14 DEF n, an, fn, a, fr, h, p

(* A number below the size of a byte is the same in a byte. *)
LEMMA ByteOf ==
  ASSUME NEW n \in Nat, n < ByteSize
  PROVE  Byte(n) = n /\ n % ByteSize = n
BY BytesAssumption DEF Byte

(* What is read from the key of a slash is the slash: every offset fits in *)
(* a byte, and the two exchanges of height and power cancel out.           *)
LEMMA SlashIsRead ==
  ASSUME NEW s \in Slash, Fits(s)
  PROVE  ReadSlash(BuildPipedValsetOpKey(ValidatorSlashed, s.val, SlashInfo(s))) = {s}
<1> DEFINE info == SlashInfo(s)
           K  == BuildPipedValsetOpKey(ValidatorSlashed, s.val, info)
           n  == Len(s.val)
           an == Len(s.amount)
           fn == Len(s.fraction)
           e  == n + 2 + IntLen + IntLen
<1>1. /\ s.val \in ValAddrs /\ s.height \in Numbers /\ s.power \in Numbers
      /\ s.amount \in Amounts /\ s.fraction \in Fractions
      /\ s = [val |-> s.val, height |-> s.height, power |-> s.power,
              amount |-> s.amount, fraction |-> s.fraction]
  BY DEF Slash
<1>2. /\ info.InfractionHeight = s.power /\ info.Power = s.height
      /\ info.TotalSlashAmount = s.amount /\ info.SlashFraction = s.fraction
  BY DEF SlashInfo
<1>3. n \in Nat /\ an \in Nat \ {0} /\ fn \in Nat /\ IntLen \in Nat /\ ByteSize \in Nat
  <2>1. s.val \in Seq(Bytes) /\ s.amount \in Seq(Bytes) /\ s.fraction \in Seq(Bytes) /\ s.amount # <<>>
    BY <1>1, BytesAssumption
  <2> QED BY <2>1, LenProperties, EmptySeq, BytesAssumption
<1>4. n + 2 + IntLen + IntLen + 1 + an < ByteSize
  BY DEF Fits
<1> HIDE DEF info
<1>5. /\ K \in Seq(Nat) /\ Len(K) = e + 1 + an + fn
      /\ K[1] = n % ByteSize
      /\ SubSeq(K, 2, n + 1) = s.val
      /\ K[n + 2] = ValidatorSlashed
      /\ SubSeq(K, n + 3, n + 2 + IntLen) = BigEndian(s.power)
      /\ SubSeq(K, n + 2 + IntLen + 1, e) = BigEndian(s.height)
      /\ K[e + 1] = an % ByteSize
      /\ SubSeq(K, e + 2, e + 1 + an) = s.amount
      /\ SubSeq(K, e + 2 + an, Len(K)) = s.fraction
  <2>1. /\ info.InfractionHeight \in Numbers /\ info.Power \in Numbers
        /\ info.TotalSlashAmount \in Amounts /\ info.SlashFraction \in Fractions
    BY <1>1, <1>2
  <2> DEFINE m == Len(info.TotalSlashAmount)
             E == Len(s.val) + 2 + IntLen + IntLen
  <2>2. /\ K \in Seq(Nat) /\ Len(K) = E + 1 + m + Len(info.SlashFraction)
        /\ K[1] = Len(s.val) % ByteSize
        /\ SubSeq(K, 2, Len(s.val) + 1) = s.val
        /\ K[Len(s.val) + 2] = ValidatorSlashed
        /\ SubSeq(K, Len(s.val) + 3, Len(s.val) + 2 + IntLen) = BigEndian(info.InfractionHeight)
        /\ SubSeq(K, Len(s.val) + 2 + IntLen + 1, E) = BigEndian(info.Power)
        /\ K[E + 1] = m % ByteSize
        /\ SubSeq(K, E + 2, E + 1 + m) = info.TotalSlashAmount
        /\ SubSeq(K, E + 2 + m, Len(K)) = info.SlashFraction
    BY <1>1, <2>1, KeyParts, Zenon
  <2> HIDE DEF K
  <2> QED BY <1>2, <2>2
<1> HIDE DEF K, n, an, fn
<1>6. K[1] = n /\ K[e + 1] = an
  <2>1. n < ByteSize /\ an < ByteSize
    BY <1>3, <1>4
  <2>2. n % ByteSize = n /\ an % ByteSize = an
    BY <1>3, <2>1, ByteOf
  <2> QED BY <1>5, <2>2
<1>7. /\ Byte(1) = 1 /\ Byte(n + 1) = n + 1 /\ Byte(n + 2) = n + 2
      /\ Byte(n + 2 + IntLen) = n + 2 + IntLen /\ Byte(e) = e /\ Byte(e + 1) = e + 1
      /\ Byte(e + 1 + an) = e + 1 + an
  <2>1. /\ 1 \in Nat /\ n + 1 \in Nat /\ n + 2 \in Nat /\ n + 2 + IntLen \in Nat
        /\ e \in Nat /\ e + 1 \in Nat /\ e + 1 + an \in Nat
        /\ 1 < ByteSize /\ n + 1 < ByteSize /\ n + 2 < ByteSize /\ n + 2 + IntLen < ByteSize
        /\ e < ByteSize /\ e + 1 < ByteSize /\ e + 1 + an < ByteSize
    BY <1>3, <1>4
  <2> HIDE DEF e
  <2> QED BY <2>1, ByteOf
<1>8. /\ Slice(K, 1, n + 1) = s.val
      /\ At(K, n + 1) = ValidatorSlashed
      /\ Slice(K, n + 2, n + 2 + IntLen) = BigEndian(s.power)
      /\ Slice(K, n + 2 + IntLen, e) = BigEndian(s.height)
      /\ At(K, e) = an
      /\ Slice(K, e + 1, e + 1 + an) = s.amount
      /\ SubSeq(K, Byte(e + 1 + an) + 1, Len(K)) = s.fraction
  <2>1. /\ 1 + 1 = 2 /\ (n + 1) + 1 = n + 2 /\ (n + 2) + 1 = n + 3 /\ (e + 1) + 1 = e + 2
        /\ (e + 1 + an) + 1 = e + 2 + an
    BY <1>3
  <2> HIDE DEF e
  <2> QED BY <1>5, <1>6, <1>7, <2>1 DEF Slice, At
<1>9. /\ Len(K) > 1 + n + 1 + IntLen + IntLen + 1
      /\ IsSlice(K, 1, n + 1) /\ Byte(n + 1) < Len(K)
      /\ IsSlice(K, n + 2, n + 2 + IntLen) /\ IsSlice(K, n + 2 + IntLen, e)
      /\ IsSlice(K, e + 1, e + 1 + an) /\ Byte(e + 1 + an) <= Len(K) /\ Byte(e) < Len(K)
  <2>1. /\ Len(K) > 1 + n + 1 + IntLen + IntLen + 1 /\ Len(K) > e /\ Len(K) >= e + 1 + an
        /\ 1 <= n + 1 /\ n + 1 < Len(K) /\ n + 2 <= n + 2 + IntLen /\ n + 2 + IntLen <= e
        /\ e + 1 <= e + 1 + an /\ n + 1 <= Len(K) /\ n + 2 + IntLen <= Len(K) /\ e <= Len(K)
    <3> DEFINE L == Len(K)
    <3>1. L = e + 1 + an + fn
      BY <1>5
    <3> HIDE DEF L
    <3>2. L > e /\ L >= e + 1 + an /\ L > 1 + n + 1 + IntLen + IntLen + 1
      BY <1>3, <3>1
    <3> QED BY <1>3, <3>2 DEF L
  <2> HIDE DEF e
  <2> QED BY <1>7, <2>1 DEF IsSlice
<1>10. BigEndianToUint64(BigEndian(s.power)) = s.power /\ BigEndianToUint64(BigEndian(s.height)) = s.height
  BY <1>1, NumberSurvives
<1>11. ReadSlash(K) = {[val |-> s.val, power |-> s.power, height |-> s.height,
                        amount |-> s.amount, fraction |-> s.fraction]}
  BY <1>6, <1>8, <1>9, <1>10 DEF ReadSlash
<1>12. s = [val |-> s.val, power |-> s.power, height |-> s.height,
            amount |-> s.amount, fraction |-> s.fraction]
  BY <1>1
<1> QED BY <1>11, <1>12 DEF K, info

-----------------------------------------------------------------------------
(* The theorem *)

(* What is stored is the key of the slash, and what is reported was read   *)
(* from it.                                                                *)
KeyInv ==
  /\ slash \in Slash
  /\ stage = "stored" => piped = BuildPipedValsetOpKey(ValidatorSlashed, slash.val, SlashInfo(slash))
  /\ SlashIsReported

(* A contract is told the validator, height, power, amount and fraction of *)
(* a slash, for any width of bytes and integers: as long as the offsets    *)
(* that iteratePipedValsetOperations adds up fit in a byte.                *)
THEOREM SlashesAreReported == Spec => []SlashIsReported
<1>1. Init => KeyInv
  BY DEF Init, KeyInv, SlashIsReported
<1>2. ASSUME KeyInv, [Next]_vars PROVE KeyInv'
  <2>1. CASE Store
    BY <1>2, <2>1 DEF KeyInv, Store, SlashIsReported
  <2>2. CASE Report
    BY <1>2, <2>2, SlashIsRead DEF KeyInv, Report, SlashIsReported, Fits
  <2>3. CASE UNCHANGED vars
    BY <1>2, <2>3 DEF KeyInv, vars, SlashIsReported, Fits
  <2> QED BY <1>2, <2>1, <2>2, <2>3 DEF Next
<1>3. KeyInv => SlashIsReported
  BY DEF KeyInv
<1> QED BY <1>1, <1>2, <1>3, PTL DEF Spec
=============================================================================
