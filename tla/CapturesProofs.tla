---------------------------- MODULE CapturesProofs ----------------------------
(* Theorems about Captures, for every value of its constants.                *)
EXTENDS Captures, SequenceTheorems, WellFoundedInduction, TLAPS

-----------------------------------------------------------------------------
(* Induction over the natural numbers, from the least element of a set; and the   *)
(* sums of BytesOf, which are defined by recursion.                              *)

\* A set of natural numbers has a least element.
LEMMA Least ==
    ASSUME NEW T, T \subseteq Nat, T # {}
    PROVE  \E x \in T : \A y \in T : x <= y
<1> PICK R : R = {ss \in Nat \X Nat : ss[1] < ss[2]}
    OBVIOUS
<1>1. IsWellFoundedOn(R, Nat)
    BY NatLessThanWellFounded DEF OpToRel
<1>2. PICK x \in T : \A y \in T : <<y, x>> \notin R
    BY <1>1, WFMin
<1>3. ASSUME NEW y \in T PROVE x <= y
    <2>1. x \in Nat /\ y \in Nat /\ <<y, x>> \notin R
        BY <1>2
    <2>2. ~(y < x)
        BY <2>1
    <2> QED
        BY <2>1, <2>2
<1> QED
    BY <1>3

\* Induction, as a statement about a set.
LEMMA Induction ==
    ASSUME NEW T, T \subseteq Nat, 0 \in T, \A n \in T : n + 1 \in T
    PROVE  T = Nat
<1> SUFFICES ASSUME Nat \ T # {} PROVE FALSE
    OBVIOUS
<1>1. PICK x \in Nat \ T : \A y \in Nat \ T : x <= y
    BY Least
<1>2. x - 1 \in Nat /\ (x - 1) + 1 = x
    BY <1>1
<1>3. x - 1 \in T
    BY <1>1, <1>2
<1> QED
    BY <1>1, <1>2, <1>3

LEMMA CourseOfValues ==
    ASSUME NEW T, T \subseteq Nat, \A n \in Nat : (\A k \in 0..(n - 1) : k \in T) => n \in T
    PROVE  T = Nat
<1> SUFFICES ASSUME Nat \ T # {} PROVE FALSE
    OBVIOUS
<1>1. PICK x \in Nat \ T : \A y \in Nat \ T : x <= y
    BY Least
<1>2. \A k \in 0..(x - 1) : k \in T
    BY <1>1
<1> QED
    BY <1>1, <1>2

\* s holds the sums of the first numbers of d.
IsSum(s, n, d) == s = [k \in 0..n |-> IF k = 0 THEN 0 ELSE s[k - 1] + d[k]]

\* A function defined by recursion as s is here exists, and is determined by d.
LEMMA SumExists ==
    ASSUME NEW n \in Nat, NEW d \in [1..n -> Nat]
    PROVE  \E s \in [0..n -> Nat] : IsSum(s, n, d)
<1> PICK T : T = {m \in Nat : m <= n => \E s \in [0..m -> Nat] : IsSum(s, m, d)}
    OBVIOUS
<1>1. 0 \in T
    <2>1. PICK s : s = [k \in 0..0 |-> 0]
        OBVIOUS
    <2>2. s \in [0..0 -> Nat] /\ IsSum(s, 0, d)
        BY <2>1 DEF IsSum
    <2> QED
        BY <2>2
<1>2. ASSUME NEW m \in T, m + 1 <= n PROVE \E s \in [0..(m + 1) -> Nat] : IsSum(s, m + 1, d)
    <2>1. PICK s \in [0..m -> Nat] : IsSum(s, m, d)
        BY <1>2
    <2>2. PICK t : t = [k \in 0..(m + 1) |-> IF k = m + 1 THEN s[m] + d[m + 1] ELSE s[k]]
        OBVIOUS
    <2>3. m \in Nat /\ s[m] \in Nat /\ d[m + 1] \in Nat
        BY <1>2, <2>1
    <2>4. t \in [0..(m + 1) -> Nat]
        BY <2>1, <2>2, <2>3
    <2>5. ASSUME NEW k \in 0..(m + 1)
          PROVE  t[k] = IF k = 0 THEN 0 ELSE t[k - 1] + d[k]
        <3>1. CASE k = m + 1
            <4>1. t[k] = s[m] + d[k] /\ k - 1 = m /\ k # 0 /\ t[m] = s[m] /\ m \in 0..(m + 1)
                BY <2>2, <2>3, <3>1
            <4> QED
                BY <4>1
        <3>2. CASE k # m + 1 /\ k # 0
            <4>1. k \in 0..m /\ k - 1 \in 0..m
                BY <2>3, <3>2
            <4>2. s[k] = s[k - 1] + d[k]
                BY <2>1, <3>2, <4>1 DEF IsSum
            <4>3. t[k] = s[k] /\ t[k - 1] = s[k - 1]
                BY <2>2, <2>3, <3>2, <4>1
            <4> QED
                BY <3>2, <4>2, <4>3
        <3>3. CASE k = 0
            BY <2>1, <2>2, <2>3, <3>3 DEF IsSum
        <3> QED
            BY <3>1, <3>2, <3>3
    <2>6. IsSum(t, m + 1, d)
        BY <2>2, <2>5 DEF IsSum
    <2> QED
        BY <2>4, <2>6
<1>3. ASSUME NEW m \in T PROVE m + 1 \in T
    <2>1. m + 1 \in Nat
        BY <1>3
    <2> QED
        BY <1>2, <2>1
<1>4. n \in T
    BY <1>1, <1>3, Induction
<1> QED
    BY <1>4

\* The first n numbers of d are those of e.
Alike(n, d, e) == \A k \in 1..n : d[k] = e[k]

LEMMA SumsAgree ==
    ASSUME NEW n \in Nat, NEW m \in Nat, n <= m, NEW d, NEW e, NEW s, NEW t,
           Alike(n, d, e), IsSum(s, n, d), IsSum(t, m, e)
    PROVE  s[n] = t[n]
<1> PICK T : T = {k \in Nat : k <= n => s[k] = t[k]}
    OBVIOUS
<1>1. 0 \in T
    BY DEF IsSum
<1>2. ASSUME NEW k \in T, k + 1 <= n PROVE s[k + 1] = t[k + 1]
    <2>1. k \in Nat /\ s[k] = t[k] /\ k + 1 \in 1..n /\ k + 1 \in 0..n /\ k + 1 \in 0..m
          /\ (k + 1) - 1 = k /\ k + 1 # 0
        BY <1>2
    <2>2. s[k + 1] = s[k] + d[k + 1]
        BY <2>1 DEF IsSum
    <2>3. t[k + 1] = t[k] + e[k + 1]
        BY <2>1 DEF IsSum
    <2>4. d[k + 1] = e[k + 1]
        BY <2>1 DEF Alike
    <2> QED
        BY <2>1, <2>2, <2>3, <2>4
<1>3. T = Nat
    BY <1>1, <1>2, Induction
<1> QED
    BY <1>3

\* What a frame adds to a side's stream.
Share(f, side) == IF f.from = side THEN SizeOf(f) ELSE 0

Shares(fs, n, side) == [k \in 1..n |-> Share(fs[k], side)]

\* BytesOf sums what the frames add.
LEMMA BytesAre ==
    ASSUME NEW fs, NEW n \in Nat, NEW side, Shares(fs, n, side) \in [1..n -> Nat]
    PROVE  \E s \in [0..n -> Nat] :
              IsSum(s, n, Shares(fs, n, side)) /\ BytesOf(fs, n, side) = s[n]
<1> PICK d : d = Shares(fs, n, side)
    OBVIOUS
<1>1. PICK s \in [0..n -> Nat] : IsSum(s, n, d)
    BY SumExists
<1>2. ASSUME NEW t
      PROVE  IsSum(t, n, d) <=>
             t = [k \in 0..n |->
                    IF k = 0 THEN 0
                    ELSE t[k - 1] + (IF fs[k].from = side THEN SizeOf(fs[k]) ELSE 0)]
    <2>1. ASSUME NEW k \in 0..n
          PROVE  (IF k = 0 THEN 0 ELSE t[k - 1] + d[k])
                    = IF k = 0 THEN 0
                      ELSE t[k - 1] + (IF fs[k].from = side THEN SizeOf(fs[k]) ELSE 0)
        <3>1. k # 0 => d[k] = IF fs[k].from = side THEN SizeOf(fs[k]) ELSE 0
            BY DEF Share, Shares
        <3> QED
            BY <3>1
    <2>2. [k \in 0..n |-> IF k = 0 THEN 0 ELSE t[k - 1] + d[k]]
            = [k \in 0..n |->
                    IF k = 0 THEN 0
                    ELSE t[k - 1] + (IF fs[k].from = side THEN SizeOf(fs[k]) ELSE 0)]
        BY <2>1
    <2> QED
        BY <2>2 DEF IsSum
<1>3. PICK t : /\ t = [k \in 0..n |->
                    IF k = 0 THEN 0
                    ELSE t[k - 1] + (IF fs[k].from = side THEN SizeOf(fs[k]) ELSE 0)]
               /\ BytesOf(fs, n, side) = t[n]
    <2>1. \E t : t = [k \in 0..n |->
                    IF k = 0 THEN 0
                    ELSE t[k - 1] + (IF fs[k].from = side THEN SizeOf(fs[k]) ELSE 0)]
        BY <1>1, <1>2
    <2> QED
        BY <2>1 DEF BytesOf
<1>4. IsSum(t, n, d)
    BY <1>2, <1>3
<1>5. s[n] = t[n]
    <2>1. Alike(n, d, d)
        BY DEF Alike
    <2>2. n <= n
        OBVIOUS
    <2> QED
        BY <1>1, <1>4, <2>1, <2>2, SumsAgree
<1> QED
    BY <1>1, <1>3, <1>5

\* No frame takes no bytes.
LEMMA BytesStart ==
    ASSUME NEW fs, NEW side
    PROVE  BytesOf(fs, 0, side) = 0
<1>1. Shares(fs, 0, side) \in [1..0 -> Nat] /\ 0 \in Nat
    BY DEF Shares
<1>2. PICK s \in [0..0 -> Nat] : IsSum(s, 0, Shares(fs, 0, side)) /\ BytesOf(fs, 0, side) = s[0]
    BY <1>1, BytesAre
<1> QED
    BY <1>2 DEF IsSum

\* The bytes of the first frames do not depend on the others.
LEMMA BytesSame ==
    ASSUME NEW n \in Nat, NEW fs, NEW gs, NEW side,
           Shares(fs, n, side) \in [1..n -> Nat], Alike(n, gs, fs)
    PROVE  BytesOf(gs, n, side) = BytesOf(fs, n, side)
<1> PICK d : d = Shares(fs, n, side)
    OBVIOUS
<1>1. Shares(gs, n, side) = d
    BY DEF Shares, Alike
<1>2. PICK s \in [0..n -> Nat] : IsSum(s, n, d) /\ BytesOf(fs, n, side) = s[n]
    BY BytesAre
<1>3. PICK t \in [0..n -> Nat] : IsSum(t, n, d) /\ BytesOf(gs, n, side) = t[n]
    BY <1>1, BytesAre
<1>4. Alike(n, d, d) /\ n <= n
    BY DEF Alike
<1>5. s[n] = t[n]
    <2>1. n <= n /\ Alike(n, d, d) /\ IsSum(s, n, d) /\ IsSum(t, n, d)
        BY <1>2, <1>3, <1>4
    <2> QED
        BY <2>1, SumsAgree
<1> QED
    BY <1>2, <1>3, <1>5

\* The next frame adds its share.
LEMMA BytesNext ==
    ASSUME NEW n \in Nat, NEW fs, NEW side, \A k \in 1..(n + 1) : Share(fs[k], side) \in Nat
    PROVE  /\ BytesOf(fs, n, side) \in Nat
           /\ BytesOf(fs, n + 1, side) = BytesOf(fs, n, side) + Share(fs[n + 1], side)
<1> PICK d : d = Shares(fs, n, side)
    OBVIOUS
<1> PICK e : e = Shares(fs, n + 1, side)
    OBVIOUS
<1>0. d \in [1..n -> Nat] /\ e \in [1..(n + 1) -> Nat] /\ n + 1 \in Nat
    BY DEF Shares
<1>1. PICK s \in [0..n -> Nat] : IsSum(s, n, d) /\ BytesOf(fs, n, side) = s[n]
    BY <1>0, BytesAre
<1>2. PICK t \in [0..(n + 1) -> Nat] : IsSum(t, n + 1, e) /\ BytesOf(fs, n + 1, side) = t[n + 1]
    BY <1>0, BytesAre
<1>3. Alike(n, d, e) /\ n <= n + 1
    BY DEF Shares, Alike
<1>4. s[n] = t[n]
    <2> PICK m \in Nat : m = n + 1
        OBVIOUS
    <2>1. n <= m /\ Alike(n, d, e) /\ IsSum(s, n, d) /\ IsSum(t, m, e)
        BY <1>1, <1>2, <1>3
    <2> QED
        BY <2>1, SumsAgree
<1>5. t[n + 1] = t[n] + e[n + 1]
    <2>1. n + 1 \in 0..(n + 1) /\ n + 1 # 0 /\ (n + 1) - 1 = n
        OBVIOUS
    <2> QED
        BY <1>2, <2>1 DEF IsSum
<1>6. e[n + 1] = Share(fs[n + 1], side)
    BY DEF Shares
<1>7. s[n] = t[n] /\ s[n] \in Nat
    BY <1>1, <1>4
<1> QED
    BY <1>1, <1>2, <1>5, <1>6, <1>7

-----------------------------------------------------------------------------
(* The packets are sequences of bytes.                                        *)

\* s is a sequence, whatever its elements.
IsSeq(s) == \E S : s \in Seq(S)

LEMMA SeqJoined ==
    ASSUME NEW s, NEW t, IsSeq(s), IsSeq(t)
    PROVE  IsSeq(s \o t) /\ Len(s \o t) = Len(s) + Len(t) /\ Len(s) \in Nat /\ Len(t) \in Nat
<1>1. PICK S : s \in Seq(S)
    BY DEF IsSeq
<1>2. PICK T : t \in Seq(T)
    BY DEF IsSeq
<1>3. s \in Seq(S \union T) /\ t \in Seq(S \union T)
    BY <1>1, <1>2, SeqMonotonic
<1>4. s \o t \in Seq(S \union T) /\ Len(s \o t) = Len(s) + Len(t)
    BY <1>3, ConcatProperties
<1> QED
    BY <1>1, <1>2, <1>4 DEF IsSeq

LEMMA SeqShort ==
    ASSUME NEW a, NEW b
    PROVE  IsSeq(<<>>) /\ IsSeq(<<a>>) /\ IsSeq(<<a, b>>)
<1>1. <<>> \in Seq({}) /\ <<a>> \in Seq({a}) /\ <<a, b>> \in Seq({a, b})
    OBVIOUS
<1> QED
    BY <1>1 DEF IsSeq


\* _varint: a last byte, or a byte marked and the bytes of the rest.
Marked(k, rest) == IF k < 128 THEN <<k>> ELSE <<BitOr(k % 128, 128)>> \o rest

VarintOf(f) == f = [k \in Nat |-> Marked(k, f[k \div 128])]

\* f is VarintOf, for the numbers below n.
Part(f, n) == f = [k \in 0..(n - 1) |-> Marked(k, f[k \div 128])]

LEMMA PartAt ==
    ASSUME NEW n \in Nat, NEW f, Part(f, n), NEW k \in Nat, k < n
    PROVE  f[k] = Marked(k, f[k \div 128])
<1>1. k \in 0..(n - 1)
    OBVIOUS
<1> QED
    BY <1>1 DEF Part

LEMMA Divided == \A k \in Nat : k >= 128 => k \div 128 \in 0..(k - 1) /\ k \div 128 \in Nat
OBVIOUS

LEMMA MarkedAlike ==
    ASSUME NEW k \in Nat, NEW a, NEW b, k >= 128 => a = b
    PROVE  Marked(k, a) = Marked(k, b)
BY DEF Marked

\* The bytes of a number are determined by the recursion.
LEMMA PartsAgree ==
    ASSUME NEW n \in Nat, NEW m \in Nat, NEW f, NEW g, Part(f, n), Part(g, m)
    PROVE  \A k \in Nat : k < n /\ k < m => f[k] = g[k]
<1> PICK T : T = {k \in Nat : k < n /\ k < m => f[k] = g[k]}
    OBVIOUS
<1>1. ASSUME NEW k \in Nat, \A j \in 0..(k - 1) : j \in T, k < n, k < m PROVE f[k] = g[k]
    <2> PICK h : h = k \div 128
        OBVIOUS
    <2>1. k >= 128 => h \in 0..(k - 1) /\ h \in Nat
        BY Divided
    <2>2. k >= 128 => f[h] = g[h]
        BY <1>1, <2>1
    <2>3. f[k] = Marked(k, f[h]) /\ g[k] = Marked(k, g[h])
        BY <1>1, PartAt
    <2> QED
        BY <2>2, <2>3, MarkedAlike
<1>2. \A k \in Nat : (\A j \in 0..(k - 1) : j \in T) => k \in T
    BY <1>1
<1>3. T = Nat
    BY <1>2, CourseOfValues
<1> QED
    BY <1>3

\* The recursion can be carried as far as any number, and hence for all of them.
LEMMA PartExists == \A n \in Nat : \E f : Part(f, n)
<1> PICK T : T = {n \in Nat : \E f : Part(f, n)}
    OBVIOUS
<1>1. 0 \in T
    <2>1. PICK f : f = [k \in {} |-> 0]
        OBVIOUS
    <2>2. Part(f, 0)
        BY <2>1 DEF Part
    <2> QED
        BY <2>2
<1>2. ASSUME NEW n \in T PROVE n + 1 \in T
    <2>1. PICK f : Part(f, n)
        BY <1>2
    <2>2. n \in Nat /\ n + 1 \in Nat /\ (n + 1) - 1 = n
        BY <1>2
    <2> PICK g : g = [k \in 0..n |-> Marked(k, f[k \div 128])]
        OBVIOUS
    <2>3. ASSUME NEW k \in 0..n PROVE Marked(k, f[k \div 128]) = Marked(k, g[k \div 128])
        <3> PICK h : h = k \div 128
            OBVIOUS
        <3>1. k \in Nat /\ k <= n
            BY <2>2
        <3>2. ASSUME k >= 128 PROVE f[h] = g[h]
            <4>1. h \in 0..(k - 1) /\ h \in Nat
                BY <3>1, <3>2, Divided
            <4>2. h < n /\ h \in 0..n
                BY <2>2, <3>1, <4>1
            <4>3. f[h] = Marked(h, f[h \div 128])
                BY <2>1, <2>2, <4>1, <4>2, PartAt
            <4> QED
                BY <4>2, <4>3
        <3> QED
            BY <3>1, <3>2, MarkedAlike
    <2>4. g = [k \in 0..n |-> Marked(k, g[k \div 128])]
        BY <2>3, SMTT(60)
    <2>5. Part(g, n + 1)
        BY <2>2, <2>4 DEF Part
    <2> QED
        BY <2>2, <2>5
<1> QED
    BY <1>1, <1>2, Induction

LEMMA VarintExists == \E f : VarintOf(f)
<1> PICK p : p = [n \in Nat |-> CHOOSE f : Part(f, n + 1)]
    OBVIOUS
<1>1. ASSUME NEW n \in Nat PROVE Part(p[n], n + 1)
    <2>1. n + 1 \in Nat
        OBVIOUS
    <2>2. \E f : Part(f, n + 1)
        BY <2>1, PartExists
    <2> QED
        BY <2>2
<1> PICK f : f = [k \in Nat |-> p[k][k]]
    OBVIOUS
<1>2. ASSUME NEW k \in Nat PROVE f[k] = Marked(k, f[k \div 128])
    <2> PICK h : h = k \div 128
        OBVIOUS
    <2> PICK q : q = p[k]
        OBVIOUS
    <2>1. k + 1 \in Nat /\ k < k + 1 /\ Part(q, k + 1)
        BY <1>1
    <2>2. q[k] = Marked(k, q[h])
        BY <2>1, PartAt
    <2>3. ASSUME k >= 128 PROVE q[h] = f[h]
        <3>1. h \in 0..(k - 1) /\ h \in Nat
            BY <2>3, Divided
        <3> PICK r : r = p[h]
            OBVIOUS
        <3>2. h < k + 1 /\ h < h + 1 /\ h + 1 \in Nat /\ Part(r, h + 1)
            BY <1>1, <3>1
        <3>3. q[h] = r[h]
            BY <2>1, <3>1, <3>2, PartsAgree
        <3> QED
            BY <3>1, <3>3
    <2>4. Marked(k, q[h]) = Marked(k, f[h])
        BY <2>3, MarkedAlike
    <2>5. f[k] = q[k]
        OBVIOUS
    <2> QED
        BY <2>2, <2>4, <2>5
<1>3. f = [k \in Nat |-> Marked(k, f[k \div 128])]
    BY <1>2
<1> QED
    BY <1>3 DEF VarintOf

LEMMA VarintIs == \E f : VarintOf(f) /\ \A n : Varint(n) = f[n]
<1> PICK f : f = CHOOSE g : VarintOf(g)
    OBVIOUS
<1>1. VarintOf(f)
    BY VarintExists
<1>2. \A n : Varint(n) = f[n]
    BY DEF Varint, VarintOf, Marked
<1> QED
    BY <1>1, <1>2

\* Varint satisfies the equation it is defined by.
LEMMA VarintStep ==
    ASSUME NEW n \in Nat
    PROVE  Varint(n) = Marked(n, Varint(n \div 128))
<1>1. PICK f : VarintOf(f) /\ \A k : Varint(k) = f[k]
    BY VarintIs
<1>2. f[n] = Marked(n, f[n \div 128])
    BY <1>1 DEF VarintOf
<1> QED
    BY <1>1, <1>2

\* The steps that send a packet.
Packets == {"connect", "online", "temperature", "vibration", "power", "pubrel", "disconnect"}

\* A number has as many bytes as the loop of _varint makes turns: finitely many.
LEMMA VarintSeq == \A n \in Nat : IsSeq(Varint(n))
<1> PICK T : T = {n \in Nat : IsSeq(Varint(n))}
    OBVIOUS
<1>1. ASSUME NEW n \in Nat, \A k \in 0..(n - 1) : k \in T PROVE n \in T
    <2> PICK h : h = n \div 128
        OBVIOUS
    <2>1. Varint(n) = Marked(n, Varint(h))
        BY VarintStep
    <2>2. CASE n < 128
        <3>1. Varint(n) = <<n>>
            BY <2>1, <2>2 DEF Marked
        <3> QED
            BY <3>1, SeqShort
    <2>3. CASE n >= 128
        <3>1. h \in 0..(n - 1) /\ h \in Nat
            BY <2>3, Divided
        <3>2. IsSeq(Varint(h))
            BY <1>1, <3>1
        <3>3. Varint(n) = <<BitOr(n % 128, 128)>> \o Varint(h)
            BY <2>1, <2>3 DEF Marked
        <3> QED
            BY <3>2, <3>3, SeqShort, SeqJoined, ZenonT(60)
    <2> QED
        BY <2>2, <2>3
<1>2. T = Nat
    BY <1>1, CourseOfValues
<1> QED
    BY <1>2

LEMMA TextSeq == \A n \in Nat : IsSeq(Text(n))
<1> SUFFICES ASSUME NEW n \in Nat PROVE IsSeq(Text(n))
    OBVIOUS
<1>1. Text(n) \in Seq({120})
    BY DEF Text
<1> QED
    BY <1>1 DEF IsSeq

LEMMA SizedSeq ==
    ASSUME NEW s, IsSeq(s)
    PROVE  IsSeq(Sized(s))
<1>1. IsSeq(U16(Len(s)))
    BY SeqShort DEF U16
<1> QED
    BY <1>1, SeqJoined DEF Sized

LEMMA WithLengthSeq ==
    ASSUME NEW type, NEW body, IsSeq(body)
    PROVE  IsSeq(WithLength(type, body))
<1>1. Len(body) \in Nat
    BY SeqJoined
<1>2. IsSeq(Varint(Len(body))) /\ IsSeq(<<type>>)
    BY <1>1, VarintSeq, SeqShort
<1>3. IsSeq(<<type>> \o Varint(Len(body)))
    BY <1>2, SeqJoined
<1>4. IsSeq((<<type>> \o Varint(Len(body))) \o body)
    BY <1>3, SeqJoined
<1> QED
    BY <1>4 DEF WithLength

LEMMA PublishSeq ==
    ASSUME NEW t \in Nat, NEW n \in Nat, NEW q, NEW id, NEW r
    PROVE  IsSeq(MqttPublish(Text(t), Text(n), q, id, r))
<1> PICK tail : tail = IF q > 0 THEN U16(id) ELSE <<>>
    OBVIOUS
<1>1. IsSeq(Sized(Text(t))) /\ IsSeq(Text(n)) /\ IsSeq(tail)
    BY TextSeq, SizedSeq, SeqShort DEF U16
<1>2. IsSeq(Sized(Text(t)) \o tail)
    BY <1>1, SeqJoined
<1>3. IsSeq((Sized(Text(t)) \o tail) \o Text(n))
    BY <1>1, <1>2, SeqJoined
<1> QED
    BY <1>3, WithLengthSeq DEF MqttPublish

LEMMA ConnectSeq == IsSeq(ConnectPacket)
<1> PICK flags : flags = BitOr(BitOr(4, 8 * BitAnd(1, 3)), IF TRUE THEN 32 ELSE 0)
    OBVIOUS
<1> PICK a : a = Sized(Text(4))
    OBVIOUS
<1> PICK b : b = Sized(Text(26))
    OBVIOUS
<1> PICK c : c = Sized(Text(20))
    OBVIOUS
<1> PICK d : d = Sized(Text(7))
    OBVIOUS
<1>1. IsSeq(a) /\ IsSeq(b) /\ IsSeq(c) /\ IsSeq(d)
    BY TextSeq, SizedSeq
<1>2. IsSeq(<<4, flags>>) /\ IsSeq(U16(60))
    BY SeqShort DEF U16
<1>3. IsSeq(a \o <<4, flags>>)
    BY <1>1, <1>2, SeqJoined
<1>4. IsSeq((a \o <<4, flags>>) \o U16(60))
    BY <1>2, <1>3, SeqJoined
<1>5. IsSeq(((a \o <<4, flags>>) \o U16(60)) \o b)
    BY <1>1, <1>4, SeqJoined
<1>6. IsSeq((((a \o <<4, flags>>) \o U16(60)) \o b) \o c)
    BY <1>1, <1>5, SeqJoined
<1>7. IsSeq(((((a \o <<4, flags>>) \o U16(60)) \o b) \o c) \o d)
    BY <1>1, <1>6, SeqJoined
<1> QED
    BY <1>7, WithLengthSeq DEF ConnectPacket, MqttConnect

\* The packets that the script sends have a length, DISCONNECT that of two bytes.
LEMMA PacketLengths ==
    /\ DOMAIN PacketOf = Packets
    /\ \A p \in Packets : Len(PacketOf[p]) \in Nat
    /\ Len(PacketOf["disconnect"]) = 2
<1>1. DOMAIN PacketOf = Packets
    BY DEF PacketOf, Packets
<1>2. IsSeq(PacketOf["connect"])
    BY ConnectSeq DEF PacketOf
<1>3. /\ IsSeq(PacketOf["online"]) /\ IsSeq(PacketOf["temperature"])
      /\ IsSeq(PacketOf["vibration"]) /\ IsSeq(PacketOf["power"])
    BY PublishSeq, ZenonT(60) DEF PacketOf
<1>4. IsSeq(PacketOf["pubrel"])
    <2>1. IsSeq(<<98, 2>>) /\ IsSeq(U16(2))
        BY SeqShort, ZenonT(60) DEF U16
    <2> QED
        BY <2>1, SeqJoined DEF PacketOf, MqttPubrel
<1>5. IsSeq(PacketOf["disconnect"]) /\ Len(PacketOf["disconnect"]) = 2
    <2>1. PacketOf["disconnect"] = <<224, 0>>
        BY DEF PacketOf, MqttDisconnect
    <2> QED
        BY <2>1, SeqShort
<1>6. ASSUME NEW s, IsSeq(s) PROVE Len(s) \in Nat
    BY <1>6, SeqJoined
<1>7. \A p \in Packets : IsSeq(PacketOf[p])
    BY <1>2, <1>3, <1>4, <1>5 DEF Packets
<1> QED
    BY <1>1, <1>5, <1>6, <1>7

-----------------------------------------------------------------------------
(* The inductive invariant. *)

\* The steps of capture_mqtt and of capture_coap.
MqttSteps == {"dial", "connect", "connack", "online", "temperature", "puback", "vibration",
              "power", "pubrec", "pubrel", "pubcomp", "disconnect", "openMqtt"}
CoapSteps == {"get", "getAnswer", "manifest", "manifestAnswer", "put", "putAnswer",
              "closeCoap", "openCoap", "giveUp", "openSynthetic"}

\* The frames of the two captures.
Frame ==
    [from : {"client", "broker"}, syn : BOOLEAN, seq : Nat, ack : Nat]
      \union [from : {"client"}, packet : Packets, seq : Nat, ack : Nat]
      \union [from : {"broker"}, chunk : Seq(0..255), seq : Nat, ack : Nat]
CoapFrame == [from : {"client"}, request : Asked] \union [from : {"server"}, answer : Asked]

\* How many frames there are at most when a step begins.
Room(step) ==
    CASE step \in {"dial", "get"}           -> 0
      [] step = "getAnswer"                 -> 1
      [] step = "manifest"                  -> 2
      [] step \in {"connect", "manifestAnswer"} -> 3
      [] step \in {"connack", "put"}        -> 4
      [] step \in {"online", "putAnswer"}   -> 5
      [] step \in {"temperature", "closeCoap", "openCoap", "giveUp", "openSynthetic"} -> 6
      [] step = "puback"                    -> 7
      [] step = "vibration"                 -> 8
      [] step = "power"                     -> 9
      [] step = "pubrec"                    -> 10
      [] step = "pubrel"                    -> 11
      [] step = "pubcomp"                   -> 12
      [] step = "disconnect"                -> 13
      [] OTHER                              -> 14

\* The server of capture_coap is started after capture_mqtt; the frames are those of
\* the capture that is being made.
Recorded ==
    /\ frames \in Seq(Frame) \union Seq(CoapFrame) /\ Len(frames) <= Room(pc)
    /\ pc \in MqttSteps \union {"build"} => server = "none" /\ net = {}
    /\ server = "none" => frames \in Seq(Frame)
    /\ pc \in MqttSteps \ {"dial"} => frames # <<>>
    /\ pc \in CoapSteps => server # "none"
    /\ pc \in CoapSteps => frames \in Seq(CoapFrame)

\* Frame i continues the stream of its side, and acknowledges the other side's.
InStream(fs, i) ==
    LET sent     == 999 + BytesOf(fs, i - 1, "client")
        received == 4999 + BytesOf(fs, i - 1, "broker")
    IN  <<fs[i].seq, fs[i].ack>> =
            CASE i = 1                  -> <<sent, 0>>
              [] fs[i].from = "broker" -> <<received, sent>>
              [] OTHER                 -> <<sent, received>>

\* The two streams, and where they end.
Reassembles(fs, c, s) ==
    /\ \A i \in DOMAIN fs : InStream(fs, i)
    /\ fs # <<>> => /\ c = 999 + BytesOf(fs, Len(fs), "client")
                    /\ s = 4999 + BytesOf(fs, Len(fs), "broker")

Streams ==
    /\ server = "none" => Reassembles(frames, seqC, seqS)
    /\ pc = "dial" => seqC = 1000 /\ seqS = 5000

\* Before the broker has the publication, all it can have answered is CONNACK, and
\* the script has taken one byte of that, at least, when it publishes.
Unacknowledged ==
    "temperature" \notin taken =>
        /\ match # "YES"
        /\ pc \in {"dial", "connect"} => up = <<>> /\ down = <<>>
        /\ pc = "connack" =>
              Len(down) <= 4 /\ (up # <<>> => up = <<"connect">> /\ down = <<>>)
        /\ pc \in {"online", "temperature", "puback"} =>
              Len(down) <= 3 /\ \A i \in DOMAIN up : up[i] \in {"online", "temperature"}

\* Only a server that has turned the fan on answers PUT.
FanTurned == [kind |-> "answer", of |-> "put"] \in net \/ changed = "Changed" => fan = "ON"

\* mqtt_ok and coap_ok tell which files are written to their end.
Saved ==
    /\ \A f \in Files : ok[f] <=> file[f] \in {"new", "synthetic"}
    /\ pc \in MqttSteps => ~ok["mqtt"]
    /\ pc \in MqttSteps \union {"build"} \union CoapSteps => ~ok["coap"]

\* What has been recorded when a file of captured packets is opened.
Exchanged ==
    /\ pc = "openMqtt" => Last(frames) = PacketFrame("disconnect", seqC - 2, seqS)
    /\ pc \in {"get", "getAnswer"} => \A d \in net : d.of = "get"
    /\ pc \in {"manifest", "manifestAnswer", "put", "putAnswer", "closeCoap", "openCoap"} =>
          Len(frames) >= 2 /\ frames[2] = [from |-> "server", answer |-> "get"]
    /\ pc \in {"getAnswer", "giveUp", "openSynthetic"} =>
          frames = <<[from |-> "client", request |-> "get"]>>
    /\ pc \in {"putAnswer", "closeCoap", "openCoap"} =>
          \E i \in DOMAIN frames : frames[i] = [from |-> "client", request |-> "put"]

IInv ==
    /\ TypeOK /\ Recorded /\ Streams /\ Unacknowledged /\ FanTurned /\ Saved /\ Exchanged
    /\ SummaryIsTruthful

-----------------------------------------------------------------------------
(* The steps of the script.                                                   *)

LEMMA Names ==
    /\ DOMAIN Awaiting = Asked
    /\ Range(Awaiting) = {"getAnswer", "manifestAnswer", "putAnswer"}
    /\ DOMAIN Writing = {"openMqtt", "openCoap", "openSynthetic"}
<1>1. DOMAIN Awaiting = Asked /\ DOMAIN Writing = {"openMqtt", "openCoap", "openSynthetic"}
    BY DEF Awaiting, Asked, Writing
<1>2. Awaiting["get"] = "getAnswer" /\ Awaiting["manifest"] = "manifestAnswer"
      /\ Awaiting["put"] = "putAnswer"
    BY DEF Awaiting
<1>3. Range(Awaiting) = {Awaiting["get"], Awaiting["manifest"], Awaiting["put"]}
    BY <1>1 DEF Range, Asked
<1> QED
    BY <1>1, <1>2, <1>3

\* The values of pc.
Places == MqttSteps \union CoapSteps \union {"build", "summary", "done", "dead"}

LEMMA AllPlaces ==
    DOMAIN PacketOf \union Asked \union Range(Awaiting) \union DOMAIN Writing
        \union {"dial", "connack", "puback", "pubrec", "pubcomp", "build", "closeCoap",
                "giveUp", "summary", "done", "dead"} = Places
BY Names, PacketLengths DEF Places, MqttSteps, CoapSteps, Packets, Asked

\* What a step that sends a packet does.
Sending(p, next) ==
    /\ pc = p /\ link \in {"up", "closed"}
    /\ frames' = Append(frames, PacketFrame(p, seqC, seqS))
    /\ seqC' = seqC + Len(PacketOf[p]) /\ seqS' = seqS
    /\ up' \in {up, Append(up, p)} /\ link' \in {"none", "up", "closed", "reset"}
    /\ pc' = next

\* The seven packets, and the step that follows each.
After == [connect |-> "connack", online |-> "temperature", temperature |-> "puback",
          vibration |-> "power", power |-> "pubrec", pubrel |-> "pubcomp",
          disconnect |-> "openMqtt"]

Sends ==
    SendConnect \/ SendOnline \/ SendTemperature \/ SendVibration \/ SendPower \/ SendPubrel
        \/ SendDisconnect

LEMMA SendIs ==
    ASSUME Sends
    PROVE  /\ \E p \in Packets : Sending(p, After[p])
           /\ UNCHANGED <<down, splits, match, taken, coapVars, mainVars>>
<1>1. ASSUME NEW p, NEW next, Send(p, next)
      PROVE  /\ Sending(p, next)
             /\ UNCHANGED <<down, splits, match, taken, coapVars, mainVars>>
    BY <1>1 DEF Send, Sending, RecordPacket
<1>2. PICK p \in Packets : Send(p, After[p])
    BY DEF Sends, Packets, After, SendConnect, SendOnline, SendTemperature, SendVibration,
           SendPower, SendPubrel, SendDisconnect
<1> QED
    BY <1>1, <1>2

\* A sequence cut in two.
LEMMA Cut ==
    ASSUME NEW S, NEW s \in Seq(S), NEW n \in 0..Len(s)
    PROVE  /\ SubSeq(s, 1, n) \in Seq(S) /\ Len(SubSeq(s, 1, n)) = n
           /\ SubSeq(s, n + 1, Len(s)) \in Seq(S)
           /\ Len(SubSeq(s, n + 1, Len(s))) = Len(s) - n
<1>1. Len(s) \in Nat /\ n \in Nat /\ n <= Len(s)
    OBVIOUS
<1>2. (\A i \in 1..n : s[i] \in S) /\ \A i \in (n + 1)..Len(s) : s[i] \in S
    BY <1>1
<1> QED
    BY <1>1, <1>2, SubSeqProperties

\* What recv(8) returns: nothing once the broker has closed, or the beginning of what
\* there is.
LEMMA ChunkIs ==
    ASSUME TypeOK, NEW c \in Chunks, Chunk(c)
    PROVE  /\ c \in Seq(0..255) /\ down' \in Seq(0..255) /\ splits' \in 0..MaxSplits
           /\ link \in {"up", "closed"}
           /\ c # <<>> =>
                 down # <<>> /\ Len(c) \in 1..Len(down) /\ Len(down') = Len(down) - Len(c)
<1>1. /\ down \in Seq(0..255) /\ splits \in 0..MaxSplits
      /\ MaxSplits \in Nat /\ link \in {"up", "closed"}
    <2>1. link \in {"up", "closed"}
        BY DEF Chunk
    <2>2. MaxSplits \in Nat
        BY CapturesAssumption
    <2> QED
        BY <2>1, <2>2 DEF TypeOK
<1> PICK Byte : Byte = 0..255
    OBVIOUS
<1>a. down \in Seq(Byte) /\ Len(down) \in Nat
    BY <1>1
<1>2. CASE down = <<>>
    <2>1. c = <<>> /\ UNCHANGED <<down, splits>>
        BY <1>2 DEF Chunk
    <2> QED
        BY <1>1, <1>2, <2>1
<1>3. CASE down # <<>>
    <2> PICK most : most = Min({8, Len(down)})
        OBVIOUS
    <2>1. Len(down) > 0
        BY <1>a, <1>3, EmptySeq
    <2>2. most \in {8, Len(down)} /\ most <= Len(down)
        BY <1>a DEF Min
    <2>3. PICK n \in 1..most :
            /\ n < most => splits < MaxSplits
            /\ splits' = IF n < most THEN splits + 1 ELSE splits
            /\ c = SubSeq(down, 1, n)
            /\ down' = SubSeq(down, n + 1, Len(down))
        BY <1>3 DEF Chunk
    <2>4. n \in 1..Len(down)
        BY <1>a, <2>2, <2>3
    <2>5. n \in 0..Len(down)
        BY <1>a, <2>4
    <2>6. /\ SubSeq(down, 1, n) \in Seq(Byte) /\ Len(SubSeq(down, 1, n)) = n
          /\ SubSeq(down, n + 1, Len(down)) \in Seq(Byte)
          /\ Len(SubSeq(down, n + 1, Len(down))) = Len(down) - n
        BY <1>a, <2>5, Cut, SMTT(60)
    <2>7. splits' \in 0..MaxSplits
        BY <1>1, <2>3
    <2>8. c \in Seq(Byte) /\ Len(c) = n /\ down' \in Seq(Byte) /\ Len(down') = Len(down) - n
        BY <2>3, <2>6
    <2> QED
        BY <1>1, <1>3, <2>4, <2>7, <2>8
<1> QED
    BY <1>2, <1>3

\* What a step that receives does with the bytes it is given.
Receives(answer, next) ==
    /\ pc = answer
    /\ \E c \in Chunks :
          /\ Chunk(c)
          /\ \/ c = <<>> /\ UNCHANGED <<frames, seqC, seqS>>
             \/ c # <<>> /\ UNCHANGED <<frames, seqC, seqS>> /\ answer = "connack"
             \/ c # <<>> /\ RecordChunk(c) /\ (answer = "connack" => pc' = "online")
    /\ pc' \in next

Following == [connack |-> {"build", "online"}, puback |-> {"vibration", "dead"},
          pubrec |-> {"disconnect", "pubrel"}, pubcomp |-> {"disconnect"}]

\* The steps of capture_mqtt and of capture_coap that record nothing.
Waits ==
    DialFails \/ RecvTimesOut \/ SocketRaises \/ BuildFails \/ AnswerTimesOut \/ CloseCoap
        \/ Open \/ Write \/ Summary \/ Die \/ BrokerTakes \/ BrokerCloses \/ Serve \/ Lose
        \/ UNCHANGED vars

\* One step after another: where a step that records nothing leads.
LEMMA WaitsLead ==
    ASSUME pc \in Places, Waits
    PROVE  /\ UNCHANGED <<frames, seqC, seqS, match, changed>>
           /\ pc' \in Places
           /\ \/ pc' = pc
              \/ pc' \in {"dead", "done"}
              \/ pc = "dial" /\ pc' = "build"
              \/ pc \in {"pubrec", "pubcomp"} /\ pc' = "disconnect"
              \/ pc = "openMqtt" /\ pc' = "build"
              \/ pc = "getAnswer" /\ pc' = "giveUp"
              \/ pc = "manifestAnswer" /\ pc' = "put"
              \/ pc = "putAnswer" /\ pc' = "closeCoap"
              \/ pc = "giveUp" /\ pc' = "openSynthetic"
              \/ pc = "closeCoap" /\ pc' = "openCoap"
              \/ pc \in {"openCoap", "openSynthetic"} /\ pc' = "summary"
<1> USE DEF mqttVars, coapVars, mainVars
<1>0. {"dead", "done", "build", "disconnect", "summary"} \subseteq Places
    BY DEF Places, MqttSteps
<1>1. CASE DialFails \/ SocketRaises \/ BuildFails \/ Summary \/ Die
    BY <1>0, <1>1 DEF DialFails, SocketRaises, BuildFails, Summary, Die
<1>6. CASE RecvTimesOut
    BY <1>0, <1>6 DEF RecvTimesOut
<1>2. CASE AnswerTimesOut
    BY <1>2, Names DEF AnswerTimesOut, Places, CoapSteps
<1>3. CASE CloseCoap
    BY <1>3 DEF CloseCoap, Places, CoapSteps
<1>4. CASE Open \/ BrokerTakes \/ BrokerCloses \/ Serve \/ Lose \/ UNCHANGED vars
    BY <1>4 DEF Open, BrokerTakes, BrokerCloses, Serve, Lose, vars
<1>5. CASE Write
    <2>1. pc \in {"openMqtt", "openCoap", "openSynthetic"} /\ pc' = Writing[pc].then
          /\ UNCHANGED <<frames, mqttVars, coapVars>>
        BY <1>5, Names DEF Write
    <2>2. /\ Writing["openMqtt"].then = "build" /\ Writing["openCoap"].then = "summary"
          /\ Writing["openSynthetic"].then = "summary"
        BY DEF Writing
    <2> QED
        BY <1>0, <2>1, <2>2
<1> QED
    BY <1>1, <1>2, <1>3, <1>4, <1>5, <1>6 DEF Waits

LEMMA ServerStays ==
    ASSUME Waits
    PROVE  server' = server \/ (server' = "down" /\ pc \in CoapSteps)
<1>1. CASE CloseCoap
    BY <1>1 DEF CloseCoap, CoapSteps
<1>2. CASE ~CloseCoap
    BY <1>2 DEF Waits, DialFails, RecvTimesOut, SocketRaises, BuildFails, AnswerTimesOut, Open,
        Write, Summary, Die, BrokerTakes, BrokerCloses, Serve, Lose, vars, coapVars
<1> QED
    BY <1>1, <1>2

\* The steps that record an answer of the broker.
Hears == OnConnack \/ OnPuback \/ OnPubrec \/ OnPubcomp

LEMMA HearsIs ==
    ASSUME Hears
    PROVE  /\ \E a \in {"connack", "puback", "pubrec", "pubcomp"} : Receives(a, Following[a])
           /\ up' = up /\ link' \in {link, "none"}
           /\ UNCHANGED <<taken, coapVars, mainVars>>
<1>1. CASE OnConnack
    <2>1. Following["connack"] = {"build", "online"}
        BY DEF Following
    <2>2. Receives("connack", Following["connack"])
        BY <1>1, <2>1 DEF OnConnack, Receives
    <2> QED
        BY <1>1, <2>2 DEF OnConnack
<1>2. CASE OnPuback
    <2>1. Following["puback"] = {"vibration", "dead"}
        BY DEF Following
    <2>2. Receives("puback", Following["puback"])
        BY <1>2, <2>1 DEF OnPuback, Receives
    <2> QED
        BY <1>2, <2>2 DEF OnPuback
<1>3. CASE OnPubrec
    <2>1. Following["pubrec"] = {"disconnect", "pubrel"}
        BY DEF Following
    <2>2. Receives("pubrec", Following["pubrec"])
        BY <1>3, <2>1 DEF OnPubrec, OnAnswer, Receives
    <2> QED
        BY <1>3, <2>2 DEF OnPubrec, OnAnswer
<1>4. CASE OnPubcomp
    <2>1. Following["pubcomp"] = {"disconnect"}
        BY DEF Following
    <2>2. Receives("pubcomp", Following["pubcomp"])
        BY <1>4, <2>1 DEF OnPubcomp, OnAnswer, Receives
    <2> QED
        BY <1>4, <2>2 DEF OnPubcomp, OnAnswer
<1> QED
    BY <1>1, <1>2, <1>3, <1>4 DEF Hears

\* The steps of capture_coap that record.
Exchanges == SendRequest \/ OnGetAnswer \/ OnManifestAnswer \/ OnPutAnswer

CoapNext == [get |-> "getAnswer", manifest |-> "manifestAnswer", put |-> "putAnswer",
             getAnswer |-> "manifest", manifestAnswer |-> "put", putAnswer |-> "closeCoap"]

LEMMA ExchangesIs ==
    ASSUME Exchanges
    PROVE  /\ pc \in DOMAIN CoapNext /\ pc' = CoapNext[pc]
           /\ \E f \in CoapFrame : frames' = Append(frames, f)
           /\ UNCHANGED <<mqttVars, server, fan, mainVars>>
<1>1. /\ DOMAIN CoapNext = {"get", "manifest", "put", "getAnswer", "manifestAnswer", "putAnswer"}
      /\ CoapNext["get"] = "getAnswer" /\ CoapNext["manifest"] = "manifestAnswer"
      /\ CoapNext["put"] = "putAnswer" /\ CoapNext["getAnswer"] = "manifest"
      /\ CoapNext["manifestAnswer"] = "put" /\ CoapNext["putAnswer"] = "closeCoap"
    BY DEF CoapNext
<1>2. CASE SendRequest
    <2>1. pc \in {"get", "manifest", "put"} /\ pc' = Awaiting[pc]
          /\ frames' = Append(frames, [from |-> "client", request |-> pc])
          /\ UNCHANGED <<mqttVars, server, fan, mainVars>>
        BY <1>2 DEF SendRequest, Asked
    <2>2. [from |-> "client", request |-> pc] \in CoapFrame
        BY <2>1 DEF CoapFrame, Asked
    <2>3. pc' = CoapNext[pc]
        BY <1>1, <2>1 DEF Awaiting
    <2> QED
        BY <1>1, <2>1, <2>2, <2>3
<1>3. ASSUME NEW a \in Asked PROVE [from |-> "server", answer |-> a] \in CoapFrame
    BY DEF CoapFrame
<1>4. CASE OnGetAnswer
    BY <1>1, <1>3, <1>4 DEF OnGetAnswer, RecordAnswer
<1>5. CASE OnManifestAnswer
    BY <1>1, <1>3, <1>5 DEF OnManifestAnswer, RecordAnswer
<1>6. CASE OnPutAnswer
    BY <1>1, <1>3, <1>6 DEF OnPutAnswer, RecordAnswer
<1> QED
    BY <1>2, <1>4, <1>5, <1>6 DEF Exchanges

\* Every step is one of these, or the first of an exchange.
LEMMA AllSteps ==
    ASSUME [Next]_vars
    PROVE  Dial \/ Build \/ Sends \/ Hears \/ Exchanges \/ Waits
BY DEF Next, Script, Sends, Hears, Exchanges, Waits

-----------------------------------------------------------------------------
(* The frames that are recorded.                                              *)

LEMMA Appended ==
    ASSUME NEW S, NEW s \in Seq(S), NEW f \in S
    PROVE  /\ Append(s, f) \in Seq(S) /\ Append(s, f) # <<>>
           /\ Len(s) \in Nat /\ Len(Append(s, f)) = Len(s) + 1
           /\ DOMAIN s = 1..Len(s) /\ DOMAIN Append(s, f) = 1..(Len(s) + 1)
           /\ \A i \in 1..Len(s) : Append(s, f)[i] = s[i]
           /\ Append(s, f)[Len(s) + 1] = f
<1>1. Append(s, f) # <<>>
    BY AppendProperties, EmptySeq
<1> QED
    BY <1>1, AppendProperties

\* The room at each step, and what follows it.
LEMMA Rooms ==
    /\ \A p \in Packets : p \in MqttSteps /\ After[p] \in MqttSteps \ {"dial"}
                             /\ Room(p) + 1 <= Room(After[p])
    /\ \A a \in {"connack", "puback", "pubrec", "pubcomp"} :
          /\ a \in MqttSteps \ {"dial"} /\ Following[a] \subseteq MqttSteps \union {"build", "dead"}
          /\ \A next \in Following[a] : Room(a) + 1 <= Room(next) /\ next # "dial"
    /\ \A a \in DOMAIN CoapNext :
          a \in CoapSteps /\ CoapNext[a] \in CoapSteps /\ Room(a) + 1 <= Room(CoapNext[a])
<1>1. ASSUME NEW p \in Packets
      PROVE  p \in MqttSteps /\ After[p] \in MqttSteps \ {"dial"} /\ Room(p) + 1 <= Room(After[p])
    BY DEF Packets, MqttSteps, After, Room
<1>2. ASSUME NEW a \in {"connack", "puback", "pubrec", "pubcomp"}
      PROVE  /\ a \in MqttSteps \ {"dial"}
             /\ Following[a] \subseteq MqttSteps \union {"build", "dead"}
             /\ \A next \in Following[a] : Room(a) + 1 <= Room(next) /\ next # "dial"
    BY DEF MqttSteps, Following, Room
<1>3. ASSUME NEW a \in DOMAIN CoapNext
      PROVE  a \in CoapSteps /\ CoapNext[a] \in CoapSteps /\ Room(a) + 1 <= Room(CoapNext[a])
    BY DEF CoapSteps, CoapNext, Room
<1> QED
    BY <1>1, <1>2, <1>3

LEMMA RoomIs ==
    ASSUME NEW step
    PROVE  Room(step) \in Nat /\ Room(step) <= 14
BY DEF Room

\* The frames of the handshake.
LEMMA HandshakeIs ==
    \E a, b, c \in Frame :
        /\ Handshake = <<a, b, c>> /\ a.from = "client" /\ b.from = "broker" /\ c.from = "client"
        /\ SizeOf(a) = 1 /\ SizeOf(b) = 1 /\ SizeOf(c) = 0
        /\ <<a.seq, a.ack>> = <<999, 0>> /\ <<b.seq, b.ack>> = <<4999, 1000>>
        /\ <<c.seq, c.ack>> = <<1000, 5000>>
<1>1. ASSUME NEW side \in {"client", "broker"}, NEW s \in Nat, NEW a \in Nat
      PROVE  /\ \E f \in Frame :
                    /\ f = [from |-> side, syn |-> TRUE, seq |-> s, ack |-> a]
                    /\ f.from = side /\ f.seq = s /\ f.ack = a /\ SizeOf(f) = 1
             /\ \E f \in Frame :
                    /\ f = [from |-> side, syn |-> FALSE, seq |-> s, ack |-> a]
                    /\ f.from = side /\ f.seq = s /\ f.ack = a /\ SizeOf(f) = 0
    <2> PICK f : f = [from |-> side, syn |-> TRUE, seq |-> s, ack |-> a]
        OBVIOUS
    <2> PICK g : g = [from |-> side, syn |-> FALSE, seq |-> s, ack |-> a]
        OBVIOUS
    <2>1. f \in Frame /\ f.from = side /\ f.seq = s /\ f.ack = a
        BY DEF Frame
    <2>2. g \in Frame /\ g.from = side /\ g.seq = s /\ g.ack = a
        BY DEF Frame
    <2>3. SizeOf(f) = 1 /\ SizeOf(g) = 0
        BY DEF SizeOf
    <2> QED
        BY <2>1, <2>2, <2>3
<1>2. PICK a \in Frame :
        /\ a = [from |-> "client", syn |-> TRUE, seq |-> 999, ack |-> 0]
        /\ a.from = "client" /\ a.seq = 999 /\ a.ack = 0 /\ SizeOf(a) = 1
    BY <1>1
<1>3. PICK b \in Frame :
        /\ b = [from |-> "broker", syn |-> TRUE, seq |-> 4999, ack |-> 1000]
        /\ b.from = "broker" /\ b.seq = 4999 /\ b.ack = 1000 /\ SizeOf(b) = 1
    BY <1>1
<1>4. PICK c \in Frame :
        /\ c = [from |-> "client", syn |-> FALSE, seq |-> 1000, ack |-> 5000]
        /\ c.from = "client" /\ c.seq = 1000 /\ c.ack = 5000 /\ SizeOf(c) = 0
    BY <1>1
<1>5. Handshake = <<a, b, c>>
    BY <1>2, <1>3, <1>4 DEF Handshake, HandshakeFrame
<1> QED
    BY <1>2, <1>3, <1>4, <1>5

LEMMA Triple ==
    ASSUME NEW S, NEW a \in S, NEW b \in S, NEW c \in S
    PROVE  /\ <<a, b, c>> \in Seq(S) /\ Len(<<a, b, c>>) = 3 /\ <<a, b, c>> # <<>>
           /\ DOMAIN <<a, b, c>> = 1..3
           /\ <<a, b, c>>[1] = a /\ <<a, b, c>>[2] = b /\ <<a, b, c>>[3] = c
OBVIOUS

LEMMA PlacesApart ==
    /\ MqttSteps \intersect CoapSteps = {}
    /\ {"build", "summary", "done", "dead"} \intersect (MqttSteps \union CoapSteps) = {}
BY DEF MqttSteps, CoapSteps

\* A frame more, at a step of capture_mqtt.
LEMMA MqttRecorded ==
    ASSUME Recorded, pc \in MqttSteps, NEW f \in Frame, frames' = Append(frames, f),
           Room(pc) + 1 <= Room(pc'), pc' \notin CoapSteps, UNCHANGED <<server, net>>
    PROVE  Recorded'
<1>1. frames \in Seq(Frame) /\ server = "none" /\ net = {} /\ Len(frames) <= Room(pc)
    BY DEF Recorded
<1>2. frames' \in Seq(Frame) /\ Len(frames') = Len(frames) + 1 /\ frames' # <<>>
      /\ Len(frames) \in Nat
    BY <1>1, Appended
<1>3. Room(pc) \in Nat /\ Room(pc') \in Nat
    BY RoomIs
<1>4. Len(frames') <= Room(pc')
    BY <1>1, <1>2, <1>3
<1> QED
    BY <1>1, <1>2, <1>4 DEF Recorded

\* No frame more.
LEMMA NoneRecorded ==
    ASSUME Recorded, UNCHANGED <<frames, server, net>>, Room(pc) <= Room(pc'),
           pc' \in MqttSteps \union {"build"} => pc \in MqttSteps \union {"build"},
           pc' \in MqttSteps \ {"dial"} => pc \in MqttSteps \ {"dial"},
           pc' \in CoapSteps => pc \in CoapSteps
    PROVE  Recorded'
<1>1. Len(frames) \in Nat /\ Room(pc) \in Nat /\ Room(pc') \in Nat /\ Len(frames) <= Room(pc)
    BY RoomIs DEF Recorded
<1>2. Len(frames) <= Room(pc')
    BY <1>1
<1> QED
    BY <1>2 DEF Recorded

LEMMA RecordedStep == TypeOK /\ Recorded /\ [Next]_vars => Recorded'
<1> SUFFICES ASSUME TypeOK, Recorded, [Next]_vars PROVE Recorded'
    OBVIOUS
<1>0. pc \in Places /\ seqC \in Nat /\ seqS \in Nat
    BY AllPlaces DEF TypeOK
<1>1. CASE Dial
    <2>1. pc' = "connect" /\ frames' = Handshake /\ pc = "dial" /\ UNCHANGED <<server, net>>
        BY <1>1 DEF Dial, coapVars
    <2>2. PICK a, b, c \in Frame : Handshake = <<a, b, c>>
        BY HandshakeIs
    <2>3. frames' \in Seq(Frame) /\ Len(frames') = 3 /\ frames' # <<>>
        BY <2>1, <2>2, Triple
    <2>4. Room("connect") = 3
        BY DEF Room
    <2>5. server = "none" /\ net = {}
        BY <2>1 DEF Recorded, MqttSteps
    <2> QED
        BY <2>1, <2>3, <2>4, <2>5 DEF Recorded, CoapSteps
<1>2. CASE Build
    <2>1. pc' = "get" /\ frames' = <<>> /\ server' = "up"
        BY <1>2 DEF Build
    <2>2. <<>> \in Seq(CoapFrame) /\ Len(<<>>) = 0 /\ Room("get") = 0
        BY EmptySeq DEF Room
    <2> QED
        BY <2>1, <2>2 DEF Recorded, MqttSteps
<1>3. CASE Sends
    <2>1. PICK p \in Packets : Sending(p, After[p])
        BY <1>3, SendIs
    <2>2. UNCHANGED <<server, net>>
        BY <1>3, SendIs DEF coapVars
    <2>3. pc = p /\ pc' = After[p] /\ frames' = Append(frames, PacketFrame(p, seqC, seqS))
        BY <2>1 DEF Sending
    <2>4. PacketFrame(p, seqC, seqS) \in Frame
        BY <1>0 DEF PacketFrame, Frame
    <2>5. pc \in MqttSteps /\ Room(pc) + 1 <= Room(pc') /\ pc' \notin CoapSteps
        BY <2>3, Rooms, PlacesApart
    <2> QED
        BY <2>2, <2>3, <2>4, <2>5, MqttRecorded
<1>4. CASE Hears
    <2>1. PICK a \in {"connack", "puback", "pubrec", "pubcomp"} : Receives(a, Following[a])
        BY <1>4, HearsIs
    <2>2. UNCHANGED <<server, net>>
        BY <1>4, HearsIs DEF coapVars
    <2>3. pc = a /\ pc' \in Following[a]
        BY <2>1 DEF Receives
    <2>4. /\ pc \in MqttSteps \ {"dial"} /\ pc' \in (MqttSteps \union {"build", "dead"}) \ {"dial"}
          /\ Room(pc) + 1 <= Room(pc')
        BY <2>3, Rooms
    <2>5. pc' \notin CoapSteps
        BY <2>4, PlacesApart
    <2>6. PICK c \in Chunks : Chunk(c) /\ (UNCHANGED frames \/ RecordChunk(c))
        BY <2>1 DEF Receives
    <2>7. CASE RecordChunk(c)
        <3>1. c \in Seq(0..255)
            BY <2>6, ChunkIs
        <3>2. frames' = Append(frames, ChunkFrame(c, seqS, seqC))
            BY <2>7 DEF RecordChunk
        <3>3. ChunkFrame(c, seqS, seqC) \in Frame
            BY <1>0, <3>1 DEF ChunkFrame, Frame
        <3> QED
            BY <2>2, <2>4, <2>5, <3>2, <3>3, MqttRecorded
    <2>8. CASE UNCHANGED frames
        <3>1. Room(pc) <= Room(pc')
            BY <2>4, RoomIs
        <3> QED
            BY <2>2, <2>4, <2>5, <2>8, <3>1, NoneRecorded
    <2> QED
        BY <2>6, <2>7, <2>8
<1>5. CASE Exchanges
    <2>1. /\ pc \in DOMAIN CoapNext /\ pc' = CoapNext[pc] /\ server' = server
          /\ \E f \in CoapFrame : frames' = Append(frames, f)
        BY <1>5, ExchangesIs
    <2>2. PICK f \in CoapFrame : frames' = Append(frames, f)
        BY <2>1
    <2>3. pc \in CoapSteps /\ pc' \in CoapSteps /\ Room(pc) + 1 <= Room(pc')
        BY <2>1, Rooms
    <2>4. frames \in Seq(CoapFrame) /\ server # "none" /\ Len(frames) <= Room(pc)
        BY <2>3 DEF Recorded
    <2>5. frames' \in Seq(CoapFrame) /\ Len(frames') = Len(frames) + 1 /\ Len(frames) \in Nat
        BY <2>2, <2>4, Appended
    <2>6. Len(frames') <= Room(pc')
        BY <2>3, <2>4, <2>5, RoomIs
    <2>7. pc' \notin MqttSteps \union {"build"}
        BY <2>3, PlacesApart
    <2> QED
        BY <2>1, <2>3, <2>4, <2>5, <2>6, <2>7 DEF Recorded
<1>6. CASE Waits
    <2>1. UNCHANGED frames
        BY <1>0, <1>6, WaitsLead
    <2>2. /\ Room(pc) <= Room(pc')
          /\ pc' \in MqttSteps \union {"build"} => pc \in MqttSteps \union {"build"}
          /\ pc' \in MqttSteps \ {"dial"} => pc \in MqttSteps \ {"dial"}
          /\ pc' \in CoapSteps => pc \in CoapSteps
        <3>1. CASE pc' = pc
            BY <3>1, RoomIs
        <3>2. CASE pc' \in {"dead", "done"}
            <4>1. Room(pc') = 14
                BY <3>2 DEF Room
            <4> QED
                BY <3>2, <4>1, RoomIs, PlacesApart
        <3> QED
            BY <1>0, <1>6, <3>1, <3>2, WaitsLead DEF Room, MqttSteps, CoapSteps
    <2>3. CASE UNCHANGED <<server, net>>
        BY <2>1, <2>2, <2>3, NoneRecorded
    <2>5. server' = server \/ (server' = "down" /\ pc \in CoapSteps)
        BY <1>6, ServerStays
    <2>4. CASE ~UNCHANGED <<server, net>>
        <3>1. server # "none" \/ net # {} \/ pc \in CoapSteps
            BY <1>6, <2>4 DEF Waits, DialFails, RecvTimesOut, SocketRaises, BuildFails,
                AnswerTimesOut, CloseCoap, Open, Write, Summary, Die, BrokerTakes, BrokerCloses,
                Serve, Lose, vars, coapVars, CoapSteps
        <3>2. pc \notin MqttSteps \union {"build"}
            BY <3>1, PlacesApart DEF Recorded
        <3>3. server' = server \/ (server' = "down" /\ pc \in CoapSteps)
            BY <2>5
        <3>4. Len(frames) <= Room(pc')
            <4>1. Len(frames) <= Room(pc) /\ Len(frames) \in Nat
                BY DEF Recorded
            <4> QED
                BY <2>2, <4>1, RoomIs
        <3> QED
            BY <2>1, <2>2, <3>2, <3>3, <3>4 DEF Recorded
    <2> QED
        BY <2>3, <2>4
<1> QED
    BY <1>1, <1>2, <1>3, <1>4, <1>5, <1>6, AllSteps

-----------------------------------------------------------------------------
(* The streams that the frames make.                                          *)

LEMMA FrameShares ==
    ASSUME NEW side, NEW f \in Frame
    PROVE  SizeOf(f) \in Nat /\ Share(f, side) \in Nat
<1>1. SizeOf(f) \in Nat
    <2>1. CASE f \in [from : {"client", "broker"}, syn : BOOLEAN, seq : Nat, ack : Nat]
        <3>1. "syn" \in DOMAIN f
            BY <2>1
        <3> QED
            BY <3>1 DEF SizeOf
    <2>2. CASE f \in [from : {"client"}, packet : Packets, seq : Nat, ack : Nat]
        <3>1. DOMAIN f = {"from", "packet", "seq", "ack"}
            BY <2>2
        <3>2. f.packet \in Packets
            BY <2>2
        <3>3. SizeOf(f) = Len(PacketOf[f.packet])
            BY <3>1 DEF SizeOf
        <3> QED
            BY <3>2, <3>3, PacketLengths
    <2>3. CASE f \in [from : {"broker"}, chunk : Seq(0..255), seq : Nat, ack : Nat]
        <3>1. /\ "syn" \notin DOMAIN f /\ "packet" \notin DOMAIN f /\ "chunk" \in DOMAIN f
              /\ f.chunk \in Seq(0..255)
            BY <2>3
        <3>2. SizeOf(f) = Len(f.chunk)
            BY <3>1 DEF SizeOf
        <3> QED
            BY <3>1, <3>2
    <2> QED
        BY <2>1, <2>2, <2>3 DEF Frame
<1> QED
    BY <1>1 DEF Share

LEMMA AllShares ==
    ASSUME NEW side, NEW fs \in Seq(Frame), NEW n \in Nat, n <= Len(fs)
    PROVE  Shares(fs, n, side) \in [1..n -> Nat]
<1>1. ASSUME NEW k \in 1..n PROVE Share(fs[k], side) \in Nat
    <2>1. fs[k] \in Frame
        OBVIOUS
    <2> QED
        BY <2>1, FrameShares
<1> QED
    BY <1>1 DEF Shares

\* One frame more: what the frames before carry is unchanged, and its share is added.
LEMMA BytesAppended ==
    ASSUME NEW fs \in Seq(Frame), NEW f \in Frame, NEW side
    PROVE  /\ \A n \in 0..Len(fs) : BytesOf(Append(fs, f), n, side) = BytesOf(fs, n, side)
           /\ BytesOf(fs, Len(fs), side) \in Nat
           /\ BytesOf(Append(fs, f), Len(fs) + 1, side)
                = BytesOf(fs, Len(fs), side) + Share(f, side)
<1> PICK gs \in Seq(Frame) : gs = Append(fs, f)
    BY Appended
<1> PICK len \in Nat : len = Len(fs)
    OBVIOUS
<1>1. /\ Len(gs) = len + 1 /\ gs[len + 1] = f
      /\ \A i \in 1..len : gs[i] = fs[i]
    BY Appended
<1>2. ASSUME NEW n \in 0..len PROVE BytesOf(gs, n, side) = BytesOf(fs, n, side)
    <2>1. n \in Nat /\ n <= Len(fs) /\ Alike(n, gs, fs)
        BY <1>1, <1>2 DEF Alike
    <2>2. Shares(fs, n, side) \in [1..n -> Nat]
        BY <2>1, AllShares
    <2> QED
        BY <2>1, <2>2, BytesSame
<1>3. \A k \in 1..(len + 1) : Share(gs[k], side) \in Nat
    BY <1>1, FrameShares
<1>4. /\ BytesOf(gs, len, side) \in Nat
      /\ BytesOf(gs, len + 1, side) = BytesOf(gs, len, side) + Share(gs[len + 1], side)
    BY <1>3, BytesNext
<1>5. BytesOf(gs, len, side) = BytesOf(fs, len, side)
    BY <1>2
<1> QED
    BY <1>1, <1>2, <1>4, <1>5

\* A frame with the script's numbers continues the streams.
LEMMA Continued ==
    ASSUME NEW fs \in Seq(Frame), fs # <<>>, NEW f \in Frame, NEW c, NEW s, NEW c2, NEW s2,
           Reassembles(fs, c, s),
           \/ /\ f.from = "client" /\ f.seq = c /\ f.ack = s
              /\ c2 = c + SizeOf(f) /\ s2 = s
           \/ /\ f.from = "broker" /\ f.seq = s /\ f.ack = c
              /\ c2 = c /\ s2 = s + SizeOf(f)
    PROVE  Reassembles(Append(fs, f), c2, s2)
<1> PICK gs \in Seq(Frame) : gs = Append(fs, f)
    BY Appended
<1> PICK len \in Nat : len = Len(fs)
    OBVIOUS
<1>1. /\ Len(gs) = len + 1 /\ gs[len + 1] = f /\ gs # <<>>
      /\ DOMAIN fs = 1..len /\ DOMAIN gs = 1..(len + 1)
      /\ \A i \in 1..len : gs[i] = fs[i]
    BY Appended
<1>2. len >= 1
    BY EmptySeq
<1>3. ASSUME NEW n \in 0..len
      PROVE  /\ BytesOf(gs, n, "client") = BytesOf(fs, n, "client")
             /\ BytesOf(gs, n, "broker") = BytesOf(fs, n, "broker")
    BY BytesAppended
<1>4. /\ c = 999 + BytesOf(fs, len, "client") /\ s = 4999 + BytesOf(fs, len, "broker")
      /\ \A i \in 1..len : InStream(fs, i)
    BY <1>1 DEF Reassembles
<1>5. ASSUME NEW i \in 1..len PROVE InStream(gs, i)
    <2>1. InStream(fs, i) /\ gs[i] = fs[i]
        BY <1>1, <1>4
    <2>2. i - 1 \in 0..len
        OBVIOUS
    <2>3. /\ BytesOf(gs, i - 1, "client") = BytesOf(fs, i - 1, "client")
          /\ BytesOf(gs, i - 1, "broker") = BytesOf(fs, i - 1, "broker")
        BY <1>3, <2>2
    <2> QED
        BY <2>1, <2>3 DEF InStream
<1>6. InStream(gs, len + 1)
    <2>1. (len + 1) - 1 = len /\ len + 1 # 1 /\ len \in 0..len
        BY <1>2
    <2>2. /\ BytesOf(gs, len, "client") = BytesOf(fs, len, "client")
          /\ BytesOf(gs, len, "broker") = BytesOf(fs, len, "broker")
        BY <1>3, <2>1
    <2> QED
        BY <1>1, <1>4, <2>1, <2>2 DEF InStream
<1>7. /\ BytesOf(fs, len, "client") \in Nat /\ BytesOf(fs, len, "broker") \in Nat
      /\ BytesOf(gs, len + 1, "client") = BytesOf(fs, len, "client") + Share(f, "client")
      /\ BytesOf(gs, len + 1, "broker") = BytesOf(fs, len, "broker") + Share(f, "broker")
    BY BytesAppended
<1>8. SizeOf(f) \in Nat
    BY FrameShares
<1>9. c2 = 999 + BytesOf(gs, len + 1, "client") /\ s2 = 4999 + BytesOf(gs, len + 1, "broker")
    <2>1. CASE f.from = "client"
        <3>1. Share(f, "client") = SizeOf(f) /\ Share(f, "broker") = 0
            BY <2>1 DEF Share
        <3> QED
            BY <1>4, <1>7, <1>8, <2>1, <3>1
    <2>2. CASE f.from = "broker"
        <3>1. Share(f, "broker") = SizeOf(f) /\ Share(f, "client") = 0
            BY <2>2 DEF Share
        <3> QED
            BY <1>4, <1>7, <1>8, <2>2, <3>1
    <2> QED
        BY <2>1, <2>2
<1>10. \A i \in DOMAIN gs : InStream(gs, i)
    <2>1. \A i \in 1..(len + 1) : i \in 1..len \/ i = len + 1
        OBVIOUS
    <2> QED
        BY <1>1, <1>5, <1>6, <2>1
<1> QED
    BY <1>1, <1>9, <1>10 DEF Reassembles

\* The handshake that the script makes up opens both streams.
LEMMA Opened == Reassembles(Handshake, 1000, 5000)
<1>1. PICK a, b, c \in Frame :
        /\ Handshake = <<a, b, c>> /\ a.from = "client" /\ b.from = "broker" /\ c.from = "client"
        /\ SizeOf(a) = 1 /\ SizeOf(b) = 1 /\ SizeOf(c) = 0
        /\ <<a.seq, a.ack>> = <<999, 0>> /\ <<b.seq, b.ack>> = <<4999, 1000>>
        /\ <<c.seq, c.ack>> = <<1000, 5000>>
    BY HandshakeIs
<1> PICK h : h = Handshake
    OBVIOUS
<1>2. /\ h \in Seq(Frame) /\ Len(h) = 3 /\ h # <<>> /\ DOMAIN h = 1..3
      /\ h[1] = a /\ h[2] = b /\ h[3] = c
    BY <1>1, Triple
<1>3. ASSUME NEW side \in {"client", "broker"}
      PROVE  /\ BytesOf(h, 0, side) = 0
             /\ BytesOf(h, 1, side) = Share(a, side)
             /\ BytesOf(h, 2, side) = Share(a, side) + Share(b, side)
             /\ BytesOf(h, 3, side) = (Share(a, side) + Share(b, side)) + Share(c, side)
    <2>1. Share(h[1], side) \in Nat /\ Share(h[2], side) \in Nat /\ Share(h[3], side) \in Nat
        BY <1>2, FrameShares
    <2>2. BytesOf(h, 0 + 1, side) = BytesOf(h, 0, side) + Share(h[0 + 1], side)
        <3>1. \A k \in 1..(0 + 1) : Share(h[k], side) \in Nat
            BY <2>1
        <3> QED
            BY <3>1, BytesNext
    <2>3. BytesOf(h, 1 + 1, side) = BytesOf(h, 1, side) + Share(h[1 + 1], side)
        <3>1. \A k \in 1..(1 + 1) : Share(h[k], side) \in Nat
            BY <2>1
        <3> QED
            BY <3>1, BytesNext
    <2>4. BytesOf(h, 2 + 1, side) = BytesOf(h, 2, side) + Share(h[2 + 1], side)
        <3>1. \A k \in 1..(2 + 1) : Share(h[k], side) \in Nat
            BY <2>1
        <3> QED
            BY <3>1, BytesNext
    <2>5. BytesOf(h, 0, side) = 0
        BY BytesStart
    <2>6. 0 + 1 = 1 /\ 1 + 1 = 2 /\ 2 + 1 = 3
        OBVIOUS
    <2> QED
        BY <1>2, <2>1, <2>2, <2>3, <2>4, <2>5, <2>6
<1>4. /\ Share(a, "client") = 1 /\ Share(b, "client") = 0 /\ Share(c, "client") = 0
      /\ Share(a, "broker") = 0 /\ Share(b, "broker") = 1 /\ Share(c, "broker") = 0
    BY <1>1 DEF Share
<1>5. /\ BytesOf(h, 0, "client") = 0 /\ BytesOf(h, 1, "client") = 1
      /\ BytesOf(h, 2, "client") = 1 /\ BytesOf(h, 3, "client") = 1
      /\ BytesOf(h, 0, "broker") = 0 /\ BytesOf(h, 1, "broker") = 0
      /\ BytesOf(h, 2, "broker") = 1 /\ BytesOf(h, 3, "broker") = 1
    BY <1>3, <1>4
<1>6. InStream(h, 1) /\ InStream(h, 2) /\ InStream(h, 3)
    <2>1. 1 - 1 = 0 /\ 2 - 1 = 1 /\ 3 - 1 = 2
        OBVIOUS
    <2>2. InStream(h, 1)
        BY <1>1, <1>2, <1>5, <2>1 DEF InStream
    <2>3. InStream(h, 2)
        BY <1>1, <1>2, <1>5, <2>1 DEF InStream
    <2>4. InStream(h, 3)
        BY <1>1, <1>2, <1>5, <2>1 DEF InStream
    <2> QED
        BY <2>2, <2>3, <2>4
<1>7. \A i \in DOMAIN h : InStream(h, i)
    <2>1. \A i \in 1..3 : i = 1 \/ i = 2 \/ i = 3
        OBVIOUS
    <2> QED
        BY <1>2, <1>6, <2>1
<1> QED
    BY <1>2, <1>5, <1>7 DEF Reassembles

LEMMA StreamsStep == TypeOK /\ Recorded /\ Streams /\ [Next]_vars => Streams'
<1> SUFFICES ASSUME TypeOK, Recorded, Streams, [Next]_vars PROVE Streams'
    OBVIOUS
<1>0. pc \in Places /\ seqC \in Nat /\ seqS \in Nat
    BY AllPlaces DEF TypeOK
<1>1. CASE Dial
    <2>1. /\ pc = "dial" /\ pc' = "connect" /\ frames' = Handshake
          /\ seqC' = seqC /\ seqS' = seqS
        BY <1>1 DEF Dial
    <2>2. seqC = 1000 /\ seqS = 5000
        BY <2>1 DEF Streams
    <2> QED
        BY <2>1, <2>2, Opened DEF Streams
<1>2. CASE Build
    BY <1>2 DEF Build, Streams
<1> PICK fs : fs = frames
    OBVIOUS
<1>a. ASSUME pc \in MqttSteps \ {"dial"}
      PROVE  fs \in Seq(Frame) /\ fs # <<>> /\ Reassembles(fs, seqC, seqS)
    BY <1>a DEF Recorded, Streams
<1>3. CASE Sends
    <2>1. PICK p \in Packets : Sending(p, After[p])
        BY <1>3, SendIs
    <2>2. /\ pc = p /\ pc' = After[p] /\ frames' = Append(fs, PacketFrame(p, seqC, seqS))
          /\ seqC' = seqC + Len(PacketOf[p]) /\ seqS' = seqS
        BY <2>1 DEF Sending
    <2> PICK f : f = [from |-> "client", packet |-> p, seq |-> seqC, ack |-> seqS]
        OBVIOUS
    <2>3. f \in Frame /\ f.from = "client" /\ f.seq = seqC /\ f.ack = seqS
        BY <1>0 DEF Frame
    <2>4. SizeOf(f) = Len(PacketOf[p])
        BY DEF SizeOf
    <2>5. pc \in MqttSteps \ {"dial"} /\ pc' # "dial"
        BY <2>2, Rooms DEF Packets
    <2>6. f = PacketFrame(p, seqC, seqS)
        BY DEF PacketFrame
    <2>7. Reassembles(Append(fs, f), seqC', seqS')
        BY <1>a, <2>2, <2>3, <2>4, <2>5, Continued
    <2> QED
        BY <2>2, <2>5, <2>6, <2>7 DEF Streams
<1>4. CASE Hears
    <2>1. PICK a \in {"connack", "puback", "pubrec", "pubcomp"} : Receives(a, Following[a])
        BY <1>4, HearsIs
    <2>2. pc \in MqttSteps \ {"dial"} /\ pc' # "dial"
        BY <2>1, Rooms DEF Receives
    <2>3. PICK c \in Chunks : Chunk(c) /\ (UNCHANGED <<frames, seqC, seqS>> \/ RecordChunk(c))
        BY <2>1 DEF Receives
    <2>4. CASE UNCHANGED <<frames, seqC, seqS>>
        BY <1>a, <2>2, <2>4 DEF Streams
    <2>5. CASE RecordChunk(c)
        <3> PICK f : f = [from |-> "broker", chunk |-> c, seq |-> seqS, ack |-> seqC]
            OBVIOUS
        <3>1. /\ frames' = Append(fs, f) /\ seqS' = seqS + Len(c) /\ seqC' = seqC
            BY <2>5 DEF RecordChunk, ChunkFrame
        <3>2. c \in Seq(0..255)
            BY <2>3, ChunkIs
        <3>3. f \in Frame /\ f.from = "broker" /\ f.seq = seqS /\ f.ack = seqC
            BY <1>0, <3>2 DEF Frame
        <3>4. SizeOf(f) = Len(c)
            BY DEF SizeOf
        <3>5. Reassembles(Append(fs, f), seqC', seqS')
            BY <1>a, <2>2, <3>1, <3>3, <3>4, Continued
        <3> QED
            BY <2>2, <3>1, <3>5 DEF Streams
    <2> QED
        BY <2>3, <2>4, <2>5
<1>5. CASE Exchanges
    <2>1. pc \in DOMAIN CoapNext /\ pc' = CoapNext[pc] /\ server' = server
        BY <1>5, ExchangesIs
    <2>2. pc \in CoapSteps /\ pc' \in CoapSteps
        BY <2>1, Rooms
    <2> QED
        BY <2>1, <2>2, PlacesApart DEF Recorded, Streams, MqttSteps
<1>6. CASE Waits
    <2>1. UNCHANGED <<frames, seqC, seqS>> /\ (pc' = "dial" => pc = "dial")
        BY <1>0, <1>6, WaitsLead
    <2>2. server' = "none" => server = "none"
        BY <1>6, ServerStays
    <2> QED
        BY <2>1, <2>2 DEF Streams
<1> QED
    BY <1>1, <1>2, <1>3, <1>4, <1>5, <1>6, AllSteps

-----------------------------------------------------------------------------
(* Types.                                                                     *)

\* What the broker answers: CONNACK to CONNECT, and nothing to a reading of QoS 0.
LEMMA RepliesAre ==
    ASSUME NEW p, NEW bytes \in Replies(p)
    PROVE  /\ bytes \in Seq(0..255) /\ Len(bytes) <= 4
           /\ p = "online" => bytes = <<>>
<1>1. CASE p = "connect"
    <2>1. PICK present \in {0, 1} : bytes = <<32, 2, present, 0>>
        BY <1>1 DEF Replies
    <2> QED
        BY <1>1, <2>1
<1>2. CASE p = "temperature"
    <2>1. bytes = <<64, 2, 0, 1>>
        BY <1>2 DEF Replies
    <2> QED
        BY <1>2, <2>1
<1>3. CASE p = "power"
    <2>1. bytes = <<80, 2, 0, 2>>
        BY <1>3 DEF Replies
    <2> QED
        BY <1>3, <2>1
<1>4. CASE p = "pubrel"
    <2>1. bytes = <<112, 2, 0, 2>>
        BY <1>4 DEF Replies
    <2> QED
        BY <1>4, <2>1
<1>5. CASE p \notin {"connect", "temperature", "power", "pubrel"}
    <2>1. bytes = <<>>
        BY <1>5 DEF Replies
    <2> QED
        BY <2>1
<1> QED
    BY <1>1, <1>2, <1>3, <1>4, <1>5

LEMMA PlaceStep ==
    ASSUME pc \in Places, [Next]_vars
    PROVE  pc' \in Places
<1>0. MqttSteps \subseteq Places /\ CoapSteps \subseteq Places
      /\ {"connect", "get", "build", "dead"} \subseteq Places
    BY DEF Places, MqttSteps, CoapSteps
<1>1. CASE Dial \/ Build
    BY <1>0, <1>1 DEF Dial, Build
<1>2. CASE Sends
    BY <1>0, <1>2, SendIs, Rooms DEF Sending
<1>3. CASE Hears
    <2>1. PICK a \in {"connack", "puback", "pubrec", "pubcomp"} : Receives(a, Following[a])
        BY <1>3, HearsIs
    <2> QED
        BY <1>0, <2>1, Rooms DEF Receives
<1>4. CASE Exchanges
    BY <1>0, <1>4, ExchangesIs, Rooms
<1>5. CASE Waits
    BY <1>5, WaitsLead
<1> QED
    BY <1>1, <1>2, <1>3, <1>4, <1>5, AllSteps

\* The connection, and what is sent on it.
MqttOK ==
    /\ link \in {"none", "up", "closed", "reset"}
    /\ up \in Seq(Packets) /\ down \in Seq(0..255) /\ splits \in 0..MaxSplits
    /\ seqC \in Nat /\ seqS \in Nat /\ match \in {"none", "YES", "NO"} /\ taken \subseteq Packets

LEMMA MqttStep == TypeOK /\ MqttOK /\ [Next]_vars => MqttOK'
<1> SUFFICES ASSUME TypeOK, MqttOK, [Next]_vars PROVE MqttOK'
    OBVIOUS
<1>1. CASE UNCHANGED mqttVars
    BY <1>1 DEF mqttVars, MqttOK
<1>2. CASE Dial
    BY <1>2 DEF Dial, MqttOK
<1>3. CASE Sends
    <2>1. PICK p \in Packets : Sending(p, After[p])
        BY <1>3, SendIs
    <2>2. UNCHANGED <<down, splits, match, taken>>
        BY <1>3, SendIs
    <2>3. link' \in {"none", "up", "closed", "reset"} /\ up' \in {up, Append(up, p)}
          /\ seqC' = seqC + Len(PacketOf[p]) /\ seqS' = seqS
        BY <2>1 DEF Sending
    <2>4. up' \in Seq(Packets)
        BY <2>3, AppendProperties DEF MqttOK
    <2>5. seqC' \in Nat
        BY <2>3, PacketLengths DEF MqttOK
    <2> QED
        BY <2>2, <2>3, <2>4, <2>5 DEF MqttOK
<1>4. CASE Hears
    <2>1. PICK a \in {"connack", "puback", "pubrec", "pubcomp"} : Receives(a, Following[a])
        BY <1>4, HearsIs
    <2>2. PICK c \in Chunks :
            Chunk(c) /\ (UNCHANGED <<frames, seqC, seqS>> \/ RecordChunk(c))
        BY <2>1 DEF Receives
    <2>3. /\ c \in Seq(0..255) /\ down' \in Seq(0..255) /\ splits' \in 0..MaxSplits
          /\ link \in {"up", "closed"}
        BY <2>2, ChunkIs
    <2>4. up' = up /\ link' \in {link, "none"} /\ taken' = taken
        BY <1>4, HearsIs
    <2>5. seqC' \in Nat /\ seqS' \in Nat
        <3>1. Len(c) \in Nat
            BY <2>3
        <3> QED
            BY <2>2, <3>1 DEF RecordChunk, MqttOK
    <2>6. match' \in {"none", "YES", "NO"}
        BY <1>4 DEF Hears, OnConnack, OnPuback, OnPubrec, OnPubcomp, OnAnswer, MqttOK
    <2> QED
        BY <2>3, <2>4, <2>5, <2>6 DEF MqttOK
<1>5. CASE BrokerTakes
    <2>1. PICK bytes \in Replies(Head(up)) : down' = down \o bytes
        BY <1>5 DEF BrokerTakes
    <2>2. down' \in Seq(0..255)
        BY <2>1, RepliesAre, ConcatProperties DEF MqttOK
    <2>3. Head(up) \in Packets /\ Tail(up) \in Seq(Packets)
        BY <1>5 DEF BrokerTakes, MqttOK
    <2> QED
        BY <1>5, <2>2, <2>3 DEF BrokerTakes, MqttOK
<1>6. CASE BrokerCloses
    BY <1>6, EmptySeq DEF BrokerCloses, MqttOK
<1>7. CASE Exchanges \/ Build
    BY <1>1, <1>7, ExchangesIs DEF Build
<1>8. CASE Waits
    BY <1>1, <1>5, <1>6, <1>8 DEF Waits, DialFails, RecvTimesOut, SocketRaises, BuildFails,
        AnswerTimesOut, CloseCoap, Open, Write, Summary, Die, Serve, Lose, vars
<1> QED
    BY <1>2, <1>3, <1>4, <1>7, <1>8, AllSteps

\* The server, and the datagrams.
CoapOK ==
    /\ server \in {"none", "up", "down"} /\ fan \in {"OFF", "ON"}
    /\ net \subseteq [kind : {"request", "answer"}, of : Asked]
    /\ changed \in {"none", "Changed", "other"}

LEMMA CoapStep == CoapOK /\ [Next]_vars => CoapOK'
<1> SUFFICES ASSUME CoapOK, [Next]_vars PROVE CoapOK'
    OBVIOUS
<1>1. CASE UNCHANGED coapVars
    BY <1>1 DEF coapVars, CoapOK
<1>2. CASE Sends \/ Hears
    BY <1>1, <1>2, SendIs, HearsIs
<1>3. CASE Dial
    BY <1>1, <1>3 DEF Dial
<1>4. CASE Build
    BY <1>4 DEF Build, CoapOK
<1>5. CASE SendRequest
    <2>1. pc \in Asked /\ net' = net \union {[kind |-> "request", of |-> pc]}
          /\ UNCHANGED <<server, fan, changed>>
        BY <1>5 DEF SendRequest
    <2> QED
        BY <2>1 DEF CoapOK
<1>6. CASE OnGetAnswer \/ OnManifestAnswer
    <2>1. net' \subseteq net /\ UNCHANGED <<server, fan, changed>>
        BY <1>6 DEF OnGetAnswer, OnManifestAnswer, RecordAnswer
    <2> QED
        BY <2>1 DEF CoapOK
<1>7. CASE OnPutAnswer
    <2>1. PICK a \in Asked : RecordAnswer(a) /\ changed' = Verdict(a)
        BY <1>7 DEF OnPutAnswer
    <2>2. net' \subseteq net /\ UNCHANGED <<server, fan>>
        BY <1>7, <2>1 DEF OnPutAnswer, RecordAnswer
    <2>3. changed' \in {"Changed", "other"}
        BY <2>1 DEF Verdict
    <2> QED
        BY <2>2, <2>3 DEF CoapOK
<1>8. CASE CloseCoap
    BY <1>8 DEF CloseCoap, CoapOK
<1>9. CASE Serve
    <2>1. PICK r \in Asked :
            /\ net' = (net \ {[kind |-> "request", of |-> r]})
                          \union {[kind |-> "answer", of |-> r]}
            /\ fan' = IF r = "put" THEN "ON" ELSE fan
        BY <1>9 DEF Serve
    <2>2. UNCHANGED <<server, changed>>
        BY <1>9 DEF Serve
    <2> QED
        BY <2>1, <2>2 DEF CoapOK
<1>10. CASE Lose
    <2>1. net' \subseteq net /\ UNCHANGED <<server, fan, changed>>
        BY <1>10 DEF Lose
    <2> QED
        BY <2>1 DEF CoapOK
<1>11. CASE Waits
    BY <1>1, <1>8, <1>9, <1>10, <1>11 DEF Waits, DialFails, RecvTimesOut, SocketRaises,
        BuildFails, AnswerTimesOut, Open, Write, Summary, Die, BrokerTakes, BrokerCloses, vars
<1> QED
    BY <1>2, <1>3, <1>4, <1>5, <1>6, <1>7, <1>11, AllSteps DEF Exchanges

\* What main keeps.
MainOK ==
    /\ ok \in [Files -> BOOLEAN]
    /\ file \in [Files -> {"none", "old", "partial", "new", "synthetic"}]
    /\ status \in [Files -> {"none", "OK", "FAILED"}]

\* What a step that opens a file writes.
LEMMA Written ==
    ASSUME pc \in DOMAIN Writing
    PROVE  Writing[pc].name \in Files /\ Writing[pc].as \in {"new", "synthetic"}
BY Names DEF Writing, Files

LEMMA MainStep == MainOK /\ [Next]_vars => MainOK'
<1> SUFFICES ASSUME MainOK, [Next]_vars PROVE MainOK'
    OBVIOUS
<1>1. CASE UNCHANGED mainVars
    BY <1>1 DEF mainVars, MainOK
<1>2. CASE Sends \/ Hears \/ Exchanges \/ Dial \/ Build
    BY <1>1, <1>2, SendIs, HearsIs, ExchangesIs DEF Dial, Build
<1>3. CASE Open
    BY <1>3, Written DEF Open, MainOK
<1>4. CASE Write
    BY <1>4, Written DEF Write, MainOK
<1>5. CASE Summary
    BY <1>5 DEF Summary, MainOK
<1>6. CASE Waits
    BY <1>1, <1>3, <1>4, <1>5, <1>6 DEF Waits, DialFails, RecvTimesOut, SocketRaises, BuildFails,
        AnswerTimesOut, CloseCoap, Die, BrokerTakes, BrokerCloses, Serve, Lose, vars
<1> QED
    BY <1>2, <1>6, AllSteps

LEMMA TypeStep == TypeOK /\ Recorded' /\ [Next]_vars => TypeOK'
<1> SUFFICES ASSUME TypeOK, Recorded', [Next]_vars PROVE TypeOK'
    OBVIOUS
<1>1. pc \in Places /\ MqttOK /\ CoapOK /\ MainOK
    BY AllPlaces, PacketLengths DEF TypeOK, MqttOK, CoapOK, MainOK
<1>2. pc' \in Places /\ MqttOK' /\ CoapOK' /\ MainOK'
    BY <1>1, PlaceStep, MqttStep, CoapStep, MainStep
<1>3. Len(frames') <= 14
    <2>1. Len(frames') \in Nat /\ Len(frames') <= Room(pc')
        BY DEF Recorded
    <2> QED
        BY <2>1, RoomIs
<1> QED
    BY <1>2, <1>3, AllPlaces, PacketLengths DEF TypeOK, MqttOK, CoapOK, MainOK

-----------------------------------------------------------------------------
(* The match that is printed.                                                 *)

\* The steps at which the broker's answers are still to be looked at.
Early == {"dial", "connect", "connack", "online", "temperature", "puback"}

LEMMA UnackStep == TypeOK /\ Unacknowledged /\ [Next]_vars => Unacknowledged'
<1> SUFFICES ASSUME TypeOK, Unacknowledged, [Next]_vars, "temperature" \notin taken'
             PROVE  Unacknowledged'
    BY DEF Unacknowledged
<1>0. pc \in Places /\ up \in Seq(Packets) /\ down \in Seq(0..255) /\ Len(down) \in Nat
    BY AllPlaces, PacketLengths DEF TypeOK
<1>1. CASE UNCHANGED mqttVars /\ (pc' \in Early => pc' = pc)
    BY <1>1 DEF Unacknowledged, mqttVars, Early
<1>2. CASE Dial
    BY <1>2 DEF Dial, Unacknowledged
<1>3. CASE Sends
    <2>1. PICK p \in Packets : Sending(p, After[p])
        BY <1>3, SendIs
    <2>2. /\ pc = p /\ pc' = After[p] /\ up' \in {up, Append(up, p)}
          /\ down' = down /\ match' = match /\ taken' = taken
        BY <1>3, <2>1, SendIs DEF Sending
    <2>3. CASE p = "connect"
        <3>1. pc' = "connack"
            BY <2>2, <2>3 DEF After
        <3>2. up = <<>> /\ down = <<>> /\ match # "YES"
            BY <2>2, <2>3 DEF Unacknowledged
        <3>3. up' = <<>> \/ up' = <<"connect">>
            BY <2>2, <2>3, <3>2
        <3>4. Len(down') = 0
            BY <2>2, <3>2
        <3> QED
            BY <2>2, <3>1, <3>2, <3>3, <3>4 DEF Unacknowledged
    <2>4. CASE p \in {"online", "temperature"}
        <3>1. pc' \in {"temperature", "puback"}
            BY <2>2, <2>4 DEF After
        <3>2. /\ match # "YES" /\ Len(down) <= 3
              /\ \A i \in DOMAIN up : up[i] \in {"online", "temperature"}
            BY <2>2, <2>4 DEF Unacknowledged
        <3>3. \A i \in DOMAIN Append(up, p) : Append(up, p)[i] \in {"online", "temperature"}
            <4>1. \A i \in 1..(Len(up) + 1) : i \in 1..Len(up) \/ i = Len(up) + 1
                BY <1>0
            <4> QED
                BY <1>0, <2>4, <3>2, <4>1, Appended
        <3>4. \A i \in DOMAIN up' : up'[i] \in {"online", "temperature"}
            BY <2>2, <3>2, <3>3
        <3> QED
            BY <2>2, <3>1, <3>2, <3>4 DEF Unacknowledged
    <2>5. CASE p \notin {"connect", "online", "temperature"}
        <3>1. pc' \notin Early
            BY <2>2, <2>5 DEF After, Packets, Early
        <3> QED
            BY <2>2, <3>1 DEF Unacknowledged, Early
    <2> QED
        BY <2>3, <2>4, <2>5
<1>4. CASE OnConnack
    <2>1. PICK c \in Chunks : Chunk(c) /\ (pc' = "build" \/ (c # <<>> /\ pc' = "online"))
        <3>1. ASSUME NEW c,
                     IF c = <<>> \/ Head(c) # 32
                     THEN pc' = "build" /\ link' = "none" /\ UNCHANGED <<frames, seqC, seqS>>
                     ELSE pc' = "online" /\ UNCHANGED link /\ RecordChunk(c)
              PROVE  pc' = "build" \/ (c # <<>> /\ pc' = "online")
            BY <3>1
        <3> QED
            BY <1>4, <3>1 DEF OnConnack
    <2>2. pc = "connack" /\ up' = up /\ match' = match /\ taken' = taken
        BY <1>4 DEF OnConnack
    <2>3. match # "YES"
        BY <2>2 DEF Unacknowledged
    <2>4. CASE pc' = "build"
        BY <2>2, <2>3, <2>4 DEF Unacknowledged
    <2>5. CASE c # <<>> /\ pc' = "online"
        <3>1. down # <<>> /\ Len(c) \in 1..Len(down) /\ Len(down') = Len(down) - Len(c)
            BY <2>1, <2>5, ChunkIs
        <3>2. Len(down) <= 4 /\ up = <<>>
            BY <2>2, <3>1 DEF Unacknowledged
        <3>3. Len(down') <= 3 /\ DOMAIN up = {}
            BY <1>0, <3>1, <3>2
        <3> QED
            BY <2>2, <2>3, <2>5, <3>3 DEF Unacknowledged
    <2> QED
        BY <2>1, <2>4, <2>5
<1>5. CASE OnPuback
    <2>1. pc = "puback" /\ up' = up /\ taken' = taken /\ pc' \in {"vibration", "dead"}
        BY <1>5 DEF OnPuback
    <2>2. PICK c \in Chunks :
            /\ Chunk(c)
            /\ match' = match \/ (c # <<>> /\ match' = IF Matches(c) THEN "YES" ELSE "NO")
        BY <1>5 DEF OnPuback
    <2>3. match # "YES" /\ Len(down) <= 3
        BY <2>1 DEF Unacknowledged
    <2>4. c # <<>> => ~Matches(c)
        <3>1. SUFFICES ASSUME c # <<>> PROVE ~(Len(c) >= 4)
            BY DEF Matches
        <3>2. Len(c) \in 1..Len(down)
            BY <2>2, <3>1, ChunkIs
        <3> QED
            BY <1>0, <2>3, <3>2
    <2>5. match' # "YES"
        BY <2>2, <2>3, <2>4
    <2> QED
        BY <2>1, <2>5 DEF Unacknowledged
<1>6. CASE OnPubrec \/ OnPubcomp
    <2>1. match' = match /\ taken' = taken /\ pc' \in {"disconnect", "pubrel"}
        BY <1>6 DEF OnPubrec, OnPubcomp, OnAnswer
    <2> QED
        BY <2>1 DEF Unacknowledged
<1>7. CASE BrokerTakes
    <2> PICK p : p = Head(up)
        OBVIOUS
    <2>1. /\ up # <<>> /\ taken' = taken \union {p} /\ up' = Tail(up)
          /\ match' = match /\ pc' = pc
        BY <1>7 DEF BrokerTakes
    <2>2. p # "temperature" /\ "temperature" \notin taken
        BY <2>1
    <2>3. PICK bytes \in Replies(p) : down' = down \o bytes
        BY <1>7 DEF BrokerTakes
    <2>4. bytes \in Seq(0..255) /\ Len(bytes) <= 4 /\ (p = "online" => bytes = <<>>)
        BY <2>3, RepliesAre
    <2>5. Len(down') = Len(down) + Len(bytes) /\ Len(bytes) \in Nat
        BY <1>0, <2>3, <2>4, ConcatProperties
    <2>6. CASE pc \in {"dial", "connect"}
        BY <2>1, <2>2, <2>6 DEF Unacknowledged
    <2>7. CASE pc = "connack"
        <3>1. up = <<"connect">> /\ down = <<>> /\ match # "YES"
            BY <2>1, <2>2, <2>7 DEF Unacknowledged
        <3>2. up' = <<>> /\ Len(down) = 0
            BY <2>1, <3>1
        <3> QED
            BY <2>1, <2>4, <2>5, <2>7, <3>1, <3>2 DEF Unacknowledged
    <2>8. CASE pc \in {"online", "temperature", "puback"}
        <3>1. /\ match # "YES" /\ Len(down) <= 3
              /\ \A i \in DOMAIN up : up[i] \in {"online", "temperature"}
            BY <2>2, <2>8 DEF Unacknowledged
        <3>2. up \in Seq({"online", "temperature"})
            BY <1>0, <3>1
        <3>3. p \in {"online", "temperature"} /\ up' \in Seq({"online", "temperature"})
            BY <2>1, <3>2, HeadTailProperties
        <3>4. Len(down') <= 3
            <4>1. Len(<<>>) = 0
                OBVIOUS
            <4> QED
                BY <1>0, <2>2, <2>4, <2>5, <3>1, <3>3, <4>1
        <3>5. \A i \in DOMAIN up' : up'[i] \in {"online", "temperature"}
            BY <3>3
        <3> QED
            BY <2>1, <2>8, <3>1, <3>4, <3>5 DEF Unacknowledged
    <2>9. CASE pc \notin Early
        BY <2>1, <2>2, <2>9 DEF Unacknowledged, Early
    <2> QED
        BY <2>6, <2>7, <2>8, <2>9 DEF Early
<1>8. CASE BrokerCloses
    <2>1. up' = <<>> /\ UNCHANGED <<pc, down, match, taken>>
        BY <1>8 DEF BrokerCloses
    <2>2. DOMAIN up' = {}
        BY <2>1
    <2> QED
        BY <2>1, <2>2 DEF Unacknowledged
<1>9. CASE Exchanges \/ Build
    <2>1. UNCHANGED mqttVars
        BY <1>9, ExchangesIs DEF Build
    <2>2. pc' \in CoapSteps
        BY <1>9, ExchangesIs, Rooms DEF Build, CoapSteps
    <2>3. pc' \notin Early
        BY <2>2 DEF CoapSteps, Early
    <2> QED
        BY <1>1, <2>1, <2>3
<1>10. CASE Waits
    <2>1. pc' \in Early => pc' = pc
        BY <1>0, <1>10, WaitsLead DEF Early
    <2>2. UNCHANGED mqttVars \/ BrokerTakes \/ BrokerCloses
        BY <1>10 DEF Waits, DialFails, RecvTimesOut, SocketRaises, BuildFails,
            AnswerTimesOut, CloseCoap, Open, Write, Summary, Die, Serve, Lose, vars
    <2> QED
        BY <1>1, <1>7, <1>8, <2>1, <2>2
<1> QED
    BY <1>2, <1>3, <1>4, <1>5, <1>6, <1>9, <1>10, AllSteps DEF Hears

-----------------------------------------------------------------------------
(* The verdict that is printed, and what has been exchanged when it is.       *)

PutAnswer == [kind |-> "answer", of |-> "put"]

\* Datagrams of one kind or of one request are told apart.
LEMMA Datagrams ==
    ASSUME NEW a, NEW b
    PROVE  /\ [kind |-> "request", of |-> a] # [kind |-> "answer", of |-> b]
           /\ [kind |-> "answer", of |-> a] = [kind |-> "answer", of |-> b] => a = b
           /\ [kind |-> "request", of |-> a].of = a /\ [kind |-> "answer", of |-> a].of = a
<1>1. /\ [kind |-> "request", of |-> a].kind = "request"
      /\ [kind |-> "answer", of |-> b].kind = "answer"
    OBVIOUS
<1>2. [kind |-> "answer", of |-> a].of = a /\ [kind |-> "answer", of |-> b].of = b
    OBVIOUS
<1> QED
    BY <1>1, <1>2

LEMMA FanStep == FanTurned /\ [Next]_vars => FanTurned'
<1> SUFFICES ASSUME FanTurned, [Next]_vars PROVE FanTurned'
    OBVIOUS
<1>1. CASE /\ PutAnswer \in net' => PutAnswer \in net
           /\ changed' = changed /\ fan' = fan
    BY <1>1 DEF FanTurned, PutAnswer
<1>2. CASE Sends \/ Hears \/ Dial \/ Build
    BY <1>1, <1>2, SendIs, HearsIs DEF Dial, Build, coapVars
<1>3. CASE SendRequest
    <2>1. net' = net \union {[kind |-> "request", of |-> pc]} /\ changed' = changed /\ fan' = fan
        BY <1>3 DEF SendRequest
    <2>2. PutAnswer # [kind |-> "request", of |-> pc]
        BY Datagrams DEF PutAnswer
    <2> QED
        BY <1>1, <2>1, <2>2
<1>4. CASE OnGetAnswer \/ OnManifestAnswer
    BY <1>1, <1>4 DEF OnGetAnswer, OnManifestAnswer, RecordAnswer
<1>5. CASE OnPutAnswer
    <2>1. PICK a \in Asked : Answered(a) /\ RecordAnswer(a) /\ changed' = Verdict(a)
        BY <1>5 DEF OnPutAnswer
    <2>2. fan' = fan /\ net' \subseteq net
        BY <1>5, <2>1 DEF OnPutAnswer, RecordAnswer
    <2>3. changed' = "Changed" => a = "put"
        <3>1. <<2, 5>> # <<2, 4>>
            OBVIOUS
        <3>2. CodePrinted["get"] = <<2, 5>> /\ CodePrinted["manifest"] = <<2, 5>>
            BY DEF CodePrinted
        <3> QED
            BY <2>1, <3>1, <3>2 DEF Asked, Verdict
    <2>4. changed' = "Changed" => PutAnswer \in net
        BY <2>1, <2>3 DEF Answered, PutAnswer
    <2> QED
        BY <2>2, <2>4 DEF FanTurned, PutAnswer
<1>6. CASE CloseCoap
    BY <1>1, <1>6 DEF CloseCoap
<1>7. CASE Lose
    BY <1>1, <1>7 DEF Lose
<1>8. CASE Serve
    <2>1. PICK r \in Asked :
            /\ net' = (net \ {[kind |-> "request", of |-> r]})
                          \union {[kind |-> "answer", of |-> r]}
            /\ fan' = IF r = "put" THEN "ON" ELSE fan
        BY <1>8 DEF Serve
    <2>2. changed' = changed
        BY <1>8 DEF Serve
    <2>3. CASE r = "put"
        BY <2>1, <2>3 DEF FanTurned
    <2>4. CASE r # "put"
        <3>1. PutAnswer # [kind |-> "answer", of |-> r]
            BY <2>4, Datagrams DEF PutAnswer
        <3> QED
            BY <1>1, <2>1, <2>2, <2>4, <3>1
    <2> QED
        BY <2>3, <2>4
<1>9. CASE Waits
    BY <1>1, <1>6, <1>7, <1>8, <1>9 DEF Waits, DialFails, RecvTimesOut, SocketRaises, BuildFails,
        AnswerTimesOut, Open, Write, Summary, Die, BrokerTakes, BrokerCloses, vars, coapVars
<1> QED
    BY <1>2, <1>3, <1>4, <1>5, <1>9, AllSteps DEF Exchanges

\* What capture_coap has recorded when each of its steps begins.
Collected(step, fs) ==
    /\ step \in {"getAnswer", "giveUp", "openSynthetic"} =>
          fs = <<[from |-> "client", request |-> "get"]>>
    /\ step \in {"manifest", "manifestAnswer", "put", "putAnswer", "closeCoap", "openCoap"} =>
          Len(fs) >= 2 /\ fs[2] = [from |-> "server", answer |-> "get"]
    /\ step \in {"putAnswer", "closeCoap", "openCoap"} =>
          \E i \in DOMAIN fs : fs[i] = [from |-> "client", request |-> "put"]

\* A frame more leaves what has been recorded.
LEMMA StillCollected ==
    ASSUME NEW fs \in Seq(CoapFrame), NEW f \in CoapFrame
    PROVE  /\ Len(fs) >= 2 => Append(fs, f)[2] = fs[2] /\ Len(Append(fs, f)) >= 2
           /\ \A g : (\E i \in DOMAIN fs : fs[i] = g)
                        => \E i \in DOMAIN Append(fs, f) : Append(fs, f)[i] = g
           /\ \E i \in DOMAIN Append(fs, f) : Append(fs, f)[i] = f
<1>1. /\ Len(fs) \in Nat /\ Len(Append(fs, f)) = Len(fs) + 1
      /\ DOMAIN fs = 1..Len(fs) /\ DOMAIN Append(fs, f) = 1..(Len(fs) + 1)
      /\ \A i \in 1..Len(fs) : Append(fs, f)[i] = fs[i]
      /\ Append(fs, f)[Len(fs) + 1] = f
    BY Appended
<1>2. Len(fs) >= 2 => Append(fs, f)[2] = fs[2] /\ Len(Append(fs, f)) >= 2
    BY <1>1
<1>3. ASSUME NEW g, NEW i \in DOMAIN fs, fs[i] = g
      PROVE  \E j \in DOMAIN Append(fs, f) : Append(fs, f)[j] = g
    <2>1. i \in DOMAIN Append(fs, f) /\ Append(fs, f)[i] = g
        BY <1>1, <1>3
    <2> QED
        BY <2>1
<1>4. Len(fs) + 1 \in DOMAIN Append(fs, f)
    BY <1>1
<1> QED
    BY <1>1, <1>2, <1>3, <1>4

LEMMA CollectedStep ==
    ASSUME TypeOK, Recorded, Exchanged, Exchanges
    PROVE  Collected(pc', frames')
<1> PICK fs : fs = frames
    OBVIOUS
<1>1. /\ pc \in DOMAIN CoapNext /\ pc' = CoapNext[pc]
      /\ \E f \in CoapFrame : frames' = Append(fs, f)
    BY ExchangesIs
<1>2. pc \in CoapSteps
    BY <1>1, Rooms
<1>3. fs \in Seq(CoapFrame) /\ Len(fs) <= Room(pc) /\ Len(fs) \in Nat
    BY <1>2 DEF Recorded
<1>4. Collected(pc, fs)
    BY DEF Exchanged, Collected
<1>5. CASE pc = "get"
    <2>1. pc' = "getAnswer" /\ Room(pc) = 0
        BY <1>1, <1>5 DEF CoapNext, Room
    <2> PICK f : f = [from |-> "client", request |-> "get"]
        OBVIOUS
    <2>2. SendRequest
        BY <1>5 DEF Exchanges, OnGetAnswer, OnManifestAnswer, OnPutAnswer
    <2>3. frames' = Append(fs, f)
        BY <1>5, <2>2 DEF SendRequest
    <2>4. fs = <<>>
        BY <1>3, <2>1
    <2>5. frames' = <<f>>
        BY <2>3, <2>4
    <2> QED
        BY <2>1, <2>5 DEF Collected
<1>6. CASE pc = "getAnswer"
    <2>1. pc' = "manifest"
        BY <1>1, <1>6 DEF CoapNext
    <2>2. OnGetAnswer
        BY <1>6 DEF Exchanges, SendRequest, OnManifestAnswer, OnPutAnswer, Asked
    <2>3. PICK a \in Asked : Answered(a) /\ RecordAnswer(a)
        BY <2>2 DEF OnGetAnswer
    <2>4. a = "get"
        <3>1. [kind |-> "answer", of |-> a].of = "get"
            BY <1>6, <2>3 DEF Answered, Exchanged
        <3> QED
            BY <3>1, Datagrams
    <2> PICK f : f = [from |-> "server", answer |-> "get"]
        OBVIOUS
    <2>5. f \in CoapFrame /\ frames' = Append(fs, f)
        BY <2>3, <2>4 DEF RecordAnswer, CoapFrame, Asked
    <2>6. Len(fs) = 1
        BY <1>4, <1>6 DEF Collected
    <2>7. Len(frames') = 2 /\ frames'[2] = f
        <3>1. Len(Append(fs, f)) = Len(fs) + 1 /\ Append(fs, f)[Len(fs) + 1] = f
            BY <1>3, <2>5, Appended
        <3>2. Len(fs) + 1 = 2
            BY <2>6
        <3> QED
            BY <2>5, <3>1, <3>2
    <2> QED
        BY <2>1, <2>7 DEF Collected
<1>7. CASE pc \in {"manifest", "manifestAnswer", "put", "putAnswer"}
    <2>1. /\ pc' \in {"manifestAnswer", "put", "putAnswer", "closeCoap"}
          /\ pc' = "closeCoap" => pc = "putAnswer"
          /\ pc' = "putAnswer" => pc = "put"
        BY <1>1, <1>7 DEF CoapNext
    <2>2. Len(fs) >= 2 /\ fs[2] = [from |-> "server", answer |-> "get"]
        BY <1>4, <1>7 DEF Collected
    <2>3. PICK f \in CoapFrame : frames' = Append(fs, f)
        BY <1>1
    <2>4. Len(frames') >= 2 /\ frames'[2] = [from |-> "server", answer |-> "get"]
        BY <1>3, <2>2, <2>3, StillCollected
    <2> PICK g : g = [from |-> "client", request |-> "put"]
        OBVIOUS
    <2>5. pc' = "closeCoap" => \E i \in DOMAIN frames' : frames'[i] = g
        <3>1. pc = "putAnswer" => \E i \in DOMAIN fs : fs[i] = g
            BY <1>4 DEF Collected
        <3> QED
            BY <1>3, <2>1, <2>3, <3>1, StillCollected, SMTT(60)
    <2>6. pc' = "putAnswer" => \E i \in DOMAIN frames' : frames'[i] = g
        <3> SUFFICES ASSUME pc' = "putAnswer" PROVE \E i \in DOMAIN frames' : frames'[i] = g
            OBVIOUS
        <3>1. pc = "put"
            BY <2>1
        <3>2. SendRequest
            BY <3>1 DEF Exchanges, OnGetAnswer, OnManifestAnswer, OnPutAnswer
        <3>3. frames' = Append(fs, g)
            BY <3>1, <3>2 DEF SendRequest
        <3>4. g \in CoapFrame
            BY DEF CoapFrame, Asked
        <3> QED
            BY <1>3, <3>3, <3>4, StillCollected
    <2> QED
        BY <2>1, <2>4, <2>5, <2>6 DEF Collected
<1> QED
    BY <1>1, <1>5, <1>6, <1>7 DEF CoapNext

\* Until the first answer has come, only the first request is under way.
LEMMA FirstStep ==
    ASSUME TypeOK, Recorded, Exchanged, [Next]_vars, pc' \in {"get", "getAnswer"}
    PROVE  \A d \in net' : d.of = "get"
<1>0. pc \in Places
    BY AllPlaces DEF TypeOK
<1>1. CASE Build
    <2>1. net = {} /\ net' = net
        BY <1>1 DEF Build, Recorded
    <2> QED
        BY <2>1
<1>2. CASE Exchanges
    <2>1. pc \in DOMAIN CoapNext /\ pc' = CoapNext[pc]
        BY <1>2, ExchangesIs
    <2>2. pc = "get"
        BY <2>1 DEF CoapNext
    <2>3. SendRequest
        BY <1>2, <2>2 DEF Exchanges, OnGetAnswer, OnManifestAnswer, OnPutAnswer
    <2>4. net' = net \union {[kind |-> "request", of |-> "get"]}
        BY <2>2, <2>3 DEF SendRequest
    <2>5. \A d \in net : d.of = "get"
        BY <2>2 DEF Exchanged
    <2> QED
        BY <2>4, <2>5, Datagrams
<1>3. CASE Waits
    <2>1. pc' = pc
        BY <1>0, <1>3, WaitsLead
    <2>2. \A d \in net : d.of = "get"
        BY <2>1 DEF Exchanged
    <2>3. CASE net' \subseteq net
        BY <2>2, <2>3
    <2>4. CASE Serve
        <3>1. PICK r \in Asked :
                /\ [kind |-> "request", of |-> r] \in net
                /\ net' = (net \ {[kind |-> "request", of |-> r]})
                              \union {[kind |-> "answer", of |-> r]}
            BY <2>4 DEF Serve
        <3>2. r = "get"
            BY <2>2, <3>1, Datagrams
        <3> QED
            BY <2>2, <3>1, <3>2, Datagrams
    <2> QED
        BY <1>3, <2>3, <2>4 DEF Waits, DialFails, RecvTimesOut, SocketRaises, BuildFails,
            AnswerTimesOut, CloseCoap, Open, Write, Summary, Die, BrokerTakes, BrokerCloses,
            Lose, vars, coapVars
<1>4. CASE Dial
    BY <1>4 DEF Dial
<1>5. CASE Sends
    <2>1. PICK p \in Packets : Sending(p, After[p])
        BY <1>5, SendIs
    <2> QED
        BY <2>1, Rooms, PlacesApart DEF Sending, CoapSteps
<1>6. CASE Hears
    <2>1. PICK a \in {"connack", "puback", "pubrec", "pubcomp"} : Receives(a, Following[a])
        BY <1>6, HearsIs
    <2>2. pc' \in MqttSteps \union {"build", "dead"}
        BY <2>1, Rooms DEF Receives
    <2> QED
        BY <2>2, PlacesApart DEF CoapSteps
<1> QED
    BY <1>1, <1>2, <1>3, <1>4, <1>5, <1>6, AllSteps

LEMMA ExchangedStep ==
    TypeOK /\ Recorded /\ Exchanged /\ [Next]_vars => Exchanged'
<1> SUFFICES ASSUME TypeOK, Recorded, Exchanged, [Next]_vars PROVE Exchanged'
    OBVIOUS
<1>0. pc \in Places /\ seqC \in Nat
    BY AllPlaces DEF TypeOK
<1>1. pc' \in {"get", "getAnswer"} => \A d \in net' : d.of = "get"
    BY FirstStep
<1>2. pc' = "openMqtt" => Last(frames') = PacketFrame("disconnect", seqC' - 2, seqS')
    <2> SUFFICES ASSUME pc' = "openMqtt"
                 PROVE  Last(frames') = PacketFrame("disconnect", seqC' - 2, seqS')
        OBVIOUS
    <2>1. CASE Sends
        <3>1. PICK p \in Packets : Sending(p, After[p])
            BY <2>1, SendIs
        <3>2. p = "disconnect"
            BY <3>1 DEF Sending, After, Packets
        <3>3. /\ frames' = Append(frames, PacketFrame("disconnect", seqC, seqS))
              /\ seqC' = seqC + Len(PacketOf["disconnect"]) /\ seqS' = seqS
              /\ pc = "disconnect"
            BY <3>1, <3>2 DEF Sending
        <3>4. seqC' - 2 = seqC
            BY <1>0, <3>3, PacketLengths
        <3>5. frames \in Seq(Frame)
            BY <3>3 DEF Recorded, MqttSteps
        <3> PICK f : f = PacketFrame("disconnect", seqC, seqS)
            OBVIOUS
        <3>6. f \in Frame
            BY <1>0 DEF PacketFrame, Frame, Packets, TypeOK
        <3>7. Last(Append(frames, f)) = f
            BY <3>5, <3>6, Appended DEF Last
        <3> QED
            BY <3>3, <3>4, <3>7
    <2>2. CASE Hears
        <3>1. PICK a \in {"connack", "puback", "pubrec", "pubcomp"} : Receives(a, Following[a])
            BY <2>2, HearsIs
        <3> QED
            BY <3>1 DEF Receives, Following
    <2>3. CASE Exchanges
        BY <2>3, ExchangesIs DEF CoapNext
    <2>4. CASE Dial \/ Build
        BY <2>4 DEF Dial, Build
    <2>5. CASE Waits
        BY <1>0, <2>5, WaitsLead DEF Exchanged
    <2> QED
        BY <2>1, <2>2, <2>3, <2>4, <2>5, AllSteps
<1>3. Collected(pc', frames')
    <2>0. Collected(pc, frames)
        BY DEF Exchanged, Collected
    <2>1. CASE Exchanges
        BY <2>1, CollectedStep
    <2>2. CASE Sends
        <3>1. PICK p \in Packets : Sending(p, After[p])
            BY <2>2, SendIs
        <3>2. pc' \in MqttSteps
            BY <3>1, Rooms DEF Sending
        <3> QED
            BY <3>2 DEF Collected, MqttSteps
    <2>3. CASE Hears
        <3>1. PICK a \in {"connack", "puback", "pubrec", "pubcomp"} : Receives(a, Following[a])
            BY <2>3, HearsIs
        <3>2. pc' \in MqttSteps \union {"build", "dead"}
            BY <3>1, Rooms DEF Receives
        <3> QED
            BY <3>2 DEF Collected, MqttSteps
    <2>4. CASE Dial \/ Build
        BY <2>4 DEF Dial, Build, Collected
    <2>5. CASE Waits
        <3>1. frames' = frames
            BY <1>0, <2>5, WaitsLead
        <3>2. pc' = pc
              \/ pc' \notin {"getAnswer", "giveUp", "openSynthetic", "manifest", "manifestAnswer", "put", "putAnswer",
                             "closeCoap", "openCoap"}
              \/ (pc = "getAnswer" /\ pc' = "giveUp")
              \/ (pc = "giveUp" /\ pc' = "openSynthetic")
              \/ (pc = "manifestAnswer" /\ pc' = "put")
              \/ (pc = "putAnswer" /\ pc' = "closeCoap")
              \/ (pc = "closeCoap" /\ pc' = "openCoap")
            BY <1>0, <2>5, WaitsLead
        <3> QED
            BY <2>0, <3>1, <3>2 DEF Collected
    <2> QED
        BY <2>1, <2>2, <2>3, <2>4, <2>5, AllSteps
<1> QED
    BY <1>1, <1>2, <1>3 DEF Exchanged, Collected

-----------------------------------------------------------------------------
(* The files, and the summary.                                                *)

LEMMA SavedStep == TypeOK /\ Saved /\ [Next]_vars => Saved'
<1> SUFFICES ASSUME TypeOK, Saved, [Next]_vars PROVE Saved'
    OBVIOUS
<1>0. /\ pc \in Places /\ ok \in [Files -> BOOLEAN]
      /\ file \in [Files -> {"none", "old", "partial", "new", "synthetic"}]
    BY AllPlaces DEF TypeOK
<1>1. CASE /\ ok' = ok /\ file' = file
           /\ pc' \in MqttSteps => pc \in MqttSteps
           /\ pc' \in MqttSteps \union {"build"} \union CoapSteps =>
                 pc \in MqttSteps \union {"build"} \union CoapSteps
    BY <1>1 DEF Saved
<1>2. CASE Dial \/ Build
    BY <1>1, <1>2 DEF Dial, Build, mainVars, MqttSteps, CoapSteps
<1>3. CASE Sends
    <2>1. PICK p \in Packets : Sending(p, After[p])
        BY <1>3, SendIs
    <2>2. pc \in MqttSteps
        BY <2>1, Rooms DEF Sending
    <2> QED
        BY <1>1, <1>3, <2>2, SendIs DEF mainVars
<1>4. CASE Hears
    <2>1. PICK a \in {"connack", "puback", "pubrec", "pubcomp"} : Receives(a, Following[a])
        BY <1>4, HearsIs
    <2>2. pc \in MqttSteps
        BY <2>1, Rooms DEF Receives
    <2> QED
        BY <1>1, <1>4, <2>2, HearsIs DEF mainVars
<1>5. CASE Exchanges
    <2>1. pc \in CoapSteps /\ pc' \in CoapSteps
        BY <1>5, ExchangesIs, Rooms
    <2> QED
        BY <1>1, <1>5, <2>1, ExchangesIs, PlacesApart DEF mainVars
<1>6. CASE Open
    <2> PICK f \in Files : f = Writing[pc].name
        BY <1>6, Written DEF Open
    <2>1. /\ pc \in {"openMqtt", "openCoap", "openSynthetic"} /\ pc' = pc /\ ok' = ok
          /\ file' = [file EXCEPT ![f] = "partial"]
        BY <1>6, Names DEF Open
    <2>2. ~ok[f]
        BY <2>1 DEF Writing, Saved, MqttSteps, CoapSteps
    <2>3. \A g \in Files : ok'[g] <=> file'[g] \in {"new", "synthetic"}
        BY <1>0, <2>1, <2>2 DEF Saved
    <2> QED
        BY <2>1, <2>3 DEF Saved
<1>7. CASE Write
    <2> PICK f \in Files, as \in {"new", "synthetic"} :
            f = Writing[pc].name /\ as = Writing[pc].as
        BY <1>7, Written DEF Write
    <2>1. /\ pc \in {"openMqtt", "openCoap", "openSynthetic"}
          /\ ok' = [ok EXCEPT ![f] = TRUE] /\ file' = [file EXCEPT ![f] = as]
          /\ pc' = Writing[pc].then
        BY <1>7, Names DEF Write
    <2>2. \A g \in Files : ok'[g] <=> file'[g] \in {"new", "synthetic"}
        BY <1>0, <2>1 DEF Saved
    <2>3. \/ (pc = "openMqtt" /\ pc' = "build" /\ f = "mqtt")
          \/ pc' = "summary"
        BY <2>1 DEF Writing
    <2>4. pc = "openMqtt" => ~ok["coap"]
        BY DEF Saved, MqttSteps
    <2>5. pc' = "build" => ~ok'["coap"]
        BY <1>0, <2>1, <2>3, <2>4 DEF Files
    <2>6. pc' \notin MqttSteps /\ pc' \notin CoapSteps
        BY <2>3, PlacesApart
    <2> QED
        BY <2>2, <2>5, <2>6 DEF Saved
<1>8. CASE Waits /\ ~Open /\ ~Write
    <2>1. ok' = ok /\ file' = file
        BY <1>8 DEF Waits, DialFails, RecvTimesOut, SocketRaises, BuildFails, AnswerTimesOut,
            CloseCoap, Summary, Die, BrokerTakes, BrokerCloses, Serve, Lose, vars, mainVars
    <2>2. /\ pc' \in MqttSteps => pc \in MqttSteps
          /\ pc' \in MqttSteps \union {"build"} \union CoapSteps =>
                 pc \in MqttSteps \union {"build"} \union CoapSteps
        BY <1>0, <1>8, WaitsLead, PlacesApart DEF MqttSteps, CoapSteps
    <2> QED
        BY <1>1, <2>1, <2>2
<1> QED
    BY <1>2, <1>3, <1>4, <1>5, <1>6, <1>7, <1>8, AllSteps

LEMMA SummaryStep == TypeOK /\ Saved /\ SummaryIsTruthful /\ [Next]_vars => SummaryIsTruthful'
<1> SUFFICES ASSUME TypeOK, Saved, SummaryIsTruthful, [Next]_vars, pc' = "done"
             PROVE  \A f \in Files : status'[f] = "OK" <=> file'[f] \in {"new", "synthetic"}
    BY DEF SummaryIsTruthful
<1>0. pc \in Places
    BY AllPlaces DEF TypeOK
<1>1. CASE Summary
    <2>1. file' = file
        BY <1>1 DEF Summary
    <2>2. ASSUME NEW f \in Files
          PROVE  status'[f] = "OK" <=> file[f] \in {"new", "synthetic"}
        <3>1. status'[f] = IF ok[f] /\ file[f] # "none" THEN "OK" ELSE "FAILED"
            BY <1>1 DEF Summary
        <3>2. ok[f] <=> file[f] \in {"new", "synthetic"}
            BY DEF Saved
        <3> QED
            BY <3>1, <3>2
    <2> QED
        BY <2>1, <2>2
<1>2. CASE pc = "done" /\ UNCHANGED mainVars
    BY <1>2 DEF SummaryIsTruthful, mainVars
<1>3. CASE Waits
    <2>1. pc = "done" \/ Summary
        <3>1. CASE Write
            <4>1. pc \in {"openMqtt", "openCoap", "openSynthetic"} /\ pc' = Writing[pc].then
                BY <3>1, Names DEF Write
            <4> QED
                BY <4>1 DEF Writing
        <3>2. CASE AnswerTimesOut \/ CloseCoap
            BY <3>2, Names DEF AnswerTimesOut, CloseCoap
        <3>3. CASE UNCHANGED pc
            BY <3>3
        <3>4. CASE DialFails \/ RecvTimesOut \/ SocketRaises \/ BuildFails \/ Die
            BY <3>4 DEF DialFails, RecvTimesOut, SocketRaises, BuildFails, Die
        <3>5. CASE Open \/ BrokerTakes \/ BrokerCloses \/ Serve \/ Lose \/ UNCHANGED vars
            BY <3>3, <3>5 DEF Open, BrokerTakes, BrokerCloses, Serve, Lose, vars
        <3> QED
            BY <1>3, <3>1, <3>2, <3>4, <3>5 DEF Waits
    <2>2. pc = "done" => UNCHANGED mainVars
        BY <1>3, Names DEF Waits, DialFails, RecvTimesOut, SocketRaises, BuildFails,
            AnswerTimesOut, CloseCoap, Open, Write, Summary, Die, BrokerTakes, BrokerCloses,
            Serve, Lose, vars
    <2> QED
        BY <1>1, <1>2, <2>1, <2>2
<1>4. CASE Sends
    <2>1. PICK p \in Packets : Sending(p, After[p])
        BY <1>4, SendIs
    <2> QED
        BY <2>1, Rooms DEF Sending, MqttSteps
<1>5. CASE Hears
    <2>1. PICK a \in {"connack", "puback", "pubrec", "pubcomp"} : Receives(a, Following[a])
        BY <1>5, HearsIs
    <2> QED
        BY <2>1 DEF Receives, Following
<1>6. CASE Exchanges
    BY <1>6, ExchangesIs DEF CoapNext
<1>7. CASE Dial \/ Build
    BY <1>7 DEF Dial, Build
<1> QED
    BY <1>3, <1>4, <1>5, <1>6, <1>7, AllSteps

-----------------------------------------------------------------------------
(* Theorems. *)

LEMMA Starts == Init => IInv
<1> SUFFICES ASSUME Init PROVE IInv
    OBVIOUS
<1>1. TypeOK
    <2>1. pc \in Places /\ Len(frames) = 0
        BY DEF Init, Places, MqttSteps
    <2>3. MaxSplits \in Nat
        BY CapturesAssumption
    <2>2. MqttOK /\ CoapOK /\ MainOK
        BY <2>1, <2>3, EmptySeq DEF Init, MqttOK, CoapOK, MainOK, Files
    <2> QED
        BY <2>1, <2>2, AllPlaces, PacketLengths DEF TypeOK, MqttOK, CoapOK, MainOK
<1>2. Recorded
    <2>1. <<>> \in Seq(Frame) /\ Len(<<>>) = 0 /\ Room("dial") = 0
        BY EmptySeq DEF Room
    <2> QED
        BY <2>1 DEF Init, Recorded, CoapSteps
<1>3. Streams
    <2>1. \A i \in DOMAIN <<>> : InStream(<<>>, i)
        OBVIOUS
    <2> QED
        BY <2>1 DEF Init, Streams, Reassembles
<1>4. Unacknowledged /\ FanTurned /\ Exchanged /\ SummaryIsTruthful
    BY DEF Init, Unacknowledged, FanTurned, Exchanged, SummaryIsTruthful
<1>5. Saved
    BY DEF Init, Saved, Files
<1> QED
    BY <1>1, <1>2, <1>3, <1>4, <1>5 DEF IInv

LEMMA Steps == IInv /\ [Next]_vars => IInv'
<1> SUFFICES ASSUME IInv, [Next]_vars PROVE IInv'
    OBVIOUS
<1>1. /\ TypeOK /\ Recorded /\ Streams /\ Unacknowledged /\ FanTurned /\ Saved /\ Exchanged
      /\ SummaryIsTruthful
    BY DEF IInv
<1>2. Recorded'
    BY <1>1, RecordedStep
<1>3. TypeOK'
    BY <1>1, <1>2, TypeStep
<1>4. Streams' /\ Unacknowledged' /\ FanTurned' /\ Saved' /\ Exchanged' /\ SummaryIsTruthful'
    BY <1>1, StreamsStep, UnackStep, FanStep, SavedStep, ExchangedStep, SummaryStep
<1> QED
    BY <1>2, <1>3, <1>4 DEF IInv

\* What holds whenever the script takes a step: the streams, the answers that are
\* still out, the fan, the files and the exchange (generate_captures.py).
THEOREM Invariance == Spec => []IInv
<1>1. Init => IInv
    BY Starts
<1>2. IInv /\ [Next]_vars => IInv'
    BY Steps
<1> QED
    BY <1>1, <1>2, PTL DEF Spec

\* Every variable has the values that its comment says; a capture holds at most
\* fourteen packets.
THEOREM Types == Spec => []TypeOK
<1>1. IInv => TypeOK
    BY DEF IInv
<1> QED
    BY <1>1, Invariance, PTL

\* The recorded packets of capture_mqtt reassemble into two gapless streams, each
\* acknowledging all that the other has carried, in whatever chunks recv returns the
\* broker's bytes and however many of them there are.
THEOREM StreamsAreWhole == Spec => []StreamsReassemble
<1>1. IInv => StreamsReassemble
    <2> SUFFICES ASSUME IInv, server = "none", NEW i \in DOMAIN frames
                 PROVE  InStream(frames, i)
        BY DEF StreamsReassemble, InStream
    <2> QED
        BY DEF IInv, Streams, Reassembles
<1> QED
    BY <1>1, Invariance, PTL

\* "Matches PUBLISH Packet ID: YES" is printed only of an answer to a publication that
\* the broker has taken.
THEOREM MatchesAreGenuine == Spec => []MatchIsGenuine
<1>1. IInv => MatchIsGenuine
    BY DEF IInv, Unacknowledged, MatchIsGenuine
<1> QED
    BY <1>1, Invariance, PTL

\* "Changed" is printed only if the fan has been turned on.
THEOREM VerdictsAreGenuine == Spec => []VerdictIsGenuine
<1>1. IInv => VerdictIsGenuine
    BY DEF IInv, FanTurned, VerdictIsGenuine
<1> QED
    BY <1>1, Invariance, PTL

\* The summary says OK of the files that this run has written to their end, and of no
\* other (main).
THEOREM SummariesAreTruthful == Spec => []SummaryIsTruthful
<1>1. IInv => SummaryIsTruthful
    BY DEF IInv
<1> QED
    BY <1>1, Invariance, PTL

\* mqtt.pcap is touched only after a whole exchange; coap.pcap is given the captured
\* packets only when the GET was answered, and the synthetic ones only when not.
THEOREM WholeExchangesOnly == Spec => OnlyWholeExchangesAreSaved
<1> DEFINE Whole ==
      /\ file'["mqtt"] # file["mqtt"] =>
            Last(frames) = PacketFrame("disconnect", seqC - 2, seqS)
      /\ file'["coap"] # file["coap"] =>
            \/ file'["coap"] # "new" /\ frames = <<[from |-> "client", request |-> "get"]>>
            \/ /\ file'["coap"] # "synthetic"
               /\ frames[2] = [from |-> "server", answer |-> "get"]
               /\ \E i \in DOMAIN frames : frames[i] = [from |-> "client", request |-> "put"]
<1>1. IInv /\ [Next]_vars => [Whole]_vars
    <2> SUFFICES ASSUME IInv, [Next]_vars PROVE Whole
        OBVIOUS
    <2>0. /\ file \in [Files -> {"none", "old", "partial", "new", "synthetic"}]
          /\ Exchanged
        BY DEF IInv, TypeOK
    <2>1. CASE Write \/ Open
        <3>1. /\ pc \in {"openMqtt", "openCoap", "openSynthetic"}
              /\ \/ file' = [file EXCEPT ![Writing[pc].name] = Writing[pc].as]
                 \/ file' = [file EXCEPT ![Writing[pc].name] = "partial"]
            BY <2>1, Names DEF Write, Open
        <3>2. /\ Writing["openMqtt"].name = "mqtt"
              /\ Writing["openCoap"].name = "coap" /\ Writing["openCoap"].as = "new"
              /\ Writing["openSynthetic"].name = "coap"
              /\ Writing["openSynthetic"].as = "synthetic"
            BY DEF Writing
        <3>3. CASE pc = "openMqtt"
            <4>1. file'["coap"] = file["coap"]
                BY <2>0, <3>1, <3>2, <3>3 DEF Files
            <4> QED
                BY <2>0, <3>3, <4>1 DEF Exchanged
        <3>4. CASE pc = "openCoap"
            <4>1. file'["mqtt"] = file["mqtt"] /\ file'["coap"] # "synthetic"
                BY <2>0, <3>1, <3>2, <3>4 DEF Files
            <4> QED
                BY <2>0, <3>4, <4>1 DEF Exchanged
        <3>5. CASE pc = "openSynthetic"
            <4>1. file'["mqtt"] = file["mqtt"] /\ file'["coap"] # "new"
                BY <2>0, <3>1, <3>2, <3>5 DEF Files
            <4> QED
                BY <2>0, <3>5, <4>1 DEF Exchanged
        <3> QED
            BY <3>1, <3>3, <3>4, <3>5
    <2>3. CASE file' = file
        BY <2>3
    <2>4. CASE Waits
        BY <2>1, <2>3, <2>4 DEF Waits, DialFails, RecvTimesOut, SocketRaises, BuildFails,
            AnswerTimesOut, CloseCoap, Summary, Die, BrokerTakes, BrokerCloses, Serve, Lose,
            vars, mainVars
    <2>5. CASE Dial \/ Build \/ Sends \/ Hears \/ Exchanges
        BY <2>3, <2>5, SendIs, HearsIs, ExchangesIs DEF Dial, Build, mainVars
    <2> QED
        BY <2>4, <2>5, AllSteps
<1> QED
    BY <1>1, Invariance, PTL DEF Spec, OnlyWholeExchangesAreSaved
=============================================================================
