------------------------ MODULE CapturesPacketsProofs ------------------------
(* Theorems about Captures, for every value of its constants: what the packets *)
(* it builds mean to the code that reads them back.                            *)
EXTENDS CapturesProofs

-----------------------------------------------------------------------------
(* What a packet carries, and where. *)

\* The bytes of s stand in pkt from place i on.
Carries(pkt, i, s) ==
    /\ i \in Nat \ {0} /\ i + Len(s) - 1 <= Len(pkt)
    /\ \A k \in 1..Len(s) : pkt[i + k - 1] = s[k]

\* A packet carries itself.
LEMMA CarriesWhole ==
    ASSUME NEW pkt \in Seq(Nat)
    PROVE  Carries(pkt, 1, pkt)
<1>1. Len(pkt) \in Nat
    BY LenProperties
<1>2. \A k \in 1..Len(pkt) : pkt[1 + k - 1] = pkt[k]
    <2> SUFFICES ASSUME NEW k \in 1..Len(pkt) PROVE pkt[1 + k - 1] = pkt[k]
        OBVIOUS
    <2>1. 1 + k - 1 = k
        BY <1>1
    <2> QED
        BY <2>1
<1> QED
    BY <1>1, <1>2 DEF Carries

\* It carries two parts one after the other.
LEMMA CarriesParts ==
    ASSUME NEW pkt, Len(pkt) \in Nat, NEW i, NEW s \in Seq(Nat), NEW t \in Seq(Nat),
           Carries(pkt, i, s \o t)
    PROVE  Carries(pkt, i, s) /\ Carries(pkt, i + Len(s), t)
<1> PICK u : u = s \o t
    OBVIOUS
<1>1. /\ Len(s) \in Nat /\ Len(t) \in Nat /\ Len(u) = Len(s) + Len(t)
      /\ \A k \in 1..(Len(s) + Len(t)) : u[k] = IF k <= Len(s) THEN s[k] ELSE t[k - Len(s)]
    BY LenProperties, ConcatProperties
<1>2. i \in Nat \ {0} /\ i + Len(u) - 1 <= Len(pkt) /\ \A k \in 1..Len(u) : pkt[i + k - 1] = u[k]
    BY DEF Carries
<1>3. ASSUME NEW k \in 1..Len(s) PROVE pkt[i + k - 1] = s[k]
    BY <1>1, <1>2
<1>4. ASSUME NEW k \in 1..Len(t) PROVE pkt[(i + Len(s)) + k - 1] = t[k]
    <2> PICK j : j = k + Len(s)
        OBVIOUS
    <2>1. /\ j \in 1..Len(u) /\ ~(j <= Len(s)) /\ j - Len(s) = k
          /\ (i + Len(s)) + k - 1 = i + j - 1
        BY <1>1, <1>2
    <2>2. pkt[i + j - 1] = u[j] /\ u[j] = t[j - Len(s)]
        BY <1>1, <1>2, <2>1
    <2> QED
        BY <2>1, <2>2
<1> QED
    BY <1>1, <1>2, <1>3, <1>4 DEF Carries

\* What a packet carries is read back by its place and length.
LEMMA CarriesRead ==
    ASSUME NEW pkt, Len(pkt) \in Nat, NEW i, NEW s \in Seq(Nat), Carries(pkt, i, s)
    PROVE  SubSeq(pkt, i, i + Len(s) - 1) = s
<1> PICK j : j = i + Len(s) - 1
    OBVIOUS
<1>1. i \in Nat /\ Len(s) \in Nat /\ j \in Int /\ j - i + 1 = Len(s)
    BY LenProperties DEF Carries
<1>2. ASSUME NEW k \in i..j PROVE pkt[k] \in Nat
    <2> PICK m : m = k - i + 1
        OBVIOUS
    <2>1. m \in 1..Len(s) /\ i + m - 1 = k
        BY <1>1
    <2>2. pkt[k] = s[m]
        BY <2>1 DEF Carries
    <2> QED
        BY <2>1, <2>2, ElementOfSeq
<1>3. /\ SubSeq(pkt, i, j) \in Seq(Nat)
      /\ Len(SubSeq(pkt, i, j)) = IF i <= j THEN j - i + 1 ELSE 0
      /\ \A k \in 1..(j - i + 1) : SubSeq(pkt, i, j)[k] = pkt[i + k - 1]
    BY <1>1, <1>2, SubSeqProperties
<1>4. Len(SubSeq(pkt, i, j)) = Len(s)
    BY <1>1, <1>3
<1>5. \A k \in 1..Len(s) : SubSeq(pkt, i, j)[k] = s[k]
    BY <1>1, <1>3 DEF Carries
<1>6. SubSeq(pkt, i, j) = s
    <2> PICK u : u = SubSeq(pkt, i, j)
        OBVIOUS
    <2>1. u \in Seq(Nat) /\ Len(u) = Len(s) /\ \A k \in 1..Len(u) : u[k] = s[k]
        BY <1>3, <1>4, <1>5
    <2> QED
        BY <2>1, SeqEqual
<1> QED
    BY <1>6

\* The numbers of two bytes that the packets need.
LEMMA ShortAre == (\A n \in Short : n \in Nat) /\ 4 \in Short /\ 60 \in Short /\ 258 \in Short
BY SMTT(30) DEF Short

\* A number of two bytes is read back.
LEMMA U16Read ==
    ASSUME NEW pkt, NEW i, NEW n \in Short, Carries(pkt, i, U16(n))
    PROVE  U16At(pkt, i) = n
<1>1. pkt[i] = n \div 256 /\ pkt[i + 1] = n % 256
    <2>1. Len(U16(n)) = 2 /\ U16(n)[1] = n \div 256 /\ U16(n)[2] = n % 256
        BY DEF U16
    <2>2. i + 1 - 1 = i /\ i + 2 - 1 = i + 1
        BY DEF Carries
    <2> QED
        BY <2>1, <2>2 DEF Carries
<1> QED
    BY <1>1 DEF U16At, Short

-----------------------------------------------------------------------------
(* The varints of MQTT. *)

\* The bits of the bytes that are put together and taken apart.
LEMMA Octets ==
    /\ \A r \in 0..127 : BitOr(r, 128) = r + 128 /\ BitAnd(r, 127) = r /\ BitAnd(r + 128, 127) = r
    /\ \A d \in 0..12, l \in 0..15 : BitOr(16 * d, l) = 16 * d + l
BY DEF BitOr, BitAnd, ByteOf, Bit, Weights

\* The bytes of a varint: each but the last is marked.
LEMMA VarintBytes ==
    ASSUME NEW n \in Nat
    PROVE  /\ Varint(n) \in Seq(Nat) /\ Len(Varint(n)) \in Nat \ {0}
           /\ n < 128 => Varint(n) = <<n>>
           /\ n >= 128 => Varint(n) = <<(n % 128) + 128>> \o Varint(n \div 128)
<1>0. ASSUME NEW k \in Nat
      PROVE  /\ k < 128 => Varint(k) = <<k>>
             /\ k >= 128 => Varint(k) = <<(k % 128) + 128>> \o Varint(k \div 128)
    <2>1. k % 128 \in 0..127
        OBVIOUS
    <2>2. BitOr(k % 128, 128) = (k % 128) + 128
        BY <2>1, Octets
    <2>3. Varint(k) = Marked(k, Varint(k \div 128))
        BY VarintStep
    <2> QED
        BY <2>2, <2>3 DEF Marked
<1> PICK T : T = {k \in Nat : Varint(k) \in Seq(Nat) /\ Len(Varint(k)) \in Nat \ {0}}
    OBVIOUS
<1>1. ASSUME NEW k \in Nat, \A j \in 0..(k - 1) : j \in T
      PROVE  Varint(k) \in Seq(Nat) /\ Len(Varint(k)) \in Nat \ {0}
    <2>1. CASE k < 128
        <3>1. <<k>> \in Seq(Nat) /\ Len(<<k>>) = 1
            OBVIOUS
        <3>2. Varint(k) = <<k>>
            BY <1>0, <2>1
        <3> QED
            BY <3>1, <3>2
    <2>2. CASE k >= 128
        <3> PICK h : h = k \div 128
            OBVIOUS
        <3> PICK v : v = Varint(h)
            OBVIOUS
        <3>1. h \in 0..(k - 1)
            BY <2>2, Divided
        <3>2. v \in Seq(Nat) /\ Len(v) \in Nat \ {0}
            BY <1>1, <3>1
        <3>3. <<(k % 128) + 128>> \in Seq(Nat) /\ Len(<<(k % 128) + 128>>) = 1
            OBVIOUS
        <3>4. Varint(k) = <<(k % 128) + 128>> \o v
            BY <1>0, <2>2
        <3>5. <<(k % 128) + 128>> \o v \in Seq(Nat) /\ Len(<<(k % 128) + 128>> \o v) = 1 + Len(v)
            BY <3>2, <3>3, ConcatProperties
        <3> QED
            BY <3>2, <3>4, <3>5
    <2> QED
        BY <2>1, <2>2
<1>2. T = Nat
    BY <1>1, CourseOfValues
<1>3. n \in T
    BY <1>2
<1>4. Varint(n) \in Seq(Nat) /\ Len(Varint(n)) \in Nat \ {0}
    BY <1>3
<1>5. /\ n < 128 => Varint(n) = <<n>>
      /\ n >= 128 => Varint(n) = <<(n % 128) + 128>> \o Varint(n \div 128)
    BY <1>0
<1> QED
    BY <1>4, <1>5

\* j is the place of the last byte of the varint that begins at byte i.
Ends(pkt, i, j) == j \in i..Len(pkt) /\ pkt[j] < 128 /\ \A k \in i..(j - 1) : pkt[k] >= 128

\* r[j] is the value of the bytes from j to last.
Values(pkt, i, last, r) ==
    r = [j \in i..last |-> BitAnd(pkt[j], 127) + IF j = last THEN 0 ELSE 128 * r[j + 1]]

\* The bytes from i to j are those of a varint that stands for n.
StandsFor(pkt, i, j, n) ==
    /\ Ends(pkt, i, j) /\ \E r : Values(pkt, i, j, r)
    /\ \A r : Values(pkt, i, j, r) => r[i] = n

\* A byte that is not marked stands for itself.
LEMMA LastByteStands ==
    ASSUME NEW pkt, NEW i \in Nat, i <= Len(pkt), Len(pkt) \in Nat, NEW n \in 0..127, pkt[i] = n
    PROVE  StandsFor(pkt, i, i, n)
<1>1. Ends(pkt, i, i)
    BY DEF Ends
<1>2. BitAnd(pkt[i], 127) = n
    BY Octets
<1>3. \E r : Values(pkt, i, i, r)
    <2> PICK r : r = [j \in i..i |-> n]
        OBVIOUS
    <2>1. \A j \in i..i : n = BitAnd(pkt[j], 127) + IF j = i THEN 0 ELSE 128 * r[j + 1]
        BY <1>2
    <2>2. Values(pkt, i, i, r)
        BY <2>1 DEF Values
    <2> QED
        BY <2>2
<1>4. ASSUME NEW r, Values(pkt, i, i, r) PROVE r[i] = n
    <2>1. i \in i..i
        OBVIOUS
    <2>2. r[i] = BitAnd(pkt[i], 127) + IF i = i THEN 0 ELSE 128 * r[i + 1]
        BY <1>4, <2>1 DEF Values
    <2> QED
        BY <1>2, <2>2
<1> QED
    BY <1>1, <1>3, <1>4 DEF StandsFor

\* A marked byte stands for the low digit of what follows.
LEMMA MarkedByteStands ==
    ASSUME NEW pkt, NEW i \in Nat, NEW j, Len(pkt) \in Nat, NEW h \in Nat, NEW low \in 0..127,
           pkt[i] = low + 128, StandsFor(pkt, i + 1, j, h)
    PROVE  StandsFor(pkt, i, j, 128 * h + low)
<1>1. /\ j \in (i + 1)..Len(pkt) /\ pkt[j] < 128
      /\ \A k \in (i + 1)..(j - 1) : pkt[k] >= 128
    BY DEF StandsFor, Ends
<1>2. BitAnd(pkt[i], 127) = low
    BY Octets
<1>3. Ends(pkt, i, j)
    BY <1>1 DEF Ends
<1>4. \E r : Values(pkt, i, j, r)
    <2>1. PICK q : Values(pkt, i + 1, j, q)
        BY DEF StandsFor
    <2> PICK r : r = [k \in i..j |-> IF k = i THEN low + 128 * h ELSE q[k]]
        OBVIOUS
    <2>2. q[i + 1] = h
        BY <2>1 DEF StandsFor
    <2>3. ASSUME NEW k \in i..j
          PROVE  r[k] = BitAnd(pkt[k], 127) + IF k = j THEN 0 ELSE 128 * r[k + 1]
        <3>1. CASE k = i
            <4>1. r[k] = low + 128 * h /\ k # j /\ r[k + 1] = q[i + 1]
                BY <1>1, <3>1
            <4> QED
                BY <1>2, <2>2, <3>1, <4>1
        <3>2. CASE k # i
            <4>1. k \in (i + 1)..j /\ (k # j => k + 1 \in (i + 1)..j /\ k + 1 \in i..j /\ k + 1 # i)
                BY <1>1, <3>2
            <4>2. q[k] = BitAnd(pkt[k], 127) + IF k = j THEN 0 ELSE 128 * q[k + 1]
                BY <2>1, <4>1 DEF Values
            <4>3. r[k] = q[k] /\ (k # j => r[k + 1] = q[k + 1])
                BY <3>2, <4>1
            <4> QED
                BY <4>2, <4>3
        <3> QED
            BY <3>1, <3>2
    <2>4. Values(pkt, i, j, r)
        BY <2>3 DEF Values
    <2> QED
        BY <2>4
<1>5. ASSUME NEW r, Values(pkt, i, j, r) PROVE r[i] = 128 * h + low
    <2> PICK q : q = [k \in (i + 1)..j |-> r[k]]
        OBVIOUS
    <2>1. ASSUME NEW k \in (i + 1)..j
          PROVE  q[k] = BitAnd(pkt[k], 127) + IF k = j THEN 0 ELSE 128 * q[k + 1]
        <3>1. k \in i..j /\ (k # j => k + 1 \in (i + 1)..j)
            BY <1>1
        <3>2. r[k] = BitAnd(pkt[k], 127) + IF k = j THEN 0 ELSE 128 * r[k + 1]
            BY <1>5, <3>1 DEF Values
        <3> QED
            BY <3>1, <3>2
    <2>2. Values(pkt, i + 1, j, q)
        BY <2>1 DEF Values
    <2>3. q[i + 1] = h
        BY <2>2 DEF StandsFor
    <2>4. i \in i..j /\ i # j /\ r[i + 1] = q[i + 1]
        BY <1>1
    <2>5. r[i] = BitAnd(pkt[i], 127) + 128 * r[i + 1]
        BY <1>5, <2>4 DEF Values
    <2> QED
        BY <1>2, <2>3, <2>4, <2>5
<1> QED
    BY <1>3, <1>4, <1>5 DEF StandsFor

\* A number is read back from its bytes, wherever they stand.
LEMMA VarintStands ==
    ASSUME NEW pkt, Len(pkt) \in Nat, NEW n \in Nat
    PROVE  \A i : Carries(pkt, i, Varint(n)) => StandsFor(pkt, i, i + Len(Varint(n)) - 1, n)
<1> DEFINE Right(m) ==
        \A i : Carries(pkt, i, Varint(m)) => StandsFor(pkt, i, i + Len(Varint(m)) - 1, m)
<1> HIDE DEF Right
<1> PICK T : T = {m \in Nat : Right(m)}
    OBVIOUS
<1>1. ASSUME NEW m \in Nat, \A k \in 0..(m - 1) : k \in T PROVE Right(m)
    <2> SUFFICES ASSUME NEW i, Carries(pkt, i, Varint(m))
                 PROVE  StandsFor(pkt, i, i + Len(Varint(m)) - 1, m)
        BY DEF Right
    <2>0. i \in Nat \ {0}
        BY DEF Carries
    <2>1. CASE m < 128
        <3>1. Varint(m) = <<m>> /\ Len(<<m>>) = 1 /\ <<m>>[1] = m
            BY <2>1, VarintBytes
        <3>2. pkt[i] = m /\ i <= Len(pkt) /\ i + Len(Varint(m)) - 1 = i
            <4>1. i + 1 - 1 = i /\ 1 \in 1..1
                BY <2>0
            <4> QED
                BY <3>1, <4>1 DEF Carries
        <3>3. m \in 0..127
            BY <2>1
        <3>4. StandsFor(pkt, i, i, m)
            BY <2>0, <3>2, <3>3, LastByteStands
        <3> QED
            BY <3>2, <3>4
    <2>2. CASE m >= 128
        <3>1. PICK h \in Nat, low \in 0..127 :
                  h \in 0..(m - 1) /\ h = m \div 128 /\ low = m % 128
            BY <2>2
        <3>2. m = 128 * h + low
            BY <3>1
        <3>3. PICK v \in Seq(Nat) : v = Varint(h)
            BY VarintBytes
        <3>4. PICK one \in Seq(Nat) :
                  Varint(m) = one \o v /\ Len(one) = 1 /\ one[1] = low + 128
            <4>1. PICK b \in Nat : b = low + 128
                OBVIOUS
            <4>2. Varint(m) = <<b>> \o v
                BY <2>2, <3>1, <3>3, <4>1, VarintBytes
            <4>3. <<b>> \in Seq(Nat) /\ Len(<<b>>) = 1 /\ <<b>>[1] = b
                OBVIOUS
            <4> QED
                BY <4>1, <4>2, <4>3
        <3>5. Carries(pkt, i, one) /\ Carries(pkt, i + 1, v)
            <4>1. Carries(pkt, i, one \o v)
                BY <3>4
            <4>2. Carries(pkt, i, one) /\ Carries(pkt, i + Len(one), v)
                BY <4>1, CarriesParts
            <4> QED
                BY <3>4, <4>2
        <3>6. pkt[i] = low + 128
            <4>1. i + 1 - 1 = i /\ 1 \in 1..Len(one)
                BY <2>0, <3>4
            <4> QED
                BY <3>4, <3>5, <4>1 DEF Carries
        <3>7. PICK j : j = i + Len(Varint(m)) - 1
            OBVIOUS
        <3>8. (i + 1) + Len(v) - 1 = j
            <4>1. Len(one \o v) = Len(one) + Len(v) /\ Len(v) \in Nat
                BY ConcatProperties, LenProperties
            <4> QED
                BY <2>0, <3>4, <3>7, <4>1
        <3>9. StandsFor(pkt, i + 1, j, h)
            <4>1. Right(h)
                BY <1>1, <3>1
            <4> QED
                BY <3>3, <3>5, <3>8, <4>1 DEF Right
        <3>10. StandsFor(pkt, i, j, 128 * h + low)
            BY <2>0, <3>6, <3>9, MarkedByteStands
        <3> QED
            BY <3>2, <3>7, <3>10
    <2> QED
        BY <2>1, <2>2
<1>2. T = Nat
    BY <1>1, CourseOfValues
<1>3. n \in T
    BY <1>2
<1> QED
    BY <1>3 DEF Right

\* VarintAt finds the number and the next field.
LEMMA VarintRead ==
    ASSUME NEW pkt \in Seq(Nat), NEW n \in Nat, NEW i, Carries(pkt, i, Varint(n))
    PROVE  VarintAt(pkt, i) = [value |-> n, next |-> i + Len(Varint(n))]
<1> PICK j : j = i + Len(Varint(n)) - 1
    OBVIOUS
<1>0. /\ i \in Nat \ {0} /\ Len(Varint(n)) \in Nat /\ j + 1 = i + Len(Varint(n))
      /\ Len(pkt) \in Nat /\ \A k \in 1..Len(pkt) : pkt[k] \in Nat
    BY VarintBytes, LenProperties DEF Carries
<1>1. StandsFor(pkt, i, j, n)
    BY VarintStands
<1>2. ASSUME NEW k, Ends(pkt, i, k) PROVE k = j
    <2>1. k \in 1..Len(pkt) /\ j \in 1..Len(pkt) /\ i \in 1..k /\ i \in 1..j
        BY <1>0, <1>1, <1>2 DEF StandsFor, Ends
    <2>2. k < j => pkt[k] >= 128
        BY <1>0, <1>1, <2>1 DEF StandsFor, Ends
    <2>3. j < k => pkt[j] >= 128
        BY <1>0, <1>2, <2>1 DEF Ends
    <2>4. pkt[k] < 128 /\ pkt[j] < 128
        BY <1>1, <1>2 DEF StandsFor, Ends
    <2>5. pkt[k] \in Nat /\ pkt[j] \in Nat /\ k \in Nat /\ j \in Nat
        BY <1>0, <2>1
    <2>6. ~(k < j) /\ ~(j < k)
        BY <2>2, <2>3, <2>4, <2>5
    <2> QED
        BY <2>5, <2>6
<1> PICK last : last = CHOOSE k \in i..Len(pkt) :
                          pkt[k] < 128 /\ \A m \in i..(k - 1) : pkt[m] >= 128
    OBVIOUS
<1>3. last = j
    <2>1. Ends(pkt, i, j)
        BY <1>1 DEF StandsFor
    <2>2. Ends(pkt, i, last)
        BY <2>1 DEF Ends
    <2> QED
        BY <1>2, <2>2
<1> PICK rem : rem = CHOOSE r : Values(pkt, i, last, r)
    OBVIOUS
<1>4. Values(pkt, i, last, rem)
    BY <1>1, <1>3 DEF StandsFor
<1>5. rem[i] = n
    BY <1>1, <1>3, <1>4 DEF StandsFor
<1>6. VarintAt(pkt, i) = [value |-> rem[i], next |-> last + 1]
    BY DEF VarintAt, Values
<1> QED
    BY <1>0, <1>3, <1>5, <1>6

\* A byte for each digit to the base of 128.
LEMMA VarintLength ==
    ASSUME NEW n \in Nat
    PROVE  /\ n < 128 => Len(Varint(n)) = 1
           /\ n >= 128 => Len(Varint(n)) = 1 + Len(Varint(n \div 128))
<1>1. CASE n < 128
    <2>1. Varint(n) = <<n>>
        BY <1>1, VarintBytes
    <2> QED
        BY <1>1, <2>1
<1>2. CASE n >= 128
    <2>1. PICK b \in Nat : b = (n % 128) + 128
        OBVIOUS
    <2>2. PICK h \in Nat : h = n \div 128
        BY <1>2
    <2>3. Varint(n) = <<b>> \o Varint(h) /\ Varint(h) \in Seq(Nat)
        BY <1>2, <2>1, <2>2, VarintBytes
    <2>4. <<b>> \in Seq(Nat) /\ Len(<<b>>) = 1
        OBVIOUS
    <2>5. Len(<<b>> \o Varint(h)) = Len(<<b>>) + Len(Varint(h))
        BY <2>3, <2>4, ConcatProperties
    <2> QED
        BY <1>2, <2>2, <2>3, <2>4, <2>5
<1> QED
    BY <1>1, <1>2

\* A remaining length that MQTT allows takes at most four bytes.
LEMMA FourBytes == \A n \in Nat : n <= MaxRemaining => Len(Varint(n)) <= 4
<1>1. ASSUME NEW n \in Nat, n < 16384 PROVE Len(Varint(n)) <= 2
    <2>1. CASE n < 128
        <3>1. Len(Varint(n)) = 1
            BY <2>1, VarintLength
        <3> QED
            BY <3>1
    <2>2. CASE n >= 128
        <3>1. n \div 128 \in Nat /\ n \div 128 < 128
            BY <1>1, <2>2
        <3>2. Len(Varint(n \div 128)) = 1
            BY <3>1, VarintLength
        <3>3. Len(Varint(n)) = 1 + 1
            BY <2>2, <3>2, VarintLength
        <3> QED
            BY <3>3
    <2> QED
        BY <2>1, <2>2
<1>2. ASSUME NEW n \in Nat, n < 2097152 PROVE Len(Varint(n)) <= 3
    <2>1. n \div 128 \in Nat /\ n \div 128 < 16384
        BY <1>2
    <2>2. Len(Varint(n \div 128)) <= 2 /\ Len(Varint(n \div 128)) \in Nat
        BY <1>1, <2>1, VarintBytes
    <2> QED
        BY <2>2, VarintLength
<1>3. ASSUME NEW n \in Nat, n <= MaxRemaining PROVE Len(Varint(n)) <= 4
    <2>1. n \div 128 \in Nat /\ n \div 128 < 2097152
        BY <1>3 DEF MaxRemaining
    <2>2. Len(Varint(n \div 128)) <= 3 /\ Len(Varint(n \div 128)) \in Nat
        BY <1>2, <2>1, VarintBytes
    <2> QED
        BY <2>2, VarintLength
<1> QED
    BY <1>3

\* No byte is wasted: the last one carries a digit, except that of 0.
LEMMA NoByteWasted == \A n \in Nat : n > 0 => Last(Varint(n)) # 0
<1> PICK T : T = {n \in Nat : n > 0 => Last(Varint(n)) # 0}
    OBVIOUS
<1>1. ASSUME NEW n \in Nat, \A k \in 0..(n - 1) : k \in T, n > 0 PROVE Last(Varint(n)) # 0
    <2>1. CASE n < 128
        <3>1. Varint(n) = <<n>>
            BY <2>1, VarintBytes
        <3> QED
            BY <1>1, <3>1 DEF Last
    <2>2. CASE n >= 128
        <3>1. PICK h \in Nat : h = n \div 128 /\ h \in 0..(n - 1) /\ h > 0
            BY <2>2
        <3>2. PICK b \in Nat : b = (n % 128) + 128
            OBVIOUS
        <3>3. PICK v \in Seq(Nat) : v = Varint(h) /\ Len(v) \in Nat \ {0}
            BY VarintBytes
        <3>4. Varint(n) = <<b>> \o v
            BY <2>2, <3>1, <3>2, <3>3, VarintBytes
        <3>5. <<b>> \in Seq(Nat) /\ Len(<<b>>) = 1
            OBVIOUS
        <3>6. /\ Len(<<b>> \o v) = 1 + Len(v)
              /\ \A i \in 1..(1 + Len(v)) :
                    (<<b>> \o v)[i] = IF i <= 1 THEN <<b>>[i] ELSE v[i - 1]
            BY <3>5, ConcatProperties
        <3>7. (<<b>> \o v)[1 + Len(v)] = v[Len(v)]
            BY <3>3, <3>6
        <3>8. v[Len(v)] # 0
            BY <1>1, <3>1, <3>3 DEF Last
        <3> QED
            BY <3>4, <3>6, <3>7, <3>8 DEF Last
    <2> QED
        BY <2>1, <2>2
<1>2. T = Nat
    BY <1>1, CourseOfValues
<1> QED
    BY <1>2

-----------------------------------------------------------------------------
(* The fields of a packet, each after its length. *)

\* Bytes after bytes.
LEMMA BytesJoined ==
    \A s, t \in Seq(Nat) : s \o t \in Seq(Nat) /\ Len(s \o t) = Len(s) + Len(t) /\ Len(s) \in Nat
BY ConcatProperties, LenProperties

\* A text is as long as it is said to be.
LEMMA TextBytes == \A n \in Nat : Text(n) \in Seq(Nat) /\ Len(Text(n)) = n
BY DEF Text

\* A number of two bytes.
LEMMA U16Bytes == \A n \in Nat : U16(n) \in Seq(Nat) /\ Len(U16(n)) = 2
<1> SUFFICES ASSUME NEW n \in Nat PROVE U16(n) \in Seq(Nat) /\ Len(U16(n)) = 2
    OBVIOUS
<1>1. n \div 256 \in Nat /\ n % 256 \in Nat
    OBVIOUS
<1> QED
    BY <1>1 DEF U16

\* A field and its length.
LEMMA SizedBytes == \A s \in Seq(Nat) : Sized(s) \in Seq(Nat) /\ Len(Sized(s)) = 2 + Len(s)
<1> SUFFICES ASSUME NEW s \in Seq(Nat) PROVE Sized(s) \in Seq(Nat) /\ Len(Sized(s)) = 2 + Len(s)
    OBVIOUS
<1>1. Len(s) \in Nat
    BY LenProperties
<1>2. PICK u \in Seq(Nat) : u = U16(Len(s)) /\ Len(u) = 2
    BY <1>1, U16Bytes
<1>3. u \o s \in Seq(Nat) /\ Len(u \o s) = Len(u) + Len(s)
    BY BytesJoined
<1> QED
    BY <1>2, <1>3 DEF Sized

\* A field is read back by its length.
LEMMA SizedRead ==
    ASSUME NEW pkt, Len(pkt) \in Nat, NEW i, NEW s \in Seq(Nat), Len(s) \in Short,
           Carries(pkt, i, Sized(s))
    PROVE  /\ U16At(pkt, i) = Len(s)
           /\ \A e \in Int : e + 1 = i + 2 + Len(s) => SubSeq(pkt, i + 2, e) = s
<1>1. Len(s) \in Nat
    BY LenProperties
<1>2. PICK u \in Seq(Nat) : u = U16(Len(s)) /\ Len(u) = 2
    BY <1>1, U16Bytes
<1>3. Carries(pkt, i, u \o s)
    BY <1>2 DEF Sized
<1>4. Carries(pkt, i, u) /\ Carries(pkt, i + Len(u), s)
    BY <1>3, CarriesParts
<1>5. U16At(pkt, i) = Len(s)
    <2>1. Carries(pkt, i, U16(Len(s)))
        BY <1>2, <1>4
    <2> QED
        BY <2>1, U16Read
<1>6. Carries(pkt, i + 2, s)
    <2>1. i + Len(u) = i + 2
        BY <1>2
    <2> QED
        BY <1>4, <2>1
<1>7. SubSeq(pkt, i + 2, (i + 2) + Len(s) - 1) = s
    BY <1>6, CarriesRead
<1>8. ASSUME NEW e \in Int, e + 1 = i + 2 + Len(s) PROVE SubSeq(pkt, i + 2, e) = s
    <2>1. i \in Nat
        BY DEF Carries
    <2>2. e = (i + 2) + Len(s) - 1
        BY <1>1, <1>8, <2>1
    <2> QED
        BY <1>7, <2>2
<1> QED
    BY <1>5, <1>8

\* pkt is a packet of a type and a body; the body begins at byte i.
Framed(pkt, type, body, i) ==
    /\ pkt \in Seq(Nat) /\ Len(pkt) \in Nat /\ pkt[1] = type /\ i \in Nat
    /\ VarintAt(pkt, 2).value = Len(body) /\ VarintAt(pkt, 2).next = i
    /\ Carries(pkt, i, body) /\ Len(body) = Len(pkt) - 1 - Len(Varint(Len(body)))

\* Whatever the body, its length says where it ends.
LEMMA WithLengthRead ==
    ASSUME NEW type \in Nat, NEW body \in Seq(Nat), NEW pkt
    PROVE  pkt = WithLength(type, body) => \E i : Framed(pkt, type, body, i)
<1>0. HAVE pkt = WithLength(type, body)
<1>1. Len(body) \in Nat
    BY LenProperties
<1>2. PICK v \in Seq(Nat) : v = Varint(Len(body)) /\ Len(v) \in Nat \ {0}
    BY <1>1, VarintBytes
<1>3. PICK one \in Seq(Nat) : one = <<type>> /\ Len(one) = 1 /\ one[1] = type
    <2>1. <<type>> \in Seq(Nat) /\ Len(<<type>>) = 1 /\ <<type>>[1] = type
        OBVIOUS
    <2> QED
        BY <2>1
<1>4. pkt = (one \o v) \o body
    BY <1>0, <1>2, <1>3 DEF WithLength
<1>5. one \o v \in Seq(Nat) /\ Len(one \o v) = 1 + Len(v)
    BY <1>3, BytesJoined
<1>6. pkt \in Seq(Nat) /\ Len(pkt) = 1 + Len(v) + Len(body) /\ Len(pkt) \in Nat
    BY <1>1, <1>2, <1>4, <1>5, BytesJoined
<1>7. Carries(pkt, 1, (one \o v) \o body)
    BY <1>4, <1>6, CarriesWhole
<1>8. Carries(pkt, 1, one \o v) /\ Carries(pkt, 1 + Len(one \o v), body)
    BY <1>5, <1>6, <1>7, CarriesParts
<1>9. Carries(pkt, 1, one) /\ Carries(pkt, 1 + Len(one), v)
    BY <1>6, <1>8, CarriesParts
<1>10. Carries(pkt, 2, v) /\ Carries(pkt, 2 + Len(v), body)
    <2>1. 1 + Len(one) = 2 /\ 1 + Len(one \o v) = 2 + Len(v)
        BY <1>2, <1>3, <1>5
    <2> QED
        BY <1>8, <1>9, <2>1
<1>11. pkt[1] = type
    <2>1. 1 \in 1..Len(one) /\ 1 + 1 - 1 = 1
        BY <1>3
    <2>2. pkt[1 + 1 - 1] = one[1]
        BY <1>9, <2>1 DEF Carries
    <2> QED
        BY <1>3, <2>1, <2>2
<1>12. VarintAt(pkt, 2) = [value |-> Len(body), next |-> 2 + Len(v)]
    BY <1>1, <1>2, <1>6, <1>10, VarintRead
<1>13. VarintAt(pkt, 2).value = Len(body) /\ VarintAt(pkt, 2).next = 2 + Len(v)
    BY <1>12
<1>14. 2 + Len(v) \in Nat /\ Len(body) = Len(pkt) - 1 - Len(v)
    BY <1>1, <1>2, <1>6
<1>15. Framed(pkt, type, body, 2 + Len(v))
    BY <1>2, <1>6, <1>10, <1>11, <1>13, <1>14 DEF Framed
<1> QED
    BY <1>15

\* The first byte of PUBLISH, and what its reader makes of its bits.
LEMMA PublishByte ==
    \A q \in 0..2, r \in BOOLEAN :
        LET b == BitOr(48, BitOr(2 * q, IF r THEN 1 ELSE 0))
        IN  b = 48 + 2 * q + (IF r THEN 1 ELSE 0) /\ BitAnd(b \div 2, 3) = q
<1> SUFFICES ASSUME NEW q \in 0..2, NEW r \in BOOLEAN
             PROVE  LET b == BitOr(48, BitOr(2 * q, IF r THEN 1 ELSE 0))
                    IN  b = 48 + 2 * q + (IF r THEN 1 ELSE 0) /\ BitAnd(b \div 2, 3) = q
    OBVIOUS
<1>1. /\ BitOr(0, 0) = 0 /\ BitOr(0, 1) = 1 /\ BitOr(2, 0) = 2 /\ BitOr(2, 1) = 3
      /\ BitOr(4, 0) = 4 /\ BitOr(4, 1) = 5
    BY DEF BitOr, ByteOf, Bit, Weights
<1>2. /\ BitOr(48, 0) = 48 /\ BitOr(48, 1) = 49 /\ BitOr(48, 2) = 50 /\ BitOr(48, 3) = 51
      /\ BitOr(48, 4) = 52 /\ BitOr(48, 5) = 53
    BY DEF BitOr, ByteOf, Bit, Weights
<1>3. BitAnd(24, 3) = 0 /\ BitAnd(25, 3) = 1 /\ BitAnd(26, 3) = 2
    BY DEF BitAnd, ByteOf, Bit, Weights
<1>4. /\ 48 \div 2 = 24 /\ 49 \div 2 = 24 /\ 50 \div 2 = 25 /\ 51 \div 2 = 25
      /\ 52 \div 2 = 26 /\ 53 \div 2 = 26
    OBVIOUS
<1>5. CASE r = TRUE
    BY <1>1, <1>2, <1>3, <1>4, <1>5
<1>6. CASE r = FALSE
    BY <1>1, <1>2, <1>3, <1>4, <1>6
<1> QED
    BY <1>5, <1>6

\* ann names what pkt was built from.
PublishAsBuilt(pkt, ann, t, q, r) ==
    /\ ann.topic = Text(t) /\ ann.packetId = IF q = 0 THEN 0 ELSE 258
    /\ ann.remaining = Len(pkt) - 1 - Len(Varint(ann.remaining))
    /\ ann.fixed = 48 + 2 * q + (IF r THEN 1 ELSE 0)

\* The annotations of PUBLISH name the fields it was built from.
LEMMA PublishRead ==
    ASSUME NEW t \in Short, NEW n \in Nat, NEW q \in 0..2, NEW r \in BOOLEAN,
           NEW pkt, NEW ann
    PROVE  pkt = MqttPublish(Text(t), Text(n), q, 258, r) /\ ann = AnnotatePublish(pkt) =>
           PublishAsBuilt(pkt, ann, t, q, r)
<1>1. PICK b \in Nat : /\ b = BitOr(48, BitOr(2 * q, IF r THEN 1 ELSE 0))
                       /\ b = 48 + 2 * q + (IF r THEN 1 ELSE 0) /\ BitAnd(b \div 2, 3) = q
    <2>1. 48 + 2 * q + (IF r THEN 1 ELSE 0) \in Nat
        OBVIOUS
    <2> QED
        BY <2>1, PublishByte
<1>a. SUFFICES ASSUME pkt = MqttPublish(Text(t), Text(n), q, 258, r), ann = AnnotatePublish(pkt)
               PROVE  /\ ann.topic = Text(t) /\ ann.packetId = IF q = 0 THEN 0 ELSE 258
                      /\ ann.remaining = Len(pkt) - 1 - Len(Varint(ann.remaining))
                      /\ ann.fixed = 48 + 2 * q + (IF r THEN 1 ELSE 0)
    BY DEF PublishAsBuilt
<1>0. t \in Nat
    BY ShortAre
<1>2. PICK topic \in Seq(Nat) : topic = Text(t) /\ Len(topic) = t
    BY <1>0, TextBytes
<1>3. PICK payload \in Seq(Nat) : payload = Text(n)
    BY TextBytes
<1>4. PICK field \in Seq(Nat) : field = Sized(topic) /\ Len(field) = 2 + t
    BY <1>2, SizedBytes
<1>5. PICK id \in Seq(Nat) : id = (IF q > 0 THEN U16(258) ELSE <<>>)
    <2>1. U16(258) \in Seq(Nat) /\ <<>> \in Seq(Nat)
        BY U16Bytes
    <2>2. (IF q > 0 THEN U16(258) ELSE <<>>) \in Seq(Nat)
        BY <2>1
    <2> QED
        BY <2>2, Zenon
<1>6. field \o id \in Seq(Nat) /\ (field \o id) \o payload \in Seq(Nat)
    BY BytesJoined
<1>7. PICK body \in Seq(Nat) : body = (field \o id) \o payload
    BY <1>6, Zenon
<1>8. pkt = WithLength(b, body)
    BY <1>1, <1>2, <1>3, <1>4, <1>5, <1>7, <1>a DEF MqttPublish
<1>9. PICK i : Framed(pkt, b, body, i)
    BY <1>8, WithLengthRead
<1>10. Len(pkt) \in Nat /\ i \in Nat /\ VarintAt(pkt, 2).next = i
    BY <1>9 DEF Framed
<1>11. Carries(pkt, i, field) /\ Carries(pkt, i + Len(field), id)
    <2>1. Carries(pkt, i, (field \o id) \o payload)
        BY <1>7, <1>9 DEF Framed
    <2>2. Carries(pkt, i, field \o id)
        BY <1>6, <1>10, <2>1, CarriesParts
    <2> QED
        BY <1>10, <2>2, CarriesParts
<1>12. U16At(pkt, i) = t /\ SubSeq(pkt, i + 2, (i + 2 + t) - 1) = topic
    <2>1. PICK e \in Int : e = (i + 2 + t) - 1 /\ e + 1 = i + 2 + t
        BY <1>0, <1>10
    <2>2. Carries(pkt, i, Sized(topic)) /\ Len(topic) \in Short
        BY <1>2, <1>4, <1>11
    <2>3. e + 1 = i + 2 + Len(topic)
        BY <1>2, <2>1
    <2>4. U16At(pkt, i) = Len(topic) /\ SubSeq(pkt, i + 2, e) = topic
        BY <1>10, <2>2, <2>3, SizedRead, ZenonT(60)
    <2> QED
        BY <1>2, <2>1, <2>4
<1>13. q > 0 => U16At(pkt, i + 2 + t) = 258
    <2>1. i + Len(field) = i + 2 + t
        BY <1>0, <1>4, <1>10
    <2>2. q > 0 => Carries(pkt, i + 2 + t, U16(258))
        BY <1>5, <1>11, <2>1
    <2> QED
        BY <2>2, U16Read, ShortAre
<1>14. /\ ann.remaining = VarintAt(pkt, 2).value /\ ann.fixed = pkt[1]
       /\ ann.topic = SubSeq(pkt, i + 2, (i + 2 + U16At(pkt, i)) - 1)
       /\ ann.packetId =
            IF BitAnd(pkt[1] \div 2, 3) > 0 THEN U16At(pkt, i + 2 + U16At(pkt, i)) ELSE 0
    <2>1. ann = AnnotatePublish(pkt) /\ VarintAt(pkt, 2).next = i
        BY <1>a, <1>10
    <2>2. ann.remaining = VarintAt(pkt, 2).value /\ ann.fixed = pkt[1]
        BY <2>1 DEF AnnotatePublish
    <2>3. ann.topic = SubSeq(pkt, i + 2, (i + 2 + U16At(pkt, i)) - 1)
        BY <2>1 DEF AnnotatePublish
    <2>4. ann.packetId =
            IF BitAnd(pkt[1] \div 2, 3) > 0 THEN U16At(pkt, i + 2 + U16At(pkt, i)) ELSE 0
        BY <2>1 DEF AnnotatePublish
    <2> QED
        BY <2>2, <2>3, <2>4
<1>15. ann.topic = Text(t)
    BY <1>2, <1>12, <1>14
<1>16. ann.packetId = IF q = 0 THEN 0 ELSE 258
    <2>1. BitAnd(pkt[1] \div 2, 3) = q
        BY <1>1, <1>9 DEF Framed
    <2> QED
        BY <1>12, <1>13, <1>14, <2>1
<1>17. ann.remaining = Len(pkt) - 1 - Len(Varint(ann.remaining)) /\ ann.fixed = b
    BY <1>9, <1>14 DEF Framed
<1> QED
    BY <1>1, <1>15, <1>16, <1>17

\* The flags of CONNECT.
LEMMA ConnectFlags ==
    \A q \in 0..2, r \in BOOLEAN :
        BitOr(BitOr(4, 8 * BitAnd(q, 3)), IF r THEN 32 ELSE 0) = 4 + 8 * q + (IF r THEN 32 ELSE 0)
<1> SUFFICES ASSUME NEW q \in 0..2, NEW r \in BOOLEAN
             PROVE  BitOr(BitOr(4, 8 * BitAnd(q, 3)), IF r THEN 32 ELSE 0)
                        = 4 + 8 * q + (IF r THEN 32 ELSE 0)
    OBVIOUS
<1>1. BitAnd(0, 3) = 0 /\ BitAnd(1, 3) = 1 /\ BitAnd(2, 3) = 2
    BY DEF BitAnd, ByteOf, Bit, Weights
<1>2. BitOr(4, 0) = 4 /\ BitOr(4, 8) = 12 /\ BitOr(4, 16) = 20
    BY DEF BitOr, ByteOf, Bit, Weights
<1>3. /\ BitOr(4, 0) = 4 /\ BitOr(12, 0) = 12 /\ BitOr(20, 0) = 20
      /\ BitOr(4, 32) = 36 /\ BitOr(12, 32) = 44 /\ BitOr(20, 32) = 52
    BY DEF BitOr, ByteOf, Bit, Weights
<1>4. CASE r = TRUE
    BY <1>1, <1>2, <1>3, <1>4
<1>5. CASE r = FALSE
    BY <1>1, <1>2, <1>3, <1>5
<1> QED
    BY <1>4, <1>5

\* ann says of pkt what CONNECT was built from.
ConnectAsBuilt(pkt, ann, c, q, r) ==
    /\ ann.cid = Text(c) /\ ann.keepalive = 60 /\ ann.version = 4
    /\ ann.remaining = Len(pkt) - 1 - Len(Varint(ann.remaining))
    /\ ann.flags = 4 + 8 * q + (IF r THEN 32 ELSE 0)

\* The annotations of CONNECT name the fields it was built from.
LEMMA ConnectRead ==
    ASSUME NEW c \in Short, NEW n \in Short, NEW q \in 0..2, NEW r \in BOOLEAN, NEW pkt, NEW ann
    PROVE  pkt = MqttConnect(Text(c), Text(n), Text(7), q, r, 60) /\ ann = AnnotateConnect(pkt) =>
           ConnectAsBuilt(pkt, ann, c, q, r)
<1>a. SUFFICES ASSUME pkt = MqttConnect(Text(c), Text(n), Text(7), q, r, 60),
                      ann = AnnotateConnect(pkt)
               PROVE  /\ ann.cid = Text(c) /\ ann.keepalive = 60 /\ ann.version = 4
                      /\ ann.remaining = Len(pkt) - 1 - Len(Varint(ann.remaining))
                      /\ ann.flags = 4 + 8 * q + (IF r THEN 32 ELSE 0)
    BY DEF ConnectAsBuilt
<1>0. c \in Nat /\ n \in Nat /\ 4 \in Short
    BY ShortAre
<1>1. PICK f \in Nat : /\ f = BitOr(BitOr(4, 8 * BitAnd(q, 3)), IF r THEN 32 ELSE 0)
                       /\ f = 4 + 8 * q + (IF r THEN 32 ELSE 0)
    <2>1. 4 + 8 * q + (IF r THEN 32 ELSE 0) \in Nat
        OBVIOUS
    <2> QED
        BY <2>1, ConnectFlags
<1>2. PICK mqtt \in Seq(Nat) : mqtt = Text(4) /\ Len(mqtt) = 4
    BY TextBytes
<1>3. PICK cid \in Seq(Nat) : cid = Text(c) /\ Len(cid) = c
    BY <1>0, TextBytes
<1>4. PICK s1 \in Seq(Nat) : s1 = Sized(mqtt) /\ Len(s1) = 6
    <2>1. Sized(mqtt) \in Seq(Nat) /\ Len(Sized(mqtt)) = 2 + Len(mqtt)
        BY SizedBytes
    <2>2. 2 + Len(mqtt) = 6
        <3>1. Len(mqtt) = 4
            BY <1>2
        <3> QED
            BY <3>1
    <2> QED
        BY <2>1, <2>2, Zenon
<1>5. PICK s2 \in Seq(Nat) : s2 = <<4, f>> /\ Len(s2) = 2 /\ s2[1] = 4 /\ s2[2] = f
    <2>1. <<4, f>> \in Seq(Nat) /\ Len(<<4, f>>) = 2 /\ <<4, f>>[1] = 4 /\ <<4, f>>[2] = f
        OBVIOUS
    <2> QED
        BY <2>1
<1>6. PICK s3 \in Seq(Nat) : s3 = U16(60) /\ Len(s3) = 2
    BY U16Bytes
<1>7. PICK s4 \in Seq(Nat) : s4 = Sized(cid)
    BY SizedBytes
<1>8. PICK s5 \in Seq(Nat) : s5 = Sized(Text(n))
    BY <1>0, TextBytes, SizedBytes
<1>9. PICK s6 \in Seq(Nat) : s6 = Sized(Text(7))
    BY TextBytes, SizedBytes
<1>10. PICK t2 \in Seq(Nat) : t2 = s1 \o s2 /\ Len(t2) = 8
    <2>1. s1 \o s2 \in Seq(Nat) /\ Len(s1 \o s2) = Len(s1) + Len(s2)
        BY BytesJoined
    <2>2. Len(s1 \o s2) = 8
        BY <1>4, <1>5, <2>1
    <2> QED
        BY <2>1, <2>2
<1>11. PICK t3 \in Seq(Nat) : t3 = t2 \o s3 /\ Len(t3) = 10
    <2>1. t2 \o s3 \in Seq(Nat) /\ Len(t2 \o s3) = Len(t2) + Len(s3)
        BY BytesJoined
    <2>2. Len(t2) + Len(s3) = 10
        <3>1. Len(t2) = 8 /\ Len(s3) = 2
            BY <1>6, <1>10
        <3> QED
            BY <3>1
    <2> QED
        BY <2>1, <2>2, Zenon
<1>12. PICK t4 \in Seq(Nat) : t4 = t3 \o s4
    BY BytesJoined
<1>13. PICK t5 \in Seq(Nat) : t5 = t4 \o s5
    BY BytesJoined
<1>14. PICK body \in Seq(Nat) : body = t5 \o s6
    BY BytesJoined
<1>15. pkt = WithLength(16, body)
    <2>1. body = ((((s1 \o s2) \o s3) \o s4) \o s5) \o s6
        BY <1>10, <1>11, <1>12, <1>13, <1>14
    <2>2. body = ((((Sized(Text(4)) \o <<4, f>>) \o U16(60)) \o Sized(Text(c))) \o Sized(Text(n)))
                    \o Sized(Text(7))
        BY <1>2, <1>3, <1>4, <1>5, <1>6, <1>7, <1>8, <1>9, <2>1
    <2> QED
        BY <1>a, <1>1, <2>2 DEF MqttConnect
<1>16. PICK i : Framed(pkt, 16, body, i)
    BY <1>15, WithLengthRead
<1>17. Len(pkt) \in Nat /\ i \in Nat /\ VarintAt(pkt, 2).next = i
    BY <1>16 DEF Framed
<1>18. Carries(pkt, i, t3) /\ Carries(pkt, i + Len(t3), s4)
    <2>1. Carries(pkt, i, t5 \o s6)
        BY <1>14, <1>16 DEF Framed
    <2>2. Carries(pkt, i, t4 \o s5)
        BY <1>13, <1>17, <2>1, CarriesParts
    <2>3. Carries(pkt, i, t3 \o s4)
        BY <1>12, <1>17, <2>2, CarriesParts
    <2> QED
        BY <1>17, <2>3, CarriesParts, ZenonT(60)
<1>19. Carries(pkt, i, s1) /\ Carries(pkt, i + 6, s2) /\ Carries(pkt, i + 8, s3)
    <2>1. Carries(pkt, i, t2 \o s3)
        BY <1>11, <1>18
    <2>2. Carries(pkt, i, t2) /\ Carries(pkt, i + Len(t2), s3)
        BY <1>17, <2>1, CarriesParts, ZenonT(60)
    <2>3. Carries(pkt, i, s1 \o s2)
        BY <1>10, <2>2
    <2>4. Carries(pkt, i, s1) /\ Carries(pkt, i + Len(s1), s2)
        BY <1>17, <2>3, CarriesParts, ZenonT(60)
    <2> QED
        BY <1>4, <1>10, <2>2, <2>4
<1>20. Carries(pkt, i + 10, s4)
    BY <1>11, <1>18
<1>21. U16At(pkt, i) = 4
    <2>1. Carries(pkt, i, Sized(mqtt)) /\ Len(mqtt) \in Short
        BY <1>0, <1>2, <1>4, <1>19
    <2>2. U16At(pkt, i) = Len(mqtt)
        BY <1>17, <2>1, SizedRead
    <2> QED
        BY <1>2, <2>2
<1>22. pkt[i + 6] = 4 /\ pkt[i + 7] = f
    <2>1. 1 \in 1..Len(s2) /\ 2 \in 1..Len(s2)
        BY <1>5
    <2>2. (i + 6) + 1 - 1 = i + 6 /\ (i + 6) + 2 - 1 = i + 7
        BY <1>17
    <2>3. pkt[(i + 6) + 1 - 1] = s2[1] /\ pkt[(i + 6) + 2 - 1] = s2[2]
        BY <1>19, <2>1 DEF Carries
    <2> QED
        BY <1>5, <2>2, <2>3
<1>23. U16At(pkt, i + 8) = 60
    BY <1>6, <1>19, U16Read, ShortAre
<1>24. U16At(pkt, i + 10) = c /\ SubSeq(pkt, i + 12, i + 11 + c) = cid
    <2>1. PICK j \in Nat : j = i + 10 /\ j + 2 = i + 12
        BY <1>17
    <2>2. PICK e \in Int : e = i + 11 + c /\ e + 1 = j + 2 + c
        BY <1>0, <1>17, <2>1
    <2>3. Carries(pkt, j, Sized(cid)) /\ Len(cid) \in Short
        BY <1>3, <1>7, <1>20, <2>1
    <2>4. e + 1 = j + 2 + Len(cid)
        BY <1>3, <2>2
    <2>5. U16At(pkt, j) = Len(cid) /\ SubSeq(pkt, j + 2, e) = cid
        BY <1>17, <2>3, <2>4, SizedRead
    <2> QED
        BY <1>3, <2>1, <2>2, <2>5
<1>25. PICK ver : ver = i + 2 + U16At(pkt, i)
    OBVIOUS
<1>26. /\ ver = i + 6 /\ ver + 1 = i + 7 /\ ver + 2 = i + 8 /\ ver + 4 = i + 10
       /\ ver + 6 = i + 12 /\ ver + 5 + c = i + 11 + c
    BY <1>0, <1>17, <1>21, <1>25
<1>27. ann = AnnotateConnect(pkt) /\ VarintAt(pkt, 2).next = i
    BY <1>a, <1>17
<1>28. ann.remaining = VarintAt(pkt, 2).value /\ ann.version = pkt[ver] /\ ann.flags = pkt[ver + 1]
    BY <1>25, <1>27 DEF AnnotateConnect
<1>29. ann.keepalive = U16At(pkt, ver + 2)
    BY <1>25, <1>27 DEF AnnotateConnect
<1>30. ann.cid = SubSeq(pkt, ver + 6, ver + 5 + U16At(pkt, ver + 4))
    BY <1>25, <1>27 DEF AnnotateConnect
<1>31. ann.cid = Text(c)
    BY <1>3, <1>24, <1>26, <1>30
<1>32. ann.keepalive = 60 /\ ann.version = 4 /\ ann.flags = f
    BY <1>22, <1>23, <1>26, <1>28, <1>29
<1>33. ann.remaining = Len(pkt) - 1 - Len(Varint(ann.remaining))
    BY <1>16, <1>28 DEF Framed
<1> QED
    BY <1>1, <1>31, <1>32, <1>33

-----------------------------------------------------------------------------
(* The frames; all that is said of lengths. *)

\* The lengths in the headers of the frames.
LEMMA FrameLengths ==
    ASSUME NEW n \in Nat
    PROVE  /\ LET f == EthIpv4TcpFrame(Text(n), 1000, 5000)
              IN  f.ip.length - 20 - f.l4.size = n
           /\ \A f \in {EthIpv4UdpFrame(Text(n)), EthIpv6UdpFrame(Text(n))} :
                  LET header    == IF f.ethertype = "IPv4" THEN 20 ELSE 40
                      ipPayload == f.ip.length - IF f.ethertype = "IPv4" THEN header ELSE 0
                  IN  /\ ipPayload = f.l4.length /\ f.l4.length - 8 = n
                      /\ PcapRecord(f).captured = 14 + header + ipPayload
<1>1. Len(Text(n)) = n
    BY TextBytes
<1>2. LET f == EthIpv4TcpFrame(Text(n), 1000, 5000) IN f.ip.length - 20 - f.l4.size = n
    BY <1>1 DEF EthIpv4TcpFrame, TcpHdr, Ipv4Hdr
<1>3. LET f == EthIpv4UdpFrame(Text(n))
      IN  /\ f.ethertype = "IPv4" /\ f.ip.length = 28 + n /\ f.l4.length = 8 + n
          /\ PcapRecord(f).captured = 42 + n
    BY <1>1 DEF EthIpv4UdpFrame, UdpHdr, Ipv4Hdr, PcapRecord, FrameSize
<1>4. LET f == EthIpv6UdpFrame(Text(n))
      IN  /\ f.ethertype = "IPv6" /\ f.ip.length = 8 + n /\ f.l4.length = 8 + n
          /\ PcapRecord(f).captured = 62 + n
    BY <1>1 DEF EthIpv6UdpFrame, UdpHdr, Ipv6Hdr, PcapRecord, FrameSize
<1>5. ASSUME NEW f \in {EthIpv4UdpFrame(Text(n)), EthIpv6UdpFrame(Text(n))}
      PROVE  LET header    == IF f.ethertype = "IPv4" THEN 20 ELSE 40
                 ipPayload == f.ip.length - IF f.ethertype = "IPv4" THEN header ELSE 0
             IN  /\ ipPayload = f.l4.length /\ f.l4.length - 8 = n
                 /\ PcapRecord(f).captured = 14 + header + ipPayload
    <2>1. CASE f = EthIpv4UdpFrame(Text(n))
        <3>1. /\ f.ethertype = "IPv4" /\ f.ip.length = 28 + n /\ f.l4.length = 8 + n
              /\ PcapRecord(f).captured = 42 + n
            BY <1>3, <2>1, Zenon
        <3> QED
            BY <3>1
    <2>2. CASE f = EthIpv6UdpFrame(Text(n))
        <3>1. /\ f.ethertype = "IPv6" /\ f.ip.length = 8 + n /\ f.l4.length = 8 + n
              /\ PcapRecord(f).captured = 62 + n
            BY <1>4, <2>2, Zenon
        <3> QED
            BY <3>1
    <2> QED
        BY <2>1, <2>2
<1> QED
    BY <1>2, <1>5

\* A remaining length by itself.
LEMMA LengthRead ==
    ASSUME NEW n \in Nat
    PROVE  VarintAt(Varint(n), 1) = [value |-> n, next |-> Len(Varint(n)) + 1]
<1>1. Varint(n) \in Seq(Nat) /\ Len(Varint(n)) \in Nat
    BY VarintBytes
<1>2. Carries(Varint(n), 1, Varint(n))
    BY <1>1, CarriesWhole
<1>3. VarintAt(Varint(n), 1) = [value |-> n, next |-> 1 + Len(Varint(n))]
    BY <1>1, <1>2, VarintRead
<1>4. 1 + Len(Varint(n)) = Len(Varint(n)) + 1
    BY <1>1
<1> QED
    BY <1>3, <1>4

\* What is assumed of the lengths.
LEMMA LengthsShort == Lengths \subseteq Short /\ Boundaries \subseteq Nat
BY CapturesAssumption

\* Every length is read back, whatever the texts.
LEMMA AllReadBack ==
    VarintsReadBack /\ PublishesReadBack /\ ConnectsReadBack /\ FramesReadBack
<1>1. Lengths \subseteq Short /\ Boundaries \subseteq Nat /\ \A n \in Lengths : n \in Nat
    BY LengthsShort, ShortAre
<1>2. VarintsReadBack
    BY <1>1, LengthRead, FourBytes, NoByteWasted DEF VarintsReadBack
<1>3. PublishesReadBack
    <2>1. ASSUME NEW n \in Lengths, NEW t \in Lengths, NEW q \in 0..2, NEW r \in BOOLEAN,
                 NEW pkt, pkt = MqttPublish(Text(t), Text(n), q, 258, r)
          PROVE  PublishAsBuilt(pkt, AnnotatePublish(pkt), t, q, r)
        BY <1>1, <2>1, PublishRead
    <2>2. ASSUME NEW n \in Lengths, NEW t \in Lengths, NEW q \in 0..2, NEW r \in BOOLEAN
          PROVE  LET pkt == MqttPublish(Text(t), Text(n), q, 258, r)
                 IN  PublishAsBuilt(pkt, AnnotatePublish(pkt), t, q, r)
        BY <2>1, ZenonT(60)
    <2> QED
        BY <2>2, Zenon DEF PublishesReadBack, PublishAsBuilt
<1>4. ConnectsReadBack
    <2>1. ASSUME NEW c \in Lengths, NEW n \in Lengths, NEW q \in 0..2, NEW r \in BOOLEAN,
                 NEW pkt, pkt = MqttConnect(Text(c), Text(n), Text(7), q, r, 60)
          PROVE  ConnectAsBuilt(pkt, AnnotateConnect(pkt), c, q, r)
        BY <1>1, <2>1, ConnectRead
    <2>2. ASSUME NEW c \in Lengths, NEW n \in Lengths, NEW q \in 0..2, NEW r \in BOOLEAN
          PROVE  LET pkt == MqttConnect(Text(c), Text(n), Text(7), q, r, 60)
                 IN  ConnectAsBuilt(pkt, AnnotateConnect(pkt), c, q, r)
        BY <2>1, Zenon
    <2> QED
        BY <2>2, Zenon DEF ConnectsReadBack, ConnectAsBuilt
<1>5. FramesReadBack
    <2>1. ASSUME NEW n \in Lengths
          PROVE  LET f == EthIpv4TcpFrame(Text(n), 1000, 5000)
                 IN  f.ip.length - 20 - f.l4.size = n
        BY <1>1, FrameLengths
    <2>2. ASSUME NEW n \in Lengths,
                 NEW f \in {EthIpv4UdpFrame(Text(n)), EthIpv6UdpFrame(Text(n))}
          PROVE  LET header    == IF f.ethertype = "IPv4" THEN 20 ELSE 40
                     ipPayload == f.ip.length - IF f.ethertype = "IPv4" THEN header ELSE 0
                 IN  /\ ipPayload = f.l4.length /\ f.l4.length - 8 = n
                     /\ PcapRecord(f).captured = 14 + header + ipPayload
        BY <1>1, FrameLengths
    <2> QED
        BY <2>1, <2>2 DEF FramesReadBack
<1> QED
    BY <1>2, <1>3, <1>4, <1>5

\* Every remaining length, and every field of CONNECT and PUBLISH whose text is as long
\* as two bytes can say, is read back from its packet by the functions that annotate
\* it; the IP and UDP lengths of a frame leave exactly its payload
\* (generate_captures.py: _varint, _mqtt_publish, annotate_connect, annotate_publish).
THEOREM LengthsAreReadBack == Spec => []LengthsReadBack
<1>1. LengthsReadBack
    BY AllReadBack DEF LengthsReadBack
<1> QED
    BY <1>1, PTL

-----------------------------------------------------------------------------
(* The options of a CoAP packet are read one by one. *)

\* The first option begins after the token.
FirstOption(pkt) == [next |-> 5 + (pkt[1] % 16), number |-> 0, options |-> <<>>]

\* One more option, if there is one.
Onwards(pkt, read) ==
    IF read.next > Len(pkt) \/ pkt[read.next] = 255 THEN read ELSE OptionAfter(pkt, read)

\* r[k] is what has been read after n options at most.
Reads(pkt, n, r) ==
    r = [k \in 0..n |-> IF k = 0 THEN FirstOption(pkt) ELSE Onwards(pkt, r[k - 1])]

\* The reading, step by step.
LEMMA ReadsAt ==
    ASSUME NEW pkt, NEW n \in Nat, NEW r, Reads(pkt, n, r)
    PROVE  r[0] = FirstOption(pkt) /\ \A k \in 1..n : r[k] = Onwards(pkt, r[k - 1])
<1>1. \A k \in 0..n : r[k] = IF k = 0 THEN FirstOption(pkt) ELSE Onwards(pkt, r[k - 1])
    BY DEF Reads
<1>2. 0 \in 0..n /\ \A k \in 1..n : k \in 0..n /\ k # 0
    OBVIOUS
<1> QED
    BY <1>1, <1>2

\* There is a reading of every packet.
LEMMA ReadingExists == \A pkt : \A n \in Nat : \E r : Reads(pkt, n, r)
<1> SUFFICES ASSUME NEW pkt PROVE \A n \in Nat : \E r : Reads(pkt, n, r)
    OBVIOUS
<1> PICK T : T = {n \in Nat : \E r : Reads(pkt, n, r)}
    OBVIOUS
<1>1. 0 \in T
    <2> PICK r : r = [k \in 0..0 |-> FirstOption(pkt)]
        OBVIOUS
    <2>1. \A k \in 0..0 : k = 0
        OBVIOUS
    <2>2. r = [k \in 0..0 |-> IF k = 0 THEN FirstOption(pkt) ELSE Onwards(pkt, r[k - 1])]
        BY <2>1
    <2>3. Reads(pkt, 0, r)
        BY <2>2 DEF Reads
    <2> QED
        BY <2>3
<1>2. ASSUME NEW n \in T PROVE n + 1 \in T
    <2>1. PICK r : Reads(pkt, n, r)
        OBVIOUS
    <2> PICK q : q = [k \in 0..(n + 1) |-> IF k = n + 1 THEN Onwards(pkt, r[n]) ELSE r[k]]
        OBVIOUS
    <2>2. ASSUME NEW k \in 0..(n + 1)
          PROVE  q[k] = IF k = 0 THEN FirstOption(pkt) ELSE Onwards(pkt, q[k - 1])
        <3>1. CASE k = 0
            <4>1. k # n + 1 /\ q[k] = r[0]
                BY <3>1
            <4> QED
                BY <2>1, <3>1, <4>1, ReadsAt
        <3>2. CASE k = n + 1
            <4>1. n \in 0..(n + 1) /\ n # n + 1 /\ k - 1 = n /\ k # 0
                BY <3>2
            <4>2. q[k] = Onwards(pkt, r[n]) /\ q[n] = r[n]
                BY <3>2, <4>1
            <4> QED
                BY <4>1, <4>2
        <3>3. CASE k # 0 /\ k # n + 1
            <4>1. k \in 1..n /\ k - 1 \in 0..(n + 1) /\ k - 1 # n + 1
                BY <3>3
            <4>2. q[k] = r[k] /\ q[k - 1] = r[k - 1]
                BY <3>3, <4>1
            <4>3. r[k] = Onwards(pkt, r[k - 1])
                BY <2>1, <4>1, ReadsAt
            <4> QED
                BY <3>3, <4>2, <4>3
        <3> QED
            BY <3>1, <3>2, <3>3
    <2>3. Reads(pkt, n + 1, q)
        BY <2>2 DEF Reads
    <2> QED
        BY <2>3
<1>3. T = Nat
    BY <1>1, <1>2, Induction
<1> QED
    BY <1>3

\* The options o have been read, up to number m, and the next one begins at byte i.
So(r, k, i, m, o) == r[k] = [next |-> i, number |-> m, options |-> o]

\* Nothing more is read at the end.
LEMMA AtTheEnd ==
    ASSUME NEW pkt, NEW n \in Nat, NEW r, Reads(pkt, n, r), NEW k \in 0..n,
           NEW i, NEW m, NEW o
    PROVE  So(r, k, i, m, o) /\ (i > Len(pkt) \/ pkt[i] = 255) => r[n].options = o
<1>h. SUFFICES ASSUME So(r, k, i, m, o), i > Len(pkt) \/ pkt[i] = 255
               PROVE  r[n].options = o
    OBVIOUS
<1>0. ASSUME NEW l \in 1..n PROVE r[l] = Onwards(pkt, r[l - 1])
    BY ReadsAt
<1> PICK T : T = {d \in Nat : k + d <= n => So(r, k + d, i, m, o)}
    OBVIOUS
<1>1. 0 \in T
    BY <1>h
<1>2. ASSUME NEW d \in T PROVE d + 1 \in T
    <2>1. SUFFICES ASSUME k + (d + 1) <= n PROVE So(r, k + (d + 1), i, m, o)
        OBVIOUS
    <2>2. PICK j \in 1..n : j = k + (d + 1) /\ j - 1 = k + d
        BY <2>1
    <2>3. So(r, j - 1, i, m, o)
        BY <2>2
    <2>4. r[j] = Onwards(pkt, r[j - 1])
        BY <1>0
    <2>5. Onwards(pkt, r[j - 1]) = r[j - 1]
        BY <1>h, <2>3 DEF Onwards, So
    <2> QED
        BY <2>2, <2>3, <2>4, <2>5 DEF So
<1>3. T = Nat
    BY <1>1, <1>2, Induction
<1>4. So(r, n, i, m, o)
    <2>1. PICK d \in Nat : k + d = n
        <3>1. n - k \in Nat /\ k + (n - k) = n
            OBVIOUS
        <3> QED
            BY <3>1
    <2>2. d \in T
        BY <1>3
    <2> QED
        BY <2>1, <2>2
<1> QED
    BY <1>4 DEF So

\* One short option, as the script writes it.
Coded(d, v) == OptionHead(d, Len(v)) \o v

\* The head of a short option is one byte.
LEMMA CodedIs ==
    ASSUME NEW d \in 0..12, NEW v \in Seq(Nat), Len(v) \in 0..15
    PROVE  /\ Coded(d, v) = <<16 * d + Len(v)>> \o v /\ Coded(d, v) \in Seq(Nat)
           /\ Len(Coded(d, v)) = 1 + Len(v)
<1>1. PICK b \in Nat : b = 16 * d + Len(v) /\ BitOr(16 * d, Len(v)) = b
    <2>1. BitOr(16 * d, Len(v)) = 16 * d + Len(v)
        BY Octets
    <2>2. 16 * d + Len(v) \in Nat
        OBVIOUS
    <2> QED
        BY <2>1, <2>2
<1>2. OptionHead(d, Len(v)) = <<b>>
    BY <1>1 DEF OptionHead
<1>3. <<b>> \in Seq(Nat) /\ Len(<<b>>) = 1
    OBVIOUS
<1>4. <<b>> \o v \in Seq(Nat) /\ Len(<<b>> \o v) = 1 + Len(v)
    BY <1>3, BytesJoined
<1>5. Coded(d, v) = <<b>> \o v
    BY <1>2 DEF Coded
<1> QED
    BY <1>1, <1>4, <1>5

\* Delta and length are read back from the head.
LEMMA HeadRead ==
    \A d, l \in 0..12 : LET b == 16 * d + l IN b \div 16 = d /\ b % 16 = l /\ b # 255
OBVIOUS

\* A reader that stands before the option reads it.
ReadsOne(pkt, i, m, o, d, v, l, read) ==
    l = Len(v) /\ Carries(pkt, i, Coded(d, v)) /\ read = [next |-> i, number |-> m, options |-> o]
    => Onwards(pkt, read) = [next |-> i + Len(Coded(d, v)), number |-> m + d,
                             options |-> Append(o, Option(m + d, v))]

\* The option is read as it was written.
LEMMA CodedRead ==
    ASSUME NEW pkt, Len(pkt) \in Nat, NEW i, NEW m \in Nat, NEW o,
           NEW d \in 0..12, NEW v \in Seq(Nat), NEW l \in 0..12, NEW read
    PROVE  ReadsOne(pkt, i, m, o, d, v, l, read)
<1>h. SUFFICES ASSUME l = Len(v), Carries(pkt, i, Coded(d, v)),
                      read = [next |-> i, number |-> m, options |-> o]
               PROVE  Onwards(pkt, read) =
                          [next |-> i + Len(Coded(d, v)), number |-> m + d,
                           options |-> Append(o, Option(m + d, v))]
    BY DEF ReadsOne
<1>0. i \in Nat \ {0}
    BY <1>h DEF Carries
<1>a. read.next = i /\ read.number = m /\ read.options = o
    BY <1>h
<1>1. PICK b \in Nat : b = 16 * d + l
    OBVIOUS
<1>2. PICK one \in Seq(Nat) : one = <<b>> /\ Len(one) = 1 /\ one[1] = b
    <2>1. <<b>> \in Seq(Nat) /\ Len(<<b>>) = 1 /\ <<b>>[1] = b
        OBVIOUS
    <2> QED
        BY <2>1
<1>3. Coded(d, v) = one \o v /\ Len(Coded(d, v)) = 1 + l
    <2>1. Len(v) \in 0..15
        <3>1. l \in 0..15
            OBVIOUS
        <3> QED
            BY <1>h, <3>1
    <2>2. Coded(d, v) = <<16 * d + Len(v)>> \o v /\ Len(Coded(d, v)) = 1 + Len(v)
        BY <2>1, CodedIs
    <2> QED
        BY <1>h, <1>1, <1>2, <2>2
<1>4. Carries(pkt, i, one) /\ Carries(pkt, i + Len(one), v)
    <2>1. Carries(pkt, i, one \o v)
        BY <1>h, <1>3
    <2> QED
        BY <2>1, CarriesParts
<1>5. Carries(pkt, i + 1, v)
    BY <1>2, <1>4
<1>6. pkt[i] = b /\ i <= Len(pkt)
    <2>1. 1 \in 1..Len(one) /\ i + 1 - 1 = i
        BY <1>0, <1>2
    <2> QED
        BY <1>2, <1>4, <2>1 DEF Carries
<1>7. b \div 16 = d /\ b % 16 = l /\ b # 255
    BY <1>1, HeadRead
<1>8. SubSeq(pkt, i + 1, i + 1 + l - 1) = v
    BY <1>h, <1>5, CarriesRead
<1>9. Onwards(pkt, read) = OptionAfter(pkt, read)
    <2>1. read.next = i /\ ~(i > Len(pkt)) /\ pkt[i] # 255
        BY <1>a, <1>0, <1>6, <1>7
    <2> QED
        BY <2>1 DEF Onwards
<1>10. PICK wide : wide = (IF pkt[read.next] \div 16 = 13 THEN 1 ELSE 0) /\ wide = 0
    BY <1>a, <1>0, <1>6, <1>7
<1>11. PICK value : value = read.next + 1 + wide + (IF pkt[read.next] % 16 = 13 THEN 1 ELSE 0)
                    /\ value = i + 1
    <2>1. pkt[read.next] % 16 # 13
        BY <1>a, <1>6, <1>7
    <2>2. (IF pkt[read.next] % 16 = 13 THEN 1 ELSE 0) = 0
        BY <2>1
    <2>3. read.next + 1 + wide + 0 = i + 1
        BY <1>a, <1>0, <1>10
    <2> QED
        BY <2>2, <2>3
<1>12. PICK len : len = (IF pkt[read.next] % 16 = 13 THEN 13 + pkt[read.next + 1 + wide]
                         ELSE pkt[read.next] % 16)
                  /\ len = l
    BY <1>a, <1>0, <1>6, <1>7
<1>13. PICK number : number = read.number + (IF wide = 1 THEN 13 + pkt[read.next + 1]
                                             ELSE pkt[read.next] \div 16)
                     /\ number = m + d
    <2>1. wide # 1 /\ read.number + (pkt[read.next] \div 16) = m + d
        BY <1>a, <1>6, <1>7, <1>10
    <2> QED
        BY <2>1
<1>14. OptionAfter(pkt, read) =
          [next |-> value + len, number |-> number,
           options |-> Append(read.options, Option(number, SubSeq(pkt, value, value + len - 1)))]
    BY <1>10, <1>11, <1>12, <1>13 DEF OptionAfter
<1>15. OptionAfter(pkt, read) =
          [next |-> i + 1 + l, number |-> m + d, options |-> Append(o, Option(m + d, v))]
    BY <1>a, <1>8, <1>11, <1>12, <1>13, <1>14
<1>16. i + Len(Coded(d, v)) = i + 1 + l
    BY <1>0, <1>3
<1> QED
    BY <1>9, <1>15, <1>16

\* What OptionsOf counts through.
TheReading(pkt) == CHOOSE r : Reads(pkt, Len(pkt), r)

\* The options o have been read, up to number m, and the next one begins at byte i.
ReadTo(pkt, i, m, o) ==
    i \in Nat /\ m \in Nat /\ \E k \in Nat : k < i /\ So(TheReading(pkt), k, i, m, o)

\* OptionsOf takes the options that are read in the end.
LEMMA ReadingIs ==
    ASSUME NEW pkt, Len(pkt) \in Nat
    PROVE  /\ Reads(pkt, Len(pkt), TheReading(pkt))
           /\ OptionsOf(pkt) = TheReading(pkt)[Len(pkt)].options
<1>1. Reads(pkt, Len(pkt), TheReading(pkt))
    BY ReadingExists DEF TheReading
<1>2. OptionsOf(pkt) = TheReading(pkt)[Len(pkt)].options
    BY DEF OptionsOf, TheReading, Reads, FirstOption, Onwards
<1> QED
    BY <1>1, <1>2

\* No option has been read at the start.
LEMMA ReadingStarts ==
    ASSUME NEW pkt, Len(pkt) \in Nat, NEW i \in Nat, i = 5 + (pkt[1] % 16)
    PROVE  i > 0 => ReadTo(pkt, i, 0, <<>>)
<1>1. TheReading(pkt)[0] = FirstOption(pkt)
    BY ReadingIs, ReadsAt
<1>2. So(TheReading(pkt), 0, i, 0, <<>>)
    BY <1>1 DEF So, FirstOption
<1> QED
    BY <1>2 DEF ReadTo

\* One more option.
LEMMA OptionRead ==
    ASSUME NEW pkt, NEW n \in Nat, NEW i, NEW m, NEW o, ReadTo(pkt, i, m, o),
           NEW d \in 0..12, NEW v \in Seq(Nat), NEW l \in 0..12, NEW j
    PROVE  n = Len(pkt) /\ l = Len(v) /\ j = i + 1 + l /\ Carries(pkt, i, Coded(d, v))
           => ReadTo(pkt, j, m + d, Append(o, Option(m + d, v)))
<1>h. SUFFICES ASSUME n = Len(pkt), l = Len(v), j = i + 1 + l, Carries(pkt, i, Coded(d, v))
               PROVE  ReadTo(pkt, j, m + d, Append(o, Option(m + d, v)))
    OBVIOUS
<1> PICK r : r = TheReading(pkt)
    OBVIOUS
<1>0. i \in Nat /\ m \in Nat
    BY DEF ReadTo
<1>1. PICK k \in Nat : k < i /\ So(r, k, i, m, o)
    BY DEF ReadTo
<1>2. Len(Coded(d, v)) = 1 + l
    <2>1. l \in 0..15
        OBVIOUS
    <2>2. Len(Coded(d, v)) = 1 + Len(v)
        BY <1>h, <2>1, CodedIs
    <2> QED
        BY <1>h, <2>2
<1>3. i <= n
    <2>1. i + Len(Coded(d, v)) - 1 <= n
        BY <1>h DEF Carries
    <2> QED
        BY <1>0, <1>2, <2>1
<1>4. k + 1 \in 1..n /\ k + 1 - 1 = k
    BY <1>0, <1>1, <1>3
<1>5. r[k + 1] = Onwards(pkt, r[k])
    <2>1. Reads(pkt, n, r)
        BY <1>h, ReadingIs
    <2>2. ASSUME NEW q \in 1..n PROVE r[q] = Onwards(pkt, r[q - 1])
        BY <2>1, ReadsAt
    <2>3. r[k + 1] = Onwards(pkt, r[k + 1 - 1])
        BY <1>4, <2>2
    <2>4. k + 1 - 1 = k
        OBVIOUS
    <2> QED
        BY <2>3, <2>4
<1>6. Onwards(pkt, r[k]) = [next |-> i + Len(Coded(d, v)), number |-> m + d,
                            options |-> Append(o, Option(m + d, v))]
    <2>1. r[k] = [next |-> i, number |-> m, options |-> o]
        BY <1>1 DEF So
    <2>2. Len(pkt) \in Nat
        BY <1>h
    <2>3. ReadsOne(pkt, i, m, o, d, v, l, r[k])
        BY <1>0, <2>2, CodedRead
    <2> QED
        BY <1>h, <2>1, <2>3 DEF ReadsOne
<1>7. i + Len(Coded(d, v)) = j
    BY <1>0, <1>2, <1>h
<1>8. So(r, k + 1, j, m + d, Append(o, Option(m + d, v)))
    BY <1>5, <1>6, <1>7 DEF So
<1>9. j \in Nat /\ m + d \in Nat /\ k + 1 \in Nat /\ k + 1 < j
    BY <1>0, <1>1, <1>h
<1> QED
    BY <1>8, <1>9 DEF ReadTo

\* The packet ends here, or its payload begins.
Ended(pkt, n, i, o) ==
    n = Len(pkt) /\ (i = n + 1 \/ (i <= n /\ pkt[i] = 255)) => OptionsOf(pkt) = o

\* The options are those read so far.
LEMMA ReadingEnds ==
    ASSUME NEW pkt, NEW n \in Nat, NEW i, NEW m, NEW o, ReadTo(pkt, i, m, o)
    PROVE  Ended(pkt, n, i, o)
<1>h. SUFFICES ASSUME n = Len(pkt), i = n + 1 \/ (i <= n /\ pkt[i] = 255)
               PROVE  OptionsOf(pkt) = o
    BY DEF Ended
<1> PICK r : r = TheReading(pkt)
    OBVIOUS
<1>0. i \in Nat
    BY DEF ReadTo
<1>1. PICK k \in Nat : k < i /\ So(r, k, i, m, o)
    BY DEF ReadTo
<1>2. k \in 0..n /\ (i > n \/ pkt[i] = 255)
    BY <1>0, <1>1, <1>h
<1>3. Reads(pkt, n, r) /\ OptionsOf(pkt) = r[n].options
    BY <1>h, ReadingIs
<1>4. i > Len(pkt) \/ pkt[i] = 255
    BY <1>2, <1>h
<1>5. r[n].options = o
    BY <1>1, <1>2, <1>3, <1>4, AtTheEnd
<1> QED
    BY <1>3, <1>5

-----------------------------------------------------------------------------
(* The header of a CoAP packet. *)

\* The fixed header and the token of a CoAP packet.
Header(pkt, b, code, id, token) ==
    pkt[1] = b /\ pkt[2] = code /\ U16At(pkt, 3) = id /\ SubSeq(pkt, 5, 12) = token

\* The header and the token are read back.
LEMMA HeaderRead ==
    ASSUME NEW pkt \in Seq(Nat), NEW b \in Nat, NEW code \in Nat, NEW id \in Short,
           NEW token \in Seq(Nat)
    PROVE  Len(token) = 8 /\ Carries(pkt, 1, <<b, code>> \o U16(id) \o token)
           => Header(pkt, b, code, id, token)
<1>h. SUFFICES ASSUME Len(token) = 8, Carries(pkt, 1, <<b, code>> \o U16(id) \o token)
               PROVE  Header(pkt, b, code, id, token)
    OBVIOUS
<1>0. Len(pkt) \in Nat
    BY LenProperties
<1>1. PICK two \in Seq(Nat) : two = <<b, code>> /\ Len(two) = 2 /\ two[1] = b /\ two[2] = code
    <2>1. <<b, code>> \in Seq(Nat) /\ Len(<<b, code>>) = 2
          /\ <<b, code>>[1] = b /\ <<b, code>>[2] = code
        OBVIOUS
    <2> QED
        BY <2>1
<1>2. PICK u \in Seq(Nat) : u = U16(id) /\ Len(u) = 2
    BY ShortAre, U16Bytes
<1>3. two \o u \in Seq(Nat) /\ Len(two \o u) = 4
    <2>1. two \o u \in Seq(Nat) /\ Len(two \o u) = Len(two) + Len(u)
        BY BytesJoined
    <2> QED
        BY <1>1, <1>2, <2>1
<1>4. Carries(pkt, 1, (two \o u) \o token)
    BY <1>h, <1>1, <1>2
<1>5. Carries(pkt, 1, two \o u) /\ Carries(pkt, 1 + Len(two \o u), token)
    BY <1>0, <1>3, <1>4, CarriesParts
<1>6. Carries(pkt, 1, two) /\ Carries(pkt, 1 + Len(two), u)
    BY <1>0, <1>5, CarriesParts
<1>7. Carries(pkt, 3, u) /\ Carries(pkt, 5, token)
    <2>1. 1 + Len(two) = 3 /\ 1 + Len(two \o u) = 5
        BY <1>1, <1>3
    <2> QED
        BY <1>5, <1>6, <2>1
<1>8. pkt[1] = b /\ pkt[2] = code
    <2>1. 1 \in 1..Len(two) /\ 2 \in 1..Len(two) /\ 1 + 1 - 1 = 1 /\ 1 + 2 - 1 = 2
        BY <1>1
    <2>2. pkt[1 + 1 - 1] = two[1] /\ pkt[1 + 2 - 1] = two[2]
        BY <1>6, <2>1 DEF Carries
    <2> QED
        BY <1>1, <2>1, <2>2
<1>9. U16At(pkt, 3) = id
    BY <1>2, <1>7, U16Read
<1>10. SubSeq(pkt, 5, 12) = token
    <2>1. SubSeq(pkt, 5, 5 + Len(token) - 1) = token
        BY <1>0, <1>7, CarriesRead
    <2>2. 5 + Len(token) - 1 = 12
        BY <1>h
    <2> QED
        BY <2>1, <2>2
<1> QED
    BY <1>8, <1>9, <1>10 DEF Header

\* The bits of the first two bytes.
LEMMA HeadBits ==
    /\ BitOr(64, 8) = 72 /\ BitAnd(72, 15) = 8 /\ BitAnd(104, 15) = 8
    /\ BitAnd(72 \div 64, 3) = 1 /\ BitAnd(72 \div 16, 3) = 0
    /\ BitAnd(69, 31) = 5 /\ BitAnd(68, 31) = 4
BY DEF BitOr, BitAnd, ByteOf, Bit, Weights

\* The annotations follow.
LEMMA GetAnnotated ==
    ASSUME NEW pkt, NEW id, NEW token, Header(pkt, 72, 1, id, token)
    PROVE  AnnotateCoapGet(pkt) =
               [ver |-> 1, type |-> 0, tkl |-> 8, code |-> 1, msgId |-> id, token |-> token]
<1>1. /\ BitAnd(pkt[1], 15) = 8 /\ BitAnd(pkt[1] \div 64, 3) = 1 /\ BitAnd(pkt[1] \div 16, 3) = 0
      /\ pkt[2] = 1 /\ U16At(pkt, 3) = id
    BY HeadBits DEF Header
<1>2. SubSeq(pkt, 5, 4 + BitAnd(pkt[1], 15)) = token
    <2>1. 4 + 8 = 12
        OBVIOUS
    <2> QED
        BY <1>1, <2>1 DEF Header
<1> QED
    BY <1>1, <1>2 DEF AnnotateCoapGet

\* The same of an answer.
LEMMA ResponseAnnotated ==
    ASSUME NEW pkt, NEW b \in {72, 104}, NEW code, NEW id, NEW token,
           Header(pkt, b, code, id, token)
    PROVE  AnnotateCoapResponse(pkt) =
               [code |-> <<code \div 32, BitAnd(code, 31)>>, msgId |-> id, token |-> token]
<1>1. pkt[1] = b /\ pkt[2] = code /\ U16At(pkt, 3) = id
    BY DEF Header
<1>2. SubSeq(pkt, 5, 4 + BitAnd(pkt[1], 15)) = token
    <2>1. BitAnd(b, 15) = 8 /\ 4 + 8 = 12
        BY HeadBits
    <2> QED
        BY <1>1, <2>1 DEF Header
<1> QED
    BY <1>1, <1>2 DEF AnnotateCoapResponse, CodeOf

-----------------------------------------------------------------------------
(* The options of a path, as they are written and as they are read. *)

\* f[i] joins the first i elements of s.
Flattens(f, s) == f = [i \in 1..Len(s) |-> IF i = 1 THEN s[i] ELSE f[i - 1] \o s[i]]

\* FlattenSeq joins all the elements.
LEMMA FlatBy ==
    ASSUME NEW s, Len(s) # 0, \E f : Flattens(f, s)
    PROVE  \E f : Flattens(f, s) /\ FlattenSeq(s) = f[Len(s)]
<1> PICK g : g = CHOOSE f : Flattens(f, s)
    OBVIOUS
<1>1. FlattenSeq(s) = g[Len(s)]
    BY DEF FlattenSeq, Flattens
<1>2. Flattens(g, s)
    OBVIOUS
<1> QED
    BY <1>1, <1>2

\* Two elements.
LEMMA Flat2 ==
    ASSUME NEW x, NEW y
    PROVE  FlattenSeq(<<x, y>>) = x \o y
<1> PICK s : s = <<x, y>>
    OBVIOUS
<1>1. Len(s) = 2 /\ s[1] = x /\ s[2] = y
    OBVIOUS
<1>2. \E f : Flattens(f, s)
    <2> PICK f : f = [i \in 1..2 |-> IF i = 1 THEN x ELSE x \o y]
        OBVIOUS
    <2>1. \A i \in 1..2 : i = 1 \/ i = 2
        OBVIOUS
    <2>2. f[1] = x /\ f[2] = x \o y
        OBVIOUS
    <2>3. ASSUME NEW i \in 1..2
          PROVE  f[i] = IF i = 1 THEN s[i] ELSE f[i - 1] \o s[i]
        <3>1. 2 - 1 = 1
            OBVIOUS
        <3> QED
            BY <1>1, <2>1, <2>2, <3>1
    <2>4. f = [i \in 1..2 |-> IF i = 1 THEN s[i] ELSE f[i - 1] \o s[i]]
        BY <2>3
    <2>5. Flattens(f, s)
        BY <1>1, <2>4 DEF Flattens
    <2> QED
        BY <2>5
<1>3. ASSUME NEW f, Flattens(f, s) PROVE f[2] = x \o y
    <2>1. 1 \in 1..Len(s) /\ 2 \in 1..Len(s) /\ 2 - 1 = 1 /\ 2 # 1
        BY <1>1
    <2>2. f[1] = s[1]
        BY <1>3, <2>1 DEF Flattens
    <2>3. f[2] = f[1] \o s[2]
        BY <1>3, <2>1 DEF Flattens
    <2> QED
        BY <1>1, <2>2, <2>3
<1>4. PICK f : Flattens(f, s) /\ FlattenSeq(s) = f[2]
    <2>1. Len(s) # 0
        BY <1>1
    <2>2. \E f : Flattens(f, s) /\ FlattenSeq(s) = f[Len(s)]
        BY <1>2, <2>1, FlatBy
    <2> QED
        BY <1>1, <2>2
<1> QED
    BY <1>3, <1>4

\* Three elements.
InThree(x, y, z) == (x \o y) \o z

\* Three of them.
LEMMA Flat3 ==
    ASSUME NEW x, NEW y, NEW z
    PROVE  FlattenSeq(<<x, y, z>>) = InThree(x, y, z)
<1> PICK s : s = <<x, y, z>>
    OBVIOUS
<1>1. Len(s) = 3 /\ s[1] = x /\ s[2] = y /\ s[3] = z
    OBVIOUS
<1>2. \E f : Flattens(f, s)
    <2> PICK f : f = [i \in 1..3 |-> IF i = 1 THEN x ELSE IF i = 2 THEN x \o y ELSE (x \o y) \o z]
        OBVIOUS
    <2>1. \A i \in 1..3 : i = 1 \/ i = 2 \/ i = 3
        OBVIOUS
    <2>2. f[1] = x /\ f[2] = x \o y /\ f[3] = (x \o y) \o z
        OBVIOUS
    <2>3. ASSUME NEW i \in 1..3
          PROVE  f[i] = IF i = 1 THEN s[i] ELSE f[i - 1] \o s[i]
        <3>1. 2 - 1 = 1 /\ 3 - 1 = 2
            OBVIOUS
        <3> QED
            BY <1>1, <2>1, <2>2, <3>1
    <2>4. f = [i \in 1..3 |-> IF i = 1 THEN s[i] ELSE f[i - 1] \o s[i]]
        BY <2>3
    <2>5. Flattens(f, s)
        BY <1>1, <2>4 DEF Flattens
    <2> QED
        BY <2>5
<1>3. ASSUME NEW f, Flattens(f, s) PROVE f[3] = (x \o y) \o z
    <2>1. /\ 1 \in 1..Len(s) /\ 2 \in 1..Len(s) /\ 3 \in 1..Len(s)
          /\ 2 - 1 = 1 /\ 3 - 1 = 2 /\ 2 # 1 /\ 3 # 1
        BY <1>1
    <2>2. f[1] = s[1]
        BY <1>3, <2>1 DEF Flattens
    <2>3. f[2] = f[1] \o s[2]
        BY <1>3, <2>1 DEF Flattens
    <2>4. f[3] = f[2] \o s[3]
        BY <1>3, <2>1 DEF Flattens
    <2> QED
        BY <1>1, <2>2, <2>3, <2>4
<1>4. PICK f : Flattens(f, s) /\ FlattenSeq(s) = f[3]
    <2>1. Len(s) # 0
        BY <1>1
    <2>2. \E f : Flattens(f, s) /\ FlattenSeq(s) = f[Len(s)]
        BY <1>2, <2>1, FlatBy
    <2> QED
        BY <1>1, <2>2
<1> QED
    BY <1>3, <1>4 DEF InThree

\* A path of two segments.
LEMMA Pair == \A x, y : /\ Len(<<x, y>>) = 2 /\ DOMAIN <<x, y>> = 1..2
                        /\ <<x, y>>[1] = x /\ <<x, y>>[2] = y
OBVIOUS

\* A function over the places of a pair.
LEMMA PairIs ==
    ASSUME NEW f, NEW x, NEW y, f = [i \in 1..2 |-> f[i]], f[1] = x, f[2] = y
    PROVE  f = <<x, y>>
<1>1. <<x, y>> = [i \in 1..2 |-> <<x, y>>[i]]
    OBVIOUS
<1>2. \A i \in 1..2 : i = 1 \/ i = 2
    OBVIOUS
<1>3. \A i \in 1..2 : f[i] = <<x, y>>[i]
    BY <1>2
<1> QED
    BY <1>1, <1>3

\* The options of a path of two segments.
LEMMA PathOptionsAre ==
    ASSUME NEW s, NEW t
    PROVE  PathOptions(<<s, t>>) = <<Option(UriPath, s), Option(UriPath, t)>>
<1> PICK f : f = [i \in 1..2 |-> Option(UriPath, <<s, t>>[i])]
    OBVIOUS
<1>1. f = PathOptions(<<s, t>>)
    BY Pair DEF PathOptions
<1>2. f = [i \in 1..2 |-> f[i]] /\ f[1] = Option(UriPath, s) /\ f[2] = Option(UriPath, t)
    BY Pair
<1>3. f = <<Option(UriPath, s), Option(UriPath, t)>>
    BY <1>2, PairIs
<1> QED
    BY <1>1, <1>3

\* The bytes of a path of two segments, the first of them after an option 11 - d.
LEMMA PathBytes ==
    ASSUME NEW s, NEW t, NEW before \in {0, 6}
    PROVE  FlattenSeq([i \in DOMAIN <<s, t>> |->
                          OptionHead(UriPath - (IF i = 1 THEN before ELSE UriPath),
                                     Len(<<s, t>>[i])) \o <<s, t>>[i]])
           = Coded(11 - before, s) \o Coded(0, t)
<1> PICK f : f = [i \in 1..2 |-> OptionHead(UriPath - (IF i = 1 THEN before ELSE UriPath),
                                             Len(<<s, t>>[i])) \o <<s, t>>[i]]
    OBVIOUS
<1>1. f[1] = Coded(11 - before, s)
    BY Pair DEF Coded, UriPath
<1>2. f[2] = Coded(0, t)
    <2>1. 11 - 11 = 0 /\ 2 # 1 /\ 2 \in 1..2
        OBVIOUS
    <2>2. f[2] = OptionHead(UriPath - UriPath, Len(<<s, t>>[2])) \o <<s, t>>[2]
        BY <2>1
    <2> QED
        BY <2>1, <2>2, Pair DEF Coded, UriPath
<1>3. f = <<Coded(11 - before, s), Coded(0, t)>>
    <2>1. f = [i \in 1..2 |-> f[i]]
        OBVIOUS
    <2> QED
        BY <1>1, <1>2, <2>1, PairIs
<1>4. FlattenSeq(f) = Coded(11 - before, s) \o Coded(0, t)
    BY <1>3, Flat2
<1> QED
    BY <1>4, Pair

\* Both segments are read.
LEMMA PathRead ==
    ASSUME NEW pkt, NEW n \in Nat, NEW i, NEW m, NEW o, ReadTo(pkt, i, m, o),
           NEW d \in 0..12, NEW s \in Seq(Nat), NEW t \in Seq(Nat),
           NEW a \in 0..12, NEW b \in 0..12
    PROVE  /\ n = Len(pkt) /\ a = Len(s) /\ b = Len(t) /\ m + d = 11
           /\ Carries(pkt, i, Coded(d, s) \o Coded(0, t))
           => ReadTo(pkt, i + 2 + a + b, 11,
                     Append(Append(o, Option(UriPath, s)), Option(UriPath, t)))
<1>h. SUFFICES ASSUME n = Len(pkt), a = Len(s), b = Len(t), m + d = 11,
                      Carries(pkt, i, Coded(d, s) \o Coded(0, t))
               PROVE  ReadTo(pkt, i + 2 + a + b, 11,
                             Append(Append(o, Option(UriPath, s)), Option(UriPath, t)))
    OBVIOUS
<1>0. i \in Nat /\ m \in Nat
    BY DEF ReadTo
<1>1. Coded(d, s) \in Seq(Nat) /\ Len(Coded(d, s)) = 1 + a /\ Coded(0, t) \in Seq(Nat)
    <2>1. a \in 0..15 /\ b \in 0..15 /\ 0 \in 0..12
        OBVIOUS
    <2>2. Len(s) \in 0..15 /\ Len(t) \in 0..15
        BY <1>h, <2>1
    <2> QED
        BY <1>h, <2>1, <2>2, CodedIs
<1>2. Carries(pkt, i, Coded(d, s)) /\ Carries(pkt, i + Len(Coded(d, s)), Coded(0, t))
    <2>1. Len(pkt) \in Nat
        BY <1>h
    <2> QED
        BY <1>1, <1>h, <2>1, CarriesParts
<1> PICK j : j = i + 1 + a
    OBVIOUS
<1>3. Carries(pkt, j, Coded(0, t))
    <2>1. i + Len(Coded(d, s)) = j
        BY <1>0, <1>1
    <2> QED
        BY <1>2, <2>1
<1>4. ReadTo(pkt, j, 11, Append(o, Option(UriPath, s)))
    <2>1. ReadTo(pkt, j, m + d, Append(o, Option(m + d, s)))
        BY <1>h, <1>2, OptionRead
    <2> QED
        BY <1>h, <2>1 DEF UriPath
<1>5. ReadTo(pkt, j + 1 + b, 11, Append(Append(o, Option(UriPath, s)), Option(UriPath, t)))
    <2> PICK e : e = j + 1 + b
        OBVIOUS
    <2> PICK p : p = Append(o, Option(UriPath, s))
        OBVIOUS
    <2>1. 0 \in 0..12 /\ 11 + 0 = 11
        OBVIOUS
    <2>2. ReadTo(pkt, e, 11 + 0, Append(p, Option(11 + 0, t)))
        BY <1>h, <1>3, <1>4, <2>1, OptionRead
    <2> QED
        BY <2>1, <2>2 DEF UriPath
<1>6. j + 1 + b = i + 2 + a + b
    BY <1>0
<1> QED
    BY <1>5, <1>6

\* The bytes of a path that no option goes before.
Alone(s, t, a, b) ==
    a = Len(s) /\ b = Len(t) =>
        /\ CoapOptions(<<s, t>>, -1) = Coded(11, s) \o Coded(0, t)
        /\ Coded(11, s) \o Coded(0, t) \in Seq(Nat)
        /\ Len(Coded(11, s) \o Coded(0, t)) = 2 + a + b

\* The bytes of a path after Observe.
Observed(s, t, a, b, observe, v) ==
    a = Len(s) /\ b = Len(t) /\ v = (IF observe > 0 THEN <<observe>> ELSE <<>>) =>
        /\ v \in Seq(Nat) /\ Len(v) = observe
        /\ CoapOptions(<<s, t>>, observe) = Coded(6, v) \o (Coded(5, s) \o Coded(0, t))
        /\ Coded(6, v) \in Seq(Nat) /\ Len(Coded(6, v)) = 1 + observe
        /\ Coded(5, s) \o Coded(0, t) \in Seq(Nat)
        /\ Len(Coded(5, s) \o Coded(0, t)) = 2 + a + b

\* A path that no option goes before.
LEMMA PathAlone ==
    ASSUME NEW s \in Seq(Nat), NEW t \in Seq(Nat), NEW a \in 0..12, NEW b \in 0..12
    PROVE  Alone(s, t, a, b)
<1>h. SUFFICES ASSUME a = Len(s), b = Len(t)
               PROVE  /\ CoapOptions(<<s, t>>, -1) = Coded(11, s) \o Coded(0, t)
                      /\ Coded(11, s) \o Coded(0, t) \in Seq(Nat)
                      /\ Len(Coded(11, s) \o Coded(0, t)) = 2 + a + b
    BY DEF Alone
<1>1. /\ Coded(11, s) \in Seq(Nat) /\ Len(Coded(11, s)) = 1 + a
      /\ Coded(0, t) \in Seq(Nat) /\ Len(Coded(0, t)) = 1 + b
    <2>1. a \in 0..15 /\ b \in 0..15 /\ 0 \in 0..12 /\ 11 \in 0..12
        OBVIOUS
    <2>2. Len(s) \in 0..15 /\ Len(t) \in 0..15
        BY <1>h, <2>1
    <2> QED
        BY <1>h, <2>1, <2>2, CodedIs
<1>2. /\ Coded(11, s) \o Coded(0, t) \in Seq(Nat)
      /\ Len(Coded(11, s) \o Coded(0, t)) = Len(Coded(11, s)) + Len(Coded(0, t))
    BY <1>1, BytesJoined
<1>3. CoapOptions(<<s, t>>, -1) = <<>> \o (Coded(11, s) \o Coded(0, t))
    <2>1. 11 - 0 = 11
        OBVIOUS
    <2>2. FlattenSeq([i \in DOMAIN <<s, t>> |->
                         OptionHead(UriPath - (IF i = 1 THEN 0 ELSE UriPath),
                                    Len(<<s, t>>[i])) \o <<s, t>>[i]])
          = Coded(11, s) \o Coded(0, t)
        BY <2>1, PathBytes
    <2> QED
        BY <2>2 DEF CoapOptions
<1>4. CoapOptions(<<s, t>>, -1) = Coded(11, s) \o Coded(0, t)
    BY <1>2, <1>3, ConcatEmptySeq
<1>5. Len(Coded(11, s) \o Coded(0, t)) = 2 + a + b
    BY <1>1, <1>2
<1> QED
    BY <1>2, <1>4, <1>5

\* A path after Observe.
LEMMA PathObserved ==
    ASSUME NEW s \in Seq(Nat), NEW t \in Seq(Nat), NEW a \in 0..12, NEW b \in 0..12,
           NEW observe \in 0..1, NEW v
    PROVE  Observed(s, t, a, b, observe, v)
<1>h. SUFFICES ASSUME a = Len(s), b = Len(t), v = (IF observe > 0 THEN <<observe>> ELSE <<>>)
               PROVE  /\ v \in Seq(Nat) /\ Len(v) = observe
                      /\ CoapOptions(<<s, t>>, observe)
                             = Coded(6, v) \o (Coded(5, s) \o Coded(0, t))
                      /\ Coded(6, v) \in Seq(Nat) /\ Len(Coded(6, v)) = 1 + observe
                      /\ Coded(5, s) \o Coded(0, t) \in Seq(Nat)
                      /\ Len(Coded(5, s) \o Coded(0, t)) = 2 + a + b
    BY DEF Observed
<1>0. v \in Seq(Nat) /\ Len(v) = observe
    <2>1. CASE observe = 0
        <3>1. v = <<>>
            BY <1>h, <2>1
        <3> QED
            BY <2>1, <3>1
    <2>2. CASE observe = 1
        <3>1. v = <<1>> /\ <<1>> \in Seq(Nat) /\ Len(<<1>>) = 1
            BY <1>h, <2>2
        <3> QED
            BY <2>2, <3>1
    <2>3. observe = 0 \/ observe = 1
        OBVIOUS
    <2> QED
        BY <2>1, <2>2, <2>3
<1>1. /\ Coded(5, s) \in Seq(Nat) /\ Len(Coded(5, s)) = 1 + a
      /\ Coded(0, t) \in Seq(Nat) /\ Len(Coded(0, t)) = 1 + b
      /\ Coded(6, v) \in Seq(Nat) /\ Len(Coded(6, v)) = 1 + observe
    <2>1. /\ a \in 0..15 /\ b \in 0..15 /\ observe \in 0..15
          /\ 0 \in 0..12 /\ 5 \in 0..12 /\ 6 \in 0..12
        OBVIOUS
    <2>2. Len(s) \in 0..15 /\ Len(t) \in 0..15 /\ Len(v) \in 0..15
        BY <1>h, <1>0, <2>1
    <2>3. Coded(5, s) \in Seq(Nat) /\ Len(Coded(5, s)) = 1 + a
        BY <1>h, <2>1, <2>2, CodedIs
    <2>4. Coded(0, t) \in Seq(Nat) /\ Len(Coded(0, t)) = 1 + b
        BY <1>h, <2>1, <2>2, CodedIs
    <2>5. Coded(6, v) \in Seq(Nat) /\ Len(Coded(6, v)) = 1 + observe
        BY <1>0, <2>1, <2>2, CodedIs
    <2> QED
        BY <2>3, <2>4, <2>5
<1>2. /\ Coded(5, s) \o Coded(0, t) \in Seq(Nat)
      /\ Len(Coded(5, s) \o Coded(0, t)) = Len(Coded(5, s)) + Len(Coded(0, t))
    BY <1>1, BytesJoined
<1>3. CoapOptions(<<s, t>>, observe) = Coded(6, v) \o (Coded(5, s) \o Coded(0, t))
    <2>1. 11 - 6 = 5 /\ observe # -1
        OBVIOUS
    <2>2. FlattenSeq([i \in DOMAIN <<s, t>> |->
                         OptionHead(UriPath - (IF i = 1 THEN 6 ELSE UriPath),
                                    Len(<<s, t>>[i])) \o <<s, t>>[i]])
          = Coded(5, s) \o Coded(0, t)
        BY <2>1, PathBytes
    <2> QED
        BY <1>h, <2>1, <2>2 DEF CoapOptions, Coded, Observe
<1>4. Len(Coded(5, s) \o Coded(0, t)) = 2 + a + b
    BY <1>1, <1>2
<1> QED
    BY <1>0, <1>1, <1>2, <1>3, <1>4

-----------------------------------------------------------------------------
(* GET. *)

\* pkt is a packet with a token of eight bytes, before any of its options is read.
Unread(pkt, b, code, id, token, rest, n) ==
    /\ n \in Nat /\ n = Len(pkt) /\ n = 12 + Len(rest)
    /\ Header(pkt, b, code, id, token) /\ Carries(pkt, 13, rest) /\ ReadTo(pkt, 13, 0, <<>>)

\* A packet carries its header and what comes after it.
LEMMA FirstAndRest ==
    ASSUME NEW pkt \in Seq(Nat), NEW head \in Seq(Nat), NEW rest \in Seq(Nat)
    PROVE  pkt = head \o rest => Carries(pkt, 1, head) /\ Carries(pkt, 1 + Len(head), rest)
<1>h. SUFFICES ASSUME pkt = head \o rest
               PROVE  Carries(pkt, 1, head) /\ Carries(pkt, 1 + Len(head), rest)
    OBVIOUS
<1>1. Len(pkt) \in Nat /\ Carries(pkt, 1, pkt)
    BY LenProperties, CarriesWhole
<1>2. Carries(pkt, 1, head \o rest)
    BY <1>1, <1>h
<1> QED
    BY <1>1, <1>2, CarriesParts

\* Whatever follows the header, it is read back, and the options begin after it.
LEMMA PacketUnread ==
    ASSUME NEW b \in {72, 104}, NEW code \in Nat, NEW id \in Short, NEW token \in Seq(Nat),
           NEW rest \in Seq(Nat), NEW pkt
    PROVE  Len(token) = 8 /\ pkt = (<<b, code>> \o U16(id) \o token) \o rest
           => \E n : Unread(pkt, b, code, id, token, rest, n)
<1>h. SUFFICES ASSUME Len(token) = 8, pkt = (<<b, code>> \o U16(id) \o token) \o rest
               PROVE  \E n : Unread(pkt, b, code, id, token, rest, n)
    OBVIOUS
<1>1. PICK two \in Seq(Nat) : two = <<b, code>> /\ Len(two) = 2
    <2>1. <<b, code>> \in Seq(Nat) /\ Len(<<b, code>>) = 2
        OBVIOUS
    <2> QED
        BY <2>1
<1>2. PICK u \in Seq(Nat) : u = U16(id) /\ Len(u) = 2
    BY ShortAre, U16Bytes
<1>3. PICK head \in Seq(Nat) : head = (two \o u) \o token /\ Len(head) = 12
    <2>1. two \o u \in Seq(Nat) /\ Len(two \o u) = Len(two) + Len(u)
        BY BytesJoined
    <2>2. (two \o u) \o token \in Seq(Nat)
          /\ Len((two \o u) \o token) = Len(two \o u) + Len(token)
        BY <2>1, BytesJoined
    <2>3. Len((two \o u) \o token) = 12
        BY <1>h, <1>1, <1>2, <2>1, <2>2
    <2> QED
        BY <2>2, <2>3
<1>4. pkt = head \o rest
    BY <1>h, <1>1, <1>2, <1>3
<1>5. pkt \in Seq(Nat) /\ Len(pkt) = 12 + Len(rest) /\ Len(pkt) \in Nat
    <2>1. /\ head \o rest \in Seq(Nat) /\ Len(head \o rest) = Len(head) + Len(rest)
          /\ Len(rest) \in Nat
        BY BytesJoined
    <2> QED
        BY <1>3, <1>4, <2>1
<1>6. Carries(pkt, 1, head) /\ Carries(pkt, 13, rest)
    <2>1. pkt \in Seq(Nat)
        BY <1>5
    <2>2. Carries(pkt, 1, head) /\ Carries(pkt, 1 + Len(head), rest)
        BY <1>4, <2>1, FirstAndRest
    <2>3. 1 + Len(head) = 13
        BY <1>3
    <2> QED
        BY <2>2, <2>3
<1>7. Header(pkt, b, code, id, token)
    <2>1. Carries(pkt, 1, <<b, code>> \o U16(id) \o token)
        BY <1>1, <1>2, <1>3, <1>6
    <2>2. b \in Nat /\ pkt \in Seq(Nat)
        BY <1>5
    <2>3. Len(token) = 8 /\ Carries(pkt, 1, <<b, code>> \o U16(id) \o token)
          => Header(pkt, b, code, id, token)
        BY <2>2, HeaderRead
    <2> QED
        BY <1>h, <2>1, <2>3
<1>8. ReadTo(pkt, 13, 0, <<>>)
    <2>1. b % 16 = 8 /\ 13 = 5 + 8 /\ 13 > 0 /\ 13 \in Nat
        <3>1. b = 72 => b % 16 = 8
            OBVIOUS
        <3>2. b = 104 => b % 16 = 8
            OBVIOUS
        <3> QED
            BY <3>1, <3>2
    <2>2. pkt[1] = b
        BY <1>7 DEF Header
    <2>3. 13 = 5 + (pkt[1] % 16) /\ Len(pkt) \in Nat
        BY <1>5, <2>1, <2>2
    <2> QED
        BY <2>1, <2>3, ReadingStarts
<1>9. Unread(pkt, b, code, id, token, rest, Len(pkt))
    BY <1>5, <1>6, <1>7, <1>8 DEF Unread
<1> QED
    BY <1>9

\* The same of a request.
LEMMA RequestUnread ==
    ASSUME NEW code \in Nat, NEW id \in Short, NEW token \in Seq(Nat),
           NEW rest \in Seq(Nat), NEW pkt
    PROVE  Len(token) = 8 /\ pkt = Request(code, token, id) \o rest
           => \E n : Unread(pkt, 72, code, id, token, rest, n)
<1>h. SUFFICES ASSUME Len(token) = 8, pkt = Request(code, token, id) \o rest
               PROVE  \E n : Unread(pkt, 72, code, id, token, rest, n)
    OBVIOUS
<1>1. Request(code, token, id) = <<72, code>> \o U16(id) \o token
    BY <1>h, HeadBits DEF Request
<1>2. 72 \in {72, 104}
    OBVIOUS
<1> QED
    BY <1>h, <1>1, <1>2, PacketUnread, ZenonT(60)

\* The header and the token of an answer.
AnswerHead(code, id, token) == <<104, code>> \o U16(id) \o token

\* The same of an answer.
LEMMA AnswerUnread ==
    ASSUME NEW code \in Nat, NEW id \in Short, NEW token \in Seq(Nat),
           NEW rest \in Seq(Nat), NEW pkt
    PROVE  Len(token) = 8 /\ pkt = AnswerHead(code, id, token) \o rest
           => \E n : Unread(pkt, 104, code, id, token, rest, n)
<1>h. SUFFICES ASSUME Len(token) = 8, pkt = AnswerHead(code, id, token) \o rest
               PROVE  \E n : Unread(pkt, 104, code, id, token, rest, n)
    OBVIOUS
<1>1. AnswerHead(code, id, token) = <<104, code>> \o U16(id) \o token
    BY DEF AnswerHead
<1>2. 104 \in {72, 104}
    OBVIOUS
<1> QED
    BY <1>h, <1>1, <1>2, PacketUnread

\* The options that are read of a GET.
LEMMA OneMore ==
    ASSUME NEW S, NEW o \in Seq(S), NEW p \in S, NEW q \in S
    PROVE  Append(Append(o, p), q) = o \o <<p, q>>
<1> PICK w : w = <<p, q>>
    OBVIOUS
<1>1. w \in Seq(S) /\ Len(w) = 2 /\ w[1] = p /\ w[2] = q
    OBVIOUS
<1>2. Len(o) \in Nat
    BY LenProperties
<1> PICK u : u = Append(o, p)
    OBVIOUS
<1>3. /\ u \in Seq(S) /\ Len(u) = Len(o) + 1 /\ u[Len(o) + 1] = p
      /\ \A i \in 1..Len(o) : u[i] = o[i]
    BY AppendProperties
<1> PICK x : x = Append(u, q)
    OBVIOUS
<1>4. /\ x \in Seq(S) /\ Len(x) = Len(u) + 1 /\ x[Len(u) + 1] = q
      /\ \A i \in 1..Len(u) : x[i] = u[i]
    BY <1>3, AppendProperties
<1> PICK y : y = o \o w
    OBVIOUS
<1>5. /\ y \in Seq(S) /\ Len(y) = Len(o) + Len(w)
      /\ \A i \in 1..(Len(o) + Len(w)) : y[i] = IF i <= Len(o) THEN o[i] ELSE w[i - Len(o)]
    BY <1>1, ConcatProperties
<1>6. Len(x) = Len(y)
    BY <1>1, <1>2, <1>3, <1>4, <1>5
<1>7. ASSUME NEW i \in 1..Len(x) PROVE x[i] = y[i]
    <2>0. Len(x) = Len(o) + 2 /\ Len(u) = Len(o) + 1 /\ i \in 1..(Len(o) + Len(w)) /\ i \in Nat
        BY <1>1, <1>2, <1>3, <1>4
    <2>1. CASE i <= Len(o)
        BY <1>2, <1>3, <1>4, <1>5, <2>0, <2>1
    <2>2. CASE i = Len(o) + 1
        <3>1. ~(i <= Len(o)) /\ i - Len(o) = 1 /\ i \in 1..Len(u)
            BY <1>2, <2>0, <2>2
        <3> QED
            BY <1>1, <1>3, <1>4, <1>5, <2>0, <2>2, <3>1
    <2>3. CASE i = Len(o) + 2
        <3>1. ~(i <= Len(o)) /\ i - Len(o) = 2 /\ i = Len(u) + 1
            BY <1>2, <2>0, <2>3
        <3> QED
            BY <1>1, <1>4, <1>5, <2>0, <3>1
    <2>4. i <= Len(o) \/ i = Len(o) + 1 \/ i = Len(o) + 2
        BY <1>2, <2>0
    <2> QED
        BY <2>1, <2>2, <2>3, <2>4
<1>8. x = y
    BY <1>4, <1>5, <1>6, <1>7, SeqEqual
<1> QED
    BY <1>8

\* The path after no other option, and after one.
LEMMA ObservedOptions ==
    ASSUME NEW p, NEW q, NEW x
    PROVE  /\ Append(Append(<<>>, p), q) = <<>> \o <<p, q>>
           /\ Append(Append(Append(<<>>, x), p), q) = <<x>> \o <<p, q>>
<1> PICK S : S = {p, q, x}
    OBVIOUS
<1>1. <<>> \in Seq(S) /\ <<x>> \in Seq(S) /\ Append(<<>>, x) = <<x>> /\ p \in S /\ q \in S
    OBVIOUS
<1> QED
    BY <1>1, OneMore, ZenonT(60)

\* What GetIsRead says of a packet of a token and an id.
GetAsBuilt(pkt, s, t, observe, id, token) ==
    /\ OptionsOf(pkt) = ObserveOptions(observe) \o PathOptions(<<s, t>>)
    /\ AnnotateCoapGet(pkt) =
          [ver |-> 1, type |-> 0, tkl |-> 8, code |-> 1, msgId |-> id, token |-> token]

\* A GET without Observe is read as it was built.
LEMMA PlainGetRead ==
    ASSUME NEW s \in Seq(Nat), NEW t \in Seq(Nat), NEW a \in 0..12, NEW b \in 0..12,
           NEW id \in Short, NEW token \in Seq(Nat), NEW pkt
    PROVE  /\ a = Len(s) /\ b = Len(t) /\ Len(token) = 8
           /\ pkt = CoapConGet(<<s, t>>, token, id, -1)
           => GetAsBuilt(pkt, s, t, -1, id, token)
<1>h. SUFFICES ASSUME a = Len(s), b = Len(t), Len(token) = 8,
                      pkt = CoapConGet(<<s, t>>, token, id, -1)
               PROVE  GetAsBuilt(pkt, s, t, -1, id, token)
    OBVIOUS
<1>1. PICK rest \in Seq(Nat) : /\ rest = CoapOptions(<<s, t>>, -1)
                               /\ rest = Coded(11, s) \o Coded(0, t) /\ Len(rest) = 2 + a + b
    <2>1. Alone(s, t, a, b)
        BY PathAlone
    <2> QED
        BY <1>h, <2>1 DEF Alone
<1>2. PICK n : Unread(pkt, 72, 1, id, token, rest, n)
    <2>1. pkt = Request(1, token, id) \o rest
        BY <1>h, <1>1 DEF CoapConGet
    <2> QED
        BY <1>h, <2>1, RequestUnread
<1>3. /\ n \in Nat /\ n = Len(pkt) /\ n = 12 + Len(rest)
      /\ Header(pkt, 72, 1, id, token) /\ Carries(pkt, 13, rest) /\ ReadTo(pkt, 13, 0, <<>>)
    BY <1>2 DEF Unread
<1> PICK j : j = 13 + 2 + a + b
    OBVIOUS
<1> PICK o : o = Append(Append(<<>>, Option(UriPath, s)), Option(UriPath, t))
    OBVIOUS
<1>4. ReadTo(pkt, j, 11, o)
    <2>1. 11 \in 0..12 /\ 0 + 11 = 11
        OBVIOUS
    <2>2. Carries(pkt, 13, Coded(11, s) \o Coded(0, t))
        BY <1>1, <1>3
    <2> QED
        BY <1>h, <1>3, <2>1, <2>2, PathRead
<1>5. OptionsOf(pkt) = o
    <2>1. j = n + 1
        BY <1>1, <1>3
    <2>2. n \in Nat /\ n = Len(pkt)
        BY <1>3
    <2>3. Ended(pkt, n, j, o)
        BY <1>4, <2>2, ReadingEnds
    <2> QED
        BY <2>1, <2>2, <2>3 DEF Ended
<1>6. OptionsOf(pkt) = ObserveOptions(-1) \o PathOptions(<<s, t>>)
    <2>1. ObserveOptions(-1) = <<>>
        BY DEF ObserveOptions
    <2>2. o = <<>> \o <<Option(UriPath, s), Option(UriPath, t)>>
        BY ObservedOptions
    <2> QED
        BY <1>5, <2>1, <2>2, PathOptionsAre
<1>7. AnnotateCoapGet(pkt) =
          [ver |-> 1, type |-> 0, tkl |-> 8, code |-> 1, msgId |-> id, token |-> token]
    BY <1>3, GetAnnotated
<1> QED
    BY <1>6, <1>7 DEF GetAsBuilt

\* A GET with Observe is read as it was built.
LEMMA ObservingGetRead ==
    ASSUME NEW s \in Seq(Nat), NEW t \in Seq(Nat), NEW a \in 0..12, NEW b \in 0..12,
           NEW observe \in 0..1, NEW id \in Short, NEW token \in Seq(Nat), NEW pkt
    PROVE  /\ a = Len(s) /\ b = Len(t) /\ Len(token) = 8
           /\ pkt = CoapConGet(<<s, t>>, token, id, observe)
           => GetAsBuilt(pkt, s, t, observe, id, token)
<1>h. SUFFICES ASSUME a = Len(s), b = Len(t), Len(token) = 8,
                      pkt = CoapConGet(<<s, t>>, token, id, observe)
               PROVE  GetAsBuilt(pkt, s, t, observe, id, token)
    OBVIOUS
<1>v. PICK v : v = (IF observe > 0 THEN <<observe>> ELSE <<>>)
    OBVIOUS
<1>1. /\ v \in Seq(Nat) /\ Len(v) = observe
      /\ CoapOptions(<<s, t>>, observe) = Coded(6, v) \o (Coded(5, s) \o Coded(0, t))
      /\ Coded(6, v) \in Seq(Nat) /\ Len(Coded(6, v)) = 1 + observe
      /\ Coded(5, s) \o Coded(0, t) \in Seq(Nat) /\ Len(Coded(5, s) \o Coded(0, t)) = 2 + a + b
    <2>1. Observed(s, t, a, b, observe, v)
        BY PathObserved
    <2> QED
        BY <1>h, <1>v, <2>1 DEF Observed
<1>2. PICK path \in Seq(Nat) : path = Coded(5, s) \o Coded(0, t) /\ Len(path) = 2 + a + b
    BY <1>1
<1>3. PICK rest \in Seq(Nat) : /\ rest = CoapOptions(<<s, t>>, observe)
                               /\ rest = Coded(6, v) \o path /\ Len(rest) = 3 + observe + a + b
    <2>1. /\ Coded(6, v) \o path \in Seq(Nat)
          /\ Len(Coded(6, v) \o path) = Len(Coded(6, v)) + Len(path)
        BY <1>1, BytesJoined
    <2>a. Len(Coded(6, v)) = 1 + observe
        BY <1>1
    <2>2. Len(Coded(6, v) \o path) = 3 + observe + a + b
        BY <1>2, <2>1, <2>a
    <2> QED
        BY <1>1, <1>2, <2>1, <2>2
<1>4. PICK n : Unread(pkt, 72, 1, id, token, rest, n)
    <2>1. pkt = Request(1, token, id) \o rest
        BY <1>h, <1>3 DEF CoapConGet
    <2> QED
        BY <1>h, <2>1, RequestUnread
<1>5. /\ n \in Nat /\ n = Len(pkt) /\ n = 12 + Len(rest) /\ Len(pkt) \in Nat
      /\ Header(pkt, 72, 1, id, token) /\ Carries(pkt, 13, rest) /\ ReadTo(pkt, 13, 0, <<>>)
    BY <1>4 DEF Unread
<1> PICK i : i = 14 + observe
    OBVIOUS
<1>6. Carries(pkt, 13, Coded(6, v)) /\ Carries(pkt, i, path)
    <2>1. Carries(pkt, 13, Coded(6, v) \o path)
        BY <1>3, <1>5
    <2>2. Carries(pkt, 13, Coded(6, v)) /\ Carries(pkt, 13 + Len(Coded(6, v)), path)
        BY <1>1, <1>5, <2>1, CarriesParts
    <2>a. Len(Coded(6, v)) = 1 + observe
        BY <1>1
    <2>3. 13 + Len(Coded(6, v)) = i
        BY <2>a
    <2> QED
        BY <2>2, <2>3
<1>7. ReadTo(pkt, i, 6, Append(<<>>, Option(6, v)))
    <2>1. 6 \in 0..12 /\ 0 + 6 = 6 /\ i = 13 + 1 + observe /\ observe \in 0..12
        OBVIOUS
    <2>2. ReadTo(pkt, i, 0 + 6, Append(<<>>, Option(0 + 6, v)))
        BY <1>1, <1>5, <1>6, <2>1, OptionRead
    <2> QED
        BY <2>1, <2>2
<1> PICK j : j = i + 2 + a + b
    OBVIOUS
<1> PICK o : o = Append(Append(Append(<<>>, Option(6, v)), Option(UriPath, s)), Option(UriPath, t))
    OBVIOUS
<1>8. ReadTo(pkt, j, 11, o)
    <2> PICK p : p = Append(<<>>, Option(6, v))
        OBVIOUS
    <2>1. 5 \in 0..12 /\ 6 + 5 = 11
        OBVIOUS
    <2>2. Carries(pkt, i, Coded(5, s) \o Coded(0, t))
        BY <1>2, <1>6, SMTT(30)
    <2>3. ReadTo(pkt, j, 11, Append(Append(p, Option(UriPath, s)), Option(UriPath, t)))
        BY <1>h, <1>5, <1>7, <2>1, <2>2, PathRead
    <2> QED
        BY <2>3
<1>9. OptionsOf(pkt) = o
    <2>1. j = n + 1
        BY <1>3, <1>5
    <2>2. n \in Nat /\ n = Len(pkt)
        BY <1>5
    <2>3. Ended(pkt, n, j, o)
        BY <1>8, <2>2, ReadingEnds
    <2> QED
        BY <2>1, <2>2, <2>3 DEF Ended
<1>10. OptionsOf(pkt) = ObserveOptions(observe) \o PathOptions(<<s, t>>)
    <2>1. ObserveOptions(observe) = <<Option(6, v)>>
        BY <1>v DEF ObserveOptions, Observe
    <2>2. o = <<Option(6, v)>> \o <<Option(UriPath, s), Option(UriPath, t)>>
        BY ObservedOptions
    <2> QED
        BY <1>9, <2>1, <2>2, PathOptionsAre
<1>11. AnnotateCoapGet(pkt) =
          [ver |-> 1, type |-> 0, tkl |-> 8, code |-> 1, msgId |-> id, token |-> token]
    BY <1>5, GetAnnotated
<1> QED
    BY <1>10, <1>11 DEF GetAsBuilt

\* A Content-Format of 50 that ends the options.
Mark(d) == <<16 * d + 1, 50, 255>>

-----------------------------------------------------------------------------
(* PUT. *)

\* A sequence is the concatenation of its two parts.
LEMMA Joined ==
    ASSUME NEW s \in Seq(Nat), NEW t \in Seq(Nat), NEW u \in Seq(Nat), Len(u) = Len(s) + Len(t),
           \A i \in 1..Len(s) : u[i] = s[i], \A i \in 1..Len(t) : u[Len(s) + i] = t[i]
    PROVE  s \o t = u
<1> PICK w : w = s \o t
    OBVIOUS
<1>1. /\ w \in Seq(Nat) /\ Len(w) = Len(s) + Len(t) /\ Len(s) \in Nat /\ Len(t) \in Nat
      /\ \A i \in 1..(Len(s) + Len(t)) : w[i] = IF i <= Len(s) THEN s[i] ELSE t[i - Len(s)]
    BY LenProperties, ConcatProperties
<1>2. ASSUME NEW i \in 1..Len(w) PROVE w[i] = u[i]
    <2>1. CASE i <= Len(s)
        <3>1. i \in 1..Len(s)
            BY <1>1, <2>1
        <3> QED
            BY <1>1, <2>1, <3>1
    <2>2. CASE i > Len(s)
        <3>1. PICK j \in 1..Len(t) : j = i - Len(s) /\ Len(s) + j = i /\ ~(i <= Len(s))
            <4>1. i \in 1..(Len(s) + Len(t)) /\ Len(s) \in Nat /\ Len(t) \in Nat
                BY <1>1
            <4>2. /\ i - Len(s) \in 1..Len(t) /\ Len(s) + (i - Len(s)) = i
                  /\ ~(i <= Len(s))
                BY <2>2, <4>1
            <4> QED
                BY <4>2
        <3>2. w[i] = t[j]
            BY <1>1, <3>1
        <3>3. u[i] = t[j]
            BY <3>1
        <3> QED
            BY <3>2, <3>3
    <2> QED
        BY <1>1, <2>1, <2>2
<1>3. w = u
    BY <1>1, <1>2, SeqEqual
<1> QED
    BY <1>3

\* One byte more.
LEMMA TwoJoined ==
    ASSUME NEW a \in Nat, NEW b \in Nat, NEW c \in Nat
    PROVE  <<a>> \o <<b>> = <<a, b>> /\ <<a, b>> \o <<c>> = <<a, b, c>>
<1>1. <<a>> \o <<b>> = <<a, b>>
    <2>1. <<a>> \in Seq(Nat) /\ <<b>> \in Seq(Nat) /\ <<a, b>> \in Seq(Nat)
        OBVIOUS
    <2>2. Len(<<a>>) = 1 /\ Len(<<b>>) = 1 /\ Len(<<a, b>>) = 2
        OBVIOUS
    <2>3. Len(<<a, b>>) = Len(<<a>>) + Len(<<b>>)
        BY <2>2
    <2>4. \A i \in 1..1 : <<a, b>>[i] = <<a>>[i] /\ <<a, b>>[1 + i] = <<b>>[i]
        OBVIOUS
    <2> QED
        BY <2>1, <2>2, <2>3, <2>4, Joined, ZenonT(60)
<1>2. <<a, b>> \o <<c>> = <<a, b, c>>
    <2>1. <<a, b>> \in Seq(Nat) /\ <<c>> \in Seq(Nat) /\ <<a, b, c>> \in Seq(Nat)
        OBVIOUS
    <2>2. Len(<<a, b>>) = 2 /\ Len(<<c>>) = 1 /\ Len(<<a, b, c>>) = 3
        OBVIOUS
    <2>3. Len(<<a, b, c>>) = Len(<<a, b>>) + Len(<<c>>)
        BY <2>2
    <2>4. \A i \in 1..2 : <<a, b, c>>[i] = <<a, b>>[i]
        OBVIOUS
    <2>5. \A i \in 1..1 : <<a, b, c>>[2 + i] = <<c>>[i]
        OBVIOUS
    <2> QED
        BY <2>1, <2>2, <2>3, <2>4, <2>5, Joined
<1> QED
    BY <1>1, <1>2

\* Two bytes more.
LEMMA FourJoined ==
    ASSUME NEW a \in Nat, NEW b \in Nat, NEW c \in Nat, NEW d \in Nat
    PROVE  <<a, b>> \o <<c, d>> = <<a, b, c, d>>
<1>1. <<a, b>> \in Seq(Nat) /\ <<c, d>> \in Seq(Nat) /\ <<a, b, c, d>> \in Seq(Nat)
    OBVIOUS
<1>2. Len(<<a, b>>) = 2 /\ Len(<<c, d>>) = 2 /\ Len(<<a, b, c, d>>) = 4
    OBVIOUS
<1>3. Len(<<a, b, c, d>>) = Len(<<a, b>>) + Len(<<c, d>>)
    BY <1>2
<1>4. \A i \in 1..2 : <<a, b, c, d>>[i] = <<a, b>>[i]
    OBVIOUS
<1>5. \A i \in 1..2 : <<a, b, c, d>>[2 + i] = <<c, d>>[i]
    OBVIOUS
<1> QED
    BY <1>1, <1>2, <1>3, <1>4, <1>5, Joined

\* It is an option and a byte that no option begins with.
LEMMA MarkIs ==
    ASSUME NEW d \in 0..12
    PROVE  /\ Mark(d) = Coded(d, <<50>>) \o <<255>>
           /\ Coded(d, <<50>>) \in Seq(Nat) /\ Len(Coded(d, <<50>>)) = 2
           /\ Mark(d) \in Seq(Nat) /\ Len(Mark(d)) = 3
<1>1. PICK v \in Seq(Nat) : v = <<50>> /\ Len(v) = 1
    <2>1. <<50>> \in Seq(Nat) /\ Len(<<50>>) = 1
        OBVIOUS
    <2> QED
        BY <2>1
<1>2. PICK b \in Nat : b = 16 * d + 1
    OBVIOUS
<1>3. /\ Coded(d, v) = <<16 * d + Len(v)>> \o v /\ Coded(d, v) \in Seq(Nat)
      /\ Len(Coded(d, v)) = 1 + Len(v)
    <2>1. Len(v) \in 0..15
        BY <1>1
    <2> QED
        BY <2>1, CodedIs
<1>4. Coded(d, v) = <<b>> \o <<50>>
    BY <1>1, <1>2, <1>3
<1>5. <<b>> \o <<50>> = <<b, 50>> /\ <<b, 50>> \o <<255>> = <<b, 50, 255>>
    <2>1. PICK x \in Nat, y \in Nat : x = 50 /\ y = 255
        OBVIOUS
    <2>2. <<b>> \o <<x>> = <<b, x>> /\ <<b, x>> \o <<y>> = <<b, x, y>>
        BY TwoJoined
    <2> QED
        BY <2>1, <2>2
<1>6. <<b, 50, 255>> \in Seq(Nat) /\ Len(<<b, 50, 255>>) = 3
    OBVIOUS
<1>7. Len(Coded(d, v)) = 2
    BY <1>1, <1>3
<1>8. Mark(d) = <<b, 50, 255>>
    BY <1>2 DEF Mark
<1>9. Mark(d) = Coded(d, v) \o <<255>>
    BY <1>4, <1>5, <1>8
<1> QED
    BY <1>1, <1>3, <1>6, <1>7, <1>8, <1>9, SMTT(60)

\* The options end with the format, whatever the payload.
FormatEnds(pkt, n, i, m, o, d, c, payload) ==
    n = Len(pkt) /\ c = m + d /\ Carries(pkt, i, Mark(d) \o payload)
    => OptionsOf(pkt) = Append(o, Option(c, <<50>>))

\* The format is read, and nothing after it.
LEMMA FormatRead ==
    ASSUME NEW pkt, NEW n \in Nat, NEW i, NEW m, NEW o, ReadTo(pkt, i, m, o),
           NEW d \in 0..12, NEW c, NEW payload \in Seq(Nat)
    PROVE  FormatEnds(pkt, n, i, m, o, d, c, payload)
<1>h. SUFFICES ASSUME n = Len(pkt), c = m + d, Carries(pkt, i, Mark(d) \o payload)
               PROVE  OptionsOf(pkt) = Append(o, Option(c, <<50>>))
    BY DEF FormatEnds
<1>0. i \in Nat /\ m \in Nat /\ Len(pkt) \in Nat
    BY <1>h DEF ReadTo
<1>1. PICK v \in Seq(Nat) : v = <<50>> /\ Len(v) = 1
    <2>1. <<50>> \in Seq(Nat) /\ Len(<<50>>) = 1
        OBVIOUS
    <2> QED
        BY <2>1
<1>x. PICK x \in Nat : x = 255
    OBVIOUS
<1>2. PICK w \in Seq(Nat) : w = <<x>> /\ Len(w) = 1 /\ w[1] = x
    <2>1. <<x>> \in Seq(Nat) /\ Len(<<x>>) = 1 /\ <<x>>[1] = x
        OBVIOUS
    <2> QED
        BY <2>1
<1>3. PICK f \in Seq(Nat) : f = Coded(d, v) /\ Len(f) = 2
    BY <1>1, MarkIs
<1>4. Mark(d) = f \o w /\ Mark(d) \in Seq(Nat)
    BY <1>1, <1>x, <1>2, <1>3, MarkIs
<1>5. Carries(pkt, i, Mark(d))
    BY <1>0, <1>4, <1>h, CarriesParts
<1>6. Carries(pkt, i, f) /\ Carries(pkt, i + 2, w)
    <2>1. Carries(pkt, i, f \o w)
        BY <1>4, <1>5
    <2>2. Carries(pkt, i, f) /\ Carries(pkt, i + Len(f), w)
        BY <1>0, <2>1, CarriesParts
    <2> QED
        BY <1>3, <2>2
<1> PICK j : j = i + 2
    OBVIOUS
<1>7. j <= n /\ pkt[j] = 255
    <2>1. Carries(pkt, j, w)
        BY <1>6
    <2>2. 1 \in 1..Len(w) /\ j + 1 - 1 = j
        BY <1>0, <1>2
    <2>3. pkt[j + 1 - 1] = w[1] /\ j + 1 - 1 <= Len(pkt)
        BY <1>2, <2>1, <2>2 DEF Carries
    <2> QED
        BY <1>2, <1>x, <1>h, <2>2, <2>3
<1> PICK p : p = Append(o, Option(c, v))
    OBVIOUS
<1>8. ReadTo(pkt, j, c, p)
    <2>1. 1 \in 0..12 /\ j = i + 1 + 1
        BY <1>0
    <2>2. Carries(pkt, i, Coded(d, v))
        BY <1>3, <1>6
    <2>3. ReadTo(pkt, j, m + d, Append(o, Option(m + d, v)))
        BY <1>1, <1>h, <2>1, <2>2, OptionRead
    <2> QED
        BY <1>h, <2>3
<1>9. OptionsOf(pkt) = p
    <2>1. Ended(pkt, n, j, p)
        BY <1>8, ReadingEnds
    <2> QED
        BY <1>7, <1>h, <2>1 DEF Ended
<1> QED
    BY <1>1, <1>9

\* The options of a PUT and its token.
PutAsBuilt(pkt, s, t, token) ==
    /\ OptionsOf(pkt) = Append(PathOptions(<<s, t>>), Option(12, <<50>>))
    /\ AnnotateCoapResponse(pkt).token = token

\* Concatenation is associative.
Grouped(x, y, z) == (x \o y) \o z = x \o (y \o z)

\* It is, of bytes.
LEMMA Regrouped ==
    ASSUME NEW x \in Seq(Nat), NEW y \in Seq(Nat), NEW z \in Seq(Nat)
    PROVE  Grouped(x, y, z)
BY ConcatAssociative, SMTT(60) DEF Grouped

\* The parts of a PUT.
InParts(r, c, m, p) == ((r \o c) \o m) \o p = r \o (c \o (m \o p))

\* A PUT is a header and what comes after it.
LEMMA PutParts ==
    ASSUME NEW r \in Seq(Nat), NEW c \in Seq(Nat), NEW m \in Seq(Nat), NEW p \in Seq(Nat)
    PROVE  InParts(r, c, m, p) /\ c \o (m \o p) \in Seq(Nat) /\ m \o p \in Seq(Nat)
<1>1. r \o c \in Seq(Nat) /\ m \o p \in Seq(Nat)
    BY BytesJoined
<1>2. ((r \o c) \o m) \o p = (r \o c) \o (m \o p)
    <2>1. Grouped(r \o c, m, p)
        BY <1>1, Regrouped
    <2> QED
        BY <2>1 DEF Grouped
<1>3. (r \o c) \o (m \o p) = r \o (c \o (m \o p))
    <2>1. Grouped(r, c, m \o p)
        BY <1>1, Regrouped
    <2> QED
        BY <2>1 DEF Grouped
<1>4. c \o (m \o p) \in Seq(Nat)
    BY <1>1, BytesJoined
<1> QED
    BY <1>1, <1>2, <1>3, <1>4 DEF InParts

\* A request is a sequence of bytes.
LEMMA RequestBytes ==
    ASSUME NEW code \in Nat, NEW id \in Short, NEW token \in Seq(Nat)
    PROVE  /\ Len(token) = 8 => Request(code, token, id) = <<72, code>> \o U16(id) \o token
           /\ Len(token) = 8 => Request(code, token, id) \in Seq(Nat)
<1>h. SUFFICES ASSUME Len(token) = 8
               PROVE  /\ Request(code, token, id) = <<72, code>> \o U16(id) \o token
                      /\ Request(code, token, id) \in Seq(Nat)
    OBVIOUS
<1>1. Request(code, token, id) = <<72, code>> \o U16(id) \o token
    BY <1>h, HeadBits DEF Request
<1>2. <<72, code>> \in Seq(Nat) /\ U16(id) \in Seq(Nat)
    BY ShortAre, U16Bytes
<1>3. <<72, code>> \o U16(id) \in Seq(Nat)
    BY <1>2, BytesJoined
<1>4. <<72, code>> \o U16(id) \o token \in Seq(Nat)
    BY <1>3, BytesJoined
<1> QED
    BY <1>1, <1>4

\* The header of a PUT is read back, and the options begin after it.
LEMMA PutUnread ==
    ASSUME NEW path, NEW c \in Seq(Nat), NEW id \in Short, NEW token \in Seq(Nat),
           NEW payload \in Seq(Nat), NEW pkt
    PROVE  c = CoapOptions(path, -1) /\ Len(token) = 8 /\ pkt = CoapConPut(path, token, id, payload)
           => /\ c \o (Mark(1) \o payload) \in Seq(Nat) /\ Mark(1) \o payload \in Seq(Nat)
              /\ \E n : Unread(pkt, 72, 3, id, token, c \o (Mark(1) \o payload), n)
<1>h. SUFFICES ASSUME c = CoapOptions(path, -1), Len(token) = 8,
                      pkt = CoapConPut(path, token, id, payload)
               PROVE  /\ c \o (Mark(1) \o payload) \in Seq(Nat) /\ Mark(1) \o payload \in Seq(Nat)
                      /\ \E n : Unread(pkt, 72, 3, id, token, c \o (Mark(1) \o payload), n)
    OBVIOUS
<1>1. PICK r \in Seq(Nat) : r = Request(3, token, id)
    <2>1. 3 \in Nat
        OBVIOUS
    <2> QED
        BY <1>h, <2>1, RequestBytes
<1>2. PICK m \in Seq(Nat) : m = Mark(1) /\ m = <<17, 50, 255>>
    <2>1. 1 \in 0..12 /\ 16 * 1 + 1 = 17
        OBVIOUS
    <2>2. Mark(1) \in Seq(Nat)
        BY <2>1, MarkIs
    <2>3. Mark(1) = <<17, 50, 255>>
        BY <2>1 DEF Mark
    <2> QED
        BY <2>2, <2>3
<1>3. pkt = ((r \o c) \o m) \o payload
    BY <1>1, <1>2, <1>h DEF CoapConPut
<1>4. PICK rest \in Seq(Nat) : rest = c \o (m \o payload)
    BY PutParts
<1>5. pkt = r \o rest /\ m \o payload \in Seq(Nat)
    <2>1. InParts(r, c, m, payload) /\ m \o payload \in Seq(Nat)
        BY PutParts
    <2> QED
        BY <1>3, <1>4, <2>1 DEF InParts
<1>6. \E n : Unread(pkt, 72, 3, id, token, rest, n)
    <2>1. pkt = Request(3, token, id) \o rest
        BY <1>1, <1>5
    <2>2. 3 \in Nat
        OBVIOUS
    <2> QED
        BY <1>h, <2>1, <2>2, RequestUnread
<1> QED
    BY <1>2, <1>4, <1>5, <1>6

\* A PUT is read as it was built.
LEMMA PutRead ==
    ASSUME NEW s \in Seq(Nat), NEW t \in Seq(Nat), NEW a \in 0..12, NEW b \in 0..12,
           NEW id \in Short, NEW token \in Seq(Nat), NEW payload \in Seq(Nat), NEW pkt
    PROVE  /\ a = Len(s) /\ b = Len(t) /\ Len(token) = 8
           /\ pkt = CoapConPut(<<s, t>>, token, id, payload)
           => PutAsBuilt(pkt, s, t, token)
<1>h. SUFFICES ASSUME a = Len(s), b = Len(t), Len(token) = 8,
                      pkt = CoapConPut(<<s, t>>, token, id, payload)
               PROVE  PutAsBuilt(pkt, s, t, token)
    OBVIOUS
<1>1. PICK c \in Seq(Nat) : /\ c = CoapOptions(<<s, t>>, -1)
                            /\ c = Coded(11, s) \o Coded(0, t) /\ Len(c) = 2 + a + b
    <2>1. Alone(s, t, a, b)
        BY PathAlone
    <2> QED
        BY <1>h, <2>1 DEF Alone
<1>0. PICK f \in Seq(Nat), rest \in Seq(Nat) :
          /\ f = Mark(1) \o payload /\ rest = c \o f
          /\ \E n : Unread(pkt, 72, 3, id, token, rest, n)
    <2>1. /\ c \o (Mark(1) \o payload) \in Seq(Nat) /\ Mark(1) \o payload \in Seq(Nat)
          /\ \E n : Unread(pkt, 72, 3, id, token, c \o (Mark(1) \o payload), n)
        BY <1>1, <1>h, PutUnread
    <2> QED
        BY <2>1
<1>2. PICK n : Unread(pkt, 72, 3, id, token, rest, n)
    BY <1>0
<1>3. /\ n \in Nat /\ n = Len(pkt) /\ Len(pkt) \in Nat
      /\ Header(pkt, 72, 3, id, token) /\ Carries(pkt, 13, rest) /\ ReadTo(pkt, 13, 0, <<>>)
    BY <1>2 DEF Unread
<1> PICK j : j = 13 + 2 + a + b
    OBVIOUS
<1> PICK o : o = Append(Append(<<>>, Option(UriPath, s)), Option(UriPath, t))
    OBVIOUS
<1>4. Carries(pkt, 13, c) /\ Carries(pkt, j, f)
    <2>1. Carries(pkt, 13, c \o f) /\ Len(pkt) \in Nat
        BY <1>0, <1>3
    <2>2. Carries(pkt, 13, c) /\ Carries(pkt, 13 + Len(c), f)
        BY <2>1, CarriesParts
    <2>a. Len(c) = 2 + a + b
        BY <1>1
    <2>3. 13 + Len(c) = j
        BY <2>a
    <2> QED
        BY <2>2, <2>3
<1>5. ReadTo(pkt, j, 11, o)
    <2>1. 11 \in 0..12 /\ 0 + 11 = 11
        OBVIOUS
    <2>2. Carries(pkt, 13, Coded(11, s) \o Coded(0, t))
        BY <1>1, <1>4
    <2> QED
        BY <1>h, <1>3, <2>1, <2>2, PathRead
<1>6. OptionsOf(pkt) = Append(o, Option(12, <<50>>))
    <2>1. 1 \in 0..12 /\ 12 = 11 + 1
        OBVIOUS
    <2>2. n \in Nat /\ n = Len(pkt) /\ Carries(pkt, j, Mark(1) \o payload)
        BY <1>0, <1>3, <1>4
    <2>3. FormatEnds(pkt, n, j, 11, o, 1, 12, payload)
        BY <1>5, <2>1, <2>2, FormatRead
    <2> QED
        BY <2>1, <2>2, <2>3 DEF FormatEnds
<1>7. o = PathOptions(<<s, t>>)
    <2> PICK x, y : x = Option(UriPath, s) /\ y = Option(UriPath, t)
        OBVIOUS
    <2> PICK S : S = {x, y}
        OBVIOUS
    <2>0. <<x, y>> \in Seq(S)
        OBVIOUS
    <2>1. Append(Append(<<>>, x), y) = <<x, y>>
        BY <2>0, ObservedOptions, ConcatEmptySeq
    <2> QED
        BY <2>1, PathOptionsAre
<1>8. AnnotateCoapResponse(pkt).token = token
    <2>1. 72 \in {72, 104}
        OBVIOUS
    <2> QED
        BY <1>3, <2>1, ResponseAnnotated
<1> QED
    BY <1>6, <1>7, <1>8 DEF PutAsBuilt

-----------------------------------------------------------------------------
(* The synthetic file; all that is said of CoAP packets. *)

\* The tokens have eight bytes, the message ids two.
LEMMA TokensAre ==
    /\ GetToken \in Seq(Nat) /\ Len(GetToken) = 8 /\ PutToken \in Seq(Nat) /\ Len(PutToken) = 8
    /\ MsgGet \in Short /\ MsgPut \in Short
<1>1. GetToken \in Seq(Nat) /\ Len(GetToken) = 8
    BY DEF GetToken
<1>2. PutToken \in Seq(Nat) /\ Len(PutToken) = 8
    BY DEF PutToken
<1>3. MsgGet \in Short /\ MsgPut \in Short
    BY SMT DEF MsgGet, MsgPut, Short
<1> QED
    BY <1>1, <1>2, <1>3

\* The bytes of the message ids.
LEMMA IdsAre == U16(MsgGet) = <<188, 212>> /\ U16(MsgPut) = <<188, 213>>
<1>1. MsgGet \div 256 = 188 /\ MsgGet % 256 = 212
    BY SMT DEF MsgGet
<1>2. MsgPut \div 256 = 188 /\ MsgPut % 256 = 213
    BY SMT DEF MsgPut
<1> QED
    BY <1>1, <1>2 DEF U16

\* A path of three segments.
LEMMA Triples == \A x, y, z : /\ Len(<<x, y, z>>) = 3 /\ DOMAIN <<x, y, z>> = 1..3
                              /\ <<x, y, z>>[1] = x /\ <<x, y, z>>[2] = y /\ <<x, y, z>>[3] = z
OBVIOUS

\* A function over the places of a triple.
LEMMA TripleIs ==
    ASSUME NEW f, NEW x, NEW y, NEW z, f = [i \in 1..3 |-> f[i]], f[1] = x, f[2] = y, f[3] = z
    PROVE  f = <<x, y, z>>
<1>1. <<x, y, z>> = [i \in 1..3 |-> <<x, y, z>>[i]]
    OBVIOUS
<1>2. \A i \in 1..3 : i = 1 \/ i = 2 \/ i = 3
    OBVIOUS
<1>3. \A i \in 1..3 : f[i] = <<x, y, z>>[i]
    BY <1>2
<1> QED
    BY <1>1, <1>3

\* The bytes of a path of three segments.
ThreeBytes(x, y, z) == (Coded(11, x) \o Coded(0, y)) \o Coded(0, z)

\* The path is these three options.
LEMMA ThreePath ==
    ASSUME NEW x, NEW y, NEW z
    PROVE  FlattenSeq([i \in DOMAIN <<x, y, z>> |->
                          OptionHead(UriPath - (IF i = 1 THEN 0 ELSE UriPath),
                                     Len(<<x, y, z>>[i])) \o <<x, y, z>>[i]])
           = ThreeBytes(x, y, z)
<1> PICK f : f = [i \in 1..3 |-> OptionHead(UriPath - (IF i = 1 THEN 0 ELSE UriPath),
                                             Len(<<x, y, z>>[i])) \o <<x, y, z>>[i]]
    OBVIOUS
<1>1. f[1] = Coded(11, x)
    <2>1. 11 - 0 = 11 /\ 1 \in 1..3
        OBVIOUS
    <2>2. f[1] = OptionHead(UriPath - 0, Len(<<x, y, z>>[1])) \o <<x, y, z>>[1]
        BY <2>1
    <2> QED
        BY <2>1, <2>2, Triples DEF Coded, UriPath
<1>2. f[2] = Coded(0, y)
    <2>1. 11 - 11 = 0 /\ 2 # 1 /\ 2 \in 1..3
        OBVIOUS
    <2>2. f[2] = OptionHead(UriPath - UriPath, Len(<<x, y, z>>[2])) \o <<x, y, z>>[2]
        BY <2>1
    <2> QED
        BY <2>1, <2>2, Triples DEF Coded, UriPath
<1>3. f[3] = Coded(0, z)
    <2>1. 11 - 11 = 0 /\ 3 # 1 /\ 3 \in 1..3
        OBVIOUS
    <2>2. f[3] = OptionHead(UriPath - UriPath, Len(<<x, y, z>>[3])) \o <<x, y, z>>[3]
        BY <2>1
    <2> QED
        BY <2>1, <2>2, Triples DEF Coded, UriPath
<1>4. f = <<Coded(11, x), Coded(0, y), Coded(0, z)>>
    <2>1. f = [i \in 1..3 |-> f[i]]
        OBVIOUS
    <2> QED
        BY <1>1, <1>2, <1>3, <2>1, TripleIs
<1>5. FlattenSeq(f) = ThreeBytes(x, y, z)
    <2>1. FlattenSeq(<<Coded(11, x), Coded(0, y), Coded(0, z)>>) = ThreeBytes(x, y, z)
        <3> PICK p, q, r : p = Coded(11, x) /\ q = Coded(0, y) /\ r = Coded(0, z)
            OBVIOUS
        <3>1. FlattenSeq(<<p, q, r>>) = InThree(p, q, r)
            BY Flat3
        <3> QED
            BY <3>1 DEF ThreeBytes, InThree
    <2> QED
        BY <1>4, <2>1
<1> QED
    BY <1>5, Triples

\* Nothing goes before it.
LEMMA ThreeAlone ==
    ASSUME NEW x \in Seq(Nat), NEW y \in Seq(Nat), NEW z \in Seq(Nat),
           Len(x) \in 0..15, Len(y) \in 0..15, Len(z) \in 0..15
    PROVE  /\ CoapOptions(<<x, y, z>>, -1) = ThreeBytes(x, y, z)
           /\ ThreeBytes(x, y, z) \in Seq(Nat)
<1>1. Coded(11, x) \in Seq(Nat) /\ Coded(0, y) \in Seq(Nat) /\ Coded(0, z) \in Seq(Nat)
    <2>1. 0 \in 0..12 /\ 11 \in 0..12
        OBVIOUS
    <2> QED
        BY <2>1, CodedIs
<1>2. Coded(11, x) \o Coded(0, y) \in Seq(Nat)
    BY <1>1, BytesJoined
<1>3. ThreeBytes(x, y, z) \in Seq(Nat)
    BY <1>1, <1>2, BytesJoined DEF ThreeBytes
<1>4. CoapOptions(<<x, y, z>>, -1) = <<>> \o ThreeBytes(x, y, z)
    BY ThreePath DEF CoapOptions
<1> QED
    BY <1>3, <1>4, ConcatEmptySeq

\* The segments of the two paths of the synthetic file.
LEMMA Segments ==
    /\ Text(7) \in Seq(Nat) /\ Len(Text(7)) = 7 /\ Text(5) \in Seq(Nat) /\ Len(Text(5)) = 5
    /\ Text(11) \in Seq(Nat) /\ Len(Text(11)) = 11 /\ Text(8) \in Seq(Nat) /\ Len(Text(8)) = 8
    /\ Text(3) \in Seq(Nat) /\ Len(Text(3)) = 3
    /\ 7 \in 0..15 /\ 5 \in 0..15 /\ 11 \in 0..15 /\ 8 \in 0..15 /\ 3 \in 0..15
<1>1. \A n \in {3, 5, 7, 8, 11} : n \in Nat /\ n \in 0..15
    OBVIOUS
<1>2. \A n \in {3, 5, 7, 8, 11} : Text(n) \in Seq(Nat) /\ Len(Text(n)) = n
    BY <1>1, TextBytes
<1> QED
    BY <1>1, <1>2

\* The options of the two paths.
LEMMA PathsAre ==
    /\ CoapOptions(TemperaturePath, -1) = ThreeBytes(Text(7), Text(5), Text(11))
    /\ CoapOptions(TemperaturePath, -1) \in Seq(Nat) /\ CoapOptions(FanPath, -1) \in Seq(Nat)
<1>1. /\ CoapOptions(<<Text(7), Text(5), Text(11)>>, -1) = ThreeBytes(Text(7), Text(5), Text(11))
      /\ ThreeBytes(Text(7), Text(5), Text(11)) \in Seq(Nat)
    BY Segments, ThreeAlone
<1>2. /\ CoapOptions(<<Text(8), Text(5), Text(3)>>, -1) = ThreeBytes(Text(8), Text(5), Text(3))
      /\ ThreeBytes(Text(8), Text(5), Text(3)) \in Seq(Nat)
    BY Segments, ThreeAlone
<1> QED
    BY <1>1, <1>2 DEF TemperaturePath, FanPath

\* Heads and texts one after the other are the header and the options.
SevenParts(h, a, x, b, y, c, z) ==
    (((((h \o a) \o x) \o b) \o y) \o c) \o z = h \o (((a \o x) \o (b \o y)) \o (c \o z))

\* The parts may be put together in either order.
LEMMA InSevenParts ==
    ASSUME NEW h \in Seq(Nat), NEW a \in Seq(Nat), NEW x \in Seq(Nat), NEW b \in Seq(Nat),
           NEW y \in Seq(Nat), NEW c \in Seq(Nat), NEW z \in Seq(Nat)
    PROVE  SevenParts(h, a, x, b, y, c, z)
<1>1. PICK u \in Seq(Nat), v \in Seq(Nat), w \in Seq(Nat) : u = a \o x /\ v = b \o y /\ w = c \o z
    BY BytesJoined
<1>2. u \o v \in Seq(Nat) /\ h \o u \in Seq(Nat) /\ (h \o u) \o v \in Seq(Nat)
    BY BytesJoined
<1>3. (h \o a) \o x = h \o u
    <2>1. Grouped(h, a, x)
        BY Regrouped
    <2> QED
        BY <1>1, <2>1 DEF Grouped
<1>4. ((h \o u) \o b) \o y = (h \o u) \o v
    <2>1. Grouped(h \o u, b, y)
        BY <1>2, Regrouped
    <2> QED
        BY <1>1, <2>1 DEF Grouped
<1>5. (((h \o u) \o v) \o c) \o z = ((h \o u) \o v) \o w
    <2>1. Grouped((h \o u) \o v, c, z)
        BY <1>2, Regrouped
    <2> QED
        BY <1>1, <2>1 DEF Grouped
<1>6. (h \o u) \o v = h \o (u \o v)
    <2>1. Grouped(h, u, v)
        BY Regrouped
    <2> QED
        BY <2>1 DEF Grouped
<1>7. (h \o (u \o v)) \o w = h \o ((u \o v) \o w)
    <2>1. Grouped(h, u \o v, w)
        BY <1>2, Regrouped
    <2> QED
        BY <2>1 DEF Grouped
<1> QED
    BY <1>1, <1>3, <1>4, <1>5, <1>6, <1>7 DEF SevenParts

\* The four bytes of a header.
LEMMA FourHead ==
    ASSUME NEW b \in Nat, NEW code \in Nat
    PROVE  /\ <<b, code>> \o U16(MsgGet) = <<b, code, 188, 212>>
           /\ <<b, code>> \o U16(MsgPut) = <<b, code, 188, 213>>
<1>1. PICK x \in Nat, y \in Nat, z \in Nat : x = 188 /\ y = 212 /\ z = 213
    OBVIOUS
<1>2. <<b, code>> \o <<x, y>> = <<b, code, x, y>> /\ <<b, code>> \o <<x, z>> = <<b, code, x, z>>
    BY FourJoined
<1> QED
    BY <1>1, <1>2, IdsAre

\* A segment after its head.
LEMMA HeadsAre ==
    /\ Coded(11, Text(7)) = <<183>> \o Text(7) /\ Coded(0, Text(5)) = <<5>> \o Text(5)
    /\ Coded(0, Text(11)) = <<11>> \o Text(11)
<1>1. 11 \in 0..12 /\ 0 \in 0..12 /\ 16 * 11 + 7 = 183 /\ 16 * 0 + 5 = 5 /\ 16 * 0 + 11 = 11
    OBVIOUS
<1>2. /\ Coded(11, Text(7)) = <<16 * 11 + Len(Text(7))>> \o Text(7)
      /\ Coded(0, Text(5)) = <<16 * 0 + Len(Text(5))>> \o Text(5)
      /\ Coded(0, Text(11)) = <<16 * 0 + Len(Text(11))>> \o Text(11)
    <2>1. Len(Text(7)) \in 0..15 /\ Len(Text(5)) \in 0..15 /\ Len(Text(11)) \in 0..15
        BY Segments
    <2>2. Coded(11, Text(7)) = <<16 * 11 + Len(Text(7))>> \o Text(7)
        BY <1>1, <2>1, Segments, CodedIs
    <2>3. Coded(0, Text(5)) = <<16 * 0 + Len(Text(5))>> \o Text(5)
        BY <1>1, <2>1, Segments, CodedIs
    <2>4. Coded(0, Text(11)) = <<16 * 0 + Len(Text(11))>> \o Text(11)
        BY <1>1, <2>1, Segments, CodedIs
    <2> QED
        BY <2>2, <2>3, <2>4
<1>3. 16 * 11 + Len(Text(7)) = 183 /\ 16 * 0 + Len(Text(5)) = 5 /\ 16 * 0 + Len(Text(11)) = 11
    BY <1>1, Segments
<1> QED
    BY <1>2, <1>3

\* The synthetic GET is the one that would have been sent.
LEMMA SameGet == Synthetic.get = CoapConGet(TemperaturePath, GetToken, MsgGet, -1)
<1>1. PICK h \in Seq(Nat) : h = <<72, 1, 188, 212>> \o GetToken /\ h = Request(1, GetToken, MsgGet)
    <2>1. 1 \in Nat /\ 72 \in Nat
        OBVIOUS
    <2>2. <<72, 1>> \o U16(MsgGet) = <<72, 1, 188, 212>>
        BY <2>1, FourHead
    <2>3. /\ Request(1, GetToken, MsgGet) = <<72, 1>> \o U16(MsgGet) \o GetToken
          /\ Request(1, GetToken, MsgGet) \in Seq(Nat)
        BY <2>1, TokensAre, RequestBytes
    <2> QED
        BY <2>2, <2>3
<1>2. PICK a \in Seq(Nat), b \in Seq(Nat), c \in Seq(Nat) : a = <<183>> /\ b = <<5>> /\ c = <<11>>
    <2>1. <<183>> \in Seq(Nat) /\ <<5>> \in Seq(Nat) /\ <<11>> \in Seq(Nat)
        OBVIOUS
    <2> QED
        BY <2>1
<1>3. PICK x \in Seq(Nat), y \in Seq(Nat), z \in Seq(Nat) :
          x = Text(7) /\ y = Text(5) /\ z = Text(11)
    BY Segments
<1>4. Synthetic.get = (((((h \o a) \o x) \o b) \o y) \o c) \o z
    BY <1>1, <1>2, <1>3, ZenonT(60) DEF Synthetic
<1>5. CoapConGet(TemperaturePath, GetToken, MsgGet, -1) = h \o ThreeBytes(x, y, z)
    BY <1>1, <1>3, PathsAre DEF CoapConGet
<1>6. ThreeBytes(x, y, z) = ((a \o x) \o (b \o y)) \o (c \o z)
    BY <1>2, <1>3, HeadsAre DEF ThreeBytes
<1>7. SevenParts(h, a, x, b, y, c, z)
    BY InSevenParts
<1> QED
    BY <1>4, <1>5, <1>6, <1>7 DEF SevenParts

\* The message ids of the synthetic requests.
LEMMA RequestIds ==
    AnnotateCoapGet(Synthetic.get).msgId = MsgGet /\ AnnotateCoapGet(Synthetic.put).msgId = MsgPut
<1>1. AnnotateCoapGet(Synthetic.get).msgId = MsgGet
    <2>1. PICK c \in Seq(Nat) : c = CoapOptions(TemperaturePath, -1)
        BY PathsAre
    <2>2. PICK pkt : pkt = Synthetic.get
        OBVIOUS
    <2>3. pkt = Request(1, GetToken, MsgGet) \o c
        BY <2>1, <2>2, SameGet DEF CoapConGet
    <2>4. 1 \in Nat
        OBVIOUS
    <2>5. \E n : Unread(pkt, 72, 1, MsgGet, GetToken, c, n)
        BY <2>3, <2>4, TokensAre, RequestUnread
    <2>6. U16At(pkt, 3) = MsgGet
        BY <2>5 DEF Unread, Header
    <2> QED
        BY <2>2, <2>6 DEF AnnotateCoapGet
<1>2. AnnotateCoapGet(Synthetic.put).msgId = MsgPut
    <2>1. PICK c \in Seq(Nat) : c = CoapOptions(FanPath, -1)
        BY PathsAre
    <2>2. PICK pkt : pkt = Synthetic.put
        OBVIOUS
    <2>3. PICK p \in Seq(Nat) : p = Text(15)
        <3>1. 15 \in Nat
            OBVIOUS
        <3> QED
            BY <3>1, TextBytes
    <2>4. pkt = CoapConPut(FanPath, PutToken, MsgPut, p)
        BY <2>2, <2>3 DEF Synthetic
    <2>5. \E n : Unread(pkt, 72, 3, MsgPut, PutToken, c \o (Mark(1) \o p), n)
        BY <2>1, <2>4, TokensAre, PutUnread
    <2>6. U16At(pkt, 3) = MsgPut
        BY <2>5 DEF Unread, Header
    <2> QED
        BY <2>2, <2>6 DEF AnnotateCoapGet
<1> QED
    BY <1>1, <1>2

\* The synthetic answers are read as answers to these requests.
LEMMA AnswersRead ==
    /\ AnnotateCoapResponse(Synthetic.answer) =
          [code |-> <<2, 5>>, msgId |-> MsgGet, token |-> GetToken]
    /\ OptionsOf(Synthetic.answer) = <<Option(12, <<50>>)>>
    /\ AnnotateCoapResponse(Synthetic.putAnswer) =
          [code |-> <<2, 4>>, msgId |-> MsgPut, token |-> PutToken]
<1>0. 104 \in {72, 104} /\ 104 \in Nat /\ 69 \in Nat /\ 68 \in Nat /\ 12 \in 0..12
    OBVIOUS
<1>1. /\ AnnotateCoapResponse(Synthetic.answer) =
            [code |-> <<2, 5>>, msgId |-> MsgGet, token |-> GetToken]
      /\ OptionsOf(Synthetic.answer) = <<Option(12, <<50>>)>>
    <2>1. PICK pkt : pkt = Synthetic.answer
        OBVIOUS
    <2>2. PICK p \in Seq(Nat) : p = Text(60)
        <3>1. 60 \in Nat
            OBVIOUS
        <3> QED
            BY <3>1, TextBytes
    <2>3. PICK m \in Seq(Nat) : m = Mark(12) /\ m = <<193, 50, 255>>
        <3>1. 16 * 12 + 1 = 193
            OBVIOUS
        <3>2. Mark(12) \in Seq(Nat)
            BY <1>0, MarkIs
        <3>3. Mark(12) = <<193, 50, 255>>
            BY <3>1 DEF Mark
        <3> QED
            BY <3>2, <3>3
    <2>4. PICK h \in Seq(Nat) : h = <<104, 69, 188, 212>> \o GetToken
                             /\ h = <<104, 69>> \o U16(MsgGet) \o GetToken
        <3>1. <<104, 69>> \o U16(MsgGet) = <<104, 69, 188, 212>>
            BY <1>0, FourHead
        <3>2. <<104, 69, 188, 212>> \in Seq(Nat)
            OBVIOUS
        <3>3. <<104, 69, 188, 212>> \o GetToken \in Seq(Nat)
            BY <3>2, TokensAre, BytesJoined
        <3> QED
            BY <3>1, <3>3
    <2>5. PICK rest \in Seq(Nat) : rest = m \o p
        BY BytesJoined
    <2>6. pkt = h \o rest
        <3>1. pkt = (h \o m) \o p
            BY <2>1, <2>2, <2>3, <2>4 DEF Synthetic
        <3>2. Grouped(h, m, p)
            BY Regrouped
        <3> QED
            BY <2>5, <3>1, <3>2 DEF Grouped
    <2>7. PICK n : Unread(pkt, 104, 69, MsgGet, GetToken, rest, n)
        <3>1. h = AnswerHead(69, MsgGet, GetToken)
            BY <2>4 DEF AnswerHead
        <3>2. pkt = AnswerHead(69, MsgGet, GetToken) \o rest
            BY <2>6, <3>1
        <3>3. 69 \in Nat
            OBVIOUS
        <3> QED
            BY <3>2, <3>3, TokensAre, AnswerUnread
    <2>8. AnnotateCoapResponse(pkt) =
              [code |-> <<2, 5>>, msgId |-> MsgGet, token |-> GetToken]
        <3>1. Header(pkt, 104, 69, MsgGet, GetToken)
            BY <2>7 DEF Unread
        <3>2. AnnotateCoapResponse(pkt) =
                  [code |-> <<69 \div 32, BitAnd(69, 31)>>, msgId |-> MsgGet, token |-> GetToken]
            BY <1>0, <3>1, ResponseAnnotated
        <3>3. 69 \div 32 = 2 /\ BitAnd(69, 31) = 5
            BY HeadBits
        <3> QED
            BY <3>2, <3>3
    <2>9. OptionsOf(pkt) = <<Option(12, <<50>>)>>
        <3>1. n \in Nat /\ n = Len(pkt) /\ Carries(pkt, 13, m \o p) /\ ReadTo(pkt, 13, 0, <<>>)
            BY <2>5, <2>7 DEF Unread
        <3>2. FormatEnds(pkt, n, 13, 0, <<>>, 12, 12, p)
            BY <1>0, <3>1, FormatRead
        <3>3. 12 = 0 + 12
            OBVIOUS
        <3>4. OptionsOf(pkt) = Append(<<>>, Option(12, <<50>>))
            BY <2>3, <3>1, <3>2, <3>3 DEF FormatEnds
        <3> QED
            BY <3>4
    <2> QED
        BY <2>1, <2>8, <2>9
<1>2. AnnotateCoapResponse(Synthetic.putAnswer) =
          [code |-> <<2, 4>>, msgId |-> MsgPut, token |-> PutToken]
    <2>1. PICK pkt : pkt = Synthetic.putAnswer
        OBVIOUS
    <2>2. PICK p \in Seq(Nat) : p = Text(15)
        <3>1. 15 \in Nat
            OBVIOUS
        <3> QED
            BY <3>1, TextBytes
    <2>3. PICK m \in Seq(Nat) : m = <<255>>
        <3>1. <<255>> \in Seq(Nat)
            OBVIOUS
        <3> QED
            BY <3>1
    <2>4. PICK h \in Seq(Nat) : h = <<104, 68, 188, 213>> \o PutToken
                             /\ h = <<104, 68>> \o U16(MsgPut) \o PutToken
        <3>1. <<104, 68>> \o U16(MsgPut) = <<104, 68, 188, 213>>
            BY <1>0, FourHead
        <3>2. <<104, 68, 188, 213>> \in Seq(Nat)
            OBVIOUS
        <3>3. <<104, 68, 188, 213>> \o PutToken \in Seq(Nat)
            BY <3>2, TokensAre, BytesJoined
        <3> QED
            BY <3>1, <3>3
    <2>5. PICK rest \in Seq(Nat) : rest = m \o p
        BY BytesJoined
    <2>6. pkt = h \o rest
        <3>1. pkt = (h \o m) \o p
            BY <2>1, <2>2, <2>3, <2>4 DEF Synthetic
        <3>2. Grouped(h, m, p)
            BY Regrouped
        <3> QED
            BY <2>5, <3>1, <3>2 DEF Grouped
    <2>7. PICK n : Unread(pkt, 104, 68, MsgPut, PutToken, rest, n)
        <3>1. h = AnswerHead(68, MsgPut, PutToken)
            BY <2>4 DEF AnswerHead
        <3>2. pkt = AnswerHead(68, MsgPut, PutToken) \o rest
            BY <2>6, <3>1
        <3>3. 68 \in Nat
            OBVIOUS
        <3> QED
            BY <3>2, <3>3, TokensAre, AnswerUnread
    <2>8. AnnotateCoapResponse(pkt) =
              [code |-> <<2, 4>>, msgId |-> MsgPut, token |-> PutToken]
        <3>1. Header(pkt, 104, 68, MsgPut, PutToken)
            BY <2>7 DEF Unread
        <3>2. AnnotateCoapResponse(pkt) =
                  [code |-> <<68 \div 32, BitAnd(68, 31)>>, msgId |-> MsgPut, token |-> PutToken]
            BY <1>0, <3>1, ResponseAnnotated
        <3>3. 68 \div 32 = 2 /\ BitAnd(68, 31) = 4
            BY HeadBits
        <3> QED
            BY <3>2, <3>3
    <2> QED
        BY <2>1, <2>8
<1> QED
    BY <1>1, <1>2

\* All that is said of the synthetic file.
LEMMA SyntheticRead == SyntheticIsRead
BY SameGet, RequestIds, AnswersRead DEF SyntheticIsRead

\* Every request is read, whatever its two segments.
LEMMA AllRead ==
    ASSUME NEW a \in Lengths \intersect 1..12, NEW b \in Lengths \intersect 1..12
    PROVE  /\ \A observe \in -1..1 : GetIsRead(<<Text(a), Text(b)>>, observe)
           /\ PutIsRead(<<Text(a), Text(b)>>)
<1>0. a \in 0..12 /\ b \in 0..12 /\ a \in Nat /\ b \in Nat
    OBVIOUS
<1>1. PICK s \in Seq(Nat), t \in Seq(Nat) :
          s = Text(a) /\ t = Text(b) /\ a = Len(s) /\ b = Len(t)
    BY <1>0, TextBytes
<1>2. ASSUME NEW observe \in -1..1 PROVE GetIsRead(<<s, t>>, observe)
    <2>1. PICK get : get = CoapConGet(<<s, t>>, GetToken, MsgGet, observe)
        OBVIOUS
    <2>2. GetAsBuilt(get, s, t, observe, MsgGet, GetToken)
        <3>1. CASE observe = -1
            <4>1. get = CoapConGet(<<s, t>>, GetToken, MsgGet, -1)
                BY <2>1, <3>1, SMTT(30)
            <4>2. GetAsBuilt(get, s, t, -1, MsgGet, GetToken)
                BY <1>0, <1>1, <4>1, TokensAre, PlainGetRead
            <4> QED
                BY <3>1, <4>2
        <3>2. CASE observe \in 0..1
            BY <1>0, <1>1, <2>1, <3>2, TokensAre, ObservingGetRead
        <3>3. observe = -1 \/ observe \in 0..1
            OBVIOUS
        <3> QED
            BY <3>1, <3>2, <3>3
    <2> QED
        BY <2>1, <2>2 DEF GetIsRead, GetAsBuilt
<1>3. PutIsRead(<<s, t>>)
    <2>1. PICK p \in Seq(Nat) : p = Text(15)
        <3>1. 15 \in Nat
            OBVIOUS
        <3> QED
            BY <3>1, TextBytes
    <2>2. PICK put : put = CoapConPut(<<s, t>>, PutToken, MsgPut, p)
        OBVIOUS
    <2>3. PutAsBuilt(put, s, t, PutToken)
        BY <1>0, <1>1, <2>2, TokensAre, PutRead
    <2> QED
        BY <2>1, <2>2, <2>3 DEF PutIsRead, PutAsBuilt
<1> QED
    BY <1>1, <1>2, <1>3

\* A reader of the standard finds in every request the options the script meant, in
\* their order and with their values, for all texts of the path; and the requests and
\* the answers of the synthetic file fit together
\* (generate_captures.py: _coap_options, coap_con_get, coap_con_put).
THEOREM RequestsAreParsed == Spec => []RequestsParse
<1>1. RequestsParse
    BY AllRead, SyntheticRead DEF RequestsParse
<1> QED
    BY <1>1, PTL
=============================================================================
