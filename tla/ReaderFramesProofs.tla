------------------------- MODULE ReaderFramesProofs -------------------------
(* Theorems about ReaderFrames, for every address, every list of tags that   *)
(* fits a frame, every mode and every disturbance of a byte, and for every   *)
(* checksum that ChecksumAssumption admits.                                  *)
EXTENDS ReaderFrames, NaturalsInduction, WellFoundedInduction, TLAPS

-----------------------------------------------------------------------------
(* Induction, as a fact about sets, and functions defined by recursion *)

\* A set with 0 and the successors of its numbers has every number: one that it
\* lacked would have a least such.
LEMMA NatSetInduction ==
    ASSUME NEW S, 0 \in S, \A n \in Nat : n \in S => n + 1 \in S
    PROVE  Nat \subseteq S
<1> DEFINE T == Nat \ S
<1>1. SUFFICES ASSUME T # {} PROVE FALSE
    OBVIOUS
<1> DEFINE R == OpToRel(<, Nat)
<1>2. IsWellFoundedOn(R, Nat)
    BY NatLessThanWellFounded
<1>3. \A x, y \in Nat : x < y => <<x, y>> \in R
    BY DEF OpToRel
<1> HIDE DEF R
<1>4. PICK x \in T : \A y \in T : ~(<<y, x>> \in R)
    BY <1>1, <1>2, WFMin
<1>5. x # 0
    BY <1>4
<1>6. x - 1 \in Nat /\ x - 1 < x /\ x = (x - 1) + 1
    BY <1>4, <1>5
<1>7. x - 1 \in S
    BY <1>3, <1>4, <1>6
<1> QED
    BY <1>4, <1>6, <1>7

\* The same up to a bound.
LEMMA UpToInduction ==
    ASSUME NEW n \in Nat, NEW S, 0 \in S, \A i \in 1 .. n : i - 1 \in S => i \in S
    PROVE  0 .. n \subseteq S
<1> DEFINE T == {i \in Nat : i <= n => i \in S}
<1>1. 0 \in T
    OBVIOUS
<1>2. \A i \in Nat : i \in T => i + 1 \in T
    <2> TAKE i \in Nat
    <2> SUFFICES ASSUME i \in T, i + 1 <= n PROVE i + 1 \in S
        OBVIOUS
    <2>1. i + 1 \in 1 .. n /\ (i + 1) - 1 = i /\ i \in S
        OBVIOUS
    <2> QED
        BY <2>1
<1> HIDE DEF T
<1>3. Nat \subseteq T
    BY <1>1, <1>2, NatSetInduction
<1> QED
    BY <1>3 DEF T

\* A function whose values, all in V, follow each from the one before.
Follows(f, V, c, n, step) ==
    f \in [0 .. n -> V] /\ f[0] = c /\ \A i \in 1 .. n : f[i] = step[i][f[i - 1]]

\* There is one.
LEMMA Recursion ==
    ASSUME NEW V, NEW c \in V, NEW n \in Nat, NEW step, \A i \in 1 .. n : \A v \in V : step[i][v] \in V
    PROVE  \E f : Follows(f, V, c, n, step)
<1> DEFINE Upto(f, k) == f[0] = c /\ \A i \in 1 .. k : f[i] = step[i][f[i - 1]]
           S == {k \in 0 .. n : \E f \in [0 .. k -> V] : Upto(f, k)}
<1>1. 0 \in S
    <2> DEFINE f == [i \in 0 .. 0 |-> c]
    <2>1. f \in [0 .. 0 -> V] /\ f[0] = c
        OBVIOUS
    <2> HIDE DEF f
    <2>2. Upto(f, 0)
        BY <2>1
    <2> HIDE DEF Upto
    <2>3. \E h \in [0 .. 0 -> V] : Upto(h, 0)
        BY <2>1, <2>2
    <2> QED
        BY <2>3
<1>2. \A k \in 1 .. n : k - 1 \in S => k \in S
    <2> SUFFICES ASSUME NEW k \in 1 .. n, k - 1 \in S PROVE k \in S
        OBVIOUS
    <2>1. PICK f \in [0 .. k - 1 -> V] : Upto(f, k - 1)
        OBVIOUS
    <2> DEFINE g == [i \in 0 .. k |-> IF i = k THEN step[k][f[k - 1]] ELSE f[i]]
    <2>2. f[k - 1] \in V /\ step[k][f[k - 1]] \in V
        OBVIOUS
    <2>3. g \in [0 .. k -> V]
        BY <2>2
    <2>4. \A i \in 0 .. k - 1 : g[i] = f[i]
        OBVIOUS
    <2>5. g[k] = step[k][f[k - 1]]
        OBVIOUS
    <2> HIDE DEF g
    <2>6. g[0] = c
        BY <2>1, <2>4
    <2>7. \A i \in 1 .. k : g[i] = step[i][g[i - 1]]
        BY <2>1, <2>4, <2>5
    <2>8. Upto(g, k)
        BY <2>6, <2>7
    <2> HIDE DEF Upto
    <2>9. \E h \in [0 .. k -> V] : Upto(h, k)
        BY <2>3, <2>8
    <2>10. k \in 0 .. n
        OBVIOUS
    <2> QED
        BY <2>9, <2>10
<1> HIDE DEF S
<1>3. 0 .. n \subseteq S
    BY <1>1, <1>2, UpToInduction
<1>4. n \in S
    BY <1>3
<1>5. \E f \in [0 .. n -> V] : Upto(f, n)
    BY <1>4 DEF S
<1> QED
    BY <1>5 DEF Follows
-----------------------------------------------------------------------------
(* The bytes of a frame *)

LEMMA ByteAt ==
    ASSUME NEW r \in Seq(Byte), NEW i \in 0 .. Len(r) - 1
    PROVE  At(r, i) = r[i + 1] /\ At(r, i) \in Byte /\ At(r, i) \in Nat /\ At(r, i) <= 255
<1>1. i + 1 \in 1 .. Len(r)
    OBVIOUS
<1>2. r[i + 1] \in Byte
    BY <1>1
<1>3. \A b \in Byte : b \in Nat /\ b <= 255
    BY DEF Byte
<1> QED
    BY <1>2, <1>3 DEF At

\* What follows the count in a reply with tags, and where each tag begins there:
\* the tags before it have their lengths and their EPCs.
Spread(tags, upto) ==
    /\ upto \in [0 .. Len(tags) -> Seq(Byte)]
    /\ upto[0] = <<>>
    /\ \A i \in 1 .. Len(tags) : upto[i] = upto[i - 1] \o (<<Len(tags[i])>> \o tags[i])
    /\ Payload(tags) = upto[Len(tags)]

LEMMA PayloadSpreads ==
    ASSUME NEW tags \in Fields
    PROVE  \E upto : Spread(tags, upto)
<1> DEFINE n == Len(tags)
           V == Seq(Byte)
           s == [i \in DOMAIN tags |-> <<Len(tags[i])>> \o tags[i]]
           step == [i \in 1 .. n |-> [v \in V |-> v \o s[i]]]
<1>1. /\ tags \in Seq(Seq(Byte)) /\ n \in Nat /\ DOMAIN tags = 1 .. n
      /\ \A i \in 1 .. n : tags[i] \in V /\ Len(tags[i]) \in Byte
    BY FramesAssumption
<1>2. \A i \in 1 .. n : s[i] = <<Len(tags[i])>> \o tags[i] /\ s[i] \in V
    <2> TAKE i \in 1 .. n
    <2>1. tags[i] \in V /\ <<Len(tags[i])>> \in V
        BY <1>1
    <2> QED
        BY <1>1, <2>1
<1>3. s \in Seq(V) /\ Len(s) = n
    BY <1>1, <1>2
<1>4. Payload(tags) = FlattenSeq(s)
    BY DEF Payload
<1> HIDE DEF s
<1>5. <<>> \in V /\ \A x, y \in V : x \o y \in V
    OBVIOUS
<1>6. \A x \in V : <<>> \o x = x
    OBVIOUS
<1> HIDE DEF V
<1>7. \A i \in 1 .. n : \A v \in V : step[i][v] = v \o s[i]
    OBVIOUS
<1>8. \A i \in 1 .. n : \A v \in V : step[i][v] \in V
    BY <1>2, <1>7, <1>5
<1> HIDE DEF step
<1>9. PICK f : Follows(f, V, <<>>, n, step)
    BY <1>1, <1>8, <1>5, Recursion
<1>10. f \in [0 .. n -> V] /\ f[0] = <<>> /\ \A i \in 1 .. n : f[i] = step[i][f[i - 1]]
    BY <1>9 DEF Follows
<1>11. \A i \in 1 .. n : f[i - 1] \in V /\ f[i] = f[i - 1] \o s[i]
    <2> TAKE i \in 1 .. n
    <2>1. i - 1 \in 0 .. n
        BY <1>1
    <2>2. f[i - 1] \in V
        BY <1>10, <2>1
    <2> QED
        BY <1>7, <1>10, <2>2
<1>12. 1 \in 1 .. n => f[1] = s[1]
    <2>1. 1 \in 1 .. n => f[1] = f[0] \o s[1]
        BY <1>11, 1 - 1 = 0
    <2> QED
        BY <1>2, <1>10, <1>6, <2>1
<1>13. FlattenSeq(s) = f[n]
    <2>1. CASE n = 0
        <3>1. FlattenSeq(s) = s /\ s = <<>>
            BY <1>3, <2>1 DEF FlattenSeq
        <3> QED
            BY <1>10, <2>1, <3>1
    <2>2. CASE n # 0
        <3> DEFINE Flat(g) == g = [i \in 1 .. n |-> IF i = 1 THEN s[i] ELSE g[i - 1] \o s[i]]
                   h == [i \in 1 .. n |-> f[i]]
                   F == CHOOSE g : Flat(g)
        <3>1. FlattenSeq(s) = F[n]
            BY <1>3, <2>2 DEF FlattenSeq
        <3>2. Flat(h)
            <4>1. ASSUME NEW i \in 1 .. n
                  PROVE  f[i] = IF i = 1 THEN s[i] ELSE h[i - 1] \o s[i]
                <5>1. CASE i = 1
                    BY <1>12, <5>1
                <5>2. CASE i # 1
                    <6>1. h[i - 1] = f[i - 1]
                        BY <1>1, <5>2
                    <6> QED
                        BY <1>11, <5>2, <6>1
                <5> QED
                    BY <5>1, <5>2
            <4> QED
                BY <4>1
        <3> HIDE DEF Flat
        <3>3. Flat(F)
            BY <3>2
        <3> HIDE DEF F
        <3> DEFINE S == {i \in 0 .. n : i # 0 => F[i] = f[i]}
        <3>4. \A i \in 1 .. n : i - 1 \in S => i \in S
            <4> SUFFICES ASSUME NEW i \in 1 .. n, i - 1 \in S PROVE F[i] = f[i]
                BY <1>1
            <4>1. F[i] = IF i = 1 THEN s[i] ELSE F[i - 1] \o s[i]
                BY <3>3 DEF Flat
            <4>2. CASE i = 1
                BY <1>12, <4>1, <4>2
            <4>3. CASE i # 1
                <5>1. i - 1 # 0
                    BY <1>1, <4>3
                <5>2. F[i - 1] = f[i - 1]
                    BY <5>1
                <5> QED
                    BY <1>11, <4>1, <4>3, <5>2
            <4> QED
                BY <4>2, <4>3
        <3>5. 0 \in S
            BY <1>1
        <3> HIDE DEF S
        <3>6. 0 .. n \subseteq S
            BY <1>1, <3>4, <3>5, UpToInduction
        <3>7. F[n] = f[n]
            BY <1>1, <2>2, <3>6 DEF S
        <3> QED
            BY <3>1, <3>7
    <2> QED
        BY <2>1, <2>2
<1>14. Spread(tags, f)
    BY <1>2, <1>4, <1>10, <1>11, <1>13 DEF Spread, V
<1> QED
    BY <1>14

LEMMA ConcatIs ==
    ASSUME NEW x \in Seq(Byte), NEW y \in Seq(Byte)
    PROVE  /\ x \o y \in Seq(Byte) /\ Len(x \o y) = Len(x) + Len(y)
           /\ Len(x) \in Nat /\ Len(y) \in Nat
           /\ \A i \in 1 .. Len(x) : (x \o y)[i] = x[i]
           /\ \A i \in 1 .. Len(y) : (x \o y)[i + Len(x)] = y[i]
OBVIOUS

LEMMA SameBytes ==
    ASSUME NEW x \in Seq(Byte), NEW y \in Seq(Byte), Len(x) = Len(y), \A i \in 1 .. Len(y) : x[i] = y[i]
    PROVE  x = y
OBVIOUS

\* Every tag has at least the byte of its length.
LEMMA SpreadLength ==
    ASSUME NEW tags \in Fields, NEW upto, Spread(tags, upto)
    PROVE  \A i \in 0 .. Len(tags) : Len(upto[i]) >= i
<1> DEFINE n == Len(tags)
           S == {i \in 0 .. n : Len(upto[i]) >= i}
<1>1. n \in Nat /\ \A i \in 1 .. n : tags[i] \in Seq(Byte) /\ Len(tags[i]) \in Byte
    BY FramesAssumption
<1>2. 0 \in S
    BY <1>1 DEF Spread
<1>3. \A i \in 1 .. n : i - 1 \in S => i \in S
    <2> SUFFICES ASSUME NEW i \in 1 .. n, i - 1 \in S PROVE i \in S
        OBVIOUS
    <2>1. /\ upto[i - 1] \in Seq(Byte) /\ Len(upto[i - 1]) >= i - 1
          /\ upto[i] = upto[i - 1] \o (<<Len(tags[i])>> \o tags[i])
        BY <1>1 DEF Spread
    <2> DEFINE e == <<Len(tags[i])>> \o tags[i]
    <2>2. e \in Seq(Byte) /\ Len(e) >= 1 /\ Len(e) \in Nat
        <3>1. tags[i] \in Seq(Byte) /\ <<Len(tags[i])>> \in Seq(Byte) /\ Len(<<Len(tags[i])>>) = 1
            BY <1>1
        <3> QED
            BY <3>1
    <2> HIDE DEF e
    <2>3. Len(upto[i]) = Len(upto[i - 1]) + Len(e) /\ Len(upto[i - 1]) \in Nat
        BY <2>1, <2>2 DEF e
    <2>4. Len(upto[i - 1]) >= i - 1
        BY <2>1
    <2>5. Len(e) >= 1 /\ Len(e) \in Nat
        BY <2>2
    <2>6. Len(upto[i]) >= i
        BY <2>4, <2>5, <2>3
    <2> QED
        BY <1>1, <2>6
<1> HIDE DEF S
<1>4. 0 .. n \subseteq S
    BY <1>1, <1>2, <1>3, UpToInduction
<1> QED
    BY <1>4 DEF S

\* What is spread up to some tag stays where it is.
LEMMA SpreadPrefix ==
    ASSUME NEW tags \in Fields, NEW upto, Spread(tags, upto)
    PROVE  \A i \in 0 .. Len(tags) :
             /\ Len(upto[i]) <= Len(Payload(tags))
             /\ \A j \in 1 .. Len(upto[i]) : Payload(tags)[j] = upto[i][j]
<1> DEFINE n == Len(tags)
           Begins(x, y) == Len(x) <= Len(y) /\ \A j \in 1 .. Len(x) : y[j] = x[j]
           S == {k \in 0 .. n : \A i \in 0 .. k : Begins(upto[i], upto[k])}
<1>1. n \in Nat /\ \A i \in 1 .. n : tags[i] \in Seq(Byte) /\ Len(tags[i]) \in Byte
    BY FramesAssumption
<1>2. \A x \in Seq(Byte) : Begins(x, x)
    OBVIOUS
<1>3. \A x, y, z \in Seq(Byte) : Begins(x, y) => Begins(x, y \o z)
    <2> TAKE x, y, z \in Seq(Byte)
    <2> SUFFICES ASSUME Begins(x, y) PROVE Begins(x, y \o z)
        OBVIOUS
    <2>1. /\ Len(y \o z) = Len(y) + Len(z) /\ Len(x) \in Nat /\ Len(y) \in Nat /\ Len(z) \in Nat
          /\ \A j \in 1 .. Len(y) : (y \o z)[j] = y[j]
        BY ConcatIs
    <2> QED
        BY <2>1
<1> HIDE DEF Begins
<1>4. \A i \in 0 .. n : upto[i] \in Seq(Byte)
    BY DEF Spread
<1>5. \A i \in 1 .. n : \E z \in Seq(Byte) : upto[i] = upto[i - 1] \o z
    <2> TAKE i \in 1 .. n
    <2>1. tags[i] \in Seq(Byte) /\ <<Len(tags[i])>> \in Seq(Byte)
        BY <1>1
    <2>2. <<Len(tags[i])>> \o tags[i] \in Seq(Byte)
        BY <2>1
    <2> QED
        BY <2>2 DEF Spread
<1>6. 0 \in S
    BY <1>1, <1>2, <1>4
<1>7. \A k \in 1 .. n : k - 1 \in S => k \in S
    <2> SUFFICES ASSUME NEW k \in 1 .. n, k - 1 \in S, NEW i \in 0 .. k PROVE Begins(upto[i], upto[k])
        BY <1>1
    <2>1. CASE i = k
        BY <1>1, <1>2, <1>4, <2>1
    <2>2. CASE i # k
        <3>1. i \in 0 .. k - 1 /\ i \in 0 .. n /\ k - 1 \in 0 .. n
            BY <1>1, <2>2
        <3>2. Begins(upto[i], upto[k - 1])
            BY <3>1
        <3>3. PICK z \in Seq(Byte) : upto[k] = upto[k - 1] \o z
            BY <1>5
        <3>4. upto[i] \in Seq(Byte) /\ upto[k - 1] \in Seq(Byte)
            BY <1>4, <3>1
        <3> QED
            BY <1>3, <3>2, <3>3, <3>4
    <2> QED
        BY <2>1, <2>2
<1> HIDE DEF S
<1>8. 0 .. n \subseteq S
    BY <1>1, <1>6, <1>7, UpToInduction
<1>9. \A i \in 0 .. n : Begins(upto[i], upto[n])
    BY <1>1, <1>8 DEF S
<1>10. upto[n] = Payload(tags)
    BY DEF Spread
<1> QED
    BY <1>9, <1>10 DEF Begins

\* Where a tag is: after the bytes of those before it comes its length, then its EPC.
Offset(upto, i) == Len(upto[i - 1])

LEMMA SpreadAt ==
    ASSUME NEW tags \in Fields, NEW upto, Spread(tags, upto), NEW i \in 1 .. Len(tags)
    PROVE  /\ Offset(upto, i) \in Nat /\ tags[i] \in Seq(Byte)
           /\ Len(upto[i]) = Offset(upto, i) + 1 + Len(tags[i]) /\ Len(upto[i]) <= Len(Payload(tags))
           /\ Payload(tags)[Offset(upto, i) + 1] = Len(tags[i])
           /\ \A j \in 1 .. Len(tags[i]) : Payload(tags)[Offset(upto, i) + 1 + j] = tags[i][j]
<1> DEFINE l == Offset(upto, i)
           x == upto[i - 1]
           t == tags[i]
           h == <<Len(t)>>
           y == h \o t
           u == upto[i]
<1>1. Len(tags) \in Nat /\ t \in Seq(Byte) /\ Len(t) \in Byte
    BY FramesAssumption
<1>2. i - 1 \in 0 .. Len(tags) /\ i \in 0 .. Len(tags)
    BY <1>1
<1>3. x \in Seq(Byte) /\ u = x \o y /\ l = Len(x)
    BY <1>2 DEF Spread, Offset
<1>4. Len(u) <= Len(Payload(tags)) /\ \A j \in 1 .. Len(u) : Payload(tags)[j] = u[j]
    BY <1>2, SpreadPrefix
<1>5. h \in Seq(Byte) /\ Len(h) = 1 /\ h[1] = Len(t)
    BY <1>1
<1> HIDE DEF l, x, t, h, u
<1>6. /\ y \in Seq(Byte) /\ Len(y) = 1 + Len(t) /\ Len(t) \in Nat
      /\ y[1] = Len(t) /\ \A j \in 1 .. Len(t) : y[j + 1] = t[j]
    <2>1. /\ y \in Seq(Byte) /\ Len(y) = Len(h) + Len(t) /\ Len(t) \in Nat
          /\ \A j \in 1 .. Len(h) : y[j] = h[j]
          /\ \A j \in 1 .. Len(t) : y[j + Len(h)] = t[j]
        BY <1>1, <1>5, ConcatIs
    <2> HIDE DEF y
    <2>2. y[1] = h[1]
        BY <1>5, <2>1
    <2> QED
        BY <1>5, <2>1, <2>2
<1> HIDE DEF y
<1>7. /\ Len(u) = Len(x) + Len(y) /\ Len(x) \in Nat
      /\ \A j \in 1 .. Len(y) : u[j + Len(x)] = y[j]
    BY <1>3, <1>6, ConcatIs
<1>8. Len(u) = l + 1 + Len(t) /\ l \in Nat
    BY <1>3, <1>6, <1>7
<1>9. \A j \in 1 .. 1 + Len(t) : Payload(tags)[j + l] = y[j]
    <2> TAKE j \in 1 .. 1 + Len(t)
    <2>1. j + l \in 1 .. Len(u)
        BY <1>6, <1>8
    <2>2. u[j + l] = y[j]
        BY <1>3, <1>6, <1>7
    <2> QED
        BY <1>4, <2>1, <2>2
<1>10. Payload(tags)[l + 1] = Len(t)
    <2>1. 1 \in 1 .. 1 + Len(t) /\ 1 + l = l + 1
        BY <1>6, <1>8
    <2> QED
        BY <1>6, <1>9, <2>1
<1>11. \A j \in 1 .. Len(t) : Payload(tags)[l + 1 + j] = t[j]
    <2> TAKE j \in 1 .. Len(t)
    <2>1. Len(t) \in Nat /\ l \in Nat
        BY <1>6, <1>8
    <2>2. j + 1 \in 1 .. 1 + Len(t) /\ (j + 1) + l = l + 1 + j
        BY <2>1
    <2>3. Payload(tags)[(j + 1) + l] = y[j + 1] /\ y[j + 1] = t[j]
        BY <1>6, <1>9, <2>2
    <2> QED
        BY <2>2, <2>3
<1> QED
    BY <1>1, <1>4, <1>8, <1>10, <1>11 DEF l, t, u

\* Where the reading of the tags of r stands after each of them.
Reads == [at : Nat, ok : BOOLEAN, epcs : Seq(Seq(Byte))]

LEMMA TagsFollow ==
    ASSUME NEW r \in Seq(Byte), Len(r) >= 5
    PROVE  /\ TagCount(r) \in 0 .. Len(r)
           /\ TagsAfter(r) \in [0 .. TagCount(r) -> Reads]
           /\ TagsAfter(r)[0] = [at |-> 5, ok |-> TRUE, epcs |-> <<>>]
           /\ \A i \in 1 .. TagCount(r) : TagsAfter(r)[i] = NextTag(r, TagsAfter(r)[i - 1])
<1> DEFINE n == TagCount(r)
           c == [at |-> 5, ok |-> TRUE, epcs |-> <<>>]
           step == [i \in 1 .. n |-> [p \in Reads |-> NextTag(r, p)]]
<1>1. n \in 0 .. Len(r) /\ n \in Nat
    BY ByteAt DEF TagCount
<1>2. \A p \in Reads : NextTag(r, p) \in Reads
    <2> TAKE p \in Reads
    <2>1. CASE Fits(r, p)
        <3>1. p.at \in Nat /\ p.at < Len(r) - 2
            BY <2>1 DEF Fits, Reads
        <3>2. At(r, p.at) \in Nat
            BY <3>1, ByteAt
        <3>3. SubSeq(r, p.at + 2, p.at + 1 + At(r, p.at)) \in Seq(Byte)
            BY <2>1, <3>1, <3>2 DEF Fits
        <3>4. p.epcs \in Seq(Seq(Byte))
            BY DEF Reads
        <3> DEFINE e == SubSeq(r, p.at + 2, p.at + 1 + At(r, p.at))
                   a == p.at + 1 + At(r, p.at)
        <3>5. NextTag(r, p) = [at |-> a, ok |-> TRUE, epcs |-> Append(p.epcs, e)]
            BY <2>1 DEF NextTag
        <3>6. a \in Nat
            BY <3>1, <3>2
        <3> HIDE DEF a, e
        <3>7. Append(p.epcs, e) \in Seq(Seq(Byte))
            BY <3>3, <3>4 DEF e
        <3> QED
            BY <3>5, <3>6, <3>7 DEF Reads
    <2>2. CASE ~Fits(r, p)
        BY <2>2 DEF NextTag, Reads
    <2> QED
        BY <2>1, <2>2
<1>3. c \in Reads
    BY DEF Reads
<1>4. \A i \in 1 .. n : \A p \in Reads : step[i][p] = NextTag(r, p)
    OBVIOUS
<1>5. \A i \in 1 .. n : \A p \in Reads : step[i][p] \in Reads
    BY <1>2, <1>4
<1> HIDE DEF step, c
<1> HIDE DEF n
<1>6. PICK f : Follows(f, Reads, c, n, step)
    BY <1>1, <1>3, <1>5, Recursion
<1>7. f \in [0 .. n -> Reads] /\ f[0] = c /\ \A i \in 1 .. n : f[i] = step[i][f[i - 1]]
    BY <1>6 DEF Follows
<1> DEFINE Eq(g) == g = [i \in 0 .. n |-> IF i = 0 THEN c ELSE NextTag(r, g[i - 1])]
           F == CHOOSE g : Eq(g)
<1>8. Eq(f)
    <2>1. ASSUME NEW i \in 0 .. n PROVE f[i] = IF i = 0 THEN c ELSE NextTag(r, f[i - 1])
        BY <1>1, <1>4, <1>7
    <2> QED
        BY <1>7, <2>1
<1>9. TagsAfter(r) = F
    BY DEF TagsAfter, c, n
<1> HIDE DEF Eq
<1>10. Eq(F)
    BY <1>8
<1> HIDE DEF F
<1>11. F = [i \in 0 .. n |-> IF i = 0 THEN c ELSE NextTag(r, F[i - 1])]
    BY <1>10 DEF Eq
<1>12. F[0] = c
    BY <1>1, <1>11
<1>13. \A i \in 1 .. n : F[i] = NextTag(r, F[i - 1])
    BY <1>1, <1>11
<1> DEFINE S == {i \in 0 .. n : F[i] \in Reads}
<1>14. \A i \in 1 .. n : i - 1 \in S => i \in S
    BY <1>1, <1>2, <1>13
<1>15. 0 \in S
    BY <1>1, <1>3, <1>12
<1> HIDE DEF S
<1>16. 0 .. n \subseteq S
    BY <1>1, <1>14, <1>15, UpToInduction
<1>17. F \in [0 .. n -> Reads]
    BY <1>11, <1>16 DEF S
<1> QED
    BY <1>1, <1>9, <1>12, <1>13, <1>17 DEF c, n
-----------------------------------------------------------------------------
(* Frames *)

LEMMA CodeIs ==
    /\ DOMAIN Code = {"inventory", "info", "getmode", "setmode"}
    /\ Code["inventory"] = 1 /\ Code["info"] = 33 /\ Code["getmode"] = 54 /\ Code["setmode"] = 53
BY DEF Code

LEMMA BytesOfChecksum ==
    ASSUME NEW n \in Word
    PROVE  (n % 256) \in Byte /\ (n \div 256) \in Byte /\ (n % 256) + 256 * (n \div 256) = n
<1>1. n \in Nat /\ n <= 65535
    BY DEF Word
<1>2. (n % 256) \in Nat /\ (n % 256) <= 255 /\ (n \div 256) \in Int /\ n = 256 * (n \div 256) + (n % 256)
    BY <1>1
<1> DEFINE m == n % 256
           q == n \div 256
<1> HIDE DEF m, q
<1>3. m \in Nat /\ m <= 255 /\ q \in Int /\ n = 256 * q + m
    BY <1>2 DEF m, q
<1>4. q \in Nat /\ q <= 255 /\ m + 256 * q = n
    BY <1>1, <1>3
<1>5. m \in Byte /\ q \in Byte
    BY <1>3, <1>4 DEF Byte
<1> QED
    BY <1>4, <1>5 DEF m, q

\* What is put around a body has its length first and its checksum last.
LEMMA FrameIs ==
    ASSUME NEW s \in Seq(Byte), Len(s) + 2 \in Byte, crc16(WithLength(s)) \in Word,
           NEW w, w = WithCRC(WithLength(s))
    PROVE  /\ w \in Seq(Byte) /\ Len(w) = Len(s) + 3
           /\ w[1] = Len(s) + 2 /\ \A i \in 1 .. Len(s) : w[i + 1] = s[i]
           /\ SubSeq(w, 1, Len(w) - 2) = WithLength(s)
           /\ w[Len(w) - 1] = crc16(WithLength(s)) % 256
           /\ crc16(WithLength(s)) = w[Len(w) - 1] + 256 * w[Len(w)]
           /\ has_valid_crc(w)
<1> DEFINE b == WithLength(s)
           lo == crc16(b) % 256
           hi == crc16(b) \div 256
<1>1. w = b \o <<lo, hi>>
    BY DEF WithCRC
<1>2. lo \in Byte /\ hi \in Byte /\ lo + 256 * hi = crc16(b)
    BY BytesOfChecksum
<1> HIDE DEF lo, hi
<1>3. b \in Seq(Byte) /\ Len(b) = Len(s) + 1 /\ b[1] = Len(s) + 2 /\ \A i \in 1 .. Len(s) : b[i + 1] = s[i]
    BY DEF WithLength
<1> HIDE DEF b
<1>4. <<lo, hi>> \in Seq(Byte) /\ Len(<<lo, hi>>) = 2
    BY <1>2
<1>5. w \in Seq(Byte) /\ Len(w) = Len(b) + 2 /\ \A i \in 1 .. Len(b) : w[i] = b[i]
    BY <1>3, <1>1, <1>4
<1>6. w[Len(b) + 1] = lo /\ w[Len(b) + 2] = hi
    BY <1>3, <1>1, <1>4
<1>7. SubSeq(w, 1, Len(b)) = b
    BY <1>3, <1>5
<1>8. Len(w) - 2 = Len(b) /\ Len(w) - 1 = Len(b) + 1 /\ Len(w) >= 3
    BY <1>3, <1>5
<1>9. has_valid_crc(w)
    BY <1>2, <1>5, <1>6, <1>7, <1>8 DEF has_valid_crc
<1> QED
    BY <1>3, <1>2, <1>5, <1>6, <1>7, <1>8, <1>9 DEF b, lo

\* What a reader says of its tags fits a frame.
LEMMA SaidOfTags ==
    ASSUME NEW tags \in Fields, tags # <<>>, NEW m, NEW s, s = Said("inventory", tags, m)
    PROVE  /\ s \in Seq(Byte) /\ Len(s) = Len(Payload(tags)) + 4 /\ Len(s) + 2 \in Byte
           /\ s[1] = Address /\ s[2] = 1 /\ s[3] = 1 /\ s[4] = Len(tags)
           /\ Payload(tags) \in Seq(Byte)
           /\ \A i \in 1 .. Len(Payload(tags)) : s[i + 4] = Payload(tags)[i]
<1> DEFINE h == <<Address, 1, 1, Len(tags)>>
<1>1. s = h \o Payload(tags)
    BY DEF Said
<1>2. PICK upto : Spread(tags, upto)
    BY PayloadSpreads
<1>3. Len(Payload(tags)) + 6 \in Byte /\ Len(tags) \in Nat
    BY FramesAssumption
<1>4. Len(tags) \in 0 .. Len(tags)
    BY <1>3
<1>5. Payload(tags) \in Seq(Byte) /\ Payload(tags) = upto[Len(tags)]
    BY <1>2, <1>4 DEF Spread
<1>6. Len(Payload(tags)) >= Len(tags) /\ Len(Payload(tags)) \in Nat
    BY <1>2, <1>4, <1>5, SpreadLength
<1>7. Len(tags) \in Byte
    <2> DEFINE l == Len(Payload(tags))
               n == Len(tags)
    <2>1. l + 6 \in Byte /\ l \in Nat /\ n \in Nat /\ l >= n
        BY <1>3, <1>6
    <2> HIDE DEF l, n
    <2>2. n \in Byte
        BY <2>1 DEF Byte
    <2> QED
        BY <2>2 DEF n
<1>8. h \in Seq(Byte) /\ Len(h) = 4 /\ h[1] = Address /\ h[2] = 1 /\ h[3] = 1 /\ h[4] = Len(tags)
    <2>1. 1 \in Byte /\ Address \in Byte
        BY FramesAssumption DEF Byte
    <2> QED
        BY <1>7, <2>1
<1> HIDE DEF h
<1> DEFINE t == Payload(tags)
<1>9. h \in Seq(Byte) /\ t \in Seq(Byte)
    BY <1>5, <1>8
<1> HIDE DEF t
<1>10. /\ h \o t \in Seq(Byte) /\ Len(h \o t) = Len(h) + Len(t) /\ Len(t) \in Nat
       /\ \A i \in 1 .. Len(h) : (h \o t)[i] = h[i]
       /\ \A i \in 1 .. Len(t) : (h \o t)[i + Len(h)] = t[i]
    BY <1>9, ConcatIs
<1>11. s = h \o t /\ Len(h) = 4
    BY <1>1, <1>8 DEF t
<1>12. Len(s) = Len(t) + 4 /\ Len(s) + 2 = Len(t) + 6
    <2>1. Len(s) = 4 + Len(t) /\ Len(t) \in Nat
        BY <1>10, <1>11
    <2> QED
        BY <2>1
<1>13. s[1] = h[1] /\ s[2] = h[2] /\ s[3] = h[3] /\ s[4] = h[4]
    <2>1. \A i \in 1 .. 4 : s[i] = h[i]
        BY <1>10, <1>11
    <2> QED
        BY <2>1
<1>14. s \in Seq(Byte) /\ \A i \in 1 .. Len(t) : s[i + 4] = t[i]
    BY <1>10, <1>11
<1>15. Len(s) + 2 \in Byte
    BY <1>3, <1>12 DEF t
<1> QED
    BY <1>8, <1>9, <1>12, <1>13, <1>14, <1>15 DEF t

\* What it says without tags, of its mode, and to the other commands.
LEMMA SaidOfNone ==
    ASSUME NEW m, NEW s, s = Said("inventory", <<>>, m)
    PROVE  /\ s = <<Address, 1, 251>> /\ s \in Seq(Byte) /\ Len(s) = 3 /\ Len(s) + 2 \in Byte
           /\ s[1] = Address /\ s[2] = 1 /\ s[3] = 251
<1>1. s = <<Address, 1, 251>>
    BY DEF Said
<1>2. 1 \in Byte /\ 3 + 2 \in Byte /\ 251 \in Byte /\ Address \in Byte
    BY FramesAssumption DEF Byte
<1>3. <<Address, 1, 251>> \in Seq(Byte)
    BY <1>2
<1>4. Len(s) = 3 /\ s[1] = Address /\ s[2] = 1 /\ s[3] = 251
    BY <1>1
<1> QED
    BY <1>1, <1>2, <1>3, <1>4, Zenon

LEMMA SaidOfMode ==
    ASSUME NEW tags, NEW m \in Modes, NEW s, s = Said("getmode", tags, m)
    PROVE  /\ s \in Seq(Byte) /\ Len(s) = 4 /\ Len(s) + 2 \in Byte
           /\ s[1] = Address /\ s[2] = 54 /\ s[4] = m
<1>1. s = <<Address, 54, 0, m>>
    BY DEF Said
<1>2. 0 \in Byte /\ 4 + 2 \in Byte /\ 54 \in Byte /\ Address \in Byte /\ m \in Byte
    BY FramesAssumption DEF Byte
<1>3. <<Address, 54, 0, m>> \in Seq(Byte)
    BY <1>2
<1>4. Len(s) = 4 /\ s[1] = Address /\ s[2] = 54 /\ s[4] = m
    BY <1>1
<1> QED
    BY <1>1, <1>2, <1>3, <1>4, Zenon

LEMMA SaidOnly ==
    ASSUME NEW c \in {"info", "setmode"}, NEW tags, NEW m, NEW s, s = Said(c, tags, m)
    PROVE  /\ s \in Seq(Byte) /\ Len(s) = 3 /\ Len(s) + 2 \in Byte
           /\ s[1] = Address /\ s[2] = Code[c]
<1>1. s = <<Address, Code[c], 0>>
    BY DEF Said
<1>2. {0, 5, 33, 53} \subseteq Byte /\ Address \in Byte
    BY FramesAssumption DEF Byte
<1>3. Code[c] \in Byte
    BY <1>2, CodeIs
<1>4. <<Address, Code[c], 0>> \in Seq(Byte)
    BY <1>2, <1>3
<1>5. Len(s) = 3 /\ s[1] = Address /\ s[2] = Code[c]
    BY <1>1
<1>6. Len(s) + 2 = 5
    BY <1>5
<1> QED
    BY <1>1, <1>2, <1>4, <1>5, <1>6

\* Whatever it says fits a frame, and begins with its address and the command.
LEMMA SaidIs ==
    ASSUME NEW c \in DOMAIN Code, NEW tags \in Fields, NEW m \in Modes, NEW s, s = Said(c, tags, m)
    PROVE  /\ s \in Seq(Byte) /\ Len(s) >= 3 /\ Len(s) + 2 \in Byte
           /\ s[1] = Address /\ s[2] = Code[c]
<1>1. CASE c = "inventory" /\ tags = <<>>
    <2>1. s = Said("inventory", <<>>, m)
        BY <1>1
    <2> QED
        BY <1>1, <2>1, SaidOfNone, CodeIs
<1>2. CASE c = "inventory" /\ tags # <<>>
    <2>1. s = Said("inventory", tags, m)
        BY <1>2
    <2>2. Len(s) = Len(Payload(tags)) + 4 /\ Payload(tags) \in Seq(Byte)
        BY <1>2, <2>1, SaidOfTags
    <2>3. Len(s) >= 3
        BY <2>2
    <2> QED
        BY <1>2, <2>1, <2>3, SaidOfTags, CodeIs
<1>3. CASE c = "getmode"
    <2>1. s = Said("getmode", tags, m)
        BY <1>3
    <2> QED
        BY <1>3, <2>1, SaidOfMode, CodeIs
<1>4. CASE c \in {"info", "setmode"}
    <2>1. /\ s \in Seq(Byte) /\ Len(s) = 3 /\ Len(s) + 2 \in Byte
          /\ s[1] = Address /\ s[2] = Code[c]
        BY <1>4, SaidOnly
    <2> QED
        BY <2>1
<1> QED
    BY <1>1, <1>2, <1>3, <1>4, CodeIs

\* The bytes of a reply: what the reader says is from the second on.
LEMMA ReplyIs ==
    ASSUME NEW c \in DOMAIN Code, NEW tags \in Fields, NEW m \in Modes,
           NEW s, s = Said(c, tags, m), NEW w, w = ReplyTo(c, tags, m)
    PROVE  /\ w \in Seq(Byte) /\ Len(w) = Len(s) + 3 /\ Len(w) >= 6 /\ Len(w) <= 256
           /\ w[1] = Len(w) - 1 /\ w[2] = Address /\ w[3] = Code[c]
           /\ \A i \in 1 .. Len(s) : w[i + 1] = s[i]
           /\ has_valid_crc(w)
<1>1. s \in Seq(Byte) /\ Len(s) >= 3 /\ Len(s) + 2 \in Byte /\ s[1] = Address /\ s[2] = Code[c]
    BY SaidIs
<1>2. crc16(WithLength(s)) \in Word
    BY ChecksumAssumption
<1>3. w = WithCRC(WithLength(s))
    BY DEF ReplyTo
<1>4. /\ w \in Seq(Byte) /\ Len(w) = Len(s) + 3 /\ w[1] = Len(s) + 2
      /\ \A i \in 1 .. Len(s) : w[i + 1] = s[i]
      /\ has_valid_crc(w)
    BY <1>1, <1>2, <1>3, FrameIs
<1>5. Len(s) \in Nat /\ Len(s) >= 3
    BY <1>1
<1>6. Len(s) <= 253
    <2>1. \A b \in Byte : b <= 255
        BY DEF Byte
    <2>2. Len(s) + 2 <= 255
        BY <1>1, <2>1
    <2> QED
        BY <1>5, <2>2
<1>7. Len(w) >= 6 /\ Len(w) <= 256 /\ w[1] = Len(w) - 1
    <2>1. Len(w) = Len(s) + 3 /\ w[1] = Len(s) + 2
        BY <1>4
    <2> QED
        BY <1>5, <1>6, <2>1
<1>8. w[2] = s[1] /\ w[3] = s[2]
    <2>1. w[1 + 1] = s[1] /\ w[2 + 1] = s[2]
        BY <1>4, <1>5
    <2> QED
        BY <2>1
<1> QED
    BY <1>1, <1>4, <1>7, <1>8

\* Two reads take a reply with nothing of what comes after it, and of a reply
\* that is cut short all there is.
LEMMA TakenIs ==
    ASSUME NEW w \in Seq(Byte), Len(w) >= 1, w[1] = Len(w) - 1
    PROVE  /\ \A v \in Seq(Byte) : Taken(w \o v) = w
           /\ Taken(w) = w
           /\ \A k \in 0 .. Len(w) - 1 : Taken(SubSeq(w, 1, k)) = SubSeq(w, 1, k)
<1>1. \A v \in Seq(Byte) : Taken(w \o v) = w
    <2> TAKE v \in Seq(Byte)
    <2> DEFINE u == w \o v
    <2>1. /\ u \in Seq(Byte) /\ Len(u) = Len(w) + Len(v) /\ Len(w) \in Nat /\ Len(v) \in Nat
          /\ u[1] = w[1]
        BY ConcatIs
    <2>2. SubSeq(u, 1, Len(w)) = w
        OBVIOUS
    <2> HIDE DEF u
    <2>3. u # <<>> /\ u[1] + 1 = Len(w)
        <3>1. u[1] = Len(w) - 1 /\ Len(w) \in Nat /\ Len(u) # 0
            BY <2>1
        <3> QED
            BY <3>1
    <2>4. (IF Len(w) < Len(u) THEN Len(w) ELSE Len(u)) = Len(w)
        BY <2>1
    <2>5. Taken(u) = w
        BY <2>2, <2>3, <2>4 DEF Taken
    <2> QED
        BY <2>5 DEF u
<1>2. Taken(w) = w
    <2>1. w \o <<>> = w /\ <<>> \in Seq(Byte)
        OBVIOUS
    <2>2. Taken(w \o <<>>) = w
        BY <1>1, <2>1
    <2> QED
        BY <2>1, <2>2
<1>3. \A k \in 0 .. Len(w) - 1 : Taken(SubSeq(w, 1, k)) = SubSeq(w, 1, k)
    <2> TAKE k \in 0 .. Len(w) - 1
    <2> DEFINE u == SubSeq(w, 1, k)
    <2>1. u \in Seq(Byte) /\ Len(u) = k /\ (k > 0 => u[1] = w[1])
        OBVIOUS
    <2> HIDE DEF u
    <2>2. ASSUME k = 0 PROVE Taken(u) = u
        <3>1. u = <<>>
            BY <2>1, <2>2
        <3> QED
            BY <3>1 DEF Taken
    <2>3. ASSUME k > 0 PROVE Taken(u) = u
        <3>1. u # <<>>
            BY <2>1, <2>3
        <3>2. SubSeq(u, 1, Len(u)) = u
            BY <2>1
        <3>3. u[1] + 1 = Len(w) /\ ~(Len(w) < Len(u))
            BY <2>1, <2>3
        <3> QED
            BY <3>1, <3>2, <3>3 DEF Taken
    <2>4. Taken(u) = u
        BY <2>2, <2>3
    <2> QED
        BY <2>4 DEF u
<1> QED
    BY <1>1, <1>2, <1>3, Zenon

\* Of any bytes they take the first ones, and none only if there are none.
LEMMA TakenBytes ==
    ASSUME NEW v \in Seq(Byte)
    PROVE  /\ Taken(v) \in Seq(Byte) /\ Len(Taken(v)) <= Len(v)
           /\ Taken(v) = SubSeq(v, 1, Len(Taken(v)))
           /\ Taken(v) = <<>> => v = <<>>
<1>1. CASE v = <<>>
    BY <1>1 DEF Taken
<1>2. CASE v # <<>>
    <2> DEFINE k == IF v[1] + 1 < Len(v) THEN v[1] + 1 ELSE Len(v)
    <2>1. Len(v) \in Nat /\ Len(v) >= 1 /\ v[1] \in Byte
        BY <1>2
    <2>2. v[1] \in Nat
        <3>1. \A b \in Byte : b \in Nat
            BY DEF Byte
        <3> QED
            BY <2>1, <3>1
    <2>3. k \in Nat /\ k >= 1 /\ k <= Len(v)
        BY <2>1, <2>2
    <2>4. Taken(v) = SubSeq(v, 1, k)
        BY <1>2 DEF Taken
    <2> HIDE DEF k
    <2>5. SubSeq(v, 1, k) \in Seq(Byte) /\ Len(SubSeq(v, 1, k)) = k
        BY <2>3
    <2> QED
        BY <2>3, <2>4, <2>5
<1> QED
    BY <1>1, <1>2

\* The reply without tags, and where a reply with tags has its status and count.
LEMMA InventoryNone ==
    ASSUME NEW m \in Modes, <<>> \in Fields, NEW w, w = ReplyTo("inventory", <<>>, m)
    PROVE  /\ Len(w) = 6 /\ w[1] = 5 /\ w[2] = Address /\ w[3] = 1 /\ w[4] = 251
           /\ SubSeq(w, 1, 4) = <<5, Address, 1, 251>>
           /\ crc16(<<5, Address, 1, 251>>) = w[5] + 256 * w[6]
<1> DEFINE s == Said("inventory", <<>>, m)
<1>1. s = <<Address, 1, 251>> /\ s \in Seq(Byte) /\ Len(s) = 3 /\ Len(s) + 2 \in Byte
    BY SaidOfNone
<1>2. crc16(WithLength(s)) \in Word
    BY CodeIs, ChecksumAssumption
<1>3. w = WithCRC(WithLength(s))
    BY DEF ReplyTo
<1> HIDE DEF s
<1>4. WithLength(s) = <<5, Address, 1, 251>>
    <2>1. Len(s) = 3
        BY <1>1
    <2>2. Len(s) + 2 = 5
        BY <2>1
    <2>3. WithLength(s) = <<5>> \o <<Address, 1, 251>>
        BY <1>1, <2>2 DEF WithLength
    <2>4. <<5>> \o <<Address, 1, 251>> = <<5, Address, 1, 251>>
        <3> DEFINE x == <<5>>
                   y == <<Address, 1, 251>>
                   z == <<5, Address, 1, 251>>
        <3>1. {1, 5, 251} \subseteq Byte /\ Address \in Byte
            BY FramesAssumption DEF Byte
        <3>2. x \in Seq(Byte) /\ y \in Seq(Byte) /\ z \in Seq(Byte)
            BY <3>1
        <3>3. /\ Len(x) = 1 /\ Len(y) = 3 /\ Len(z) = 4
              /\ x[1] = z[1] /\ y[1] = z[2] /\ y[2] = z[3] /\ y[3] = z[4]
            OBVIOUS
        <3> HIDE DEF x, y, z
        <3>4. /\ x \o y \in Seq(Byte) /\ Len(x \o y) = 4 /\ (x \o y)[1] = x[1]
              /\ (x \o y)[1 + 1] = y[1] /\ (x \o y)[2 + 1] = y[2] /\ (x \o y)[3 + 1] = y[3]
            <4>1. /\ x \o y \in Seq(Byte) /\ Len(x \o y) = Len(x) + Len(y)
                  /\ \A i \in 1 .. Len(x) : (x \o y)[i] = x[i]
                  /\ \A i \in 1 .. Len(y) : (x \o y)[i + Len(x)] = y[i]
                BY <3>2, ConcatIs
            <4> DEFINE u == x \o y
                       k == Len(x)
                       l == Len(y)
            <4>2. /\ Len(u) = k + l /\ k = 1 /\ l = 3
                  /\ \A i \in 1 .. k : u[i] = x[i]
                  /\ \A i \in 1 .. l : u[i + k] = y[i]
                BY <3>3, <4>1
            <4> HIDE DEF u, k, l
            <4>3. Len(u) = 4 /\ u[1] = x[1] /\ u[1 + 1] = y[1] /\ u[2 + 1] = y[2] /\ u[3 + 1] = y[3]
                BY <4>2
            <4> QED
                BY <4>1, <4>3 DEF u
        <3>5. \A i \in 1 .. 4 : (x \o y)[i] = z[i]
            BY <3>3, <3>4
        <3>6. x \o y = z
            BY <3>2, <3>3, <3>4, <3>5, SameBytes
        <3> QED
            BY <3>6 DEF x, y, z
    <2> QED
        BY <2>3, <2>4, Zenon
<1>5. /\ Len(w) = Len(s) + 3 /\ w[1] = Len(s) + 2 /\ \A i \in 1 .. Len(s) : w[i + 1] = s[i]
      /\ SubSeq(w, 1, Len(w) - 2) = WithLength(s)
      /\ crc16(WithLength(s)) = w[Len(w) - 1] + 256 * w[Len(w)]
    <2>1. s \in Seq(Byte) /\ Len(s) + 2 \in Byte
        BY <1>1
    <2> QED
        BY <1>2, <1>3, <2>1, FrameIs
<1>6. Len(w) = 6 /\ w[1] = 5
    BY <1>1, <1>5
<1>7. w[1 + 1] = s[1] /\ w[2 + 1] = s[2] /\ w[3 + 1] = s[3]
    BY <1>1, <1>5
<1>8. s[1] = Address /\ s[2] = 1 /\ s[3] = 251
    BY <1>1
<1>9. w[2] = Address /\ w[3] = 1 /\ w[4] = 251
    BY <1>7, <1>8
<1>10. SubSeq(w, 1, 4) = <<5, Address, 1, 251>> /\ crc16(<<5, Address, 1, 251>>) = w[5] + 256 * w[6]
    <2>1. Len(w) - 2 = 4 /\ Len(w) - 1 = 5
        BY <1>6
    <2> QED
        BY <1>4, <1>5, <1>6, <2>1, Zenon
<1> QED
    BY <1>6, <1>9, <1>10

LEMMA ModeAt ==
    ASSUME NEW tags \in Fields, NEW m \in Modes, NEW w, w = ReplyTo("getmode", tags, m)
    PROVE  w[5] = m
<1> DEFINE s == Said("getmode", tags, m)
<1>1. s[4] = m /\ Len(s) = 4
    BY SaidOfMode
<1>2. "getmode" \in DOMAIN Code
    BY CodeIs
<1> HIDE DEF s
<1>3. \A i \in 1 .. Len(s) : w[i + 1] = s[i]
    <2>1. s = Said("getmode", tags, m)
        BY DEF s
    <2> QED
        BY <1>2, <2>1, ReplyIs
<1>4. w[4 + 1] = s[4]
    BY <1>1, <1>3
<1> QED
    BY <1>1, <1>4

LEMMA InventoryCount ==
    ASSUME NEW tags \in Fields, tags # <<>>, NEW m \in Modes, NEW w, w = ReplyTo("inventory", tags, m)
    PROVE  w[4] = 1 /\ w[5] = Len(tags) /\ Len(w) >= 8
<1> DEFINE s == Said("inventory", tags, m)
<1>1. /\ s[3] = 1 /\ s[4] = Len(tags) /\ Len(s) = Len(Payload(tags)) + 4 /\ Payload(tags) \in Seq(Byte)
    BY SaidOfTags
<1>2. Len(Payload(tags)) >= 1
    <2>1. PICK upto : Spread(tags, upto)
        BY PayloadSpreads
    <2>2. tags \in Seq(Seq(Byte)) /\ Len(tags) \in Nat /\ Len(tags) >= 1
        BY FramesAssumption
    <2>3. Len(tags) \in 0 .. Len(tags)
        BY <2>2
    <2>4. Len(upto[Len(tags)]) >= Len(tags) /\ Payload(tags) = upto[Len(tags)]
        BY <2>1, <2>3, SpreadLength DEF Spread
    <2>5. Len(Payload(tags)) \in Nat
        BY <1>1
    <2> QED
        BY <2>2, <2>4, <2>5
<1> HIDE DEF s
<1>3. Len(w) = Len(s) + 3 /\ \A i \in 1 .. Len(s) : w[i + 1] = s[i]
    <2>1. s = Said("inventory", tags, m) /\ "inventory" \in DOMAIN Code
        BY CodeIs DEF s
    <2> QED
        BY <2>1, ReplyIs
<1>4. Len(s) >= 5
    <2>1. Len(Payload(tags)) \in Nat
        BY <1>1
    <2> QED
        BY <1>1, <1>2, <2>1
<1>5. w[3 + 1] = s[3] /\ w[4 + 1] = s[4]
    BY <1>3, <1>4
<1>6. Len(w) >= 8
    BY <1>3, <1>4
<1> QED
    BY <1>1, <1>5, <1>6

\* Whatever is left of a reply with tags, the reading of its tags follows them: a
\* tag that is not whole before the last two bytes ends it.
LEMMA TagsRead ==
    ASSUME NEW tags \in Fields, tags # <<>>, NEW m \in Modes, NEW w, w = ReplyTo("inventory", tags, m),
           NEW r \in Seq(Byte), Len(r) >= 6, Len(r) <= Len(w), r[5] = w[5],
           \A i \in 6 .. Len(r) - 2 : r[i] = w[i],
           NEW upto, Spread(tags, upto)
    PROVE  /\ TagCount(r) <= Len(tags)
           /\ Len(w) = Len(Payload(tags)) + 7
           /\ \A i \in 0 .. TagCount(r) :
                /\ TagsAfter(r)[i].ok =>
                     /\ TagsAfter(r)[i].at = 5 + Len(upto[i]) /\ TagsAfter(r)[i].epcs = SubSeq(tags, 1, i)
                     /\ i > 0 => 5 + Len(upto[i]) <= Len(r) - 2
                /\ Len(r) = Len(w) => TagsAfter(r)[i].ok
<1> DEFINE s == Said("inventory", tags, m)
           n == TagCount(r)
           after == TagsAfter(r)
           pay == Payload(tags)
           Right(i) == /\ after[i].ok =>
                            /\ after[i].at = 5 + Len(upto[i]) /\ after[i].epcs = SubSeq(tags, 1, i)
                            /\ i > 0 => 5 + Len(upto[i]) <= Len(r) - 2
                       /\ Len(r) = Len(w) => after[i].ok
           S == {i \in 0 .. n : Right(i)}
<1>1. /\ s \in Seq(Byte) /\ Len(s) = Len(pay) + 4 /\ s[4] = Len(tags) /\ pay \in Seq(Byte)
      /\ \A i \in 1 .. Len(pay) : s[i + 4] = pay[i]
    BY SaidOfTags
<1>2. /\ w \in Seq(Byte) /\ Len(w) = Len(s) + 3 /\ \A i \in 1 .. Len(s) : w[i + 1] = s[i]
    <2> HIDE DEF s
    <2>1. s = Said("inventory", tags, m) /\ "inventory" \in DOMAIN Code
        BY CodeIs DEF s
    <2> QED
        BY <2>1, ReplyIs
<1>3. /\ Len(w) = Len(pay) + 7 /\ Len(pay) \in Nat /\ w[5] = Len(tags)
      /\ \A i \in 1 .. Len(pay) : w[i + 5] = pay[i]
    <2>1. Len(pay) \in Nat /\ Len(s) = Len(pay) + 4 /\ Len(w) = Len(s) + 3
        BY <1>1, <1>2
    <2>2. Len(w) = Len(pay) + 7 /\ 4 \in 1 .. Len(s)
        BY <2>1
    <2>3. w[4 + 1] = Len(tags)
        BY <1>1, <1>2, <2>2
    <2>4. ASSUME NEW i \in 1 .. Len(pay) PROVE w[i + 5] = pay[i]
        <3>1. i + 4 \in 1 .. Len(s) /\ (i + 4) + 1 = i + 5
            BY <2>1
        <3>2. w[(i + 4) + 1] = s[i + 4]
            BY <1>2, <3>1
        <3> QED
            BY <1>1, <3>1, <3>2
    <2> QED
        BY <2>1, <2>2, <2>3, <2>4
<1>4. /\ n \in 0 .. Len(r) /\ n \in Nat /\ after \in [0 .. n -> Reads]
      /\ after[0] = [at |-> 5, ok |-> TRUE, epcs |-> <<>>]
      /\ \A i \in 1 .. n : after[i] = NextTag(r, after[i - 1])
    BY TagsFollow
<1>5. n <= Len(tags) /\ Len(tags) \in Nat
    <2>1. At(r, 4) = Len(tags)
        BY <1>3 DEF At
    <2>2. Len(tags) \in Nat /\ Len(r) \in Nat
        BY FramesAssumption
    <2> QED
        BY <2>1, <2>2 DEF TagCount
<1> HIDE DEF s, n, after, pay
<1>6. Right(0)
    <2>1. upto[0] = <<>> /\ Len(<<>>) = 0 /\ SubSeq(tags, 1, 0) = <<>>
        BY FramesAssumption DEF Spread
    <2> QED
        BY <1>4, <2>1
<1>7. ASSUME NEW i \in 1 .. n, Right(i - 1) PROVE Right(i)
    <2> DEFINE p == after[i - 1]
               l == Offset(upto, i)
               t == tags[i]
    <2>1. i \in 1 .. Len(tags) /\ i - 1 \in 0 .. n /\ i > 0
        BY <1>4, <1>5
    <2>2. /\ l \in Nat /\ t \in Seq(Byte) /\ Len(t) \in Nat
          /\ Len(upto[i]) = l + 1 + Len(t) /\ Len(upto[i]) <= Len(pay)
          /\ pay[l + 1] = Len(t) /\ \A j \in 1 .. Len(t) : pay[l + 1 + j] = t[j]
        <3>1. /\ l \in Nat /\ t \in Seq(Byte)
              /\ Len(upto[i]) = l + 1 + Len(t) /\ Len(upto[i]) <= Len(pay)
              /\ pay[l + 1] = Len(t) /\ \A j \in 1 .. Len(t) : pay[l + 1 + j] = t[j]
            BY <2>1, SpreadAt DEF pay
        <3>2. Len(t) \in Nat
            BY <3>1
        <3> QED
            BY <3>1, <3>2
    <2>3. after[i] = NextTag(r, p) /\ p \in Reads
        BY <1>4, <2>1
    <2>4. p.ok => p.at = 5 + l /\ p.epcs = SubSeq(tags, 1, i - 1)
        BY <1>7 DEF Offset
    <2>5. Len(r) = Len(w) => p.ok
        BY <1>7
    <2> HIDE DEF l, t
    <2>6. /\ l \in Nat /\ Len(t) \in Nat /\ Len(pay) \in Nat /\ Len(r) \in Nat
          /\ Len(w) = Len(pay) + 7 /\ l + 1 + Len(t) <= Len(pay)
        BY <1>3, <2>2
    <2>7. ASSUME p.ok, p.at < Len(r) - 2
          PROVE  At(r, p.at) = Len(t)
        <3>1. p.at = 5 + l
            BY <2>4, <2>7
        <3>2. l + 6 \in 6 .. Len(r) - 2 /\ l + 1 \in 1 .. Len(pay)
            BY <1>3, <2>2, <2>7, <3>1
        <3>3. r[l + 6] = w[l + 6] /\ w[(l + 1) + 5] = pay[l + 1]
            BY <1>3, <3>2
        <3>4. (l + 1) + 5 = l + 6 /\ p.at + 1 = l + 6
            BY <2>2, <3>1
        <3> QED
            BY <2>2, <3>3, <3>4 DEF At
    <2>8. CASE Fits(r, p)
        <3>1. p.ok /\ p.at < Len(r) - 2 /\ p.at + 1 + At(r, p.at) <= Len(r) - 2
            BY <2>8 DEF Fits
        <3>2. At(r, p.at) = Len(t) /\ p.at = 5 + l /\ p.epcs = SubSeq(tags, 1, i - 1)
            BY <2>4, <2>7, <3>1
        <3> DEFINE e == SubSeq(r, p.at + 2, p.at + 1 + At(r, p.at))
        <3>3. e = SubSeq(r, l + 7, l + 6 + Len(t)) /\ l + 6 + Len(t) <= Len(r) - 2
            <4>1. p.at + 2 = l + 7 /\ p.at + 1 + At(r, p.at) = l + 6 + Len(t)
                BY <2>2, <3>2
            <4> QED
                BY <3>1, <4>1
        <3>4. ASSUME NEW j \in 1 .. Len(t) PROVE r[l + 6 + j] = t[j]
            <4> DEFINE q == Len(t)
                       b == Len(r)
                       c == Len(pay)
            <4>1. /\ l \in Nat /\ q \in Nat /\ c \in Nat /\ b \in Nat /\ j \in 1 .. q
                  /\ l + 6 + q <= b - 2 /\ l + 1 + q <= c
                BY <2>6, <3>3
            <4>2. l + 6 + j \in 6 .. Len(r) - 2 /\ l + 1 + j \in 1 .. Len(pay) /\ (l + 1 + j) + 5 = l + 6 + j
                <5> HIDE DEF q, b, c
                <5>1. l + 6 + j \in 6 .. b - 2 /\ l + 1 + j \in 1 .. c /\ (l + 1 + j) + 5 = l + 6 + j
                    BY <4>1
                <5> QED
                    BY <5>1 DEF b, c
            <4>3. r[l + 6 + j] = w[l + 6 + j] /\ w[(l + 1 + j) + 5] = pay[l + 1 + j]
                BY <1>3, <4>2
            <4> QED
                BY <2>2, <4>2, <4>3
        <3>5. e = t
            <4>1. /\ e \in Seq(Byte) /\ Len(e) = Len(t)
                  /\ \A j \in 1 .. Len(t) : e[j] = r[l + 6 + j]
                <5>1. l + 7 >= 1 /\ l + 6 + Len(t) <= Len(r) /\ l + 7 \in Nat /\ l + 6 + Len(t) \in Nat
                    BY <2>2, <3>3
                <5> HIDE DEF e
                <5> QED
                    BY <2>2, <3>3, <5>1
            <4> HIDE DEF e
            <4>2. t \in Seq(Byte) /\ \A j \in 1 .. Len(t) : e[j] = t[j]
                BY <2>2, <3>4, <4>1
            <4> QED
                BY <4>1, <4>2, SameBytes
        <3> HIDE DEF e
        <3>6. after[i] = [at |-> p.at + 1 + At(r, p.at), ok |-> TRUE, epcs |-> Append(p.epcs, e)]
            BY <2>3, <2>8 DEF NextTag, e
        <3>7. Append(SubSeq(tags, 1, i - 1), t) = SubSeq(tags, 1, i)
            BY <2>1, FramesAssumption DEF t
        <3>8. after[i].at = 5 + Len(upto[i])
            <4>1. after[i].at = p.at + 1 + At(r, p.at)
                BY <3>6
            <4>2. after[i].at = (5 + l) + 1 + Len(t) /\ Len(upto[i]) = l + 1 + Len(t)
                BY <2>2, <3>2, <4>1
            <4> QED
                BY <2>6, <4>2
        <3>9. after[i].epcs = SubSeq(tags, 1, i) /\ after[i].ok
            BY <3>2, <3>5, <3>6, <3>7
        <3>10. 5 + Len(upto[i]) <= Len(r) - 2
            BY <2>2, <3>3
        <3> QED
            BY <3>8, <3>9, <3>10
    <2>9. CASE ~Fits(r, p)
        <3>1. after[i].ok = FALSE
            BY <2>3, <2>9 DEF NextTag, Reads
        <3>2. Len(r) # Len(w)
            <4> SUFFICES ASSUME Len(r) = Len(w) PROVE FALSE
                OBVIOUS
            <4>1. p.ok /\ p.at = 5 + l
                BY <2>4, <2>5
            <4>2. p.at < Len(r) - 2 /\ l + 6 + Len(t) <= Len(r) - 2
                BY <2>6, <4>1
            <4>3. p.at + 1 + At(r, p.at) <= Len(r) - 2
                BY <2>2, <2>7, <4>1, <4>2
            <4> QED
                BY <2>9, <4>1, <4>2, <4>3 DEF Fits
        <3> QED
            BY <3>1, <3>2
    <2> QED
        BY <2>8, <2>9
<1> HIDE DEF Right
<1>8. 0 .. n \subseteq S
    <2>1. 0 \in S
        BY <1>4, <1>6
    <2>2. \A i \in 1 .. n : i - 1 \in S => i \in S
        BY <1>4, <1>7
    <2> HIDE DEF S
    <2> QED
        BY <1>4, <2>1, <2>2, UpToInduction
<1> QED
    BY <1>3, <1>5, <1>8 DEF Right, n, after, pay
-----------------------------------------------------------------------------
(* What the agent makes of a reply *)

LEMMA InventoryMade ==
    ASSUME NEW r
    PROVE  /\ Made("inventory", r).ok =>
                /\ Framed(r)
                /\ \/ is_no_tag_inventory_response(r) /\ Made("inventory", r).says = <<>>
                   \/ /\ At(r, 3) \in 1 .. 4 /\ Tags(r).ok
                      /\ Made("inventory", r).says = Tags(r).epcs
           /\ Framed(r) /\ is_no_tag_inventory_response(r) =>
                Made("inventory", r).ok /\ Made("inventory", r).says = <<>>
           /\ Framed(r) /\ ~is_no_tag_inventory_response(r) /\ At(r, 3) \in 1 .. 4 /\ Tags(r).ok =>
                Made("inventory", r).ok /\ Made("inventory", r).says = Tags(r).epcs
<1>1. /\ Made("inventory", r).ok <=> classify_inventory_response(r).status = "VALID"
      /\ Made("inventory", r).says = classify_inventory_response(r).tags
    BY DEF Made
<1>2. /\ Framed(r) => r # <<>>
      /\ is_no_tag_inventory_response(r) => At(r, 3) \notin 1 .. 4
    BY DEF Framed, is_no_tag_inventory_response
<1>3. CASE Framed(r) /\ is_no_tag_inventory_response(r)
    <2>1. classify_inventory_response(r) = [status |-> "VALID", tags |-> <<>>]
        BY <1>2, <1>3 DEF classify_inventory_response
    <2> QED
        BY <1>1, <1>3, <2>1
<1>4. CASE Framed(r) /\ ~is_no_tag_inventory_response(r) /\ At(r, 3) \in 1 .. 4 /\ Tags(r).ok
    <2>1. classify_inventory_response(r) = [status |-> "VALID", tags |-> Tags(r).epcs]
        BY <1>2, <1>4 DEF classify_inventory_response
    <2> QED
        BY <1>1, <1>4, <2>1
<1>5. CASE /\ ~(Framed(r) /\ is_no_tag_inventory_response(r))
           /\ ~(Framed(r) /\ At(r, 3) \in 1 .. 4 /\ Tags(r).ok)
    <2>1. classify_inventory_response(r).status \in {"NO_RESPONSE", "MALFORMED"}
        BY <1>5 DEF classify_inventory_response
    <2>2. ~Made("inventory", r).ok
        BY <1>1, <2>1
    <2> QED
        BY <1>5, <2>2
<1> QED
    BY <1>3, <1>4, <1>5

LEMMA OtherMade ==
    ASSUME NEW c \in DOMAIN Code, c # "inventory", NEW r
    PROVE  /\ Made(c, r).ok <=> (Len(r) >= 5 /\ At(r, 2) = Code[c])
           /\ Made(c, r).ok => Made(c, r).says = IF c = "getmode" THEN <<<<At(r, 4)>>>> ELSE <<>>
<1>1. CASE c = "getmode" /\ is_valid_command_response(r, c)
    <2>1. Made(c, r) = [ok |-> TRUE, says |-> <<<<At(r, 4)>>>>]
        BY <1>1 DEF Made
    <2> QED
        BY <1>1, <2>1 DEF is_valid_command_response
<1>2. CASE ~(c = "getmode" /\ is_valid_command_response(r, c))
    <2>1. Made(c, r) = [ok |-> is_valid_command_response(r, c), says |-> <<>>]
        BY <1>2 DEF Made
    <2>2. Made(c, r).ok = is_valid_command_response(r, c) /\ Made(c, r).says = <<>>
        BY <2>1
    <2>3. Made(c, r).ok => c # "getmode"
        BY <1>2, <2>2
    <2>4. is_valid_command_response(r, c) <=> (Len(r) >= 5 /\ At(r, 2) = Code[c])
        BY DEF is_valid_command_response
    <2> QED
        BY <2>2, <2>3, <2>4
<1> QED
    BY <1>1, <1>2

\* Of the bytes of a reply with tags, the tags can be read only from all of them.
LEMMA AllTagsOrNone ==
    ASSUME NEW tags \in Fields, tags # <<>>, NEW m \in Modes, NEW w, w = ReplyTo("inventory", tags, m),
           NEW r \in Seq(Byte), Len(r) >= 6, Len(r) <= Len(w), r[5] = w[5],
           \A i \in 6 .. Len(r) - 2 : r[i] = w[i]
    PROVE  /\ Tags(r).ok => Len(r) = Len(w) /\ Tags(r).epcs = tags
           /\ Len(r) = Len(w) => Tags(r).ok
<1> DEFINE n == TagCount(r)
           pay == Payload(tags)
<1>1. PICK upto : Spread(tags, upto)
    BY PayloadSpreads
<1>2. /\ n <= Len(tags) /\ Len(w) = Len(pay) + 7
      /\ \A i \in 0 .. n :
                /\ TagsAfter(r)[i].ok =>
                     /\ TagsAfter(r)[i].at = 5 + Len(upto[i]) /\ TagsAfter(r)[i].epcs = SubSeq(tags, 1, i)
                     /\ i > 0 => 5 + Len(upto[i]) <= Len(r) - 2
                /\ Len(r) = Len(w) => TagsAfter(r)[i].ok
    BY <1>1, TagsRead
<1>3. n \in 0 .. Len(r) /\ n \in 0 .. n /\ n \in Nat
    BY TagsFollow
<1>4. Tags(r) = TagsAfter(r)[n]
    BY DEF Tags
<1>5. Len(r) = Len(w) => Tags(r).ok
    BY <1>2, <1>3, <1>4
<1>6. ASSUME Tags(r).ok PROVE Len(r) = Len(w) /\ Tags(r).epcs = tags
    <2>1. Tags(r).epcs = SubSeq(tags, 1, n) /\ (n > 0 => 5 + Len(upto[n]) <= Len(r) - 2)
        BY <1>2, <1>3, <1>4, <1>6
    <2>2. Len(tags) \in Nat /\ tags \in Seq(Seq(Byte)) /\ n \in 0 .. Len(tags)
        BY <1>2, <1>3, FramesAssumption
    <2>3. Len(upto[n]) >= n /\ Len(upto[n]) \in Nat
        <3> HIDE DEF n
        <3>1. Len(upto[n]) >= n
            BY <1>1, <2>2, SpreadLength
        <3>2. upto[n] \in Seq(Byte)
            BY <1>1, <2>2 DEF Spread
        <3> QED
            BY <3>1, <3>2
    <2>4. At(r, 4) = Len(tags)
        <3>1. w[5] = Len(tags)
            BY InventoryCount
        <3> QED
            BY <3>1 DEF At
    <2>5. n = Len(tags)
        <3> SUFFICES ASSUME n # Len(tags) PROVE FALSE
            OBVIOUS
        <3>1. n = Len(r)
            BY <2>4 DEF TagCount
        <3>2. Len(r) \in Nat /\ n > 0
            BY <3>1
        <3> QED
            BY <2>1, <2>3, <3>1, <3>2
    <2>6. Len(tags) > 0 /\ SubSeq(tags, 1, Len(tags)) = tags
        BY <2>2
    <2>7. upto[n] = pay
        BY <1>1, <2>5 DEF Spread
    <2>8. 5 + Len(pay) <= Len(r) - 2 /\ Len(pay) \in Nat
        BY <2>1, <2>3, <2>5, <2>6, <2>7
    <2>9. Len(r) = Len(w)
        <3>1. Len(r) \in Nat /\ Len(w) = Len(pay) + 7 /\ Len(r) <= Len(w)
            BY <1>2
        <3> QED
            BY <2>8, <3>1
    <2> QED
        BY <2>1, <2>5, <2>6, <2>9
<1> QED
    BY <1>5, <1>6

\* The frame of a reply to an inventory is one.
LEMMA ReplyFramed ==
    ASSUME NEW tags \in Fields, NEW m \in Modes, NEW w, w = ReplyTo("inventory", tags, m)
    PROVE  Framed(w)
<1>1. Len(w) >= 6 /\ w[1] = Len(w) - 1 /\ w[3] = 1 /\ Len(w) \in Nat
    <2>1. /\ w \in Seq(Byte) /\ Len(w) >= 6 /\ w[1] = Len(w) - 1 /\ w[3] = Code["inventory"]
        BY CodeIs, ReplyIs
    <2>2. Len(w) \in Nat
        BY <2>1
    <2> QED
        BY <2>1, <2>2, CodeIs
<1>2. At(w, 0) = w[1] /\ At(w, 2) = w[3]
    BY DEF At
<1> QED
    BY <1>1, <1>2 DEF Framed

\* Of a whole reply the agent makes what the reader said.
LEMMA WholeSays ==
    ASSUME NEW c \in DOMAIN Code, NEW tags \in Fields, NEW m \in Modes, NEW w, w = ReplyTo(c, tags, m)
    PROVE  Made(c, w).ok /\ Made(c, w).says = Told(c, tags, m)
<1>1. w \in Seq(Byte) /\ Len(w) >= 6 /\ w[3] = Code[c] /\ has_valid_crc(w) /\ Len(w) \in Nat
    <2>1. w \in Seq(Byte) /\ Len(w) >= 6 /\ w[3] = Code[c] /\ has_valid_crc(w)
        BY ReplyIs
    <2>2. Len(w) \in Nat
        BY <2>1
    <2> QED
        BY <2>1, <2>2
<1>2. CASE c = "inventory" /\ tags = <<>>
    <2>1. Len(w) = 6 /\ w[1] = 5 /\ w[3] = 1 /\ w[4] = 251 /\ Framed(w)
        BY <1>2, InventoryNone, ReplyFramed
    <2>2. At(w, 0) = w[1] /\ At(w, 2) = w[3] /\ At(w, 3) = w[4]
        BY DEF At
    <2>3. is_no_tag_inventory_response(w)
        BY <1>1, <2>1, <2>2 DEF is_no_tag_inventory_response
    <2>4. Made("inventory", w).ok /\ Made("inventory", w).says = <<>>
        BY <2>1, <2>3, InventoryMade
    <2> QED
        BY <1>2, <2>4 DEF Told
<1>3. CASE c = "inventory" /\ tags # <<>>
    <2>1. w[4] = 1 /\ Len(w) >= 8 /\ Framed(w)
        BY <1>3, InventoryCount, ReplyFramed
    <2>2. At(w, 3) = w[4]
        BY DEF At
    <2>3. ~is_no_tag_inventory_response(w) /\ At(w, 3) \in 1 .. 4
        BY <1>1, <2>1, <2>2 DEF is_no_tag_inventory_response
    <2>4. Tags(w).ok /\ Tags(w).epcs = tags
        BY <1>1, <1>3, AllTagsOrNone
    <2>5. Made("inventory", w).ok /\ Made("inventory", w).says = tags
        BY <2>1, <2>3, <2>4, InventoryMade
    <2> QED
        BY <1>3, <2>5 DEF Told
<1>4. CASE c # "inventory"
    <2>1. At(w, 2) = w[3] /\ At(w, 4) = w[5]
        BY DEF At
    <2>2. Made(c, w).ok /\ Made(c, w).says = IF c = "getmode" THEN <<<<At(w, 4)>>>> ELSE <<>>
        BY <1>1, <1>4, <2>1, OtherMade
    <2>3. c = "getmode" => w[5] = m
        BY ModeAt
    <2> QED
        BY <1>4, <2>1, <2>2, <2>3 DEF Told
<1> QED
    BY <1>2, <1>3, <1>4

\* The bytes on the line begin with that reply.
Begins(v, w) == \E x \in Seq(Byte) : v = w \o x

\* The bytes that come in time of a line that begins with a reply are an answer only
\* to a command of its kind; they have all that it tells then, and to an inventory
\* they are all of it.
LEMMA UndisturbedTruly ==
    ASSUME NEW c \in DOMAIN Code, NEW tags \in Fields, NEW m \in Modes,
           NEW v, Begins(v, ReplyTo(c, tags, m)), NEW d \in DOMAIN Code, NEW k \in 0 .. Len(Taken(v)),
           Made(d, SubSeq(v, 1, k)).ok
    PROVE  LET r == SubSeq(v, 1, k)
           IN  /\ d = c /\ Made(d, r).says = Told(c, tags, m)
               /\ d = "inventory" => r # <<>> /\ Len(r) = At(r, 0) + 1
<1> DEFINE w == ReplyTo(c, tags, m)
           r == SubSeq(v, 1, k)
           Goal == /\ d = c /\ Made(d, r).says = Told(c, tags, m)
                   /\ d = "inventory" => r # <<>> /\ Len(r) = At(r, 0) + 1
<1> SUFFICES Goal
    OBVIOUS
<1>1. PICK x \in Seq(Byte) : v = w \o x
    BY DEF Begins
<1>2. w = ReplyTo(c, tags, m) /\ Made(d, r).ok
    OBVIOUS
<1> HIDE DEF w
<1>3. w \in Seq(Byte) /\ Len(w) \in Nat /\ Len(w) >= 1 /\ w[1] = Len(w) - 1
    <2>1. w \in Seq(Byte) /\ Len(w) >= 6 /\ w[1] = Len(w) - 1
        BY <1>2, ReplyIs
    <2> QED
        BY <2>1
<1>4. Taken(v) = w
    BY <1>1, <1>3, TakenIs
<1>5. k \in 0 .. Len(w)
    BY <1>4
<1>6. SubSeq(w \o x, 1, k) = SubSeq(w, 1, k)
    BY <1>3, <1>5
<1>7. w = ReplyTo(c, tags, m) /\ k \in 0 .. Len(w) /\ r = SubSeq(w, 1, k) /\ Made(d, r).ok
    BY <1>1, <1>2, <1>5, <1>6
<1> HIDE DEF r
<1>8. w \in Seq(Byte) /\ Len(w) >= 6 /\ w[1] = Len(w) - 1 /\ w[3] = Code[c]
    BY <1>7, ReplyIs
<1>9. Len(w) \in Nat /\ Len(r) = k /\ \A i \in 1 .. k : r[i] = w[i]
    BY <1>7, <1>8
<1>10. CASE d = "inventory"
    <2>1. Framed(r)
        BY <1>7, <1>10, InventoryMade
    <2>2. k >= 6 /\ At(r, 0) = r[1] /\ At(r, 2) = r[3] /\ At(r, 2) = 1
        BY <1>9, <2>1 DEF Framed, At
    <2>3. At(r, 0) = Len(w) - 1 /\ Code[c] = 1
        BY <1>7, <1>8, <1>9, <2>2
    <2>4. k = Len(w)
        BY <1>8, <1>9, <2>1, <2>3 DEF Framed
    <2>5. r = w
        BY <1>7, <1>8, <1>9, <2>4
    <2>6. d = c
        BY <1>10, <2>3, CodeIs
    <2>7. Made(d, r).says = Told(c, tags, m)
        BY <1>7, <2>5, <2>6, WholeSays
    <2>8. r # <<>> /\ Len(r) = At(r, 0) + 1
        BY <1>8, <1>9, <2>2, <2>3, <2>4
    <2> QED
        BY <2>6, <2>7, <2>8
<1>11. CASE d # "inventory"
    <2>1. k >= 5 /\ At(r, 2) = Code[d] /\ Made(d, r).says = IF d = "getmode" THEN <<<<At(r, 4)>>>> ELSE <<>>
        BY <1>7, <1>9, <1>11, OtherMade
    <2>2. At(r, 4) = w[5] /\ At(r, 2) = w[3]
        BY <1>9, <2>1 DEF At
    <2>3. d = c
        BY <1>8, <2>1, <2>2, CodeIs
    <2>4. c = "getmode" => w[5] = m
        BY <1>7, ModeAt
    <2> QED
        BY <1>11, <2>1, <2>2, <2>3, <2>4 DEF Told
<1> QED
    BY <1>10, <1>11

\* What two reads take of a reply with one byte disturbed: all of it, or, when it
\* is the first byte, another number of bytes.
Spoilt(r, w, i) ==
    /\ r \in Seq(Byte) /\ Len(r) \in Nat /\ Len(r) >= 1 /\ Len(r) <= Len(w)
    /\ r[i + 1] \in Byte \ {w[i + 1]}
    /\ \A j \in 1 .. Len(r) : j # i + 1 => r[j] = w[j]
    /\ i # 0 => Len(r) = Len(w)
    /\ i = 0 /\ Framed(r) => Len(r) < Len(w)

LEMMA DisturbedIs ==
    ASSUME NEW w \in Seq(Byte), Len(w) >= 1, w[1] = Len(w) - 1,
           NEW i \in 0 .. Len(w) - 1, NEW b \in Byte \ {At(w, i)}
    PROVE  Spoilt(Taken([w EXCEPT ![i + 1] = b]), w, i)
<1> DEFINE v == [w EXCEPT ![i + 1] = b]
           r == Taken(v)
<1>1. Len(w) \in Nat /\ i + 1 \in 1 .. Len(w) /\ b \in Byte /\ b # w[i + 1]
    BY DEF At
<1>2. v \in Seq(Byte) /\ Len(v) = Len(w) /\ v[i + 1] = b /\ \A j \in 1 .. Len(w) : j # i + 1 => v[j] = w[j]
    BY <1>1
<1> HIDE DEF v
<1>3. b \in Nat
    BY <1>1 DEF Byte
<1>4. ASSUME i # 0 PROVE r = v
    <2>1. 1 \in 1 .. Len(w) /\ i + 1 # 1
        BY <1>1, <1>4
    <2>2. v[1] = Len(v) - 1 /\ Len(v) >= 1
        BY <1>2, <2>1
    <2> QED
        BY <1>2, <2>2, TakenIs
<1> DEFINE k == IF b + 1 < Len(w) THEN b + 1 ELSE Len(w)
<1>5. ASSUME i = 0 PROVE r = SubSeq(v, 1, k) /\ v[1] = b
    <2>1. v[1] = b /\ v # <<>>
        <3>1. v[i + 1] = b /\ Len(v) # 0
            BY <1>1, <1>2
        <3> QED
            BY <1>5, <3>1
    <2> QED
        BY <1>2, <2>1 DEF Taken
<1>6. k \in 1 .. Len(w)
    BY <1>1, <1>3
<1>7. (b # Len(w) - 1 /\ k # b + 1) => b >= k
    BY <1>1, <1>3
<1> HIDE DEF k, r
<1>8. ASSUME i = 0
      PROVE  r \in Seq(Byte) /\ Len(r) = k /\ \A j \in 1 .. k : r[j] = v[j]
    BY <1>2, <1>5, <1>6, <1>8
<1>9. ASSUME i = 0, Framed(r) PROVE k < Len(w)
    <2>1. Len(r) = k /\ r[1] = b
        BY <1>5, <1>6, <1>8, <1>9
    <2>2. At(r, 0) = b /\ k >= 6
        BY <2>1, <1>9 DEF At, Framed
    <2>3. b # 0 => k = b + 1
        BY <1>9, <2>1, <2>2 DEF Framed
    <2>4. b # Len(w) - 1
        BY <1>1, <1>9
    <2>5. b # 0
        BY <1>1, <1>3, <1>6, <1>7, <2>2, <2>4
    <2> QED
        BY <1>1, <1>3, <1>6, <2>3, <2>4, <2>5
<1>10. ASSUME i # 0 PROVE Spoilt(r, w, i)
    <2>1. r = v
        BY <1>4, <1>10 DEF r
    <2>2. Spoilt(v, w, i)
        BY <1>1, <1>2, <1>10 DEF Spoilt
    <2> QED
        BY <2>1, <2>2
<1>11. ASSUME i = 0 PROVE Spoilt(r, w, i)
    <2>1. Len(r) = k /\ k \in 1 .. Len(w) /\ r \in Seq(Byte) /\ \A j \in 1 .. k : r[j] = v[j]
        BY <1>6, <1>8, <1>11
    <2>2. \A j \in 1 .. Len(r) : j # i + 1 => r[j] = w[j]
        BY <1>1, <1>2, <2>1
    <2>3. r[i + 1] \in Byte \ {w[i + 1]}
        <3>1. r[1] = v[1]
            BY <1>1, <2>1
        <3> QED
            BY <1>1, <1>2, <1>11, <3>1
    <2>4. Framed(r) => Len(r) < Len(w)
        BY <1>9, <1>11, <2>1
    <2>5. Len(r) \in Nat /\ Len(r) >= 1 /\ Len(r) <= Len(w)
        BY <1>1, <2>1
    <2> QED
        BY <1>11, <2>1, <2>2, <2>3, <2>4, <2>5 DEF Spoilt
<1>12. Spoilt(r, w, i)
    BY <1>10, <1>11
<1> QED
    BY <1>12 DEF r, v

\* A frame too short for a tag has none, or not as many as it counts.
LEMMA NoMoreTags ==
    ASSUME NEW r \in Seq(Byte), Len(r) = 6, Tags(r).ok
    PROVE  At(r, 4) = 0 /\ Tags(r).epcs = <<>>
<1> DEFINE n == TagCount(r)
           after == TagsAfter(r)
           S == {i \in 0 .. n : i # 0 => ~after[i].ok}
<1>1. /\ n \in 0 .. Len(r) /\ n \in Nat /\ after \in [0 .. n -> Reads]
      /\ after[0] = [at |-> 5, ok |-> TRUE, epcs |-> <<>>]
      /\ \A i \in 1 .. n : after[i] = NextTag(r, after[i - 1])
    <2>1. Len(r) >= 5
        OBVIOUS
    <2>2. /\ n \in 0 .. Len(r) /\ after \in [0 .. n -> Reads]
          /\ after[0] = [at |-> 5, ok |-> TRUE, epcs |-> <<>>]
          /\ \A i \in 1 .. n : after[i] = NextTag(r, after[i - 1])
        BY <2>1, TagsFollow
    <2> HIDE DEF n
    <2>3. n \in Nat
        BY <2>2
    <2> QED
        BY <2>2, <2>3
<1>2. Tags(r) = after[n]
    BY DEF Tags
<1>3. n = 0 => At(r, 4) = 0
    BY DEF TagCount
<1> HIDE DEF n, after
<1>4. \A p \in Reads : ~Fits(r, p) => ~NextTag(r, p).ok
    BY DEF NextTag, Reads
<1>5. ASSUME NEW i \in 1 .. n, i - 1 \in S PROVE i \in S
    <2>1. i - 1 \in 0 .. n /\ i \in 0 .. n
        BY <1>1
    <2>2. after[i - 1] \in Reads /\ after[i] = NextTag(r, after[i - 1])
        BY <1>1, <2>1
    <2>3. ~Fits(r, after[i - 1])
        <3>1. CASE i - 1 = 0
            <4>1. after[i - 1].at = 5
                BY <1>1, <3>1
            <4> QED
                BY <4>1 DEF Fits
        <3>2. CASE i - 1 # 0
            BY <1>5, <3>2 DEF Fits
        <3> QED
            BY <3>1, <3>2
    <2> QED
        BY <1>4, <2>1, <2>2, <2>3
<1>6. 0 \in S
    BY <1>1
<1> HIDE DEF S
<1>7. 0 .. n \subseteq S
    BY <1>1, <1>5, <1>6, UpToInduction
<1>8. n = 0
    <2>1. n \in S
        BY <1>1, <1>7
    <2> QED
        BY <1>2, <2>1 DEF S
<1>9. Tags(r).epcs = <<>>
    BY <1>1, <1>2, <1>8
<1> QED
    BY <1>3, <1>8, <1>9

\* The reply without tags, disturbed, is not taken for one without tags.
LEMMA DisturbedNone ==
    ASSUME NEW w \in Seq(Byte), Len(w) = 6, w[1] = 5, w[2] = Address, w[3] = 1, w[4] = 251,
           crc16(<<5, Address, 1, 251>>) = w[5] + 256 * w[6],
           NEW i \in 0 .. 5, NEW r, Spoilt(r, w, i), Framed(r)
    PROVE  ~is_no_tag_inventory_response(r)
<1>1. /\ r \in Seq(Byte) /\ Len(r) = 6 /\ i \in 1 .. 5
      /\ r[i + 1] \in Byte \ {w[i + 1]}
      /\ \A j \in 1 .. 6 : r[j] \in Byte /\ (j # i + 1 => r[j] = w[j])
    <2>1. Len(r) \in Nat /\ Len(r) <= 6 /\ (i = 0 => Len(r) < 6) /\ r \in Seq(Byte)
        BY DEF Spoilt
    <2>2. Len(r) >= 6
        BY DEF Framed
    <2>3. Len(r) = 6 /\ i # 0
        BY <2>1, <2>2
    <2>4. \A j \in 1 .. 6 : r[j] \in Byte
        <3> TAKE j \in 1 .. 6
        <3>1. j \in 1 .. Len(r)
            BY <2>3
        <3> QED
            BY <2>1, <3>1
    <2> QED
        BY <2>1, <2>3, <2>4 DEF Spoilt
<1>2. SUFFICES ASSUME is_no_tag_inventory_response(r) PROVE FALSE
    OBVIOUS
<1>3. r[1] = 5 /\ r[3] = 1 /\ r[4] = 251 /\ has_valid_crc(r)
    BY <1>2 DEF is_no_tag_inventory_response, At
<1>4. crc16(SubSeq(r, 1, 4)) = r[5] + 256 * r[6]
    BY <1>1, <1>3 DEF has_valid_crc
<1> DEFINE a == r[2]
<1>5. SubSeq(r, 1, 4) = <<5, a, 1, 251>>
    <2> DEFINE x == SubSeq(r, 1, 4)
               y == <<5, a, 1, 251>>
    <2>1. x \in Seq(Byte) /\ Len(x) = 4 /\ \A j \in 1 .. 4 : x[j] = r[j]
        BY <1>1
    <2>2. a \in Byte
        BY <1>1
    <2>3. {1, 5, 251} \subseteq Byte
        BY DEF Byte
    <2>4. r[2] = a
        OBVIOUS
    <2> HIDE DEF a
    <2>5. y \in Seq(Byte) /\ Len(y) = 4 /\ y[1] = 5 /\ y[2] = a /\ y[3] = 1 /\ y[4] = 251
        BY <2>2, <2>3
    <2> HIDE DEF x, y
    <2>6. \A j \in 1 .. 4 : x[j] = y[j]
        BY <1>3, <2>1, <2>5, <2>4
    <2>7. Len(x) = Len(y) /\ \A j \in 1 .. Len(y) : x[j] = y[j]
        BY <2>1, <2>5, <2>6
    <2>8. x = y
        BY <2>1, <2>5, <2>7, SameBytes
    <2> QED
        BY <2>8 DEF x, y
<1>6. crc16(<<5, a, 1, 251>>) = r[5] + 256 * r[6]
    BY <1>4, <1>5, Zenon
<1>7. CASE i = 1
    <2>1. a \in Byte \ {Address} /\ r[5] = w[5] /\ r[6] = w[6]
        BY <1>1, <1>7
    <2>2. crc16(<<5, a, 1, 251>>) # crc16(<<5, Address, 1, 251>>)
        BY <2>1, ChecksumAssumption
    <2> QED
        BY <1>6, <2>1, <2>2
<1>8. CASE i \in {2, 3}
    BY <1>1, <1>3, <1>8
<1>9. CASE i \in {4, 5}
    <2>1. a = Address
        BY <1>1, <1>9
    <2>2. r[5] + 256 * r[6] = w[5] + 256 * w[6]
        BY <1>6, <2>1, Zenon
    <2>3. r[5] \in Int /\ r[6] \in Int /\ w[5] \in Int /\ w[6] \in Int
        <3>1. \A b \in Byte : b \in Int
            BY DEF Byte
        <3>2. r[5] \in Byte /\ r[6] \in Byte
            BY <1>1
        <3>3. 5 \in 1 .. Len(w) /\ 6 \in 1 .. Len(w)
            OBVIOUS
        <3>4. w[5] \in Byte /\ w[6] \in Byte
            <4>1. \A s \in Seq(Byte) : \A j \in 1 .. Len(s) : s[j] \in Byte
                OBVIOUS
            <4> QED
                BY <3>3, <4>1, Zenon
        <3> QED
            BY <3>1, <3>2, <3>4
    <2>4. i = 4 => r[6] = w[6] /\ r[5] # w[5]
        BY <1>1
    <2>5. i = 5 => r[5] = w[5] /\ r[6] # w[6]
        BY <1>1
    <2> QED
        BY <1>9, <2>2, <2>3, <2>4, <2>5
<1> QED
    BY <1>1, <1>7, <1>8, <1>9

\* It is taken for one with tags if it counts some, and then it has none.
LEMMA DisturbedTold ==
    ASSUME NEW w \in Seq(Byte), Len(w) = 6, w[1] = 5, w[2] = Address, w[3] = 1, w[4] = 251,
           crc16(<<5, Address, 1, 251>>) = w[5] + 256 * w[6],
           NEW i \in 0 .. 5, NEW r, Spoilt(r, w, i), Made("inventory", r).ok
    PROVE  i = 3 /\ At(w, 4) = 0 /\ Made("inventory", r).says = <<>>
<1>1. Framed(r)
    BY InventoryMade
<1>2. ~is_no_tag_inventory_response(r)
    BY <1>1, DisturbedNone
<1>3. At(r, 3) \in 1 .. 4 /\ Tags(r).ok /\ Made("inventory", r).says = Tags(r).epcs
    BY <1>2, InventoryMade
<1>4. r \in Seq(Byte) /\ Len(r) = 6
    <2>1. Len(r) >= 6
        BY <1>1 DEF Framed
    <2>2. r \in Seq(Byte) /\ Len(r) \in Nat /\ Len(r) <= Len(w)
        BY DEF Spoilt
    <2>3. Len(r) = 6
        BY <2>1, <2>2
    <2> QED
        BY <2>2, <2>3
<1>5. \A j \in 1 .. 6 : j # i + 1 => r[j] = w[j]
    BY <1>4 DEF Spoilt
<1>6. i = 3
    <2>1. r[4] \in 1 .. 4
        BY <1>3 DEF At
    <2> QED
        BY <1>5, <2>1
<1>7. At(r, 4) = 0 /\ Tags(r).epcs = <<>>
    BY <1>3, <1>4, NoMoreTags
<1>8. At(w, 4) = At(r, 4)
    BY <1>5, <1>6 DEF At
<1> QED
    BY <1>3, <1>6, <1>7, <1>8

\* Of a reply with tags, other tags are read only for a byte of theirs.
LEMMA DisturbedTags ==
    ASSUME NEW tags \in Fields, tags # <<>>, NEW m \in Modes, NEW w, w = ReplyTo("inventory", tags, m),
           NEW i \in 0 .. Len(w) - 1, NEW r, Spoilt(r, w, i), Made("inventory", r).ok,
           i \notin 4 .. Len(w) - 3
    PROVE  Made("inventory", r).says = tags
<1>1. Len(w) >= 8 /\ w[4] = 1 /\ Len(w) \in Nat
    <2>1. Len(w) >= 8 /\ w[4] = 1
        BY InventoryCount
    <2>2. w \in Seq(Byte)
        BY ReplyIs, CodeIs
    <2>3. Len(w) \in Nat
        BY <2>2
    <2> QED
        BY <2>1, <2>3
<1>2. /\ r \in Seq(Byte) /\ Len(r) <= Len(w) /\ Len(r) \in Nat
      /\ \A j \in 1 .. Len(r) : j # i + 1 => r[j] = w[j]
      /\ i # 0 => Len(r) = Len(w)
    BY DEF Spoilt
<1>3. Framed(r)
    BY InventoryMade
<1>4. Len(r) >= 6
    BY <1>3 DEF Framed
<1>5. ~is_no_tag_inventory_response(r)
    <2> SUFFICES ASSUME is_no_tag_inventory_response(r) PROVE FALSE
        OBVIOUS
    <2>1. Len(r) = 6 /\ r[4] = 251
        BY DEF is_no_tag_inventory_response, At
    <2>2. Len(r) # Len(w)
        <3> DEFINE l == Len(w)
                   n == Len(r)
        <3>1. l >= 8 /\ l \in Nat /\ n = 6
            BY <1>1, <2>1
        <3> HIDE DEF l, n
        <3>2. l # n
            BY <3>1
        <3> QED
            BY <3>2 DEF l, n
    <2>3. i = 0
        BY <1>2, <2>2
    <2>4. r[4] = w[4]
        BY <1>2, <2>1, <2>3
    <2> QED
        BY <1>1, <2>1, <2>4
<1>6. Tags(r).ok /\ Made("inventory", r).says = Tags(r).epcs
    BY <1>5, InventoryMade
<1>7. i \in Nat /\ i + 1 # 5 /\ \A j \in 6 .. Len(r) - 2 : j # i + 1
    <2> DEFINE l == Len(w)
               n == Len(r)
    <2>1. l \in Nat /\ n \in Nat /\ n <= l /\ i \in 0 .. l - 1 /\ i \notin 4 .. l - 3 /\ l >= 8
        BY <1>1, <1>2
    <2> HIDE DEF l, n
    <2>2. i \in Nat /\ i + 1 # 5 /\ \A j \in 6 .. n - 2 : j # i + 1
        BY <2>1
    <2> QED
        BY <2>2 DEF n
<1>8. r[5] = w[5]
    <2>1. 5 \in 1 .. Len(r)
        BY <1>2, <1>4
    <2> QED
        BY <1>2, <1>7, <2>1
<1>9. \A j \in 6 .. Len(r) - 2 : r[j] = w[j]
    <2> TAKE j \in 6 .. Len(r) - 2
    <2>1. j \in 1 .. Len(r)
        BY <1>2
    <2> QED
        BY <1>2, <1>7, <2>1
<1>10. Tags(r).epcs = tags
    BY <1>2, <1>4, <1>6, <1>8, <1>9, AllTagsOrNone
<1> QED
    BY <1>6, <1>10

\* What one disturbed byte can do to any reply.
LEMMA DisturbedSays ==
    ASSUME NEW c \in DOMAIN Code, NEW tags \in Fields, NEW m \in Modes, NEW w, w = ReplyTo(c, tags, m),
           NEW i \in 0 .. Len(w) - 1, NEW r, Spoilt(r, w, i), Made(c, r).ok
    PROVE  /\ c = "inventory" /\ At(w, 3) = 251 => i = 3 /\ At(w, 4) = 0
           /\ Made(c, r).says # Told(c, tags, m) =>
                i \in IF c = "inventory" THEN 4 .. Len(w) - 3 ELSE {4}
<1>1. CASE c = "inventory" /\ tags = <<>>
    <2>1. /\ Len(w) = 6 /\ w[1] = 5 /\ w[2] = Address /\ w[3] = 1 /\ w[4] = 251
          /\ crc16(<<5, Address, 1, 251>>) = w[5] + 256 * w[6]
        BY <1>1, InventoryNone
    <2>2. w \in Seq(Byte)
        BY ReplyIs
    <2>3. i \in 0 .. 5
        BY <2>1
    <2>4. Made("inventory", r).ok
        BY <1>1
    <2>5. i = 3 /\ At(w, 4) = 0 /\ Made("inventory", r).says = <<>>
        BY <2>1, <2>2, <2>3, <2>4, DisturbedTold
    <2> QED
        BY <1>1, <2>5 DEF Told
<1>2. CASE c = "inventory" /\ tags # <<>>
    <2>1. w[4] = 1
        BY <1>2, InventoryCount
    <2>2. At(w, 3) = 1
        BY <2>1 DEF At
    <2>3. i \notin 4 .. Len(w) - 3 => Made("inventory", r).says = tags
        BY <1>2, DisturbedTags
    <2> QED
        BY <1>2, <2>2, <2>3 DEF Told
<1>3. CASE c # "inventory"
    <2>1. Len(r) >= 5 /\ Made(c, r).says = IF c = "getmode" THEN <<<<At(r, 4)>>>> ELSE <<>>
        BY <1>3, OtherMade
    <2>2. c = "getmode" => w[5] = m
        BY ModeAt
    <2>3. i # 4 => At(r, 4) = w[5]
        <3> SUFFICES ASSUME i # 4 PROVE r[5] = w[5]
            BY DEF At
        <3>1. Len(r) \in Nat /\ \A j \in 1 .. Len(r) : j # i + 1 => r[j] = w[j]
            BY DEF Spoilt
        <3>2. 5 \in 1 .. Len(r) /\ i + 1 # 5
            BY <2>1, <3>1
        <3> QED
            BY <3>1, <3>2
    <2> QED
        BY <1>3, <2>1, <2>2, <2>3 DEF Told
<1> QED
    BY <1>1, <1>2, <1>3
-----------------------------------------------------------------------------
(* The invariant *)

\* When nothing is disturbed the line begins with the reply it is said to begin
\* with, unless it is empty;
HeadIsReply ==
    head # None /\ noise = -1 /\ wire # <<>> =>
        \E tags \in Fields, m \in Modes :
            /\ head.says = Told(head.command, tags, m)
            /\ Begins(wire, ReplyTo(head.command, tags, m))

\* otherwise it is the present reply with another byte at one position.
WireDisturbed ==
    /\ noise \in 0 .. Len(Reply(asked)) - 1
    /\ \E b \in Byte \ {At(Reply(asked), noise)} : wire = [Reply(asked) EXCEPT ![noise + 1] = b]

FrameInv ==
    /\ FrameTypeOK
    /\ asked = "none" => noise = -1
    /\ HeadIsReply
    /\ noise # -1 => WireDisturbed
    /\ AnswersTruly
    /\ DisturbedInData

\* The reply under way is a frame.
LEMMA ReplyUnderWay ==
    ASSUME FrameTypeOK, NEW c \in DOMAIN Code
    PROVE  /\ Reply(c) = ReplyTo(c, field, mode) /\ Tells(c) = Told(c, field, mode)
           /\ field \in Fields /\ mode \in Modes
           /\ Reply(c) \in Seq(Byte) /\ Len(Reply(c)) \in Nat
           /\ Len(Reply(c)) >= 6 /\ Len(Reply(c)) <= 256 /\ Reply(c)[1] = Len(Reply(c)) - 1
<1>1. Reply(c) = ReplyTo(c, field, mode) /\ Tells(c) = Told(c, field, mode) /\ field \in Fields /\ mode \in Modes
    BY DEF Reply, Replies, Tells, FrameTypeOK
<1>2. /\ Reply(c) \in Seq(Byte) /\ Len(Reply(c)) >= 6 /\ Len(Reply(c)) <= 256
      /\ Reply(c)[1] = Len(Reply(c)) - 1
    BY <1>1, ReplyIs
<1>3. Len(Reply(c)) \in Nat
    BY <1>2
<1> QED
    BY <1>1, <1>2, <1>3

\* A line that begins with the reply of which only the present one is left.
LEMMA PresentBegins ==
    ASSUME FrameTypeOK, NEW c \in DOMAIN Code
    PROVE  \E tags \in Fields, m \in Modes :
             /\ Present(c).says = Told(Present(c).command, tags, m)
             /\ Begins(Reply(c), ReplyTo(Present(c).command, tags, m))
<1> DEFINE w == Reply(c)
<1>1. w = ReplyTo(c, field, mode) /\ Tells(c) = Told(c, field, mode) /\ field \in Fields /\ mode \in Modes
    BY ReplyUnderWay
<1>2. w \in Seq(Byte)
    BY ReplyUnderWay
<1>3. Present(c).command = c /\ Present(c).says = Tells(c)
    BY DEF Present
<1> HIDE DEF w
<1>4. w = w \o <<>> /\ <<>> \in Seq(Byte)
    BY <1>2
<1>5. Begins(w, w)
    BY <1>4 DEF Begins
<1>6. Begins(w, ReplyTo(c, field, mode))
    BY <1>1, <1>5
<1> QED
    BY <1>1, <1>3, <1>6 DEF w

\* What the agent makes of the bytes that come in when one of them is disturbed.
LEMMA DisturbedOnlyData ==
    ASSUME FrameTypeOK, asked \in DOMAIN Code, WireDisturbed, NEW truths, Tells(asked) \in truths,
           Made(asked, Taken(wire)).ok
    PROVE  /\ asked = "inventory" /\ At(Reply(asked), 3) = 251 => noise = 3 /\ At(Reply(asked), 4) = 0
           /\ Made(asked, Taken(wire)).says \notin truths =>
                noise \in IF asked = "inventory" THEN 4 .. Len(Reply(asked)) - 3 ELSE {4}
<1> DEFINE w == Reply(asked)
<1>1. /\ w = ReplyTo(asked, field, mode) /\ Tells(asked) = Told(asked, field, mode)
      /\ field \in Fields /\ mode \in Modes
      /\ w \in Seq(Byte) /\ Len(w) \in Nat /\ Len(w) >= 6 /\ w[1] = Len(w) - 1
    BY ReplyUnderWay
<1>2. noise \in 0 .. Len(w) - 1 /\ \E b \in Byte \ {At(w, noise)} : wire = [w EXCEPT ![noise + 1] = b]
    BY DEF WireDisturbed
<1> HIDE DEF w
<1>3. PICK b \in Byte \ {At(w, noise)} : wire = [w EXCEPT ![noise + 1] = b]
    BY <1>2
<1>4. Len(w) >= 1
    BY <1>1
<1>5. Spoilt(Taken([w EXCEPT ![noise + 1] = b]), w, noise)
    BY <1>1, <1>2, <1>4, DisturbedIs
<1> DEFINE r == Taken(wire)
<1>6. Spoilt(r, w, noise) /\ Made(asked, r).ok
    BY <1>3, <1>5
<1> HIDE DEF r
<1>7. /\ asked = "inventory" /\ At(w, 3) = 251 => noise = 3 /\ At(w, 4) = 0
      /\ Made(asked, r).says # Told(asked, field, mode) =>
           noise \in IF asked = "inventory" THEN 4 .. Len(w) - 3 ELSE {4}
    BY <1>1, <1>2, <1>6, DisturbedSays
<1>8. Made(asked, r).says \notin truths => Made(asked, r).says # Told(asked, field, mode)
    BY <1>1
<1> QED
    BY <1>7, <1>8 DEF r, w

LEMMA FrameInvInit ==
    FrameInit => FrameInv
<1> SUFFICES ASSUME FrameInit PROVE FrameInv
    OBVIOUS
<1>1. <<>> \in Seq(Byte) /\ -1 \in -1 .. 255
    OBVIOUS
<1>2. FrameTypeOK
    BY <1>1 DEF FrameInit, FrameTypeOK, None
<1> QED
    BY <1>2 DEF FrameInit, FrameInv, HeadIsReply, AnswersTruly, DisturbedInData

\* The two properties look at the answer only.
LEMMA SameAnswer ==
    ASSUME FrameInv, answer' = answer
    PROVE  AnswersTruly' /\ DisturbedInData'
BY DEF FrameInv, AnswersTruly, DisturbedInData, At

LEMMA ChangeKeeps ==
    ASSUME FrameInv, Change PROVE FrameInv'
<1>1. FrameTypeOK'
    BY DEF FrameInv, FrameTypeOK, Change, None
<1>2. AnswersTruly' /\ DisturbedInData'
    BY SameAnswer DEF Change
<1>3. HeadIsReply'
    BY DEF FrameInv, HeadIsReply, Change, None
<1>4. asked' = asked /\ noise' = noise /\ noise = -1
    BY DEF FrameInv, Change
<1> QED
    BY <1>1, <1>2, <1>3, <1>4 DEF FrameInv

LEMMA SendKeeps ==
    ASSUME FrameInv, Send PROVE FrameInv'
<1>1. PICK c \in DOMAIN Code, k \in 0 .. Len(wire) :
             /\ asked' = c
             /\ wire' = SubSeq(wire, k + 1, Len(wire)) \o Answer(c)
             /\ LET rest == SubSeq(wire, k + 1, Len(wire))
                IN  head' = CASE rest = <<>> -> Present(c)
                              [] rest # <<>> /\ k = 0 -> head
                              [] rest # <<>> /\ k # 0 -> None
    BY DEF Send
<1>2. answer' = None /\ UNCHANGED <<field, mode, noise>> /\ FrameTypeOK /\ noise = -1 /\ HeadIsReply
    BY DEF Send, FrameInv
<1> DEFINE rest == SubSeq(wire, k + 1, Len(wire))
           reply == Answer(c)
           v == wire
           n == Len(wire)
<1>3. v \in Seq(Byte) /\ n \in Nat /\ n = Len(v) /\ k \in 0 .. n /\ rest = SubSeq(v, k + 1, n)
    BY <1>2 DEF FrameTypeOK
<1>4. reply \in Seq(Byte) /\ (reply = Reply(c) \/ reply = <<>>)
    BY <1>2, ReplyUnderWay DEF Answer
<1>5. wire' = rest \o reply
    BY <1>1
<1>6. /\ rest = <<>> => head' = Present(c)
      /\ rest # <<>> /\ k = 0 => head' = head
      /\ rest # <<>> /\ k # 0 => head' = None
    BY <1>1
<1> HIDE DEF rest, reply, v, n
<1>7. rest \in Seq(Byte) /\ (k = 0 => rest = v)
    BY <1>3
<1>8. wire' \in Seq(Byte)
    BY <1>4, <1>5, <1>7, ConcatIs
<1>9. head' # None => head'.command \in DOMAIN Code
    <2>1. Present(c).command = c
        BY DEF Present
    <2> QED
        BY <1>2, <1>6, <2>1 DEF FrameTypeOK
<1>10. FrameTypeOK'
    BY <1>1, <1>2, <1>8, <1>9 DEF FrameTypeOK, None
<1>11. AnswersTruly' /\ DisturbedInData'
    BY <1>2 DEF AnswersTruly, DisturbedInData, None
<1>12. ASSUME head' # None, wire' # <<>>
       PROVE  \E tags \in Fields, m \in Modes :
                /\ head'.says = Told(head'.command, tags, m)
                /\ Begins(wire', ReplyTo(head'.command, tags, m))
    <2>1. CASE rest = <<>>
        <3>1. wire' = reply /\ head' = Present(c)
            BY <1>4, <1>5, <1>6, <2>1
        <3>2. wire' = Reply(c)
            BY <1>4, <1>12, <3>1
        <3> QED
            BY <1>2, <3>1, <3>2, PresentBegins
    <2>2. CASE rest # <<>>
        <3>1. k = 0 /\ head' = head /\ rest = wire /\ wire # <<>>
            BY <1>6, <1>7, <1>12, <2>2 DEF v
        <3>2. head # None
            BY <1>12, <3>1
        <3>3. PICK tags \in Fields, m \in Modes :
                 /\ head.says = Told(head.command, tags, m)
                 /\ Begins(wire, ReplyTo(head.command, tags, m))
            BY <1>2, <3>1, <3>2 DEF HeadIsReply
        <3> DEFINE w == ReplyTo(head.command, tags, m)
        <3>4. w \in Seq(Byte)
            <4>1. head.command \in DOMAIN Code
                BY <1>2, <3>2 DEF FrameTypeOK
            <4> QED
                BY <4>1, ReplyIs
        <3>5. PICK x \in Seq(Byte) : wire = w \o x
            BY <3>3 DEF Begins
        <3> HIDE DEF w
        <3>6. wire' = (w \o x) \o reply
            BY <1>5, <3>1, <3>5
        <3>7. (w \o x) \o reply = w \o (x \o reply) /\ x \o reply \in Seq(Byte)
            BY <1>4, <3>4
        <3>8. Begins(wire', w)
            BY <3>6, <3>7 DEF Begins
        <3> QED
            BY <3>1, <3>3, <3>8 DEF w
    <2> QED
        BY <2>1, <2>2
<1>13. HeadIsReply'
    BY <1>2, <1>12 DEF HeadIsReply, None
<1>14. asked' # "none"
    BY <1>1, CodeIs
<1> QED
    BY <1>2, <1>10, <1>11, <1>13, <1>14 DEF FrameInv

LEMMA DisturbKeeps ==
    ASSUME FrameInv, Disturb PROVE FrameInv'
<1>1. PICK i \in 0 .. Len(wire) - 1 : \E b \in Noise \ {At(wire, i)} :
             wire' = [wire EXCEPT ![i + 1] = b] /\ noise' = i
    BY DEF Disturb
<1>2. PICK b \in Noise \ {At(wire, i)} : wire' = [wire EXCEPT ![i + 1] = b] /\ noise' = i
    BY <1>1
<1>3. UNCHANGED <<asked, field, mode, head, answer>> /\ asked # "none" /\ wire = Reply(asked)
    BY DEF Disturb, Whole
<1>4. FrameTypeOK /\ asked \in DOMAIN Code
    BY <1>3 DEF FrameInv, FrameTypeOK
<1>5. Len(wire) \in Nat /\ Len(wire) <= 256 /\ wire \in Seq(Byte)
    BY <1>3, <1>4, ReplyUnderWay
<1>6. b \in Byte \ {At(wire, i)}
    BY FramesAssumption
<1>7. (Reply(asked))' = Reply(asked)
    BY <1>3 DEF Reply
<1>8. FrameTypeOK'
    <2>1. wire' \in Seq(Byte)
        BY <1>2, <1>5, <1>6
    <2>2. noise' \in -1 .. 255
        BY <1>2, <1>5
    <2> QED
        BY <1>3, <1>4, <2>1, <2>2 DEF FrameTypeOK, None
<1>9. AnswersTruly' /\ DisturbedInData'
    BY <1>3, SameAnswer
<1>10. WireDisturbed'
    <2>1. \E e \in Byte \ {At(Reply(asked), noise')} : wire' = [Reply(asked) EXCEPT ![noise' + 1] = e]
        BY <1>2, <1>3, <1>6
    <2>2. noise' \in 0 .. Len(Reply(asked)) - 1
        BY <1>2, <1>3, <1>5
    <2>3. /\ noise' \in 0 .. Len((Reply(asked))') - 1
          /\ \E e \in Byte \ {At((Reply(asked))', noise')} : wire' = [(Reply(asked))' EXCEPT ![noise' + 1] = e]
        BY <1>7, <2>1, <2>2
    <2> QED
        BY <2>3 DEF WireDisturbed, At
<1>11. noise' # -1
    BY <1>2
<1>12. HeadIsReply'
    BY <1>11 DEF HeadIsReply
<1> QED
    BY <1>3, <1>8, <1>9, <1>10, <1>12 DEF FrameInv

LEMMA ReceiveKeeps ==
    ASSUME FrameInv, Receive PROVE FrameInv'
<1> DEFINE truths == {Tells(asked)} \cup IF head.command = asked THEN {head.says} ELSE {}
           a(t) == [command |-> asked, ok |-> Made(asked, SubSeq(wire, 1, t)).ok,
                    says |-> Made(asked, SubSeq(wire, 1, t)).says,
                    whole |-> noise = -1 /\ SubSeq(wire, 1, t) = Reply(asked) /\ SubSeq(wire, t + 1, Len(wire)) = <<>>,
                    inStep |-> head # None,
                    complete |-> SubSeq(wire, 1, t) # <<>> /\ Len(SubSeq(wire, 1, t)) = At(SubSeq(wire, 1, t), 0) + 1,
                    noise |-> noise, sent |-> Reply(asked), truths |-> truths]
<1>1. PICK t \in 0 .. Len(Taken(wire)) :
         /\ noise # -1 => t = Len(Taken(wire))
         /\ answer' = a(t)
         /\ wire' = SubSeq(wire, t + 1, Len(wire))
         /\ LET rest == SubSeq(wire, t + 1, Len(wire))
            IN  head' = CASE t = 0 -> head
                          [] t # 0 /\ rest = Reply(asked) -> Present(asked)
                          [] t # 0 /\ rest # Reply(asked) -> None
    BY DEF Receive
<1>2. asked # "none" /\ asked' = "none" /\ noise' = -1 /\ UNCHANGED <<field, mode>>
    BY DEF Receive
<1>3. asked \in DOMAIN Code /\ FrameTypeOK /\ HeadIsReply /\ (noise # -1 => WireDisturbed)
    BY <1>2 DEF FrameInv, FrameTypeOK
<1> DEFINE got == SubSeq(wire, 1, t)
           rest == SubSeq(wire, t + 1, Len(wire))
<1>4. Tells(asked) \in truths
    OBVIOUS
<1>5. wire' = rest /\ /\ t = 0 => head' = head
                      /\ t # 0 /\ rest = Reply(asked) => head' = Present(asked)
                      /\ t # 0 /\ rest # Reply(asked) => head' = None
    BY <1>1
<1>6. /\ answer' = a(t) /\ a(t).command = asked /\ a(t).ok = Made(asked, got).ok /\ a(t).says = Made(asked, got).says
      /\ (a(t).whole <=> noise = -1 /\ got = Reply(asked) /\ rest = <<>>) /\ (a(t).inStep <=> head # None)
      /\ (a(t).complete <=> got # <<>> /\ Len(got) = At(got, 0) + 1)
      /\ a(t).noise = noise /\ a(t).sent = Reply(asked) /\ a(t).truths = truths
    BY <1>1
<1>7. Len(wire) \in Nat /\ wire \in Seq(Byte)
    BY <1>3 DEF FrameTypeOK
<1>8. rest \in Seq(Byte) /\ (t = 0 => rest = wire)
    <2> DEFINE v == wire
               n == Len(v)
    <2>1. v \in Seq(Byte) /\ n \in Nat /\ t \in Nat
        <3>1. v = <<>> \/ v # <<>>
            OBVIOUS
        <3>2. Taken(wire) \in Seq(Byte)
            BY <1>7, TakenBytes
        <3> QED
            BY <1>7, <3>2
    <2> HIDE DEF v
    <2>2. SubSeq(v, t + 1, Len(v)) \in Seq(Byte) /\ (t = 0 => SubSeq(v, t + 1, Len(v)) = v)
        BY <2>1
    <2> QED
        BY <2>2 DEF v
<1>9. Made(asked, got).ok \in BOOLEAN
    <2>1. CASE asked = "inventory"
        BY <2>1 DEF Made
    <2>2. CASE asked # "inventory"
        BY <2>2 DEF Made, is_valid_command_response
    <2> QED
        BY <2>1, <2>2
<1>10. noise # -1 => got = Taken(wire)
    <2> SUFFICES ASSUME noise # -1 PROVE got = Taken(wire)
        OBVIOUS
    <2>1. t = Len(Taken(wire))
        BY <1>1
    <2> QED
        BY <1>7, <2>1, TakenBytes
<1>11. noise # -1 /\ Made(asked, got).ok =>
         /\ asked = "inventory" /\ At(Reply(asked), 3) = 251 => noise = 3 /\ At(Reply(asked), 4) = 0
         /\ Made(asked, got).says \notin truths =>
              noise \in IF asked = "inventory" THEN 4 .. Len(Reply(asked)) - 3 ELSE {4}
    <2> HIDE DEF got, truths
    <2> QED
        BY <1>3, <1>4, <1>10, DisturbedOnlyData
<1>12. noise = -1 /\ got = Reply(asked) => Made(asked, got).ok
    <2>1. Reply(asked) = ReplyTo(asked, field, mode) /\ field \in Fields /\ mode \in Modes
        BY <1>3, ReplyUnderWay
    <2> QED
        BY <1>3, <2>1, WholeSays
<1>13. ASSUME noise = -1, head # None, Made(asked, got).ok
       PROVE  /\ Made(asked, got).says \in truths
              /\ asked = "inventory" => got # <<>> /\ Len(got) = At(got, 0) + 1
    <2>1. wire # <<>>
        <3> SUFFICES ASSUME wire = <<>> PROVE FALSE
            OBVIOUS
        <3>1. Taken(wire) = <<>>
            BY DEF Taken
        <3>2. t = 0
            BY <3>1
        <3>3. got = <<>>
            BY <3>2
        <3> HIDE DEF got
        <3>4. CASE asked = "inventory"
            BY <1>13, <3>3, <3>4, InventoryMade DEF Framed
        <3>5. CASE asked # "inventory"
            <4>1. Len(got) = 0
                BY <3>3
            <4> QED
                <5>1. Made(asked, got).ok
                    BY <1>13
                <5>2. ~(0 >= 5)
                    OBVIOUS
                <5> QED
                    BY <1>3, <5>1, <5>2, <4>1, <3>5, OtherMade
        <3> QED
            BY <3>4, <3>5
    <2>2. PICK tags \in Fields, m \in Modes :
             /\ head.says = Told(head.command, tags, m)
             /\ Begins(wire, ReplyTo(head.command, tags, m))
        BY <1>3, <1>13, <2>1 DEF HeadIsReply
    <2>3. head.command \in DOMAIN Code
        BY <1>3, <1>13 DEF FrameTypeOK
    <2>4. /\ asked = head.command /\ Made(asked, got).says = Told(head.command, tags, m)
          /\ asked = "inventory" => got # <<>> /\ Len(got) = At(got, 0) + 1
        BY <1>3, <1>13, <2>2, <2>3, UndisturbedTruly
    <2> QED
        BY <2>2, <2>4
<1> HIDE DEF a, got, rest, truths
<1>14. AnswersTruly'
    <2>1. answer'.noise = -1 /\ answer'.inStep =>
            /\ answer'.whole => answer'.ok
            /\ answer'.ok => answer'.says \in answer'.truths
            /\ answer'.ok /\ answer'.command = "inventory" => answer'.complete
        BY <1>6, <1>12, <1>13
    <2> QED
        BY <2>1 DEF AnswersTruly
<1>15. DisturbedInData'
    <2>1. answer'.noise >= 0 => noise # -1
        BY <1>6
    <2>2. answer'.noise >= 0 /\ answer'.ok =>
            /\ answer'.command = "inventory" /\ At(answer'.sent, 3) = 251 =>
                 answer'.noise = 3 /\ At(answer'.sent, 4) = 0
            /\ answer'.says \notin answer'.truths =>
                 answer'.noise \in IF answer'.command = "inventory" THEN 4 .. Len(answer'.sent) - 3 ELSE {4}
        BY <1>6, <1>11, <2>1
    <2> QED
        BY <2>2 DEF DisturbedInData, At
<1>16. FrameTypeOK'
    <2>1. wire' \in Seq(Byte) /\ noise' \in -1 .. 255
        BY <1>2, <1>5, <1>8
    <2>2. answer'.ok \in BOOLEAN /\ answer'.command \in DOMAIN Code
        BY <1>3, <1>6, <1>9
    <2>3. head' # None => head'.command \in DOMAIN Code
        <3>1. Present(asked).command = asked
            BY DEF Present
        <3> QED
            BY <1>3, <1>5, <3>1 DEF FrameTypeOK
    <2> QED
        BY <1>2, <1>3, <2>1, <2>2, <2>3 DEF FrameTypeOK, None
<1>17. HeadIsReply'
    <2>1. ASSUME head' # None, wire' # <<>>
          PROVE  \E tags \in Fields, m \in Modes :
                   /\ head'.says = Told(head'.command, tags, m)
                   /\ Begins(wire', ReplyTo(head'.command, tags, m))
        <3>1. CASE t = 0
            <4>1. wire' = wire /\ head' = head
                BY <1>5, <1>8, <3>1
            <4>2. noise = -1
                <5> SUFFICES ASSUME noise # -1 PROVE FALSE
                    OBVIOUS
                <5>1. WireDisturbed /\ Taken(wire) = <<>>
                    <6>1. Len(Taken(wire)) = 0 /\ Taken(wire) \in Seq(Byte)
                        BY <1>1, <1>7, <3>1, TakenBytes
                    <6> QED
                        BY <1>3, <6>1
                <5> QED
                    BY <1>7, <2>1, <4>1, <5>1, TakenBytes
            <4> QED
                BY <1>3, <2>1, <4>1, <4>2 DEF HeadIsReply
        <3>2. CASE t # 0
            <4>1. rest = Reply(asked) /\ head' = Present(asked) /\ wire' = Reply(asked)
                BY <1>5, <2>1, <3>2
            <4> QED
                BY <1>3, <4>1, PresentBegins
        <3> QED
            BY <3>1, <3>2
    <2> QED
        BY <2>1 DEF HeadIsReply, None
<1> QED
    BY <1>2, <1>14, <1>15, <1>16, <1>17 DEF FrameInv

LEMMA FrameInvNext ==
    FrameInv /\ [FrameNext]_frameVars => FrameInv'
<1> SUFFICES ASSUME FrameInv, [FrameNext]_frameVars PROVE FrameInv'
    OBVIOUS
<1>1. CASE UNCHANGED frameVars
    <2>1. /\ UNCHANGED <<asked, field, mode, wire, head, noise, answer>>
          /\ FrameTypeOK /\ HeadIsReply /\ (asked = "none" => noise = -1) /\ (noise # -1 => WireDisturbed)
        BY <1>1 DEF frameVars, FrameInv
    <2>2. AnswersTruly' /\ DisturbedInData'
        BY <2>1, SameAnswer
    <2>3. FrameTypeOK' /\ HeadIsReply'
        BY <2>1 DEF FrameTypeOK, HeadIsReply, None
    <2>4. noise' # -1 => WireDisturbed'
        BY <2>1 DEF WireDisturbed, Reply, At
    <2> QED
        BY <2>1, <2>2, <2>3, <2>4 DEF FrameInv
<1> QED
    BY <1>1, ChangeKeeps, SendKeeps, DisturbKeeps, ReceiveKeeps DEF FrameNext
-----------------------------------------------------------------------------
(* The theorems *)

\* Bytes stay bytes: what is sent, disturbed, dropped by a reset and left on the line
\* is a sequence of numbers below 256, and positions fit a frame.
THEOREM FramesTyped == FrameSpec => []FrameTypeOK
<1>1. FrameInv => FrameTypeOK
    BY DEF FrameInv
<1> QED
    BY <1>1, FrameInvInit, FrameInvNext, PTL DEF FrameSpec

\* When no byte is disturbed and the first one read is the first of a reply, however
\* late and however many of its bytes come in time, _send_command and the parsers take
\* for an answer only a reply to this kind of command and make of it what the reader
\* said, an inventory only when it is complete; for every list of tags that fits.
THEOREM UndisturbedAnswersTrue == FrameSpec => []AnswersTruly
<1>1. FrameInv => AnswersTruly
    BY DEF FrameInv
<1> QED
    BY <1>1, FrameInvInit, FrameInvNext, PTL DEF FrameSpec

\* One disturbed byte makes the agent read wrong tags only where the reader counts
\* and spells them, and a wrong mode only where it gives it; the reply without tags,
\* whose CRC is compared, is never one with tags.
THEOREM DisturbanceConfined == FrameSpec => []DisturbedInData
<1>1. FrameInv => DisturbedInData
    BY DEF FrameInv
<1> QED
    BY <1>1, FrameInvInit, FrameInvNext, PTL DEF FrameSpec

\* A reader understands every command that make_command builds: its first byte
\* counts the rest, and its CRC is true.
THEOREM RequestsUnderstood == \A c \in DOMAIN Code : Understood(Request(c))
<1> SUFFICES ASSUME NEW c \in DOMAIN Code PROVE Understood(Request(c))
    OBVIOUS
<1> DEFINE s == <<To(c), Code[c]>> \o Params(c)
           w == Request(c)
<1>1. w = WithCRC(WithLength(s))
    BY DEF Request, make_command
<1>2. crc16(WithLength(s)) \in Word
    BY ChecksumAssumption
<1>3. s \in Seq(Byte) /\ Len(s) \in {2, 8} /\ s[1] = To(c)
    <2>1. {0, 1, 5, 33, 53, 54, 255} \subseteq Byte /\ Address \in Byte
        BY FramesAssumption DEF Byte
    <2>2. To(c) \in Byte /\ Code[c] \in Byte /\ To(c) \in {Address, 255}
        BY <2>1, CodeIs DEF To
    <2> DEFINE h == <<To(c), Code[c]>>
               t == Params(c)
    <2>3. h \in Seq(Byte) /\ Len(h) = 2 /\ h[1] = To(c)
        BY <2>2
    <2>4. t \in Seq(Byte) /\ Len(t) \in {0, 6}
        <3>1. <<0, 0, 5, 0, 1, 0>> \in Seq(Byte) /\ Len(<<0, 0, 5, 0, 1, 0>>) = 6
            BY <2>1
        <3> QED
            BY <3>1 DEF Params
    <2> HIDE DEF h, t
    <2>5. h \o t \in Seq(Byte) /\ Len(h \o t) = Len(h) + Len(t) /\ \A i \in 1 .. Len(h) : (h \o t)[i] = h[i]
        BY <2>3, <2>4, ConcatIs
    <2>6. (h \o t)[1] = To(c)
        BY <2>3, <2>5
    <2>7. Len(h \o t) \in {2, 8}
        <3> DEFINE k == Len(h)
                   l == Len(t)
                   n == Len(h \o t)
        <3>1. n = k + l /\ k = 2 /\ l \in {0, 6}
            BY <2>3, <2>4, <2>5
        <3> HIDE DEF k, l, n
        <3>2. n \in {2, 8}
            BY <3>1
        <3> QED
            BY <3>2 DEF n
    <2> QED
        BY <2>5, <2>6, <2>7 DEF h, t
<1> HIDE DEF s, w
<1>4. Len(s) + 2 \in Byte /\ Len(s) \in Nat
    <2> DEFINE n == Len(s)
    <2>1. n \in {2, 8}
        BY <1>3
    <2> HIDE DEF n
    <2>2. n + 2 \in Byte /\ n \in Nat
        BY <2>1 DEF Byte
    <2> QED
        BY <2>2 DEF n
<1>5. Len(w) = Len(s) + 3 /\ w[1] = Len(s) + 2 /\ (\A i \in 1 .. Len(s) : w[i + 1] = s[i]) /\ has_valid_crc(w)
    BY <1>1, <1>2, <1>3, <1>4, FrameIs
<1>6. w[1 + 1] = s[1]
    BY <1>3, <1>5
<1>7. At(w, 0) = Len(w) - 1 /\ At(w, 1) = To(c)
    BY <1>3, <1>4, <1>5, <1>6 DEF At
<1>8. To(c) \in {Address, 255}
    BY DEF To
<1> QED
    BY <1>5, <1>7, <1>8 DEF Understood, w
=============================================================================
