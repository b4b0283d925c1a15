---------------------------- MODULE FramingProofs ----------------------------
(***************************************************************************)
(* Theorems about Framing, for any number of packages, blocks of any size   *)
(* and messages whose size fits in the one byte that is read of it.  A turn *)
(* of either loop drops a prefix of the bytes that are left, and the place  *)
(* in the stream moves on by as many.                                       *)
(***************************************************************************)
EXTENDS Framing, TLAPS

\* Messages whose varint is one byte: those of framing_long are not.
Short == "control" \in Kinds => Sizes["control"] \subseteq 0 .. 127

-----------------------------------------------------------------------------
(* Sequences of bytes.                                                      *)

\* s without its first d bytes.
Drop(s, d) == SubSeq(s, d + 1, Len(s))

\* What is in a sequence of two parts, and where.
LEMMA Joined ==
  ASSUME NEW a \in Seq(Int), NEW b \in Seq(Int)
  PROVE  /\ a \o b \in Seq(Int) /\ Len(a \o b) = Len(a) + Len(b)
         /\ \A i \in 1 .. Len(a) : (a \o b)[i] = a[i]
         /\ \A i \in 1 .. Len(b) : (a \o b)[Len(a) + i] = b[i]
OBVIOUS

\* What is left of a sequence, and where.
LEMMA Dropped ==
  ASSUME NEW s \in Seq(Int), NEW d \in Nat, d <= Len(s)
  PROVE  /\ Drop(s, d) \in Seq(Int) /\ Len(Drop(s, d)) = Len(s) - d
         /\ \A i \in 1 .. Len(s) - d : Drop(s, d)[i] = s[d + i]
BY DEF Drop

\* The first n bytes of s.
First(s, n) == SubSeq(s, 1, n)

\* x is the first n bytes of s.
Begins(x, s, n) == x \in Seq(Int) /\ Len(x) = n /\ \A i \in 1 .. n : x[i] = s[i]

\* That is what SubSeq gives.
LEMMA FirstIs ==
  ASSUME NEW s \in Seq(Int), NEW n \in Nat, n <= Len(s)
  PROVE  Begins(First(s, n), s, n)
<1>1. SubSeq(s, 1, n) \in Seq(Int)
  OBVIOUS
<1>2. Len(SubSeq(s, 1, n)) = n
  OBVIOUS
<1>3. ASSUME NEW i \in 1 .. n PROVE SubSeq(s, 1, n)[i] = s[i]
  OBVIOUS
<1> QED BY <1>1, <1>2, <1>3, Zenon DEF First, Begins

\* A sequence without elements.
LEMMA Empty == ASSUME NEW s \in Seq(Int), Len(s) = 0 PROVE s = <<>>
OBVIOUS

\* Sequences of the same length and elements.
LEMMA SameSeq ==
  ASSUME NEW s \in Seq(Int), NEW t \in Seq(Int), Len(s) = Len(t), \A i \in 1 .. Len(s) : s[i] = t[i]
  PROVE  s = t
OBVIOUS

\* The same for sequences of packages.
LEMMA SameSeqs ==
  ASSUME NEW s \in Seq(Seq(Int)), NEW t \in Seq(Seq(Int)), Len(s) = Len(t),
         \A i \in 1 .. Len(s) : s[i] = t[i]
  PROVE  s = t
<1>1. PICK n \in Nat : n = Len(s) /\ n = Len(t)
  OBVIOUS
<1>2. s = [i \in 1 .. n |-> s[i]] /\ t = [i \in 1 .. n |-> t[i]]
  BY <1>1
<1>3. [i \in 1 .. n |-> s[i]] = [i \in 1 .. n |-> t[i]]
  BY <1>1, Zenon
<1> QED BY <1>2, <1>3, Zenon

\* A name for \o, whose terms the SMT solver takes apart.
Join(a, b) == a \o b

\* It does not matter which two of three parts are joined first.
LEMMA JoinedTwice ==
  ASSUME NEW a \in Seq(Int), NEW b \in Seq(Int), NEW c \in Seq(Int)
  PROVE  Join(Join(a, b), c) = Join(a, Join(b, c))
<1>1. PICK l \in Nat, m \in Nat, n \in Nat : l = Len(a) /\ m = Len(b) /\ n = Len(c)
  OBVIOUS
<1>2. PICK ab, bc, left, right : ab = a \o b /\ bc = b \o c /\ left = ab \o c /\ right = a \o bc
  OBVIOUS
<1>3. /\ ab \in Seq(Int) /\ Len(ab) = l + m
      /\ \A i \in 1 .. l : ab[i] = a[i]
      /\ \A i \in 1 .. m : ab[l + i] = b[i]
  BY <1>1, <1>2, Joined
<1>4. /\ bc \in Seq(Int) /\ Len(bc) = m + n
      /\ \A i \in 1 .. m : bc[i] = b[i]
      /\ \A i \in 1 .. n : bc[m + i] = c[i]
  BY <1>1, <1>2, Joined
<1>5. /\ left \in Seq(Int) /\ Len(left) = l + m + n
      /\ \A i \in 1 .. l + m : left[i] = ab[i]
      /\ \A i \in 1 .. n : left[l + m + i] = c[i]
  <2>1. /\ left \in Seq(Int) /\ Len(left) = Len(ab) + Len(c)
        /\ \A i \in 1 .. Len(ab) : left[i] = ab[i]
        /\ \A i \in 1 .. Len(c) : left[Len(ab) + i] = c[i]
    <3>1. /\ ab \o c \in Seq(Int) /\ Len(ab \o c) = Len(ab) + Len(c)
          /\ \A i \in 1 .. Len(ab) : (ab \o c)[i] = ab[i]
          /\ \A i \in 1 .. Len(c) : (ab \o c)[Len(ab) + i] = c[i]
      BY <1>3, Joined, Zenon
    <3> QED BY <1>2, <3>1, Zenon
  <2> QED BY <1>1, <1>3, <2>1
<1>6. /\ right \in Seq(Int) /\ Len(right) = l + (m + n)
      /\ \A i \in 1 .. l : right[i] = a[i]
      /\ \A i \in 1 .. m + n : right[l + i] = bc[i]
  <2>1. /\ right \in Seq(Int) /\ Len(right) = Len(a) + Len(bc)
        /\ \A i \in 1 .. Len(a) : right[i] = a[i]
        /\ \A i \in 1 .. Len(bc) : right[Len(a) + i] = bc[i]
    <3>1. /\ a \o bc \in Seq(Int) /\ Len(a \o bc) = Len(a) + Len(bc)
          /\ \A i \in 1 .. Len(a) : (a \o bc)[i] = a[i]
          /\ \A i \in 1 .. Len(bc) : (a \o bc)[Len(a) + i] = bc[i]
      BY <1>4, Joined, Zenon
    <3> QED BY <1>2, <3>1, Zenon
  <2> QED BY <1>1, <1>4, <2>1
<1>7. ASSUME NEW i \in 1 .. l + m + n PROVE left[i] = right[i]
  <2>1. CASE i <= l
    <3>1. left[i] = ab[i] /\ ab[i] = a[i] /\ right[i] = a[i]
      BY <1>3, <1>5, <1>6, <2>1
    <3> QED BY <3>1, Zenon
  <2>2. CASE l < i /\ i <= l + m
    <3>1. PICK j \in 1 .. m : i = l + j
      <4>1. i - l \in 1 .. m /\ i = l + (i - l)
        BY <2>2
      <4> QED BY <4>1
    <3>2. left[i] = ab[i]
      BY <1>5, <2>2
    <3>3. ab[l + j] = b[j] /\ right[l + j] = bc[j] /\ bc[j] = b[j]
      <4>1. j \in 1 .. m + n
        OBVIOUS
      <4> QED BY <1>3, <1>4, <1>6, <4>1, Zenon
    <3> QED BY <3>1, <3>2, <3>3, Zenon
  <2>3. CASE l + m < i
    <3>1. PICK j \in 1 .. n : i = l + m + j
      <4>1. i - (l + m) \in 1 .. n /\ i = l + m + (i - (l + m))
        BY <2>3
      <4> QED BY <4>1
    <3>2. left[l + m + j] = c[j] /\ bc[m + j] = c[j]
      BY <1>4, <1>5
    <3>3. right[l + (m + j)] = bc[m + j] /\ l + (m + j) = l + m + j
      BY <1>6
    <3> QED BY <3>1, <3>2, <3>3, Zenon
  <2>4. i <= l \/ (l < i /\ i <= l + m) \/ l + m < i
    OBVIOUS
  <2> QED BY <2>1, <2>2, <2>3, <2>4, Zenon
<1>8. left = right
  <2>1. Len(left) = l + m + n /\ Len(left) = Len(right)
    BY <1>5, <1>6
  <2> QED BY <1>5, <1>6, <1>7, <2>1, SameSeq
<1> QED BY <1>2, <1>8, Zenon DEF Join

\* Joining nothing.
LEMMA JoinedNone == ASSUME NEW s \in Seq(Int) PROVE s \o <<>> = s /\ <<>> \o s = s /\ <<>> \in Seq(Int)
<1>1. <<>> \in Seq(Int) /\ Len(<<>>) = 0
  OBVIOUS
<1>2. PICK e \in Seq(Int) : e = <<>> /\ Len(e) = 0
  BY <1>1
<1>3. s \o e = s
  <2>1. Len(s \o e) = Len(s) /\ s \o e \in Seq(Int) /\ \A i \in 1 .. Len(s) : (s \o e)[i] = s[i]
    BY <1>2, Joined
  <2> QED BY <2>1, SameSeq
<1>4. e \o s = s
  <2>1. PICK t : t = e \o s
    OBVIOUS
  <2>2. Len(t) = Len(s) /\ t \in Seq(Int)
    BY <1>2, <2>1, Joined
  <2>3. ASSUME NEW i \in 1 .. Len(s) PROVE t[i] = s[i]
    <3>1. t[Len(e) + i] = s[i]
      BY <2>1, Joined
    <3>2. Len(e) + i = i
      BY <1>2
    <3> QED BY <3>1, <3>2, Zenon
  <2> QED BY <2>1, <2>2, <2>3, SameSeq
<1> QED BY <1>1, <1>2, <1>3, <1>4, Zenon

\* What is dropped of the first part is dropped of the whole.
LEMMA DropJoined ==
  ASSUME NEW a \in Seq(Int), NEW b \in Seq(Int), NEW d \in Nat, d <= Len(a)
  PROVE  Drop(a, d) \o b = Drop(a \o b, d)
<1>1. PICK ab : ab = a \o b
  OBVIOUS
<1>2. PICK da : da = Drop(a, d)
  OBVIOUS
<1>3. PICK m \in Nat, n \in Nat : m = Len(a) /\ n = Len(b)
  OBVIOUS
<1>4. /\ ab \in Seq(Int) /\ Len(ab) = m + n
      /\ \A i \in 1 .. m : ab[i] = a[i]
      /\ \A i \in 1 .. n : ab[m + i] = b[i]
  BY <1>1, <1>3, Joined
<1>5. d <= m /\ d <= m + n
  BY <1>3
<1>6. /\ da \in Seq(Int) /\ Len(da) = m - d
      /\ \A i \in 1 .. m - d : da[i] = a[d + i]
  BY <1>2, <1>3, Dropped
<1>7. /\ Drop(ab, d) \in Seq(Int) /\ Len(Drop(ab, d)) = m + n - d
      /\ \A i \in 1 .. m + n - d : Drop(ab, d)[i] = ab[d + i]
  <2>1. d <= Len(ab)
    BY <1>4, <1>5
  <2>2. /\ Drop(ab, d) \in Seq(Int) /\ Len(Drop(ab, d)) = Len(ab) - d
        /\ \A i \in 1 .. Len(ab) - d : Drop(ab, d)[i] = ab[d + i]
    BY <1>4, <2>1, Dropped
  <2> QED BY <1>4, <2>2
<1>8. /\ da \o b \in Seq(Int) /\ Len(da \o b) = m - d + n
      /\ \A i \in 1 .. m - d : (da \o b)[i] = da[i]
      /\ \A i \in 1 .. n : (da \o b)[m - d + i] = b[i]
  <2>1. /\ da \o b \in Seq(Int) /\ Len(da \o b) = Len(da) + Len(b)
        /\ \A i \in 1 .. Len(da) : (da \o b)[i] = da[i]
        /\ \A i \in 1 .. Len(b) : (da \o b)[Len(da) + i] = b[i]
    BY <1>6, Joined
  <2> QED BY <1>3, <1>6, <2>1
<1>9. ASSUME NEW i \in 1 .. m + n - d PROVE (da \o b)[i] = Drop(ab, d)[i]
  <2>1. CASE i <= m - d
    BY <1>3, <1>4, <1>5, <1>6, <1>7, <1>8, <2>1
  <2>2. CASE i > m - d
    <3>1. PICK j \in 1 .. n : i = m - d + j
      <4>1. i - (m - d) \in 1 .. n /\ i = m - d + (i - (m - d))
        BY <1>3, <1>5, <2>2
      <4> QED BY <4>1
    <3>2. d + i = m + j
      BY <1>3, <1>5, <3>1
    <3>3. Drop(ab, d)[i] = ab[m + j]
      BY <1>7, <3>2
    <3>4. (da \o b)[m - d + j] = b[j] /\ ab[m + j] = b[j]
      BY <1>4, <1>8, <3>1
    <3>5. (da \o b)[i] = b[j]
      BY <3>1, <3>4
    <3> QED BY <3>3, <3>4, <3>5
  <2>3. i <= m - d \/ i > m - d
    BY <1>3, <1>5
  <2> QED BY <2>1, <2>2, <2>3, Zenon
<1>10. m - d + n = m + n - d
  BY <1>3, <1>5
<1>11. da \o b = Drop(ab, d)
  BY <1>7, <1>8, <1>9, <1>10, SameSeq
<1> QED BY <1>1, <1>2, <1>11

\* Dropping twice is dropping the sum.
LEMMA DropTwice ==
  ASSUME NEW s \in Seq(Int), NEW d \in Nat, NEW e \in Nat, d + e <= Len(s)
  PROVE  Drop(Drop(s, d), e) = Drop(s, d + e)
<1>1. PICK n \in Nat : n = Len(s)
  OBVIOUS
<1>2. d <= n /\ e <= n - d /\ d + e \in Nat /\ d + e <= n
  BY <1>1
<1>3. PICK ds : ds = Drop(s, d)
  OBVIOUS
<1>4. ds \in Seq(Int) /\ Len(ds) = n - d /\ \A i \in 1 .. n - d : ds[i] = s[d + i]
  BY <1>1, <1>2, <1>3, Dropped
<1>5. /\ Drop(ds, e) \in Seq(Int) /\ Len(Drop(ds, e)) = n - d - e
      /\ \A i \in 1 .. n - d - e : Drop(ds, e)[i] = ds[e + i]
  <2>1. PICK l : l = Len(ds)
    OBVIOUS
  <2>2. l \in Nat /\ e <= l /\ l = n - d /\ l - e = n - d - e
    BY <1>1, <1>2, <1>4, <2>1
  <2>3. /\ Drop(ds, e) \in Seq(Int) /\ Len(Drop(ds, e)) = l - e
        /\ \A i \in 1 .. l - e : Drop(ds, e)[i] = ds[e + i]
    <3>1. ds \in Seq(Int) /\ e <= Len(ds)
      BY <1>4, <2>1, <2>2, Zenon
    <3>2. /\ Drop(ds, e) \in Seq(Int) /\ Len(Drop(ds, e)) = Len(ds) - e
          /\ \A i \in 1 .. Len(ds) - e : Drop(ds, e)[i] = ds[e + i]
      BY <3>1, Dropped, Zenon
    <3> QED BY <2>1, <3>2, Zenon
  <2> QED BY <2>2, <2>3, Zenon
<1>6. /\ Drop(s, d + e) \in Seq(Int) /\ Len(Drop(s, d + e)) = n - (d + e)
      /\ \A i \in 1 .. n - (d + e) : Drop(s, d + e)[i] = s[d + e + i]
  BY <1>1, <1>2, Dropped
<1>7. ASSUME NEW i \in 1 .. n - d - e PROVE Drop(ds, e)[i] = Drop(s, d + e)[i]
  <2>1. e + i \in 1 .. n - d /\ d + (e + i) = d + e + i /\ i \in 1 .. n - (d + e)
    BY <1>2
  <2> QED BY <1>4, <1>5, <1>6, <2>1
<1>8. n - d - e = n - (d + e)
  BY <1>2
<1>9. Drop(ds, e) = Drop(s, d + e)
  BY <1>5, <1>6, <1>7, <1>8, SameSeq
<1> QED BY <1>3, <1>9

\* Dropping nothing.
LEMMA DropNone == ASSUME NEW s \in Seq(Int) PROVE Drop(s, 0) = s
BY DEF Drop

\* Cutting a sequence anywhere loses nothing.
LEMMA CutJoined ==
  ASSUME NEW s \in Seq(Int), NEW n \in Nat, n <= Len(s)
  PROVE  /\ SubSeq(s, 1, n) \in Seq(Int) /\ SubSeq(s, n + 1, Len(s)) \in Seq(Int)
         /\ SubSeq(s, 1, n) \o SubSeq(s, n + 1, Len(s)) = s
<1>1. PICK m \in Nat : m = Len(s)
  OBVIOUS
<1>2. PICK a, b : a = SubSeq(s, 1, n) /\ b = Drop(s, n)
  OBVIOUS
<1>3. n <= m
  BY <1>1
<1>4. a \in Seq(Int) /\ Len(a) = n /\ \A i \in 1 .. n : a[i] = s[i]
  BY <1>1, <1>2, <1>3
<1>5. b \in Seq(Int) /\ Len(b) = m - n /\ \A i \in 1 .. m - n : b[i] = s[n + i]
  BY <1>1, <1>2, Dropped
<1>6. /\ a \o b \in Seq(Int) /\ Len(a \o b) = n + (m - n)
      /\ \A i \in 1 .. n : (a \o b)[i] = a[i]
      /\ \A i \in 1 .. m - n : (a \o b)[n + i] = b[i]
  <2>1. /\ a \o b \in Seq(Int) /\ Len(a \o b) = Len(a) + Len(b)
        /\ \A i \in 1 .. Len(a) : (a \o b)[i] = a[i]
        /\ \A i \in 1 .. Len(b) : (a \o b)[Len(a) + i] = b[i]
    BY <1>4, <1>5, Joined
  <2> QED BY <1>4, <1>5, <2>1
<1>7. ASSUME NEW i \in 1 .. m PROVE (a \o b)[i] = s[i]
  <2>1. CASE i <= n
    BY <1>4, <1>6, <2>1
  <2>2. CASE i > n
    <3>1. PICK j \in 1 .. m - n : i = n + j
      <4>1. i - n \in 1 .. m - n /\ i = n + (i - n)
        BY <2>2
      <4> QED BY <4>1
    <3>2. (a \o b)[n + j] = b[j] /\ b[j] = s[n + j]
      BY <1>5, <1>6, <3>1
    <3> QED BY <3>1, <3>2
  <2>3. i <= n \/ i > n
    OBVIOUS
  <2> QED BY <2>1, <2>2, <2>3, Zenon
<1>8. a \o b = s
  <2>1. Len(a \o b) = Len(s) /\ Len(s) = m
    BY <1>1, <1>6
  <2> QED BY <1>6, <1>7, <2>1, SameSeq
<1> QED BY <1>2, <1>4, <1>5, <1>8 DEF Drop

-----------------------------------------------------------------------------
(* Packages.                                                                *)

\* How long a header is.
HeadSize == IF kind = "control" THEN 1 ELSE HeaderSize

\* p is a header that says the size of the body in each of its bytes, and a
\* body.
IsPackage(p, k, size, head) ==
  /\ size \in Nat /\ head \in Nat \ {0}
  /\ kind = "control" => size \in 0 .. 127
  /\ p \in Seq(Int) /\ Len(p) = head + size
  /\ \A i \in 1 .. head : p[i] = size
  /\ \A i \in 1 .. size : p[head + i] = -k

\* What either side writes is such a package, if the varint is one byte.
LEMMA PackageIs ==
  ASSUME Short, kind \in Kinds, NEW size \in Sizes[kind], NEW k \in Nat
  PROVE  IsPackage(Package(k, size), k, size, HeadSize)
<1>1. size \in Nat /\ HeadSize \in Nat \ {0} /\ (kind = "control" => size \in 0 .. 127)
  BY FramingAssumption DEF Short, HeadSize
<1> DEFINE head == IF kind = "control" THEN writeRawVarint32(size) ELSE DataHeader(size)
<1>2. head = [i \in 1 .. HeadSize |-> size]
  <2>1. CASE kind = "control"
    <3>1. computeRawVarint32Size(size) = 1
      BY <1>1, <2>1 DEF computeRawVarint32Size
    <3>2. (size \div 128^(1 - 1)) % 128 = size
      BY <1>1, <2>1
    <3>3. writeRawVarint32(size) =
            [i \in 1 .. 1 |-> ((size \div 128^(i - 1)) % 128) + (IF i < 1 THEN 128 ELSE 0)]
      BY <3>1, ZenonT(60) DEF writeRawVarint32
    <3>4. \A i \in 1 .. 1 : i = 1 /\ ((size \div 128^(i - 1)) % 128) + (IF i < 1 THEN 128 ELSE 0) = size
      BY <1>1, <3>2
    <3>5. writeRawVarint32(size) = [i \in 1 .. 1 |-> size]
      BY <3>3, <3>4
    <3> QED BY <2>1, <3>5 DEF HeadSize
  <2>2. CASE kind # "control"
    BY <2>2 DEF HeadSize, DataHeader
  <2> QED BY <2>1, <2>2
<1>3. head \in Seq(Int) /\ Len(head) = HeadSize /\ \A i \in 1 .. HeadSize : head[i] = size
  BY <1>1, <1>2
<1>4. Body(k, size) \in Seq(Int) /\ Len(Body(k, size)) = size /\ \A i \in 1 .. size : Body(k, size)[i] = -k
  BY <1>1 DEF Body
<1>5. Package(k, size) = head \o Body(k, size)
  BY DEF Package
<1> HIDE DEF head
<1>6. /\ Package(k, size) \in Seq(Int) /\ Len(Package(k, size)) = HeadSize + size
      /\ \A i \in 1 .. HeadSize : Package(k, size)[i] = size
      /\ \A i \in 1 .. size : Package(k, size)[HeadSize + i] = -k
  <2> HIDE DEF HeadSize
  <2>1. PICK body \in Seq(Int) : body = Body(k, size)
    BY <1>4
  <2> QED BY <1>1, <1>3, <1>4, <1>5, <2>1, Joined
<1> QED BY <1>1, <1>6 DEF IsPackage

\* All that was sent.
LEMMA PackagesAre ==
  ASSUME Short, kind \in Kinds, sent \in Seq(Sizes[kind])
  PROVE  /\ Packages \in Seq(Seq(Int)) /\ Len(Packages) = Len(sent)
         /\ \A k \in 1 .. Len(sent) : sent[k] \in Sizes[kind] /\ Packages[k] = Package(k, sent[k])
<1>1. \A k \in 1 .. Len(sent) : sent[k] \in Sizes[kind] /\ k \in Nat
  OBVIOUS
<1>2. \A k \in 1 .. Len(sent) : Package(k, sent[k]) \in Seq(Int)
  BY <1>1, PackageIs DEF IsPackage
<1>3. Packages = [k \in 1 .. Len(sent) |-> Package(k, sent[k])]
  BY DEF Packages
<1> QED BY <1>1, <1>2, <1>3

-----------------------------------------------------------------------------
(* Places in the stream.                                                    *)

\* Where a package starts and where it ends.
LEMMA PlaceOf ==
  ASSUME NEW packages \in Seq(Seq(Int)), NEW places \in Seq(Nat), Consecutive(packages, places)
  PROVE  /\ Len(packages) \in Nat /\ Len(places) = Len(packages) + 1
         /\ places[1] = 0 /\ places[Len(places)] \in Nat
         /\ \A k \in 1 .. Len(packages) :
              /\ k \in Nat /\ k \in 1 .. Len(places) /\ k + 1 \in 1 .. Len(places)
              /\ places[k] \in Nat /\ packages[k] \in Seq(Int) /\ Len(packages[k]) \in Nat
              /\ places[k + 1] = places[k] + Len(packages[k])
              /\ places[k] + Len(packages[k]) <= places[Len(places)]
<1>1. PICK n \in Nat, m \in Nat : n = Len(packages) /\ m = Len(places)
  OBVIOUS
<1>2. Len(places) = Len(packages) + 1 /\ places[1] = 0
  BY Zenon DEF Consecutive
<1>3. m = n + 1
  BY <1>1, <1>2, Zenon
<1>4. /\ \A k \in 1 .. m : places[k] \in Nat
      /\ \A k \in 1 .. n : packages[k] \in Seq(Int)
  BY <1>1
<1>5. m \in 1 .. m
  BY <1>3
<1>6. ASSUME NEW k \in 1 .. n
      PROVE  /\ k \in Nat /\ k \in 1 .. m /\ k + 1 \in 1 .. m
             /\ Len(packages[k]) \in Nat
             /\ places[k + 1] = places[k] + Len(packages[k])
             /\ places[k] + Len(packages[k]) <= places[m]
  <2>1. k \in Nat /\ k \in 1 .. m /\ k + 1 \in 1 .. m
    BY <1>3
  <2>2. packages[k] \in Seq(Int)
    BY <1>4
  <2>3. Len(packages[k]) \in Nat
    BY <2>2
  <2>4. places[k + 1] = places[k] + Len(packages[k])
    BY <1>1, Zenon DEF Consecutive
  <2>5. places[k + 1] <= places[m]
    BY <1>1, <2>1, Zenon DEF Consecutive
  <2> QED BY <2>1, <2>3, <2>4, <2>5, Zenon
<1> QED BY <1>1, <1>2, <1>4, <1>5, <1>6, Zenon

\* Dropping bytes moves the place on.
LEMMA PlacedDrop ==
  ASSUME NEW packages \in Seq(Seq(Int)), NEW places \in Seq(Nat), Consecutive(packages, places),
         NEW rest \in Seq(Int), NEW taken \in Nat, Placed(packages, places, rest, taken),
         NEW d \in Nat, d <= Len(rest)
  PROVE  Placed(packages, places, Drop(rest, d), taken + d)
<1>1. PICK n \in Nat, last \in Nat : n = Len(rest) /\ last = places[Len(places)]
  <2>1. Len(rest) \in Nat
    OBVIOUS
  <2> QED BY <2>1, PlaceOf, Zenon
<1>2. taken + n = last /\ d <= n
  BY <1>1, Zenon DEF Placed
<1>3. PICK left : left = Drop(rest, d)
  OBVIOUS
<1>4. left \in Seq(Int) /\ Len(left) = n - d /\ \A j \in 1 .. n - d : left[j] = rest[d + j]
  BY <1>1, <1>3, Dropped
<1>5. ASSUME NEW k \in 1 .. Len(packages), NEW i \in Nat, i \in 1 .. Len(packages[k]),
             places[k] + i > taken + d
      PROVE  left[places[k] + i - (taken + d)] = packages[k][i]
  <2>1. PICK at \in Nat, len \in Nat : at = places[k] /\ len = Len(packages[k])
    BY PlaceOf, Zenon
  <2>2. i \in 1 .. len
    BY <1>5, <2>1, Zenon
  <2>4. at + len <= last
    BY <1>1, <2>1, PlaceOf, Zenon
  <2>5. PICK j \in Nat : j = at + i /\ j <= last /\ j > taken + d
    <3>1. places[k] + i > taken + d
      BY <1>5
    <3>2. i \in Nat
      BY <2>2
    <3>3. i <= len
      BY <2>2
    <3>4. at + i > taken + d
      BY <2>1, <3>1
    <3>5. at + i <= last
      BY <2>4, <3>2, <3>3
    <3>6. at + i \in Nat
      BY <3>2
    <3> QED BY <3>4, <3>5, <3>6
  <2>6. j - (taken + d) \in 1 .. n - d /\ d + (j - (taken + d)) = j - taken /\ j > taken
    BY <1>2, <2>5
  <2>7. rest[j - taken] = packages[k][i]
    <3>1. places[k] + i > taken => rest[places[k] + i - taken] = packages[k][i]
      BY <1>5, Zenon DEF Placed
    <3>2. places[k] + i > taken /\ places[k] + i - taken = j - taken
      <4>1. at + i > taken /\ at + i - taken = j - taken
        BY <2>5, <2>6
      <4> QED BY <2>1, <4>1, Zenon
    <3>3. rest[places[k] + i - taken] = rest[j - taken]
      BY <3>2, Zenon
    <3> QED BY <3>1, <3>2, <3>3, Zenon
  <2>8. left[j - (taken + d)] = rest[j - taken]
    BY <1>4, <2>6
  <2>9. places[k] + i - (taken + d) = j - (taken + d)
    <3>1. at + i - (taken + d) = j - (taken + d)
      BY <2>5
    <3> QED BY <2>1, <3>1, Zenon
  <2>10. left[places[k] + i - (taken + d)] = left[j - (taken + d)]
    BY <2>9, Zenon
  <2> QED BY <2>7, <2>8, <2>10, Zenon
<1>6. taken + d + Len(left) = last
  BY <1>2, <1>4
<1>7. \A k \in 1 .. Len(packages) : \A i \in 1 .. Len(packages[k]) :
        places[k] + i > taken + d => left[places[k] + i - (taken + d)] = packages[k][i]
  <2> SUFFICES ASSUME NEW k \in 1 .. Len(packages), NEW i \in 1 .. Len(packages[k]),
                      places[k] + i > taken + d
               PROVE  left[places[k] + i - (taken + d)] = packages[k][i]
    BY Zenon
  <2>1. i \in Nat
    <3>1. Len(packages[k]) \in Nat
      OBVIOUS
    <3> QED BY <3>1
  <2> QED BY <1>5, <2>1, Zenon
<1> QED BY <1>1, <1>3, <1>6, <1>7, Zenon DEF Placed

\* A package is sent.
LEMMA PlacedAppend ==
  ASSUME NEW packages \in Seq(Seq(Int)), NEW places \in Seq(Nat), Consecutive(packages, places),
         NEW rest \in Seq(Int), NEW taken \in Nat, Placed(packages, places, rest, taken),
         NEW new \in Seq(Int)
  PROVE  /\ Consecutive(Append(packages, new), Append(places, places[Len(places)] + Len(new)))
         /\ Placed(Append(packages, new), Append(places, places[Len(places)] + Len(new)), rest \o new, taken)
<1>1. PICK n \in Nat, last \in Nat, len \in Nat :
        n = Len(packages) /\ last = places[Len(places)] /\ len = Len(new)
  <2>1. Len(new) \in Nat
    OBVIOUS
  <2> QED BY <2>1, PlaceOf, Zenon
<1>2. PICK all, at, left : all = Append(packages, new) /\ at = Append(places, last + len) /\ left = rest \o new
  OBVIOUS
<1>3. /\ all \in Seq(Seq(Int)) /\ Len(all) = n + 1 /\ all[n + 1] = new
      /\ \A k \in 1 .. n : all[k] = packages[k]
  BY <1>1, <1>2
<1>4. /\ at \in Seq(Nat) /\ Len(at) = n + 2 /\ at[n + 2] = last + len /\ at[n + 1] = last
      /\ \A k \in 1 .. n + 1 : at[k] = places[k] /\ at[k] \in Nat
  <2>1. Len(places) = n + 1
    BY <1>1, PlaceOf, Zenon
  <2>2. PICK e \in Nat : e = last + len
    OBVIOUS
  <2>3. at = Append(places, e)
    BY <1>2, <2>2, Zenon
  <2>4. /\ at \in Seq(Nat) /\ Len(at) = n + 1 + 1 /\ at[n + 1 + 1] = e
        /\ \A k \in 1 .. n + 1 : at[k] = places[k] /\ at[k] \in Nat
    BY <2>1, <2>3
  <2>5. n + 1 + 1 = n + 2 /\ n + 1 \in 1 .. n + 1
    OBVIOUS
  <2> QED BY <1>1, <2>1, <2>2, <2>4, <2>5, Zenon
<1>5. PICK m \in Nat : m = Len(rest)
  OBVIOUS
<1>6. /\ left \in Seq(Int) /\ Len(left) = m + len
      /\ \A i \in 1 .. m : left[i] = rest[i]
      /\ \A i \in 1 .. len : left[m + i] = new[i]
  BY <1>1, <1>2, <1>5, Joined
<1>7. taken + m = last
  BY <1>1, <1>5 DEF Placed
<1>8. Consecutive(all, at)
  <2>1. Len(at) = Len(all) + 1 /\ at[1] = 0
    <3>1. Len(at) = n + 2 /\ Len(all) = n + 1 /\ n + 2 = n + 1 + 1 /\ 1 \in 1 .. n + 1
      BY <1>1, <1>3, <1>4
    <3>2. at[1] = places[1] /\ places[1] = 0
      BY <1>4, <3>1, Zenon DEF Consecutive
    <3> QED BY <3>1, <3>2, Zenon
  <2>2. ASSUME NEW k \in 1 .. Len(all) PROVE at[k + 1] = at[k] + Len(all[k])
    <3>1. CASE k \in 1 .. n
      <4>1. k \in 1 .. n + 1 /\ k + 1 \in 1 .. n + 1
        BY <3>1
      <4>2. places[k + 1] = places[k] + Len(packages[k])
        BY <1>1, <3>1, PlaceOf, Zenon
      <4> QED BY <1>3, <1>4, <3>1, <4>1, <4>2, Zenon
    <3>2. CASE k = n + 1
      BY <1>1, <1>3, <1>4, <3>2
    <3> QED BY <1>3, <3>1, <3>2
  <2>3. ASSUME NEW k \in 1 .. Len(at) PROVE at[k] <= at[Len(at)]
    <3>1. CASE k \in 1 .. n + 1
      <4>1. k \in 1 .. Len(places)
        BY <1>1, <3>1, PlaceOf, Zenon
      <4>2. places[k] <= last
        BY <1>1, <4>1, Zenon DEF Consecutive
      <4>3. at[k] = places[k] /\ at[k] \in Nat
        BY <1>4, <3>1, Zenon
      <4>4. at[k] <= last + len
        <5>1. PICK p \in Nat : p = at[k]
          BY <4>3, Zenon
        <5>2. p <= last
          BY <4>2, <4>3, <5>1, Zenon
        <5>3. p <= last + len
          BY <5>2
        <5> QED BY <5>1, <5>3, Zenon
      <4> QED BY <1>4, <4>4, Zenon
    <3>2. CASE k = n + 2
      BY <1>4, <3>2
    <3> QED BY <1>4, <3>1, <3>2
  <2> QED BY <2>1, <2>2, <2>3 DEF Consecutive
<1>9. Placed(all, at, left, taken)
  <2>1. taken + Len(left) = at[Len(at)]
    <3>1. taken + (m + len) = last + len
      <4>1. taken \in Nat /\ m \in Nat /\ last \in Nat /\ len \in Nat
        BY <1>1, <1>5, Zenon
      <4> QED BY <1>7, <4>1
    <3>2. Len(left) = m + len /\ at[Len(at)] = last + len
      BY <1>4, <1>6, Zenon
    <3> QED BY <3>1, <3>2, Zenon
  <2>2. ASSUME NEW k \in 1 .. Len(all), NEW i \in 1 .. Len(all[k]), at[k] + i > taken
        PROVE  left[at[k] + i - taken] = all[k][i]
    <3>1. CASE k \in 1 .. n
      <4>1. PICK p \in Nat, l \in Nat : p = places[k] /\ l = Len(packages[k])
        BY <1>1, <3>1, PlaceOf, Zenon
      <4>2. all[k] = packages[k] /\ at[k] = p /\ i \in 1 .. l
        <5>1. k \in 1 .. n + 1
          BY <3>1
        <5> QED BY <1>3, <1>4, <3>1, <4>1, <5>1, Zenon
      <4>3. p + l <= last
        BY <1>1, <3>1, <4>1, PlaceOf, Zenon
      <4>4. PICK j \in Nat : j = p + i /\ j <= last /\ j > taken
        <5>1. i \in Nat /\ i <= l
          BY <4>2
        <5>2. p + i > taken
          BY <2>2, <4>2, Zenon
        <5>3. p + i <= last
          BY <4>3, <5>1
        <5>4. p + i \in Nat
          BY <5>1
        <5> QED BY <5>2, <5>3, <5>4
      <4>5. j - taken \in 1 .. m
        BY <1>7, <4>4
      <4>10. k \in 1 .. Len(packages) /\ i \in 1 .. Len(packages[k])
        BY <1>1, <3>1, <4>1, <4>2, Zenon
      <4>6. rest[j - taken] = packages[k][i]
        <5>1. places[k] + i > taken => rest[places[k] + i - taken] = packages[k][i]
          BY <4>10, Zenon DEF Placed
        <5>2. places[k] + i > taken /\ places[k] + i - taken = j - taken
          <6>1. i \in Nat
            BY <4>2
          <6>2. p + i > taken /\ p + i - taken = j - taken
            BY <4>4, <6>1
          <6> QED BY <4>1, <6>2, Zenon
        <5>3. rest[places[k] + i - taken] = rest[j - taken]
          BY <5>2, Zenon
        <5> QED BY <5>1, <5>2, <5>3, Zenon
      <4>7. left[j - taken] = rest[j - taken]
        BY <1>6, <4>5
      <4>8. at[k] + i - taken = j - taken
        <5>1. i \in Nat
          BY <4>2
        <5>2. p + i - taken = j - taken
          BY <4>4, <5>1
        <5> QED BY <4>2, <5>2, Zenon
      <4>9. left[at[k] + i - taken] = left[j - taken]
        BY <4>8, Zenon
      <4> QED BY <4>2, <4>6, <4>7, <4>9, Zenon
    <3>2. CASE k = n + 1
      <4>1. i \in 1 .. len /\ at[k] = last /\ all[k] = new
        BY <1>1, <1>3, <1>4, <3>2
      <4>2. at[k] + i - taken = m + i
        BY <1>7, <4>1
      <4> QED BY <1>6, <4>1, <4>2
    <3> QED BY <1>3, <3>1, <3>2
  <2> QED BY <2>1, <2>2 DEF Placed
<1> QED BY <1>1, <1>2, <1>8, <1>9

\* The place is t bytes into the k-th package.
Within(packages, places, rest, k, t) == Placed(packages, places, rest, places[k] + t)

\* The whole of the k-th package is left from there, and comes first.
ComesFirst(packages, places, rest, k, t) ==
  /\ Len(rest) >= Len(packages[k]) - t
  /\ \A i \in 1 .. Len(packages[k]) - t : rest[i] = packages[k][t + i]
  /\ places[k + 1] = places[k] + Len(packages[k])

\* The bytes that are left are those of the package the place is in, and the
\* whole of it is left from there.
LEMMA NextPlaced ==
  ASSUME NEW packages \in Seq(Seq(Int)), NEW places \in Seq(Nat), Consecutive(packages, places),
         NEW rest \in Seq(Int), NEW k \in 1 .. Len(packages), NEW t \in Nat, t <= Len(packages[k]),
         Within(packages, places, rest, k, t)
  PROVE  ComesFirst(packages, places, rest, k, t)
<1>1. PICK at \in Nat, len \in Nat, last \in Nat, n \in Nat :
        at = places[k] /\ len = Len(packages[k]) /\ last = places[Len(places)] /\ n = Len(rest)
  <2>1. Len(rest) \in Nat
    OBVIOUS
  <2> QED BY <2>1, PlaceOf, Zenon
<1>2. at + t + n = last
  BY <1>1, Zenon DEF Placed, Within
<1>3. places[k + 1] = at + len
  BY <1>1, PlaceOf, Zenon
<1>4. at + len <= last
  BY <1>1, PlaceOf, Zenon
<1>5. n >= len - t
  BY <1>2, <1>4
<1>6. ASSUME NEW i \in 1 .. (len - t) PROVE rest[i] = packages[k][t + i]
  <2>1. PICK j \in 1 .. len : j = t + i
    BY <1>1
  <2>2. j > t /\ j - t = i
    BY <1>1, <2>1
  <2>3. PICK p \in Nat : p = at + j
    OBVIOUS
  <2>4. p > at + t /\ p - (at + t) = i
    BY <2>2, <2>3
  <2>5. rest[p - (at + t)] = packages[k][j]
    <3>1. j \in 1 .. Len(packages[k])
      BY <1>1, <2>1, Zenon
    <3>2. places[k] + j > places[k] + t =>
            rest[places[k] + j - (places[k] + t)] = packages[k][j]
      BY <3>1, Zenon DEF Placed, Within
    <3>3. places[k] + j > places[k] + t /\ places[k] + j - (places[k] + t) = p - (at + t)
      <4>1. at + j > at + t /\ at + j - (at + t) = p - (at + t)
        BY <2>3, <2>4
      <4> QED BY <1>1, <4>1, Zenon
    <3>4. rest[places[k] + j - (places[k] + t)] = rest[p - (at + t)]
      BY <3>3, Zenon
    <3> QED BY <3>2, <3>3, <3>4, Zenon
  <2> QED BY <2>1, <2>4, <2>5, Zenon
<1> QED BY <1>1, <1>3, <1>5, <1>6 DEF ComesFirst

-----------------------------------------------------------------------------
(* What the invariant says of the bytes that are left.                      *)

\* The bytes a turn of the loop starts with.
Bytes == m_Bytes \o arrived

\* With fewer bytes the loop ends.
Limit == IF kind = "control" THEN 2 ELSE HeaderSize

\* The parts of the invariant that most steps use.
LEMMA Facts ==
  ASSUME Short, IInv
  PROVE  /\ kind \in Kinds /\ sent \in Seq(Sizes[kind])
         /\ m_Bytes \in Seq(Int) /\ arrived \in Seq(Int) /\ wire \in Seq(Int)
         /\ Bytes \in Seq(Int) /\ Rest \in Seq(Int) /\ Rest = Bytes \o wire
         /\ Packages \in Seq(Seq(Int)) /\ Len(Packages) = Len(sent)
         /\ starts \in Seq(Nat) /\ Len(starts) = Len(sent) + 1
         /\ received \in Seq(Seq(Int)) /\ Len(received) <= Len(sent)
         /\ Taken \in Nat /\ m_CurrentPackageSize \in Nat
         /\ Consecutive(Packages, starts) /\ Placed(Packages, starts, Rest, Taken)
<1>1. TypeOK /\ SizeIsNext /\ Consecutive(Packages, starts) /\ Placed(Packages, starts, Rest, Taken)
  BY DEF IInv
<1>2. /\ kind \in Kinds /\ sent \in Seq(Sizes[kind])
      /\ m_Bytes \in Seq(Int) /\ arrived \in Seq(Int) /\ wire \in Seq(Int)
      /\ received \in Seq(Seq(Int)) /\ starts \in Seq(Nat)
  BY <1>1 DEF TypeOK
<1>3. m_CurrentPackageSize \in Nat
  <2>1. Word - 1 \in Int
    BY FramingAssumption
  <2>2. CASE kind = "control"
    <3>1. m_CurrentPackageSize \in 0 .. 255
      BY <1>1, <2>2, Zenon DEF TypeOK
    <3> QED BY <3>1
  <2>3. CASE kind # "control"
    <3>1. m_CurrentPackageSize \in 0 .. Word - 1
      BY <1>1, <2>3, Zenon DEF TypeOK
    <3> QED BY <2>1, <3>1
  <2> QED BY <2>2, <2>3
<1>4. Packages \in Seq(Seq(Int)) /\ Len(Packages) = Len(sent)
  BY <1>2, PackagesAre
<1>5. Len(starts) = Len(sent) + 1
  BY <1>1, <1>4 DEF Consecutive
<1>6. Len(received) <= Len(sent)
  BY <1>1 DEF SizeIsNext
<1>7. Bytes \in Seq(Int)
  BY <1>2, Joined DEF Bytes
<1>8. Rest = Bytes \o wire
  BY DEF Rest, Bytes
<1>9. Rest \in Seq(Int)
  BY <1>2, <1>7, <1>8, Joined
<1>10. Taken \in Nat
  <2>1. Len(received) + 1 \in 1 .. Len(starts)
    BY <1>2, <1>5, <1>6
  <2>2. starts[Len(received) + 1] \in Nat
    BY <1>2, <2>1
  <2> QED BY <2>2 DEF Taken
<1> QED BY <1>1, <1>2, <1>3, <1>4, <1>5, <1>6, <1>7, <1>8, <1>9, <1>10

\* The k-th package that was sent.
LEMMA SentIs ==
  ASSUME Short, IInv, NEW k \in 1 .. Len(sent)
  PROVE  /\ sent[k] \in Nat /\ Packages[k] = Package(k, sent[k])
         /\ kind = "control" => sent[k] \in 0 .. 127
         /\ kind = "data" => sent[k] \in 0 .. Word - 1
<1>1. /\ kind \in Kinds /\ sent[k] \in Sizes[kind] /\ Packages[k] = Package(k, sent[k])
  BY Facts, PackagesAre
<1>2. k \in Nat
  BY Facts
<1>3. sent[k] \in Nat /\ (kind = "control" => sent[k] \in 0 .. 127)
  BY <1>1, <1>2, PackageIs DEF IsPackage
<1> QED BY <1>1, <1>3, FramingAssumption

\* What the package after those emitted is, and that its bytes come first.
CurrentIs(n, size, head, t) ==
  /\ n = Len(received) /\ n + 1 \in 1 .. Len(sent)
  /\ size = sent[n + 1] /\ head = HeadSize
  /\ kind = "control" => size \in 0 .. 127
  /\ kind = "data" => size \in 0 .. Word - 1
  /\ t = IF kind = "control" /\ m_CurrentPackageSize # 0 THEN 1 ELSE 0
  /\ Taken = starts[n + 1] + t
  /\ Len(Rest) >= head + size - t
  /\ starts[Len(received) + 2] = Taken + (head + size - t)
  /\ \A i \in 1 .. head - t : Rest[i] = size
  /\ \A i \in 1 .. size : Rest[head - t + i] = -(n + 1)

\* The invariant says it of every state in which a package is left.
LEMMA Current ==
  ASSUME Short, IInv, Len(received) < Len(sent)
  PROVE  \E n \in Nat, size \in Nat, head \in Nat \ {0}, t \in {0, 1} : CurrentIs(n, size, head, t)
<1>n. PICK n \in Nat : n = Len(received)
  <2>1. Len(received) \in Nat
    BY Facts
  <2> QED BY <2>1
<1>z. PICK size : size = sent[n + 1]
  OBVIOUS
<1>t. PICK t \in {0, 1} : t = IF kind = "control" /\ m_CurrentPackageSize # 0 THEN 1 ELSE 0
  OBVIOUS
<1>0. /\ n = Len(received) /\ n < Len(sent) /\ size = sent[n + 1]
      /\ t = IF kind = "control" /\ m_CurrentPackageSize # 0 THEN 1 ELSE 0
  BY <1>n, <1>z, <1>t, Zenon
<1>1. PICK k \in Nat : k = n + 1
  OBVIOUS
<1>2. k \in 1 .. Len(Packages) /\ Packages[k] = Package(k, size) /\ size \in Sizes[kind]
  <2>0. Len(sent) \in Nat
    BY Facts
  <2>1. k \in 1 .. Len(sent)
    BY <1>0, <1>1, <2>0
  <2> QED BY <1>0, <1>1, <2>1, Facts, PackagesAre
<1>3. PICK head, packages, places, rest, p :
        /\ head = HeadSize /\ packages = Packages /\ places = starts /\ rest = Rest
        /\ p = Package(k, size)
  OBVIOUS
<1>4. /\ size \in Nat /\ head \in Nat \ {0}
      /\ kind = "control" => size \in 0 .. 127
      /\ p \in Seq(Int) /\ Len(p) = head + size
      /\ \A i \in 1 .. head : p[i] = size
      /\ \A i \in 1 .. size : p[head + i] = -k
  <2>1. IsPackage(Package(k, size), k, size, HeadSize)
    BY <1>2, Facts, PackageIs
  <2> QED BY <1>3, <2>1, Zenon DEF IsPackage
<1>5. kind = "data" => size \in 0 .. Word - 1
  BY <1>2, Facts, FramingAssumption
<1>6. Taken = places[k] + t
  BY <1>0, <1>1, <1>3 DEF Taken
<1>7. /\ packages \in Seq(Seq(Int)) /\ places \in Seq(Nat) /\ rest \in Seq(Int)
      /\ Consecutive(packages, places) /\ Placed(packages, places, rest, places[k] + t)
      /\ k \in 1 .. Len(packages) /\ packages[k] = p
  BY <1>2, <1>3, <1>6, Facts, Zenon
<1>8. t \in Nat /\ t <= Len(packages[k])
  <2>1. t \in Nat /\ t <= head + size
    BY <1>4
  <2>2. Len(packages[k]) = head + size
    BY <1>4, <1>7, Zenon
  <2> QED BY <2>1, <2>2
<1>9. /\ Len(rest) >= Len(packages[k]) - t
      /\ \A i \in 1 .. Len(packages[k]) - t : rest[i] = packages[k][t + i]
      /\ places[k + 1] = places[k] + Len(packages[k])
  <2>1. Within(packages, places, rest, k, t)
    BY <1>7, Zenon DEF Within
  <2>2. ComesFirst(packages, places, rest, k, t)
    BY <1>7, <1>8, <2>1, NextPlaced
  <2> QED BY <2>2, Zenon DEF ComesFirst
<1>10. /\ Len(rest) >= head + size - t
       /\ \A i \in 1 .. head + size - t : rest[i] = p[t + i]
       /\ places[k + 1] = places[k] + (head + size)
  <2>0. head + size \in Nat
    BY <1>4
  <2>1. PICK len \in Nat : len = Len(packages[k]) /\ len = head + size
    BY <1>4, <1>7, <2>0, Zenon
  <2>2. Len(rest) >= len - t
    BY <1>9, <2>1, Zenon
  <2>3. \A i \in 1 .. len - t : rest[i] = p[t + i]
    BY <1>7, <1>9, <2>1, Zenon
  <2>4. len - t = head + size - t
    BY <1>4, <2>1
  <2> QED BY <1>9, <2>1, <2>2, <2>3, <2>4, Zenon
<1>11. \A i \in 1 .. head - t : rest[i] = size
  <2> TAKE i \in 1 .. head - t
  <2>1. t + i \in 1 .. head /\ i \in 1 .. head + size - t
    BY <1>4
  <2> QED BY <1>4, <1>10, <2>1
<1>12. \A i \in 1 .. size : rest[head - t + i] = -k
  <2> TAKE i \in 1 .. size
  <2>1. PICK j \in 1 .. head + size - t : j = head - t + i /\ t + j = head + i
    <3>1. /\ head - t + i \in 1 .. head + size - t
          /\ t + (head - t + i) = head + i
      BY <1>4
    <3> QED BY <3>1
  <2>2. rest[j] = p[t + j] /\ p[head + i] = -k
    BY <1>4, <1>10, <2>1
  <2> QED BY <2>1, <2>2, Zenon
<1>13. n + 2 = k + 1 /\ places[k] \in Nat
  <2>1. k = n + 1 /\ places[k] \in Nat
    BY <1>1, <1>7, PlaceOf, Zenon
  <2> QED BY <1>1, <2>1
<1>14. starts[n + 2] = Taken + (head + size - t)
  <2>1. Taken + (head + size - t) = places[k] + (head + size)
    <3>1. PICK at \in Nat : at = places[k]
      BY <1>13
    <3>2. Taken = at + t
      BY <1>6, <3>1, Zenon
    <3>3. at + t + (head + size - t) = at + (head + size)
      BY <1>4
    <3> QED BY <3>1, <3>2, <3>3, Zenon
  <2> QED BY <1>3, <1>10, <1>13, <2>1, Zenon
<1>15. n + 1 \in 1 .. Len(sent) /\ Len(received) + 2 = n + 2
  <2>1. Len(sent) \in Nat
    BY Facts
  <2> QED BY <1>0, <2>1
<1>16. CurrentIs(n, size, head, t)
  BY <1>0, <1>1, <1>3, <1>4, <1>5, <1>6, <1>10, <1>11, <1>12, <1>14, <1>15, Zenon DEF CurrentIs
<1> QED BY <1>4, <1>16

\* A place of the history.
LEMMA StartIs == ASSUME NEW s \in Seq(Nat), NEW k \in 1 .. Len(s) PROVE s[k] \in Nat
OBVIOUS

\* After the last package there is nothing.
LEMMA NothingLeft ==
  ASSUME Short, IInv, Len(received) = Len(sent)
  PROVE  Len(Rest) = 0 /\ m_CurrentPackageSize = 0 /\ ~closed
<1>1. m_CurrentPackageSize = 0 /\ ~closed
  BY Facts DEF IInv, SizeIsNext
<1>2. PICK n \in Nat, last \in Nat, len \in Nat : n = Len(starts) /\ last = starts[n] /\ len = Len(Rest)
  <2>1. Len(starts) \in 1 .. Len(starts)
    BY Facts
  <2>2. starts[Len(starts)] \in Nat /\ Len(starts) \in Nat /\ Len(Rest) \in Nat
    BY <2>1, Facts
  <2> QED BY <2>2
<1>3. Taken + len = last
  BY <1>2, Facts DEF Placed
<1>4. Taken = last
  <2>1. Len(received) + 1 = n
    BY <1>2, Facts
  <2> QED BY <1>1, <1>2, <2>1 DEF Taken
<1>5. len = 0
  BY <1>2, <1>3, <1>4
<1> QED BY <1>1, <1>2, <1>5

\* The bytes of this turn are the first that are left.
LEMMA BytesComeFirst ==
  ASSUME Short, IInv
  PROVE  Len(Bytes) <= Len(Rest) /\ \A i \in 1 .. Len(Bytes) : Bytes[i] = Rest[i]
<1>1. PICK b \in Seq(Int), w \in Seq(Int) : b = Bytes /\ w = wire /\ Rest = b \o w
  BY Facts
<1> QED BY <1>1, Joined

-----------------------------------------------------------------------------
(* A turn of a loop.                                                        *)

\* The part of TypeOK about the size in force.
SizeInRange ==
  IF kind = "control" THEN m_CurrentPackageSize \in 0 .. 255 /\ ~closed
  ELSE /\ m_CurrentPackageSize \in 0 .. Word - 1
       /\ m_CurrentPackageSize \in 1 .. HeaderSize - 1 => closed

\* The size in force for the package after those emitted.
NextSize == sent[Len(received) + 1] + (IF kind = "control" THEN 0 ELSE HeaderSize)

\* A turn takes d bytes.
Takes(d) ==
  /\ m_Bytes' = Drop(Bytes, d) /\ arrived' = <<>>
  /\ UNCHANGED <<kind, sent, wire, starts>>

\* A turn that drops d bytes and takes the place on by d keeps each byte at
\* its place.
LEMMA Moves ==
  ASSUME Short, IInv, NEW d \in Nat, d <= Len(Bytes), Takes(d), Taken' = Taken + d
  PROVE  /\ m_Bytes' \in Seq(Int) /\ Len(m_Bytes') = Len(Bytes) - d
         /\ Packages' = Packages
         /\ Consecutive(Packages', starts') /\ Placed(Packages', starts', Rest', Taken')
<1>1. Packages' = Packages
  BY DEF Takes, Packages, Package
<1>2. PICK b \in Seq(Int), w \in Seq(Int) : b = Bytes /\ w = wire /\ Rest = b \o w
  BY Facts
<1>l. PICK left : left = Drop(b, d)
  OBVIOUS
<1>3. d <= Len(b)
  BY <1>2, <1>l, Zenon
<1>4. left \in Seq(Int) /\ Len(left) = Len(b) - d
  BY <1>2, <1>l, <1>3, Dropped
<1>5. Rest' = left \o w
  <2>1. Rest' = (left \o <<>>) \o w
    BY <1>2, <1>l DEF Takes, Rest
  <2>2. left \o <<>> = left
    BY <1>4, JoinedNone
  <2> QED BY <2>1, <2>2, Zenon
<1>6. Rest' = Drop(Rest, d)
  <2>1. left \o w = Drop(b \o w, d)
    BY <1>2, <1>l, <1>3, DropJoined, Zenon
  <2> QED BY <1>2, <1>l, <1>5, <2>1, Zenon
<1>7. d <= Len(Rest)
  BY BytesComeFirst, Facts
<1>8. Consecutive(Packages, starts) /\ Placed(Packages, starts, Drop(Rest, d), Taken + d)
  BY <1>7, Facts, PlacedDrop
<1>9. starts' = starts
  BY DEF Takes
<1>10. Consecutive(Packages', starts') /\ Placed(Packages', starts', Rest', Taken')
  BY <1>1, <1>6, <1>8, <1>9, Zenon
<1>11. m_Bytes' = left
  BY <1>2, <1>l DEF Takes
<1> QED BY <1>1, <1>2, <1>l, <1>4, <1>10, <1>11, Zenon

\* A turn keeps the types.
LEMMA TypesKept ==
  ASSUME Short, IInv, NEW d, Takes(d), m_Bytes' \in Seq(Int), inSlot' \in BOOLEAN, closed' \in BOOLEAN,
         SizeInRange', received' \in Seq(Seq(Int))
  PROVE  TypeOK'
<1>1. TypeOK /\ UNCHANGED <<kind, sent, wire, starts>> /\ arrived' = <<>>
  BY DEF IInv, Takes
<1>2. arrived' \in Seq(Int)
  BY <1>1
<1>3. /\ kind' \in Kinds
      /\ sent' \in Seq(Sizes[kind']) /\ Len(sent') <= MaxPackages[kind']
      /\ wire' \in Seq(Int) /\ starts' \in Seq(Nat)
  BY <1>1, Zenon DEF TypeOK
<1> QED BY <1>2, <1>3, Zenon DEF TypeOK, SizeInRange

\* Part of a package is left for the next readyRead, or the next turn.
LEMMA Waits ==
  ASSUME Short, IInv, ~closed, NEW d \in Nat, d <= Len(Bytes), Takes(d), Taken' = Taken + d,
         received' = received, closed' = closed, SizeInRange',
         inSlot' = GoesOn(m_CurrentPackageSize', m_Bytes'),
         m_CurrentPackageSize' # 0 => Len(received) < Len(sent) /\ m_CurrentPackageSize' = NextSize,
         m_CurrentPackageSize' # 0 => Len(m_Bytes') < m_CurrentPackageSize'
  PROVE  IInv'
<1>1. UNCHANGED <<kind, sent, wire, starts>> /\ arrived' = <<>>
  BY DEF Takes
<1>2. /\ m_Bytes' \in Seq(Int) /\ Packages' = Packages
      /\ Consecutive(Packages', starts') /\ Placed(Packages', starts', Rest', Taken')
  BY Moves
<1>3. TypeOK'
  <2>1. received' \in Seq(Seq(Int)) /\ closed' \in BOOLEAN /\ inSlot' \in BOOLEAN
    BY DEF IInv, TypeOK, GoesOn
  <2> QED BY <1>2, <2>1, TypesKept
<1>4. SizeIsNext'
  <2>1. Len(received) <= Len(sent)
    BY Facts
  <2>2. CASE m_CurrentPackageSize' = 0
    <3>1. Len(received') <= Len(sent') /\ ~closed'
      BY <1>1, <2>1
    <3> QED BY <2>2, <3>1, Zenon DEF SizeIsNext
  <2>3. CASE m_CurrentPackageSize' # 0
    <3>1. /\ Len(received) < Len(sent) /\ ~closed'
          /\ m_CurrentPackageSize' = NextSize
      BY <2>3
    <3>2. CASE kind = "control"
      <4>1. sent[Len(received) + 1] \in Int
        <5>0. Len(received) \in Nat /\ Len(sent) \in Nat
          <6>1. received \in Seq(Seq(Int)) /\ sent \in Seq(Sizes[kind])
            BY Facts, Zenon
          <6> QED BY <6>1
        <5>1. Len(received) + 1 \in 1 .. Len(sent)
          BY <3>1, <5>0
        <5> QED BY <5>1, SentIs
      <4>2. m_CurrentPackageSize' = sent[Len(received) + 1]
        BY <3>1, <3>2, <4>1 DEF NextSize
      <4> QED BY <1>1, <2>1, <3>1, <3>2, <4>2, Zenon DEF SizeIsNext
    <3>3. CASE kind # "control"
      <4>1. m_CurrentPackageSize' = sent[Len(received) + 1] + HeaderSize
        BY <3>1, <3>3 DEF NextSize
      <4> QED BY <1>1, <2>1, <3>1, <3>3, <4>1, Zenon DEF SizeIsNext
    <3> QED BY <3>2, <3>3
  <2> QED BY <2>2, <2>3
<1>5. SlotWaits'
  <2>1. Limit' = Limit
    BY <1>1 DEF Limit
  <2>2. CASE m_CurrentPackageSize' # 0
    BY <1>1, <2>2 DEF SlotWaits
  <2>3. CASE m_CurrentPackageSize' = 0
    <3>1. Len(m_Bytes') \in Nat /\ Limit \in Nat
      BY <1>2, FramingAssumption DEF Limit
    <3>2. inSlot' <=> Len(m_Bytes') >= Limit
      BY <2>3, Zenon DEF GoesOn, Limit
    <3>3. ~inSlot' => Len(m_Bytes') < Limit
      BY <3>1, <3>2
    <3> QED BY <1>1, <2>1, <2>3, <3>3, Zenon DEF SlotWaits, Limit
  <2> QED BY <2>2, <2>3
<1>6. EachUnderstood'
  <2>1. EachUnderstood
    BY DEF IInv
  <2> QED BY <1>1, <2>1 DEF EachUnderstood, Understood
<1> QED BY <1>2, <1>3, <1>4, <1>5, <1>6, Zenon DEF IInv

\* A package is emitted.
LEMMA Emits ==
  ASSUME Short, IInv, ~closed, NEW d \in Nat, d <= Len(Bytes), Takes(d), Taken + d = starts[Len(received) + 2],
         Len(received) < Len(sent), NEW x \in Seq(Int), received' = Append(received, x),
         Understood(x) = Body(Len(received) + 1, sent[Len(received) + 1]),
         closed' = closed, m_CurrentPackageSize' = 0, inSlot' = GoesOn(0, m_Bytes')
  PROVE  IInv'
<1>1. UNCHANGED <<kind, sent, wire, starts>> /\ arrived' = <<>>
  BY DEF Takes
<1>2. PICK n \in Nat : n = Len(received)
  BY Facts
<1>3. /\ received' \in Seq(Seq(Int)) /\ Len(received') = n + 1 /\ n + 1 <= Len(sent)
      /\ received'[n + 1] = x
      /\ \A k \in 1 .. n : received'[k] = received[k]
  <2>1. received \in Seq(Seq(Int)) /\ Len(sent) \in Nat
    BY Facts
  <2> QED BY <1>2, <2>1
<1>4. Taken' = Taken + d
  <2>0. starts \in Seq(Nat) /\ Len(starts) = Len(sent) + 1 /\ Len(sent) \in Nat
    BY Facts
  <2>1. n + 1 + 1 = n + 2 /\ n + 2 \in 1 .. Len(starts)
    BY <1>3, <2>0
  <2>2. starts[n + 2] \in Nat
    BY <2>0, <2>1, StartIs, Zenon
  <2>3. Taken' = starts[n + 2] + 0
    <3>1. Taken' = starts[n + 1 + 1] + 0
      BY <1>1, <1>3, Zenon DEF Taken
    <3> QED BY <2>1, <3>1, Zenon
  <2> QED BY <1>2, <2>2, <2>3
<1>5. /\ m_Bytes' \in Seq(Int) /\ Packages' = Packages
      /\ Consecutive(Packages', starts') /\ Placed(Packages', starts', Rest', Taken')
  BY <1>4, Moves
<1>6. TypeOK'
  <2>1. closed' \in BOOLEAN /\ inSlot' \in BOOLEAN
    BY DEF IInv, TypeOK, GoesOn
  <2>2. SizeInRange'
    <3>1. 0 \in 0 .. Word - 1 /\ 0 \notin 1 .. HeaderSize - 1
      BY FramingAssumption
    <3> QED BY <3>1 DEF SizeInRange
  <2> QED BY <1>3, <1>5, <2>1, <2>2, TypesKept
<1>7. SizeIsNext'
  <2>1. Len(received') <= Len(sent')
    BY <1>1, <1>3
  <2> QED BY <2>1, Zenon DEF SizeIsNext
<1>8. SlotWaits'
  <2>1. Limit' = Limit /\ Len(m_Bytes') \in Nat /\ Limit \in Nat
    BY <1>1, <1>5, FramingAssumption DEF Limit
  <2>2. ~inSlot' => Len(m_Bytes') < Limit
    <3>1. inSlot' <=> Len(m_Bytes') >= Limit
      BY Zenon DEF GoesOn, Limit
    <3> QED BY <2>1, <3>1
  <2> QED BY <1>1, <2>1, <2>2, Zenon DEF SlotWaits, Limit
<1>9. EachUnderstood'
  <2>1. EachUnderstood
    BY DEF IInv
  <2>2. \A k \in 1 .. n : Understood(received[k]) = Body(k, sent[k])
    <3>1. DOMAIN received = 1 .. n
      BY <1>2, Facts
    <3> QED BY <2>1, <3>1, Zenon DEF EachUnderstood
  <2>3. ASSUME NEW k \in 1 .. n + 1 PROVE Understood(received'[k]) = Body(k, sent[k])
    <3>1. CASE k \in 1 .. n
      BY <1>3, <2>2, <3>1, Zenon
    <3>2. CASE k = n + 1
      BY <1>2, <1>3, <3>2, Zenon
    <3>3. k \in 1 .. n \/ k = n + 1
      OBVIOUS
    <3> QED BY <3>1, <3>2, <3>3, Zenon
  <2>4. DOMAIN received' = 1 .. n + 1
    BY <1>3
  <2>5. \A k \in DOMAIN received' : Understood(received'[k]) = Body(k, sent'[k])
    BY <1>1, <2>3, <2>4, Zenon
  <2> QED BY <1>1, <2>5 DEF EachUnderstood, Understood
<1> QED BY <1>5, <1>6, <1>7, <1>8, <1>9, Zenon DEF IInv

\* There are bytes, so there is a package after those emitted.
LEMMA SomethingLeft ==
  ASSUME Short, IInv, m_CurrentPackageSize # 0 \/ Len(Bytes) > 0
  PROVE  /\ Len(received) \in Nat /\ Len(sent) \in Nat
         /\ Len(received) < Len(sent) /\ Len(received) + 1 \in 1 .. Len(sent)
<1>1. Len(received) \in Nat /\ Len(sent) \in Nat /\ Len(received) <= Len(sent)
  BY Facts
<1>2. Len(Bytes) \in Nat /\ Len(Rest) \in Nat /\ Len(Bytes) <= Len(Rest)
  BY Facts, BytesComeFirst
<1>3. CASE Len(received) = Len(sent)
  BY <1>2, <1>3, NothingLeft
<1>4. CASE Len(received) # Len(sent)
  BY <1>1, <1>4
<1> QED BY <1>3, <1>4

\* A body is as many bytes of its package.
LEMMA BodyIs ==
  ASSUME NEW k \in Nat, NEW size \in Nat, NEW x \in Seq(Int), Len(x) = size,
         \A i \in 1 .. size : x[i] = -k
  PROVE  x = Body(k, size)
<1>1. Body(k, size) \in Seq(Int) /\ Len(Body(k, size)) = size /\ \A i \in 1 .. size : Body(k, size)[i] = -k
  BY DEF Body
<1> QED BY <1>1, SameSeq

\* A control package's size is known: it is emitted once it is all there.
LEMMA ControlSizeKnown ==
  ASSUME Short, IInv, ControlTurn, m_CurrentPackageSize # 0
  PROVE  IInv'
<1>1. /\ kind = "control" /\ inSlot /\ arrived' = <<>> /\ UNCHANGED <<kind, sent, wire, starts>>
      /\ EndTurn(m_CurrentPackageSize, Bytes, Len(Bytes) >= m_CurrentPackageSize,
                 SubSeq(Bytes, 1, m_CurrentPackageSize))
  BY DEF ControlTurn, ReadSize, Bytes
<1>2. ~closed
  BY <1>1 DEF IInv, SlotWaits
<1>3. Len(received) < Len(sent)
  BY SomethingLeft
<1>4. PICK n \in Nat, size \in Nat, head \in Nat \ {0}, t \in {0, 1} : CurrentIs(n, size, head, t)
  BY <1>3, Current
<1>5. /\ n = Len(received) /\ size = sent[n + 1] /\ size \in 0 .. 127 /\ head = 1 /\ t = 1
      /\ starts[Len(received) + 2] = Taken + (head + size - t)
      /\ \A i \in 1 .. size : Rest[head - t + i] = -(n + 1)
  BY <1>1, <1>4 DEF CurrentIs, HeadSize
<1>6. m_CurrentPackageSize = size /\ NextSize = size
  <2>1. m_CurrentPackageSize \in {0, size}
    BY <1>1, <1>2, <1>3, <1>5 DEF IInv, SizeIsNext
  <2>2. NextSize = size + 0
    BY <1>1, <1>5, Zenon DEF NextSize
  <2> QED BY <2>1, <2>2
<1>7. PICK b \in Seq(Int), l \in Nat : b = Bytes /\ l = Len(b) /\ l = Len(Bytes)
  BY Facts
<1>8. EndTurn(size, b, l >= size, SubSeq(b, 1, size))
  BY <1>1, <1>6, <1>7, Zenon
<1>9. CASE l >= size
  <2>1. PICK x \in Seq(Int) : x = SubSeq(b, 1, size) /\ Len(x) = size /\ \A i \in 1 .. size : x[i] = b[i]
    <3>1. size <= Len(b)
      BY <1>7, <1>9
    <3>2. Begins(First(b, size), b, size)
      BY <3>1, FirstIs, Zenon
    <3> QED BY <3>2, Zenon DEF First, Begins
  <2>2. /\ received' = Append(received, x) /\ m_Bytes' = Drop(b, size)
        /\ m_CurrentPackageSize' = 0 /\ closed' = closed
        /\ inSlot' = GoesOn(0, m_Bytes')
    BY <1>8, <1>9, <2>1 DEF EndTurn, Drop
  <2>3. Takes(size)
    BY <1>1, <1>7, <2>2 DEF Takes
  <2>4. Taken + size = starts[Len(received) + 2]
    <3>1. head + size - t = size
      BY <1>5
    <3> QED BY <1>5, <3>1, Zenon
  <2>5. x = Body(n + 1, size)
    <3>1. ASSUME NEW i \in 1 .. size PROVE x[i] = -(n + 1)
      <4>1. i \in 1 .. l
        BY <1>9
      <4>2. b[i] = Rest[i]
        BY <1>7, <4>1, BytesComeFirst, Zenon
      <4>3. head - t + i = i
        BY <1>5
      <4> QED BY <1>5, <2>1, <4>2, <4>3, Zenon
    <3>2. n + 1 \in Nat
      OBVIOUS
    <3> QED BY <2>1, <3>1, <3>2, BodyIs, Zenon
  <2>6. Understood(x) = Body(Len(received) + 1, sent[Len(received) + 1])
    BY <1>1, <1>5, <2>5, Zenon DEF Understood
  <2>7. size <= Len(Bytes)
    BY <1>7, <1>9
  <2> QED BY <1>2, <1>3, <2>2, <2>3, <2>4, <2>6, <2>7, Emits
<1>10. CASE l < size
  <2>1. ~(l >= size)
    BY <1>10
  <2>2. /\ received' = received /\ m_Bytes' = b
        /\ m_CurrentPackageSize' = size /\ closed' = closed
        /\ inSlot' = GoesOn(m_CurrentPackageSize', m_Bytes')
    BY <1>8, <2>1, Zenon DEF EndTurn
  <2>3. Takes(0)
    BY <1>1, <1>7, <2>2, DropNone DEF Takes
  <2>4. Taken' = Taken + 0
    BY <1>1, <1>5, <1>6, <2>2, Facts DEF Taken
  <2>5. SizeInRange'
    BY <1>1, <1>2, <1>5, <2>2 DEF SizeInRange
  <2>6. m_CurrentPackageSize' # 0 => Len(m_Bytes') < m_CurrentPackageSize'
    BY <1>5, <1>7, <1>10, <2>2
  <2>7. m_CurrentPackageSize' # 0 => Len(received) < Len(sent) /\ m_CurrentPackageSize' = NextSize
    BY <1>3, <1>6, <2>2
  <2>8. 0 \in Nat /\ 0 <= Len(Bytes)
    BY <1>7
  <2> QED BY <1>2, <2>2, <2>3, <2>4, <2>5, <2>6, <2>7, <2>8, Waits
<1> QED BY <1>9, <1>10

\* There is nothing to read a control package's size from, or it is 0.
LEMMA ControlNothing ==
  ASSUME Short, IInv, ControlTurn, m_CurrentPackageSize = 0, Len(Bytes) = 0 \/ Head(Bytes) = 0
  PROVE  IInv'
<1>1. /\ kind = "control" /\ inSlot /\ arrived' = <<>> /\ UNCHANGED <<kind, sent, wire, starts>>
  BY DEF ControlTurn
<1>2. ~closed
  BY <1>1 DEF IInv, SlotWaits
<1>3. PICK b \in Seq(Int) : b = Bytes /\ (b = <<>> \/ Head(b) = 0)
  BY Facts, Empty
<1>4. ReadSize(b) = [size |-> 0, rest |-> b]
  <2>1. readRawVarint32(b).size = 0
    BY <1>3 DEF readRawVarint32
  <2>2. ~(readRawVarint32(b).size > 0)
    BY <2>1
  <2> QED BY <2>2, Zenon DEF ReadSize
<1>5. ReadSize(b).size = 0 /\ ReadSize(b).rest = b
  BY <1>4
<1>6. EndTurn(0, b, FALSE, SubSeq(b, 1, 0))
  <2>1. EndTurn(0, b, 0 # 0 /\ Len(b) >= 0, SubSeq(b, 1, 0))
    BY <1>3, <1>5, Zenon DEF ControlTurn, Bytes
  <2>2. (0 # 0 /\ Len(b) >= 0) = FALSE
    BY Zenon
  <2> QED BY <2>1, <2>2, Zenon
<1>7. /\ received' = received /\ m_Bytes' = b
      /\ m_CurrentPackageSize' = 0 /\ closed' = closed
      /\ inSlot' = GoesOn(m_CurrentPackageSize', m_Bytes')
  BY <1>6, Zenon DEF EndTurn
<1>8. Takes(0)
  BY <1>1, <1>3, <1>7, DropNone DEF Takes
<1>9. Taken' = Taken + 0
  BY <1>1, <1>7, Facts DEF Taken
<1>10. SizeInRange'
  BY <1>1, <1>2, <1>7 DEF SizeInRange
<1>11. m_CurrentPackageSize' # 0 => Len(m_Bytes') < m_CurrentPackageSize'
  BY <1>7
<1>12. 0 \in Nat /\ 0 <= Len(Bytes)
  OBVIOUS
<1> QED BY <1>2, <1>7, <1>8, <1>9, <1>10, <1>11, <1>12, Waits

\* A control package's size is read: the first byte is the size of the next.
LEMMA ControlSizeRead ==
  ASSUME Short, IInv, ControlTurn, m_CurrentPackageSize = 0, Len(Bytes) > 0, Head(Bytes) # 0
  PROVE  IInv'
<1>1. /\ kind = "control" /\ inSlot /\ arrived' = <<>> /\ UNCHANGED <<kind, sent, wire, starts>>
  BY DEF ControlTurn
<1>2. ~closed
  BY <1>1 DEF IInv, SlotWaits
<1>3. Len(received) < Len(sent)
  BY SomethingLeft
<1>4. PICK n \in Nat, size \in Nat, head \in Nat \ {0}, t \in {0, 1} : CurrentIs(n, size, head, t)
  BY <1>3, Current
<1>5. /\ n = Len(received) /\ size = sent[n + 1] /\ size \in 0 .. 127 /\ head = 1 /\ t = 0
      /\ Taken = starts[n + 1] + t
      /\ starts[Len(received) + 2] = Taken + (head + size - t)
      /\ \A i \in 1 .. head - t : Rest[i] = size
      /\ \A i \in 1 .. size : Rest[head - t + i] = -(n + 1)
  BY <1>1, <1>4 DEF CurrentIs, HeadSize
<1>6. NextSize = size
  <2>1. NextSize = size + 0
    BY <1>1, <1>5, Zenon DEF NextSize
  <2> QED BY <2>1
<1>7. PICK b \in Seq(Int), l \in Nat : b = Bytes /\ l = Len(b) /\ l = Len(Bytes) /\ 1 <= l /\ 1 <= Len(b)
  BY Facts
<1>8. b # <<>> /\ Head(b) = size
  <2>1. 1 \in 1 .. head - t /\ 1 \in 1 .. l
    BY <1>5, <1>7
  <2>2. b[1] = Rest[1] /\ Rest[1] = size
    BY <1>5, <1>7, <2>1, BytesComeFirst, Zenon
  <2> QED BY <1>7, <2>2
<1>s. size \in Nat /\ size # 0 /\ size > 0
  <2>1. size # 0
    BY <1>7, <1>8, Zenon
  <2> QED BY <2>1
<1>9. PICK c : c = Drop(b, 1)
  OBVIOUS
<1>10. c \in Seq(Int) /\ Len(c) = l - 1 /\ \A i \in 1 .. l - 1 : c[i] = b[1 + i]
  <2>1. /\ Drop(b, 1) \in Seq(Int) /\ Len(Drop(b, 1)) = Len(b) - 1
        /\ \A i \in 1 .. Len(b) - 1 : Drop(b, 1)[i] = b[1 + i]
    BY <1>7, Dropped
  <2> QED BY <1>7, <1>9, <2>1
<1>11. EndTurn(size, c, size # 0 /\ Len(c) >= size, SubSeq(c, 1, size))
  <2>1. readRawVarint32(b) = [size |-> size, varSize |-> 1]
    BY <1>8 DEF readRawVarint32
  <2>0. readRawVarint32(b).size = size /\ readRawVarint32(b).varSize = 1 /\ size > 0
    BY <1>s, <2>1
  <2>2. ReadSize(b) = [size |-> size, rest |-> SubSeq(b, 1 + 1, Len(b))]
    BY <2>0, Zenon DEF ReadSize
  <2>3. ReadSize(b) = [size |-> size, rest |-> c]
    BY <1>9, <2>2, Zenon DEF Drop
  <2>4. ReadSize(b).size = size /\ ReadSize(b).rest = c
    BY <2>3
  <2>5. EndTurn(size, c, size # 0 /\ Len(c) >= size, SubSeq(c, 1, size))
    BY <1>7, <2>4, Zenon DEF ControlTurn, Bytes
  <2> QED BY <2>5
<1>12. CASE Len(c) >= size
  <2>1. PICK x \in Seq(Int) : x = SubSeq(c, 1, size) /\ Len(x) = size /\ \A i \in 1 .. size : x[i] = c[i]
    <3>1. size <= Len(c)
      BY <1>10, <1>12
    <3>2. Begins(First(c, size), c, size)
      BY <1>10, <3>1, FirstIs, Zenon
    <3> QED BY <3>2, Zenon DEF First, Begins
  <2>2. /\ received' = Append(received, x) /\ m_Bytes' = Drop(c, size)
        /\ m_CurrentPackageSize' = 0 /\ closed' = closed
        /\ inSlot' = GoesOn(0, m_Bytes')
    BY <1>s, <1>11, <1>12, <2>1, Zenon DEF EndTurn, Drop
  <2>3. PICK d \in Nat : d = 1 + size /\ d <= l
    BY <1>10, <1>12
  <2>4. Takes(d)
    <3>1. 1 \in Nat /\ 1 + size <= Len(b)
      BY <1>7, <2>3
    <3>2. Drop(Drop(b, 1), size) = Drop(b, 1 + size)
      BY <3>1, DropTwice
    <3>3. Drop(c, size) = Drop(b, d)
      BY <1>9, <2>3, <3>2, Zenon
    <3> QED BY <1>1, <1>7, <2>2, <3>3 DEF Takes
  <2>5. Taken + d = starts[Len(received) + 2]
    <3>1. head + size - t = d
      BY <1>5, <2>3
    <3> QED BY <1>5, <3>1, Zenon
  <2>6. x = Body(n + 1, size)
    <3>1. ASSUME NEW i \in 1 .. size PROVE x[i] = -(n + 1)
      <4>1. i \in 1 .. l - 1 /\ 1 + i \in 1 .. l
        BY <2>3
      <4>2. c[i] = b[1 + i] /\ b[1 + i] = Rest[1 + i]
        BY <1>7, <1>10, <4>1, BytesComeFirst, Zenon
      <4>3. head - t + i = 1 + i
        BY <1>5
      <4>4. Rest[head - t + i] = -(n + 1) /\ x[i] = c[i]
        BY <1>5, <2>1, Zenon
      <4>5. Rest[head - t + i] = Rest[1 + i]
        BY <4>3, Zenon
      <4> QED BY <4>2, <4>4, <4>5, Zenon
    <3>2. n + 1 \in Nat
      OBVIOUS
    <3> QED BY <2>1, <3>1, <3>2, BodyIs, Zenon
  <2>7. Understood(x) = Body(Len(received) + 1, sent[Len(received) + 1])
    BY <1>1, <1>5, <2>6, Zenon DEF Understood
  <2>8. d <= Len(Bytes)
    BY <1>7, <2>3
  <2> QED BY <1>2, <1>3, <2>2, <2>4, <2>5, <2>7, <2>8, Emits
<1>13. CASE Len(c) < size
  <2>1. ~(Len(c) >= size)
    BY <1>10, <1>13
  <2>2. /\ received' = received /\ m_Bytes' = c
        /\ m_CurrentPackageSize' = size /\ closed' = closed
        /\ inSlot' = GoesOn(m_CurrentPackageSize', m_Bytes')
    BY <1>11, <2>1, Zenon DEF EndTurn
  <2>3. Takes(1)
    BY <1>1, <1>7, <1>9, <2>2 DEF Takes
  <2>4. Taken' = Taken + 1
    <3>1. Taken' = starts[n + 1] + 1
      BY <1>1, <1>s, <1>5, <2>2, Zenon DEF Taken
    <3>2. Taken \in Nat /\ Taken = starts[n + 1] + 0
      BY <1>5, Facts
    <3>3. starts[n + 1] \in Nat
      <4>1. n + 1 \in 1 .. Len(starts)
        <5>1. Len(starts) = Len(sent) + 1 /\ Len(sent) \in Nat
          BY Facts
        <5>2. n < Len(sent)
          BY <1>3, <1>5, Zenon
        <5> QED BY <5>1, <5>2
      <4>2. starts \in Seq(Nat)
        BY Facts
      <4> QED BY <4>1, <4>2
    <3> QED BY <3>1, <3>2, <3>3
  <2>5. SizeInRange'
    BY <1>1, <1>2, <1>5, <2>2 DEF SizeInRange
  <2>6. m_CurrentPackageSize' # 0 => Len(m_Bytes') < m_CurrentPackageSize'
    BY <1>s, <1>13, <2>2, Zenon
  <2>7. m_CurrentPackageSize' # 0 => Len(received) < Len(sent) /\ m_CurrentPackageSize' = NextSize
    BY <1>3, <1>6, <2>2
  <2>8. 1 \in Nat /\ 1 <= Len(Bytes)
    BY <1>7
  <2> QED BY <1>2, <2>2, <2>3, <2>4, <2>5, <2>6, <2>7, <2>8, Waits
<1> QED BY <1>10, <1>12, <1>13

\* A turn of DeviceControlSocket's loop, whatever it finds.
LEMMA ControlTurnKeeps ==
  ASSUME Short, IInv, ControlTurn
  PROVE  IInv'
<1>1. Len(Bytes) \in Nat
  BY Facts
<1>2. Len(Bytes) = 0 \/ Head(Bytes) = 0 \/ (Len(Bytes) > 0 /\ Head(Bytes) # 0)
  BY <1>1
<1> QED BY <1>2, ControlSizeKnown, ControlNothing, ControlSizeRead, Zenon

\* A block is emitted once it is all there.
LEMMA DataEnds ==
  ASSUME Short, IInv, kind = "data", inSlot, ~closed, Len(received) < Len(sent), NextSize < Word,
         arrived' = <<>>, UNCHANGED <<kind, sent, wire, starts>>,
         EndTurn(NextSize, Bytes, NextSize >= HeaderSize /\ Len(Bytes) >= NextSize, Bytes)
  PROVE  IInv'
<1>1. PICK n \in Nat, size \in Nat, head \in Nat \ {0}, t \in {0, 1} : CurrentIs(n, size, head, t)
  BY Current
<1>2. kind = "data" /\ kind # "control"
  OBVIOUS
<1>3. /\ n = Len(received) /\ size = sent[n + 1] /\ head = HeaderSize /\ t = 0
      /\ Taken = starts[n + 1] + t
      /\ starts[Len(received) + 2] = Taken + (head + size - t)
      /\ \A i \in 1 .. head - t : Rest[i] = size
      /\ \A i \in 1 .. size : Rest[head - t + i] = -(n + 1)
  BY <1>1, <1>2, Zenon DEF CurrentIs, HeadSize
<1>4. PICK d \in Nat : d = size + head /\ d = NextSize /\ d >= HeaderSize /\ d # 0 /\ d < Word
  <2>1. NextSize = size + head
    BY <1>2, <1>3, Zenon DEF NextSize
  <2>2. size + head \in Nat /\ size + head >= head /\ size + head # 0
    OBVIOUS
  <2> QED BY <1>3, <2>1, <2>2
<1>5. PICK b \in Seq(Int), l \in Nat : b = Bytes /\ l = Len(b) /\ l = Len(Bytes)
  BY Facts
<1>6. EndTurn(d, b, d >= HeaderSize /\ Len(b) >= d, b)
  BY <1>4, <1>5, Zenon
<1>7. CASE l >= d
  <2>1. /\ received' = Append(received, b) /\ m_Bytes' = Drop(b, d)
        /\ m_CurrentPackageSize' = 0 /\ closed' = closed
        /\ inSlot' = GoesOn(0, m_Bytes')
    BY <1>4, <1>5, <1>6, <1>7, Zenon DEF EndTurn, Drop
  <2>2. Takes(d)
    BY <1>5, <2>1 DEF Takes
  <2>3. Taken + d = starts[Len(received) + 2]
    <3>1. head + size - t = d
      BY <1>3, <1>4
    <3> QED BY <1>3, <3>1, Zenon
  <2>4. Understood(b) = Body(Len(received) + 1, sent[Len(received) + 1])
    <3>1. Head(b) = size
      <4>1. 1 \in 1 .. head - t /\ 1 \in 1 .. l
        BY <1>3, <1>4, <1>7
      <4>2. b[1] = Rest[1] /\ Rest[1] = size
        BY <1>3, <1>5, <4>1, BytesComeFirst, Zenon
      <4>3. b # <<>>
        BY <1>5, <4>1
      <4> QED BY <4>2, <4>3
    <3>2. ASSUME NEW i \in 1 .. size
          PROVE  (IF HeaderSize + i <= Len(b) THEN b[HeaderSize + i] ELSE 0) = -(n + 1)
      <4>0. head + i \in 1 .. l /\ head - 0 + i = head + i
        BY <1>4, <1>7
      <4>1. head + i \in 1 .. l /\ head - t + i = head + i
        BY <1>3, <4>0, Zenon
      <4>2. b[head + i] = Rest[head + i] /\ Rest[head + i] = -(n + 1)
        BY <1>3, <1>5, <4>1, BytesComeFirst, Zenon
      <4>3. head + i <= l
        BY <4>1
      <4> QED BY <1>3, <1>5, <4>2, <4>3, Zenon
    <3>3. Understood(b) = [i \in 1 .. size |-> IF HeaderSize + i <= Len(b) THEN b[HeaderSize + i] ELSE 0]
      BY <1>2, <3>1, Zenon DEF Understood
    <3>4. Body(n + 1, size) = [i \in 1 .. size |-> -(n + 1)]
      BY Zenon DEF Body
    <3>5. Understood(b) = Body(n + 1, size)
      BY <3>2, <3>3, <3>4
    <3> QED BY <1>3, <3>5, Zenon
  <2>5. d <= Len(Bytes)
    BY <1>5, <1>7
  <2> QED BY <2>1, <2>2, <2>3, <2>4, <2>5, Emits
<1>8. CASE l < d
  <2>1. ~(Len(b) >= d)
    BY <1>5, <1>8
  <2>2. /\ received' = received /\ m_Bytes' = b
        /\ m_CurrentPackageSize' = d /\ closed' = closed
        /\ inSlot' = GoesOn(m_CurrentPackageSize', m_Bytes')
    BY <1>6, <2>1, Zenon DEF EndTurn
  <2>3. Takes(0)
    BY <1>5, <2>2, DropNone DEF Takes
  <2>4. Taken' = Taken + 0
    <3>1. Taken' = starts[Len(received) + 1] + 0 /\ Taken = starts[Len(received) + 1] + 0 /\ Taken \in Nat
      BY <1>2, <2>2, Facts, Zenon DEF Taken
    <3> QED BY <3>1
  <2>5. SizeInRange'
    <3>1. d \in 0 .. Word - 1 /\ d \notin 1 .. HeaderSize - 1
      BY <1>4, FramingAssumption
    <3> QED BY <1>2, <2>2, <3>1 DEF SizeInRange
  <2>6. m_CurrentPackageSize' # 0 => Len(m_Bytes') < m_CurrentPackageSize'
    BY <1>4, <1>5, <1>8, <2>2
  <2>7. m_CurrentPackageSize' # 0 => Len(received) < Len(sent) /\ m_CurrentPackageSize' = NextSize
    BY <1>4, <2>2
  <2>8. 0 \in Nat /\ 0 <= Len(Bytes)
    BY <1>5
  <2> QED BY <2>2, <2>3, <2>4, <2>5, <2>6, <2>7, <2>8, Waits
<1> QED BY <1>7, <1>8

\* A block whose size does not fit closes the socket.
LEMMA DataCloses ==
  ASSUME Short, IInv, kind = "data", inSlot, ~closed, Len(received) < Len(sent),
         sent[Len(received) + 1] + HeaderSize >= Word, arrived' = <<>>, UNCHANGED <<kind, sent, wire, starts, received>>,
         m_Bytes' = Bytes, closed' = TRUE, inSlot' = FALSE, m_CurrentPackageSize = 0,
         m_CurrentPackageSize' \in 0 .. Word - 1
  PROVE  IInv'
<1>1. kind = "data" /\ kind # "control"
  OBVIOUS
<1>2. Takes(0)
  BY DropNone, Facts DEF Takes
<1>3. Taken' = Taken + 0
  <2>1. Taken' = starts[Len(received) + 1] + 0 /\ Taken = starts[Len(received) + 1] + 0 /\ Taken \in Nat
    BY <1>1, Facts, Zenon DEF Taken
  <2> QED BY <2>1
<1>4. 0 \in Nat /\ 0 <= Len(Bytes)
  BY Facts
<1>5. /\ m_Bytes' \in Seq(Int)
      /\ Consecutive(Packages', starts') /\ Placed(Packages', starts', Rest', Taken')
  BY <1>2, <1>3, <1>4, Moves
<1>6. TypeOK'
  <2>1. received' \in Seq(Seq(Int)) /\ inSlot' \in BOOLEAN /\ closed' \in BOOLEAN
    BY Facts
  <2>2. SizeInRange'
    BY <1>1, Zenon DEF SizeInRange
  <2> QED BY <1>2, <1>5, <2>1, <2>2, TypesKept
<1>7. SizeIsNext'
  <2>1. Len(received') <= Len(sent') /\ Len(received') < Len(sent')
    BY Facts
  <2> QED BY <2>1, Zenon DEF SizeIsNext
<1>8. SlotWaits'
  BY Zenon DEF SlotWaits
<1>9. EachUnderstood'
  BY DEF IInv, EachUnderstood, Understood
<1> QED BY <1>5, <1>6, <1>7, <1>8, <1>9, Zenon DEF IInv

\* The sum of a block's size and the header's is below the word, or it wraps.
LEMMA Wraps ==
  ASSUME NEW a \in 0 .. Word - 1
  PROVE  /\ a + HeaderSize < Word => (a + HeaderSize) % Word = a + HeaderSize
         /\ a + HeaderSize >= Word => /\ (a + HeaderSize) % Word < HeaderSize
                                      /\ (a + HeaderSize) % Word \in 0 .. Word - 1
BY FramingAssumption

\* What a turn of the data loop makes of the size it knows or reads.
LEMMA DataTurnKeeps ==
  ASSUME Short, IInv, DataTurn
  PROVE  IInv'
<1>1. kind = "data" /\ kind # "control" /\ inSlot /\ arrived' = <<>> /\ UNCHANGED <<kind, sent, wire, starts>>
  BY DEF DataTurn
<1>2. ~closed
  BY <1>1 DEF IInv, SlotWaits
<1>3. PICK b \in Seq(Int), l \in Nat : b = Bytes /\ l = Len(b) /\ l = Len(Bytes)
  BY Facts
<1>4. PICK size : size = PackageSize(b)
  OBVIOUS
<1>5. \/ /\ m_CurrentPackageSize = 0 /\ l >= HeaderSize /\ size < HeaderSize
         /\ closed' = TRUE /\ inSlot' = FALSE /\ m_Bytes' = b /\ m_CurrentPackageSize' = size
         /\ received' = received
      \/ /\ m_CurrentPackageSize # 0 \/ l < HeaderSize \/ size >= HeaderSize
         /\ EndTurn(size, b, size >= HeaderSize /\ l >= size, b)
  BY <1>3, <1>4, Zenon DEF DataTurn, Bytes
<1>6. HeaderSize \in Nat \ {0} /\ Word \in Nat /\ HeaderSize < Word
  BY FramingAssumption
<1>7. ASSUME m_CurrentPackageSize # 0 \/ l > 0
      PROVE  /\ Len(received) < Len(sent) /\ Len(received) + 1 \in 1 .. Len(sent)
             /\ sent[Len(received) + 1] \in 0 .. Word - 1
             /\ NextSize = sent[Len(received) + 1] + HeaderSize
  <2>1. Len(received) < Len(sent) /\ Len(received) + 1 \in 1 .. Len(sent)
    BY <1>3, <1>7, SomethingLeft
  <2>2. NextSize = sent[Len(received) + 1] + HeaderSize
    BY <1>1, Zenon DEF NextSize
  <2>3. sent[Len(received) + 1] \in 0 .. Word - 1
    BY <1>1, <2>1, SentIs
  <2> QED BY <2>1, <2>2, <2>3
<1>8. CASE m_CurrentPackageSize # 0
  <2>1. size = m_CurrentPackageSize
    BY <1>4, <1>8, Zenon DEF PackageSize
  <2>2. m_CurrentPackageSize \in {0, NextSize}
    BY <1>1, <1>2, <1>7, <1>8, Zenon DEF IInv, SizeIsNext
  <2>3. size = NextSize /\ NextSize < Word
    <3>1. m_CurrentPackageSize \in 0 .. Word - 1
      BY <1>1, Zenon DEF IInv, TypeOK
    <3> QED BY <1>6, <1>8, <2>1, <2>2, <3>1
  <2>4. EndTurn(NextSize, Bytes, NextSize >= HeaderSize /\ Len(Bytes) >= NextSize, Bytes)
    BY <1>3, <1>5, <1>8, <2>3, Zenon
  <2> QED BY <1>1, <1>2, <1>7, <1>8, <2>3, <2>4, DataEnds
<1>9. CASE m_CurrentPackageSize = 0 /\ l < HeaderSize
  <2>1. size = 0
    BY <1>3, <1>4, <1>9, Zenon DEF PackageSize
  <2>2. ~(l >= HeaderSize) /\ ~(0 >= HeaderSize)
    BY <1>6, <1>9
  <2>3. EndTurn(0, b, 0 >= HeaderSize /\ l >= 0, b)
    BY <1>5, <2>1, <2>2, Zenon
  <2>4. /\ received' = received /\ m_Bytes' = b
        /\ m_CurrentPackageSize' = 0 /\ closed' = closed
        /\ inSlot' = GoesOn(m_CurrentPackageSize', m_Bytes')
    BY <2>2, <2>3, Zenon DEF EndTurn
  <2>5. Takes(0)
    BY <1>1, <1>3, <2>4, DropNone DEF Takes
  <2>6. Taken' = Taken + 0
    <3>1. Taken' = starts[Len(received) + 1] + 0 /\ Taken = starts[Len(received) + 1] + 0 /\ Taken \in Nat
      BY <1>1, <2>4, Facts, Zenon DEF Taken
    <3> QED BY <3>1
  <2>7. SizeInRange'
    <3>1. 0 \in 0 .. Word - 1 /\ 0 \notin 1 .. HeaderSize - 1
      BY <1>6
    <3> QED BY <1>1, <2>4, <3>1, Zenon DEF SizeInRange
  <2>8. m_CurrentPackageSize' # 0 => Len(m_Bytes') < m_CurrentPackageSize'
    <3>1. Limit = HeaderSize
      BY <1>1 DEF Limit
    <3> QED BY <1>3, <1>9, <2>4, <3>1
  <2>9. m_CurrentPackageSize' # 0 => Len(received) < Len(sent) /\ m_CurrentPackageSize' = NextSize
    BY <2>4
  <2>10. 0 \in Nat /\ 0 <= Len(Bytes)
    BY <1>3
  <2> QED BY <1>2, <2>4, <2>5, <2>6, <2>7, <2>8, <2>9, <2>10, Waits
<1>10. CASE m_CurrentPackageSize = 0 /\ l >= HeaderSize
  <2>1. l > 0
    BY <1>6, <1>10
  <2>2. PICK body \in 0 .. Word - 1 : body = sent[Len(received) + 1]
    BY <1>7, <2>1
  <2>3. Len(received) < Len(sent) /\ NextSize = body + HeaderSize
    BY <1>7, <2>1, <2>2, Zenon
  <2>4. Head(b) = body
    <3>1. PICK n \in Nat, s \in Nat, head \in Nat \ {0}, t \in {0, 1} : CurrentIs(n, s, head, t)
      BY <2>3, Current
    <3>2. /\ n = Len(received) /\ s = sent[n + 1] /\ t = 0
          /\ \A i \in 1 .. head - t : Rest[i] = s
      BY <1>1, <3>1, Zenon DEF CurrentIs
    <3>3. 1 \in 1 .. head - t /\ 1 \in 1 .. l
      BY <2>1, <3>2
    <3>4. b[1] = Rest[1] /\ Rest[1] = s
      BY <1>3, <3>2, <3>3, BytesComeFirst, Zenon
    <3>5. b # <<>>
      BY <1>3, <2>1
    <3> QED BY <2>2, <3>2, <3>4, <3>5
  <2>5. size = (body + HeaderSize) % Word
    <3>1. ~(Len(b) < HeaderSize)
      BY <1>3, <1>6, <1>10
    <3> QED BY <1>4, <1>10, <2>4, <3>1, Zenon DEF PackageSize
  <2>6. CASE body + HeaderSize < Word
    <3>1. size = body + HeaderSize
      BY <2>5, <2>6, Wraps
    <3>2. ~(size < HeaderSize) /\ NextSize = size /\ size < Word
      BY <1>6, <2>3, <2>6, <3>1
    <3>3. EndTurn(NextSize, Bytes, NextSize >= HeaderSize /\ Len(Bytes) >= NextSize, Bytes)
      BY <1>3, <1>5, <3>2, Zenon
    <3> QED BY <1>1, <1>2, <2>3, <3>2, <3>3, DataEnds
  <2>7. CASE body + HeaderSize >= Word
    <3>1. size < HeaderSize /\ size \in 0 .. Word - 1
      BY <2>5, <2>7, Wraps
    <3>2. ~(size >= HeaderSize) /\ ~(l < HeaderSize)
      BY <1>6, <1>10, <3>1
    <3>3. /\ closed' = TRUE /\ inSlot' = FALSE /\ m_Bytes' = b /\ m_CurrentPackageSize' = size
          /\ received' = received
      BY <1>5, <1>10, <3>2, Zenon
    <3>4. sent[Len(received) + 1] + HeaderSize >= Word
      BY <2>2, <2>7, Zenon
    <3> QED BY <1>1, <1>2, <1>3, <1>10, <2>3, <3>1, <3>3, <3>4, DataCloses
  <2> QED BY <1>6, <2>6, <2>7
<1>11. l < HeaderSize \/ l >= HeaderSize
  BY <1>6
<1> QED BY <1>8, <1>9, <1>10, <1>11, Zenon

-----------------------------------------------------------------------------
(* The other steps.                                                         *)

\* A package sent is appended to the stream.
LEMMA SendKeeps ==
  ASSUME Short, IInv, NEW size \in Sizes[kind], Send(size)
  PROVE  IInv'
<1>1. /\ ~closed /\ Len(sent) < MaxPackages[kind] /\ sent' = Append(sent, size)
      /\ wire' = wire \o Package(Len(sent) + 1, size)
      /\ starts' = Append(starts, starts[Len(starts)] + Len(Package(Len(sent) + 1, size)))
      /\ UNCHANGED <<kind, inSlot, arrived, m_Bytes, m_CurrentPackageSize, received, closed>>
  BY DEF Send
<1>2. PICK n \in Nat : n = Len(sent)
  BY Facts
<1>3. PICK p : p = Package(n + 1, size)
  OBVIOUS
<1>4. p \in Seq(Int)
  <2>1. IsPackage(Package(n + 1, size), n + 1, size, HeadSize)
    BY Facts, PackageIs
  <2> QED BY <1>3, <2>1 DEF IsPackage
<1>5. /\ sent' \in Seq(Sizes[kind]) /\ Len(sent') = n + 1 /\ sent'[n + 1] = size
      /\ \A k \in 1 .. n : sent'[k] = sent[k]
  <2>1. sent \in Seq(Sizes[kind])
    BY Facts
  <2> QED BY <1>1, <1>2, <2>1
<1>6. PICK last \in Nat, len \in Nat : last = starts[Len(starts)] /\ len = Len(p)
  <2>1. starts \in Seq(Nat) /\ Len(starts) = n + 1
    BY <1>2, Facts
  <2> QED BY <1>4, <2>1
<1>7. starts' = Append(starts, last + len) /\ wire' = wire \o p
  BY <1>1, <1>2, <1>3, <1>6, Zenon
<1>8. Packages' = Append(Packages, p)
  <2>1. Packages' = [k \in 1 .. n + 1 |-> Package(k, sent'[k])]
    <3>1. DOMAIN sent' = 1 .. n + 1
      BY <1>5
    <3>2. kind' = kind
      BY <1>1
    <3> QED BY <3>1, <3>2, Zenon DEF Packages, Package
  <2>2. Packages \in Seq(Seq(Int)) /\ Len(Packages) = n
    BY <1>2, Facts
  <2>3. \A k \in 1 .. n : Packages[k] = Package(k, sent[k])
    BY <1>2, SentIs
  <2>4. PICK all : all = Append(Packages, p)
    OBVIOUS
  <2>6. all \in Seq(Seq(Int)) /\ Len(all) = n + 1 /\ \A k \in 1 .. n + 1 : all[k] = IF k = n + 1 THEN p ELSE Packages[k]
    BY <1>4, <2>2, <2>4
  <2>5. ASSUME NEW k \in 1 .. n + 1 PROVE Package(k, sent'[k]) = IF k = n + 1 THEN p ELSE Packages[k]
    <3>1. CASE k = n + 1
      BY <1>3, <1>5, <3>1, Zenon
    <3>2. CASE k # n + 1
      <4>1. k \in 1 .. n
        BY <3>2
      <4> QED BY <1>5, <2>3, <3>2, <4>1, Zenon
    <3> QED BY <3>1, <3>2
  <2>7. ASSUME NEW k \in 1 .. n + 1 PROVE Packages'[k] = all[k] /\ Packages'[k] \in Seq(Int)
    <3>1. Packages'[k] = Package(k, sent'[k])
      BY <2>1
    <3>2. Packages'[k] = all[k]
      BY <2>5, <2>6, <3>1, Zenon
    <3>3. all[k] \in Seq(Int)
      BY <2>6
    <3> QED BY <3>2, <3>3, Zenon
  <2>8. Packages' \in Seq(Seq(Int)) /\ Len(Packages') = n + 1
    BY <2>1, <2>7
  <2>9. Packages' = all
    BY <2>6, <2>7, <2>8, SameSeqs
  <2> QED BY <2>4, <2>9
<1>9. /\ Bytes \in Seq(Int) /\ wire \in Seq(Int) /\ Rest = Bytes \o wire
      /\ m_Bytes \in Seq(Int) /\ arrived \in Seq(Int) /\ Rest \in Seq(Int)
  BY Facts
<1>10. Rest' = Rest \o p
  <2>1. Rest' = Bytes \o (wire \o p)
    BY <1>1, <1>7 DEF Rest, Bytes
  <2>2. (Bytes \o wire) \o p = Bytes \o (wire \o p)
    <3>1. Join(Join(Bytes, wire), p) = Join(Bytes, Join(wire, p))
      BY <1>4, <1>9, JoinedTwice
    <3> QED BY <3>1, Zenon DEF Join
  <2> QED BY <1>9, <2>1, <2>2, Zenon
<1>11. Taken' = Taken
  <2>1. Len(received) + 1 \in 1 .. Len(starts) /\ starts \in Seq(Nat)
    <3>1. Len(received) \in Nat /\ Len(received) <= n /\ Len(starts) = n + 1 /\ starts \in Seq(Nat)
      BY <1>2, Facts
    <3> QED BY <3>1
  <2>2. starts'[Len(received) + 1] = starts[Len(received) + 1]
    BY <1>7, <2>1
  <2> QED BY <1>1, <2>2, Zenon DEF Taken
<1>12. /\ Consecutive(Append(Packages, p), Append(starts, last + len))
       /\ Placed(Append(Packages, p), Append(starts, last + len), Rest \o p, Taken)
  <2>1. /\ Packages \in Seq(Seq(Int)) /\ starts \in Seq(Nat) /\ Taken \in Nat
        /\ Consecutive(Packages, starts) /\ Placed(Packages, starts, Rest, Taken)
    BY Facts
  <2>2. /\ Consecutive(Append(Packages, p), Append(starts, starts[Len(starts)] + Len(p)))
        /\ Placed(Append(Packages, p), Append(starts, starts[Len(starts)] + Len(p)), Rest \o p, Taken)
    BY <1>4, <1>9, <2>1, PlacedAppend
  <2> QED BY <1>6, <2>2, Zenon
<1>13. Consecutive(Packages', starts') /\ Placed(Packages', starts', Rest', Taken')
  BY <1>7, <1>8, <1>10, <1>11, <1>12, Zenon
<1>14. TypeOK'
  <2>1. Len(sent') <= MaxPackages[kind]
    <3>1. MaxPackages[kind] \in Nat
      BY Facts, FramingAssumption
    <3> QED BY <1>1, <1>2, <1>5, <3>1
  <2>2. wire' \in Seq(Int)
    BY <1>4, <1>7, <1>9, Joined
  <2>3. starts' \in Seq(Nat)
    <3>1. starts \in Seq(Nat) /\ last + len \in Nat
      BY Facts
    <3> QED BY <1>7, <3>1
  <2>4. TypeOK
    BY DEF IInv
  <2> QED BY <1>1, <1>5, <2>1, <2>2, <2>3, <2>4, Zenon DEF TypeOK
<1>15. SizeIsNext'
  <2>1. SizeIsNext
    BY DEF IInv
  <2>2. PICK r \in Nat : r = Len(received) /\ r <= n
    BY <1>2, Facts
  <2>3. Len(received') = r /\ Len(sent') = n + 1 /\ r <= n + 1 /\ r < n + 1
    BY <1>1, <1>5, <2>2
  <2>4. CASE r < n
    <3>1. sent'[r + 1] = sent[r + 1]
      BY <1>5, <2>4
    <3> QED BY <1>1, <1>2, <2>1, <2>2, <2>3, <2>4, <3>1, Zenon DEF SizeIsNext
  <2>5. CASE r = n
    <3>1. m_CurrentPackageSize' = 0 /\ ~closed'
      BY <1>1, <1>2, <2>2, <2>5, NothingLeft
    <3> QED BY <2>3, <3>1, Zenon DEF SizeIsNext
  <2> QED BY <2>2, <2>4, <2>5
<1>16. SlotWaits'
  BY <1>1, Zenon DEF IInv, SlotWaits
<1>17. EachUnderstood'
  <2>1. EachUnderstood
    BY DEF IInv
  <2>2. ASSUME NEW k \in DOMAIN received PROVE sent'[k] = sent[k]
    <3>1. Len(received) \in Nat /\ Len(received) <= n /\ DOMAIN received = 1 .. Len(received)
      BY <1>2, Facts
    <3>2. k \in 1 .. n
      BY <3>1
    <3> QED BY <1>5, <3>2
  <2>3. \A k \in DOMAIN received : Understood(received[k]) = Body(k, sent'[k])
    BY <2>1, <2>2, Zenon DEF EachUnderstood
  <2> QED BY <1>1, <2>3 DEF EachUnderstood, Understood
<1> QED BY <1>13, <1>14, <1>15, <1>16, <1>17, Zenon DEF IInv

\* Bytes that arrive stay where they are in the stream.
LEMMA ArriveKeeps ==
  ASSUME Short, IInv, NEW n \in 1 .. Len(wire), Arrive(n)
  PROVE  IInv'
<1>1. /\ ~inSlot /\ ~closed /\ n \in Nat /\ n <= Len(wire)
      /\ arrived' = arrived \o SubSeq(wire, 1, n) /\ wire' = SubSeq(wire, n + 1, Len(wire))
      /\ inSlot' = TRUE
      /\ UNCHANGED <<kind, sent, m_Bytes, m_CurrentPackageSize, received, closed, starts>>
  BY Facts DEF Arrive
<1>2. PICK a, w : a = SubSeq(wire, 1, n) /\ w = SubSeq(wire, n + 1, Len(wire))
  OBVIOUS
<1>3. a \in Seq(Int) /\ w \in Seq(Int) /\ a \o w = wire
  BY <1>1, <1>2, CutJoined, Facts
<1>4. arrived' = arrived \o a /\ wire' = w
  BY <1>1, <1>2
<1>5. /\ Bytes \in Seq(Int) /\ wire \in Seq(Int) /\ Rest = Bytes \o wire
      /\ m_Bytes \in Seq(Int) /\ arrived \in Seq(Int) /\ Rest \in Seq(Int)
  BY Facts
<1>6. Rest' = Rest
  <2>1. Rest' = (m_Bytes \o (arrived \o a)) \o w
    BY <1>1, <1>4 DEF Rest
  <2>2. m_Bytes \o (arrived \o a) = Bytes \o a
    <3>1. (m_Bytes \o arrived) \o a = m_Bytes \o (arrived \o a)
      <4>1. Join(Join(m_Bytes, arrived), a) = Join(m_Bytes, Join(arrived, a))
        BY <1>3, <1>5, JoinedTwice
      <4> QED BY <4>1, Zenon DEF Join
    <3> QED BY <3>1, Zenon DEF Bytes
  <2>3. (Bytes \o a) \o w = Bytes \o (a \o w)
    <3>1. Join(Join(Bytes, a), w) = Join(Bytes, Join(a, w))
      BY <1>3, <1>5, JoinedTwice
    <3> QED BY <3>1, Zenon DEF Join
  <2> QED BY <1>3, <1>5, <2>1, <2>2, <2>3, Zenon
<1>7. Taken' = Taken /\ Packages' = Packages
  BY <1>1, Zenon DEF Taken, Packages, Package
<1>8. Consecutive(Packages', starts') /\ Placed(Packages', starts', Rest', Taken')
  BY <1>1, <1>6, <1>7, Facts, Zenon
<1>9. TypeOK'
  <2>1. arrived' \in Seq(Int) /\ wire' \in Seq(Int)
    BY <1>3, <1>4, <1>5, Joined
  <2>2. TypeOK
    BY DEF IInv
  <2> QED BY <1>1, <2>1, <2>2, Zenon DEF TypeOK
<1>10. SizeIsNext'
  BY <1>1, Zenon DEF IInv, SizeIsNext
<1>11. SlotWaits'
  BY <1>1, Zenon DEF SlotWaits
<1>12. EachUnderstood'
  BY <1>1 DEF IInv, EachUnderstood, Understood
<1> QED BY <1>8, <1>9, <1>10, <1>11, <1>12, Zenon DEF IInv

\* Before the first package.
LEMMA InitInvariant ==
  ASSUME Short, Init
  PROVE  IInv
<1>1. /\ kind \in Kinds /\ sent = <<>> /\ wire = <<>> /\ arrived = <<>> /\ m_Bytes = <<>> /\ received = <<>>
      /\ inSlot = FALSE /\ closed = FALSE /\ m_CurrentPackageSize = 0 /\ starts = <<0>>
  BY DEF Init
<1>2. /\ HeaderSize \in Nat \ {0} /\ Word \in Nat /\ Word > HeaderSize /\ MaxPackages[kind] \in Nat
      /\ kind \in {"control", "data"}
  BY <1>1, FramingAssumption
<1>3. TypeOK
  <2>1. sent \in Seq(Sizes[kind]) /\ Len(sent) <= MaxPackages[kind]
    BY <1>1, <1>2
  <2>2. /\ wire \in Seq(Int) /\ arrived \in Seq(Int) /\ m_Bytes \in Seq(Int)
        /\ received \in Seq(Seq(Int)) /\ starts \in Seq(Nat)
    BY <1>1
  <2>3. 0 \in 0 .. 255 /\ 0 \in 0 .. Word - 1 /\ 0 \notin 1 .. HeaderSize - 1
    BY <1>2
  <2> QED BY <1>1, <2>1, <2>2, <2>3, Zenon DEF TypeOK
<1>4. SizeIsNext
  BY <1>1 DEF SizeIsNext
<1>5. SlotWaits
  BY <1>1, <1>2 DEF SlotWaits
<1>6. EachUnderstood
  BY <1>1 DEF EachUnderstood
<1>7. Packages = <<>> /\ Len(Packages) = 0
  BY <1>1 DEF Packages
<1>8. Consecutive(Packages, starts)
  BY <1>1, <1>7 DEF Consecutive
<1>9. Taken = 0
  BY <1>1 DEF Taken
<1>10. Len(Rest) = 0
  BY <1>1 DEF Rest
<1>11. Placed(Packages, starts, Rest, Taken)
  BY <1>1, <1>7, <1>9, <1>10 DEF Placed
<1> QED BY <1>3, <1>4, <1>5, <1>6, <1>8, <1>11 DEF IInv

\* Every step.
LEMMA StepInvariant ==
  ASSUME Short, IInv, [Next]_vars
  PROVE  IInv'
<1>1. ASSUME NEW size \in Sizes[kind], Send(size) PROVE IInv'
  BY <1>1, SendKeeps
<1>2. ASSUME NEW n \in 1 .. Len(wire), Arrive(n) PROVE IInv'
  BY <1>2, ArriveKeeps
<1>3. CASE Turn
  BY <1>3, ControlTurnKeeps, DataTurnKeeps DEF Turn
<1>4. CASE UNCHANGED vars
  BY <1>4 DEF vars, IInv, TypeOK, SizeIsNext, SlotWaits, EachUnderstood, Understood, Packages, Package,
             Rest, Taken
<1> QED BY <1>1, <1>2, <1>3, <1>4 DEF Next

-----------------------------------------------------------------------------
(* Theorems.                                                                *)

\* The bytes that are left are those of the stream from the place the slot has
\* got to, whatever is sent and wherever the stream is cut.
THEOREM Invariance == ASSUME Short PROVE Spec => []IInv
<1>1. Init => IInv
  BY InitInvariant
<1>2. IInv /\ [Next]_vars => IInv'
  BY StepInvariant
<1> QED BY <1>1, <1>2, PTL DEF Spec

\* OnReadMessage and OnReadData are given, in order, what was sent.
THEOREM ReceivedIsSent == ASSUME Short PROVE Spec => []ReceivedIsPrefix
<1>1. IInv => ReceivedIsPrefix
  <2> SUFFICES ASSUME IInv PROVE ReceivedIsPrefix
    OBVIOUS
  <2>1. PICK r \in Nat, n \in Nat : r = Len(received) /\ n = Len(sent) /\ r <= n
    BY Facts
  <2>2. DOMAIN received = 1 .. r /\ DOMAIN sent = 1 .. n
    BY <2>1, Facts
  <2>3. PICK read, bodies :
          read = [i \in 1 .. r |-> Understood(received[i])] /\ bodies = [k \in 1 .. n |-> Body(k, sent[k])]
    OBVIOUS
  <2>4. \A k \in 1 .. n : Body(k, sent[k]) \in Seq(Int)
    BY <2>1, SentIs DEF Body
  <2>5. bodies \in Seq(Seq(Int)) /\ Len(bodies) = n /\ \A k \in 1 .. r : bodies[k] = Body(k, sent[k])
    BY <2>1, <2>3, <2>4
  <2>6. \A k \in 1 .. r : Understood(received[k]) = Body(k, sent[k]) /\ k \in 1 .. n
    BY <2>1, <2>2 DEF IInv, EachUnderstood
  <2>7. read \in Seq(Seq(Int)) /\ Len(read) = r /\ \A k \in 1 .. r : read[k] = bodies[k]
    BY <2>1, <2>3, <2>4, <2>5, <2>6
  <2>8. SubSeq(read, 1, Len(read)) = SubSeq(bodies, 1, Len(read)) /\ Len(read) <= Len(bodies)
    <3>1. PICK x, y : x = SubSeq(read, 1, r) /\ y = SubSeq(bodies, 1, r)
      OBVIOUS
    <3>2. x \in Seq(Seq(Int)) /\ Len(x) = r /\ \A k \in 1 .. r : x[k] = read[k]
      BY <2>1, <2>7, <3>1
    <3>3. y \in Seq(Seq(Int)) /\ Len(y) = r /\ \A k \in 1 .. r : y[k] = bodies[k]
      BY <2>1, <2>5, <3>1
    <3>4. \A k \in 1 .. Len(x) : x[k] = y[k]
      BY <2>7, <3>2, <3>3, Zenon
    <3>5. x = y
      BY <3>2, <3>3, <3>4, SameSeqs
    <3> QED BY <2>1, <2>5, <2>7, <3>1, <3>5
  <2>9. IsPrefix(read, bodies)
    BY <2>8, Zenon DEF IsPrefix
  <2> QED BY <2>2, <2>3, <2>9, Zenon DEF ReceivedIsPrefix, Bodies
<1> QED BY <1>1, Invariance, PTL

\* One byte is left, the varint of an empty message: no package follows it.
LEMMA LastIsEmpty ==
  ASSUME Short, IInv, Len(received) < Len(sent), Len(Rest) = 1,
         NEW k \in Nat, NEW head \in Nat, NEW t \in Nat, CurrentIs(k, 0, head, t), head = 1, t = 0
  PROVE  Len(sent) = Len(received) + 1
<1>1. PICK n \in Nat, last \in Nat, place \in Nat :
        n = Len(sent) /\ last = starts[n + 1] /\ place = Taken /\ k = Len(received) /\ k < n
  <2>1. Len(sent) \in Nat /\ Len(starts) = Len(sent) + 1 /\ starts \in Seq(Nat) /\ Taken \in Nat
    BY Facts
  <2>2. starts[Len(sent) + 1] \in Nat
    BY <2>1
  <2> QED BY <2>1, <2>2, Zenon DEF CurrentIs
<1>2. last = place + 1
  BY <1>1, Facts DEF Placed
<1>3. starts[k + 2] = place + 1
  <2>1. starts[k + 2] = place + (1 + 0 - 0)
    BY <1>1, Zenon DEF CurrentIs
  <2> QED BY <2>1
<1>4. ASSUME k + 1 < n PROVE FALSE
  <2>1. PICK j \in 1 .. n : j = k + 2
    BY <1>1, <1>4
  <2>2. starts[j] + Len(Packages[j]) <= last
    <3>1. j \in 1 .. Len(Packages) /\ Len(starts) = n + 1
      BY <1>1, Facts
    <3>2. starts[j] + Len(Packages[j]) <= starts[Len(starts)]
      BY <3>1, Facts, PlaceOf, Zenon
    <3> QED BY <1>1, <3>1, <3>2, Zenon
  <2>3. Len(Packages[j]) \in Nat /\ Len(Packages[j]) >= 1
    <3>1. sent[j] \in Sizes[kind] /\ Packages[j] = Package(j, sent[j]) /\ j \in Nat
      BY <1>1, Facts, PackagesAre
    <3>2. IsPackage(Package(j, sent[j]), j, sent[j], HeadSize)
      BY <3>1, Facts, PackageIs
    <3>3. Len(Packages[j]) = HeadSize + sent[j] /\ HeadSize \in Nat \ {0} /\ sent[j] \in Nat
      BY <3>1, <3>2 DEF IsPackage
    <3> QED BY <3>3
  <2>4. starts[j] = place + 1
    BY <1>3, <2>1, Zenon
  <2>5. PICK len \in Nat : len = Len(Packages[j]) /\ len >= 1
    BY <2>3, Zenon
  <2>6. place + 1 + len <= place + 1
    BY <1>2, <2>2, <2>4, <2>5, Zenon
  <2>7. ASSUME NEW p \in Nat, NEW l \in Nat, l >= 1 PROVE ~(p + 1 + l <= p + 1)
    BY <2>7
  <2> QED BY <2>5, <2>6, <2>7, Zenon
<1> QED BY <1>1, <1>4

\* What has arrived is emitted when the slot is over, or the socket closed, but
\* for an empty message that is the last.
THEOREM NothingStaysBehind == ASSUME Short PROVE Spec => []AllIsEmitted
<1>1. IInv => AllIsEmitted
  <2> SUFFICES ASSUME IInv, wire = <<>>, ~inSlot
               PROVE  IF closed THEN \E k \in DOMAIN sent : sent[k] + HeaderSize >= Word
                      ELSE \/ Len(received) = Len(sent) /\ m_Bytes = <<>>
                           \/ EmptyNext /\ Len(sent) = Len(received) + 1 /\ Len(m_Bytes) = 1
    BY DEF AllIsEmitted
  <2>1. PICK r \in Nat, n \in Nat : r = Len(received) /\ n = Len(sent) /\ r <= n
    BY Facts
  <2>2. CASE closed
    <3>0. Len(received) < Len(sent) /\ sent[Len(received) + 1] + HeaderSize >= Word
      BY <2>2, Zenon DEF IInv, SizeIsNext
    <3>1. r + 1 \in 1 .. n /\ DOMAIN sent = 1 .. n
      <4>1. r < n
        BY <2>1, <3>0, Zenon
      <4>2. sent \in Seq(Sizes[kind])
        BY Facts, Zenon
      <4>3. DOMAIN sent = 1 .. Len(sent)
        BY <4>2
      <4>4. r + 1 \in 1 .. n
        BY <4>1
      <4> QED BY <2>1, <4>3, <4>4, Zenon
    <3>2. sent[r + 1] + HeaderSize >= Word
      BY <2>1, <3>0, Zenon
    <3> QED BY <2>2, <3>1, <3>2
  <2>3. CASE ~closed
    <3>1. m_Bytes \in Seq(Int) /\ Rest = m_Bytes
      <4>1. arrived = <<>>
        BY DEF IInv, SlotWaits
      <4>2. Bytes = m_Bytes /\ Rest = Bytes \o wire
        BY <4>1, JoinedNone, Facts DEF Bytes
      <4> QED BY <4>2, JoinedNone, Facts
    <3>2. Len(m_Bytes) < IF m_CurrentPackageSize # 0 THEN m_CurrentPackageSize ELSE Limit
      BY <2>3, Zenon DEF IInv, SlotWaits, Limit
    <3>3. CASE r < n
      <4>1. PICK k \in Nat, size \in Nat, head \in Nat \ {0}, t \in {0, 1} : CurrentIs(k, size, head, t)
        BY <2>1, <3>3, Current
      <4>2. /\ k = r /\ size = sent[k + 1] /\ head = HeadSize /\ Len(Rest) >= head + size - t
            /\ t = IF kind = "control" /\ m_CurrentPackageSize # 0 THEN 1 ELSE 0
            /\ kind = "control" => size \in 0 .. 127
        BY <2>1, <4>1, Zenon DEF CurrentIs
      <4>3. m_CurrentPackageSize \in {0, IF kind = "control" THEN size ELSE size + HeaderSize}
        BY <2>1, <2>3, <3>3, <4>2, Zenon DEF IInv, SizeIsNext
      <4>4. Len(m_Bytes) >= head + size - t /\ Len(m_Bytes) \in Nat
        BY <3>1, <4>2
      <4>5. CASE kind = "control"
        <5>1. head = 1 /\ Limit = 2 /\ size \in 0 .. 127
          BY <4>2, <4>5, Zenon DEF HeadSize, Limit
        <5>2. CASE m_CurrentPackageSize = 0
          <6>1. t = 0
            BY <4>2, <5>2, Zenon
          <6>2. size = 0 /\ Len(m_Bytes) = 1
            BY <3>2, <4>4, <5>1, <5>2, <6>1
          <6>3. Len(Rest) = 1 /\ Len(received) < Len(sent)
            BY <2>1, <3>1, <3>3, <6>2, Zenon
          <6>4. CurrentIs(k, 0, head, t)
            BY <4>1, <6>2, Zenon
          <6>5. Len(sent) = Len(received) + 1
            BY <5>1, <6>1, <6>3, <6>4, LastIsEmpty
          <6>6. EmptyNext
            BY <2>1, <4>2, <4>5, <6>2, <6>3, Zenon DEF EmptyNext
          <6> QED BY <2>3, <6>2, <6>5, <6>6, Zenon
        <5>3. CASE m_CurrentPackageSize # 0
          <6>1. t = 1 /\ m_CurrentPackageSize = size
            BY <4>2, <4>3, <4>5, <5>3, Zenon
          <6> QED BY <3>2, <4>4, <5>1, <5>3, <6>1
        <5> QED BY <5>2, <5>3
      <4>6. CASE kind # "control"
        BY <3>2, <4>2, <4>3, <4>4, <4>6, FramingAssumption DEF HeadSize, Limit
      <4> QED BY <4>5, <4>6
    <3>4. CASE r = n
      BY <2>1, <2>3, <3>1, <3>4, NothingLeft, Empty
    <3> QED BY <2>1, <3>3, <3>4
  <2> QED BY <2>2, <2>3
<1> QED BY <1>1, Invariance, PTL

=============================================================================
