---------------------------- MODULE UsbBulkProofs ----------------------------
(***************************************************************************)
(* What UsbBulk promises of the bytes on the bulk pipes, for packets,      *)
(* blocks, first writes and objects of any size, and any kind of device    *)
(* and library.                                                            *)
(*                                                                         *)
(* SendFramed.  What makes it inductive: what was sent is the packets of   *)
(* the writes before and of the current one up to where it has got to,     *)
(* which is a whole number of packets unless the file ends there.  The     *)
(* lemmas before it say what packets, and what is put together from them,  *)
(* are: FlattenSeq is a recursive function, whose values follow from its   *)
(* least counterexample.                                                   *)
(*                                                                         *)
(* DataExact and NothingLeft.  What makes them inductive is ReadInv: what  *)
(* is on the pipe is always a part of one answer.  If nothing disturbed    *)
(* it, it is what is left of the packets of the object behind what has     *)
(* been read (Undisturbed); if something did, it has no byte that says     *)
(* success (Silent), so that the call cannot return one.  That the host    *)
(* leaves nothing behind needs more: only the last packet begins as a      *)
(* response does (Tamed), and the others fit what is still to be read      *)
(* (Room), so that a read that fails has taken all there was.              *)
(***************************************************************************)
EXTENDS UsbPorts, SequenceTheorems, WellFoundedInduction, TLAPS

-----------------------------------------------------------------------------
\* Numbers.  Every set of numbers that has a member has a least one.
LEMMA Smallest ==
  ASSUME NEW T \in SUBSET Nat, T # {}
  PROVE  \E n \in T : \A m \in T : n <= m
<1> DEFINE less == {ss \in Nat \X Nat : ss[1] < ss[2]}
<1>1. IsWellFoundedOn(less, Nat)
  BY NatLessThanWellFounded DEF OpToRel
<1> HIDE DEF less
<1>2. PICK n \in T : \A m \in T : ~(<< m, n >> \in less)
  BY <1>1, WFMin
<1>3. ASSUME NEW m \in T PROVE n <= m
  <2>1. << m, n >> \in Nat \X Nat /\ ~(<< m, n >> \in less)
    BY <1>2
  <2>2. ~(m < n)
    BY <2>1 DEF less
  <2> QED
    BY <2>2
<1> QED
  BY <1>3

\* Quotient and remainder.
LEMMA Quotient ==
  ASSUME NEW p \in Nat \ {0}, NEW q \in Nat, NEW r \in 0 .. p - 1, NEW n \in Nat, n = q * p + r
  PROVE  n \div p = q /\ n % p = r
OBVIOUS

\* A number below the divisor is its own remainder.
LEMMA SmallDiv ==
  ASSUME NEW p \in Nat \ {0}, NEW b \in 0 .. p - 1
  PROVE  b \div p = 0 /\ b % p = b
OBVIOUS

\* Every natural number has a quotient and a remainder.
LEMMA DivMod ==
  ASSUME NEW n \in Nat, NEW p \in Nat \ {0}
  PROVE  \E q \in Nat, r \in 0 .. p - 1 : q = n \div p /\ r = n % p /\ n = q * p + r
<1>1. p \in Int /\ p > 0 /\ n \in Int
  OBVIOUS
<1>2. n % p \in 0 .. p - 1
  OBVIOUS
<1>3. n = (n \div p) * p + (n % p)
  BY <1>1
<1>4. n \div p \in Int
  BY p > 0
<1>5. n \div p >= 0
  BY p > 0
<1> QED
  BY <1>2, <1>3, <1>4, <1>5

\* Whole multiples add to the quotient and leave the remainder.
LEMMA DivAdd ==
  ASSUME NEW p \in Nat \ {0}, NEW k \in Nat, NEW b \in Nat
  PROVE  /\ k * p \in Nat
         /\ (k * p + b) \div p = k + b \div p
         /\ (k * p + b) % p = b % p
<1>1. PICK q \in Nat, r \in 0 .. p - 1 : q = b \div p /\ r = b % p /\ b = q * p + r
  BY DivMod
<1>2. (k + q) * p = k * p + q * p
  OBVIOUS
<1>3. k * p \in Nat /\ q * p \in Nat
  OBVIOUS
<1>4. PICK n \in Nat : n = k * p + b
  BY <1>3
<1>5. PICK j \in Nat : j = k + q
  OBVIOUS
<1>6. n = j * p + r
  BY <1>1, <1>2, <1>3, <1>4, <1>5
<1>7. n \div p = j /\ n % p = r
  BY <1>6, Quotient
<1> QED
  BY <1>1, <1>3, <1>4, <1>5, <1>7

-----------------------------------------------------------------------------
\* FlattenSeq.  The function it is defined with, as far as n, ...
Step(u, f, i) == IF i = 1 THEN u[i] ELSE f[i - 1] \o u[i]
UpTo(u, f, n) == f = [i \in 1 .. n |-> Step(u, f, i)]

\* ... can be extended by a step, ...
LEMMA UpToGrows ==
  ASSUME NEW u, NEW n \in Nat \ {0}, NEW f, UpTo(u, f, n - 1)
  PROVE  \E g : UpTo(u, g, n)
<1>0. PICK g : g = [i \in 1 .. n |-> IF i = n THEN Step(u, f, n) ELSE f[i]]
  OBVIOUS
<1>1. ASSUME NEW k \in 1 .. n PROVE g[k] = Step(u, g, k)
  <2>1. k # 1 => k - 1 \in 1 .. n - 1 /\ g[k - 1] = f[k - 1]
    BY <1>0
  <2>2. Step(u, g, k) = Step(u, f, k)
    BY <2>1 DEF Step
  <2>3. k # n => g[k] = f[k] /\ k \in 1 .. n - 1
    BY <1>0
  <2>4. k # n => f[k] = Step(u, f, k)
    BY <2>3 DEF UpTo
  <2>5. k = n => g[k] = Step(u, f, k)
    BY <1>0
  <2> QED
    BY <2>2, <2>3, <2>4, <2>5
<1>2. UpTo(u, g, n)
  BY <1>0, <1>1 DEF UpTo
<1> QED
  BY <1>2

\* ... hence there is one for every n, ...
LEMMA UpToExists ==
  ASSUME NEW u, NEW n \in Nat
  PROVE  \E f : UpTo(u, f, n)
<1> DEFINE bad == {k \in Nat : ~ \E f : UpTo(u, f, k)}
<1> SUFFICES ASSUME bad # {} PROVE FALSE
  OBVIOUS
<1>1. PICK k \in bad : \A m \in bad : k <= m
  BY Smallest
<1>2. k \in Nat /\ ~ \E f : UpTo(u, f, k)
  OBVIOUS
<1>3. k # 0
  <2>1. PICK f : f = [i \in 1 .. 0 |-> u]
    OBVIOUS
  <2>2. UpTo(u, f, 0)
    BY <2>1 DEF UpTo
  <2> QED
    BY <2>2, <1>2
<1>4. k - 1 \in Nat /\ k - 1 \notin bad
  BY <1>1, <1>2, <1>3
<1>5. PICK f : UpTo(u, f, k - 1)
  BY <1>4
<1>6. k \in Nat \ {0}
  BY <1>2, <1>3
<1> QED
  BY <1>2, <1>5, <1>6, UpToGrows

\* ... and FlattenSeq is what its recursive definition says.
LEMMA Flattens ==
  ASSUME NEW u, Len(u) \in Nat \ {0}
  PROVE  \E f : /\ FlattenSeq(u) = f[Len(u)]
                /\ \A i \in 1 .. Len(u) : f[i] = Step(u, f, i)
<1> DEFINE f == CHOOSE g : g = [i \in 1 .. Len(u) |-> Step(u, g, i)]
<1>1. UpTo(u, f, Len(u))
  BY UpToExists DEF UpTo
<1>2. FlattenSeq(u) = f[Len(u)]
  BY DEF FlattenSeq, Step
<1> HIDE DEF f
<1>3. \A i \in 1 .. Len(u) : f[i] = Step(u, f, i)
  BY <1>1 DEF UpTo
<1> QED
  BY <1>2, <1>3

Wire == Seq(Seq(Int))

\* Nothing put together is nothing, ...
LEMMA FlattenEmpty == FlattenSeq(<< >>) = << >>
BY DEF FlattenSeq

\* ... one packet is that packet, ...
LEMMA FlattenOne ==
  ASSUME NEW x \in Seq(Int)
  PROVE  FlattenSeq(<< x >>) = x
<1> DEFINE w == << x >>
<1>1. Len(w) = 1 /\ w[1] = x /\ 1 \in 1 .. 1 /\ 1 \in Nat \ {0}
  OBVIOUS
<1> HIDE DEF w
<1>2. PICK f : FlattenSeq(w) = f[1] /\ \A i \in 1 .. 1 : f[i] = Step(w, f, i)
  BY <1>1, Flattens
<1>3. f[1] = x
  BY <1>1, <1>2 DEF Step
<1> QED
  BY <1>2, <1>3 DEF w

\* ... and one more packet adds its bytes at the end.
LEMMA FlattenAppend ==
  ASSUME NEW u \in Wire, u # << >>, NEW x \in Seq(Int)
  PROVE  FlattenSeq(Append(u, x)) = FlattenSeq(u) \o x
<1> DEFINE n == Len(u)
           w == Append(u, x)
<1>1. n \in Nat \ {0} /\ Len(w) = n + 1 /\ w[n + 1] = x /\ \A i \in 1 .. n : w[i] = u[i]
  BY DEF Wire
<1>0. Len(w) \in Nat \ {0}
  BY <1>1
<1> HIDE DEF n, w
<1>2. PICK f : FlattenSeq(u) = f[n] /\ \A i \in 1 .. n : f[i] = Step(u, f, i)
  BY <1>1, Flattens DEF n
<1>3. PICK g : FlattenSeq(w) = g[n + 1] /\ \A i \in 1 .. n + 1 : g[i] = Step(w, g, i)
  <2>1. PICK g : FlattenSeq(w) = g[Len(w)] /\ \A i \in 1 .. Len(w) : g[i] = Step(w, g, i)
    BY <1>0, Flattens
  <2> QED
    BY <2>1, <1>1
<1> DEFINE bad == {i \in 1 .. n : f[i] # g[i]}
<1>4. bad = {}
  <2> SUFFICES ASSUME bad # {} PROVE FALSE
    OBVIOUS
  <2>1. bad \in SUBSET Nat
    BY <1>1
  <2>2. PICK k \in bad : \A m \in bad : k <= m
    BY <2>1, Smallest
  <2>3. k \in 1 .. n /\ f[k] # g[k] /\ k \in 1 .. n + 1
    BY <1>1
  <2>4. k # 1 => k - 1 \in 1 .. n /\ k - 1 \notin bad
    BY <2>2, <2>3, <1>1
  <2>5. k # 1 => f[k - 1] = g[k - 1]
    BY <2>4
  <2>6. Step(u, f, k) = Step(w, g, k)
    BY <2>3, <2>5, <1>1 DEF Step
  <2> QED
    BY <2>3, <2>6, <1>2, <1>3
<1>5. f[n] = g[n] /\ n + 1 \in 1 .. n + 1 /\ n + 1 # 1 /\ (n + 1) - 1 = n
  BY <1>1, <1>4
<1>6. g[n + 1] = g[n] \o x
  BY <1>1, <1>3, <1>5 DEF Step
<1> QED
  BY <1>2, <1>3, <1>5, <1>6 DEF w

\* What FlattenSeq does with a wire and one more packet, also an empty wire.
LEMMA FlattenMore ==
  ASSUME NEW u \in Wire, NEW x \in Seq(Int)
  PROVE  FlattenSeq(Append(u, x)) = FlattenSeq(u) \o x
<1>1. CASE u = << >>
  <2>1. Append(u, x) = << x >>
    BY <1>1
  <2> QED
    BY <1>1, <2>1, FlattenOne, FlattenEmpty
<1> QED
  BY <1>1, FlattenAppend

\* A wire is empty or has a last packet.
LEMMA LastOf ==
  ASSUME NEW u \in Wire, u # << >>
  PROVE  \E v \in Wire, x \in Seq(Int) : u = Append(v, x) /\ Len(u) = Len(v) + 1 /\ Len(v) \in Nat
<1>1. PICK v \in Wire, x \in Seq(Int) : u = Append(v, x)
  BY SequenceEmptyOrAppend DEF Wire
<1>2. Len(v) \in Nat /\ Len(u) = Len(v) + 1
  BY <1>1 DEF Wire
<1> QED
  BY <1>1, <1>2

\* Packets of bytes make bytes.
LEMMA FlattenType ==
  ASSUME NEW u \in Wire
  PROVE  FlattenSeq(u) \in Seq(Int)
<1> DEFINE bad == {n \in Nat : \E w \in Wire : Len(w) = n /\ FlattenSeq(w) \notin Seq(Int)}
<1>1. bad = {}
  <2> SUFFICES ASSUME bad # {} PROVE FALSE
    OBVIOUS
  <2>1. PICK n \in bad : \A m \in bad : n <= m
    BY Smallest
  <2>2. PICK w \in Wire : Len(w) = n /\ FlattenSeq(w) \notin Seq(Int)
    OBVIOUS
  <2>3. w # << >>
    BY <2>2, FlattenEmpty, EmptySeq
  <2>4. PICK v \in Wire, x \in Seq(Int) : w = Append(v, x) /\ Len(w) = Len(v) + 1
    BY <2>3, LastOf
  <2>5. Len(v) \in Nat /\ ~(n <= Len(v))
    BY <2>2, <2>4
  <2>5a. Len(v) \notin bad
    BY <2>1, <2>5
  <2>6. FlattenSeq(v) \in Seq(Int)
    BY <2>5, <2>5a
  <2>7. FlattenSeq(w) = FlattenSeq(v) \o x
    BY <2>4, FlattenMore
  <2> QED
    BY <2>2, <2>6, <2>7
<1>2. Len(u) \in Nat
  BY DEF Wire
<1>3. Len(u) \notin bad
  BY <1>1
<1> QED
  BY <1>2, <1>3

\* Concatenation of bytes is associative, ...
LEMMA Assoc ==
  ASSUME NEW a \in Seq(Int), NEW b \in Seq(Int), NEW c \in Seq(Int)
  PROVE  (a \o b) \o c = a \o (b \o c)
BY ConcatAssociative

\* Concatenation of packets is associative.
LEMMA Assoc3 ==
  ASSUME NEW a \in Wire, NEW b \in Wire, NEW c \in Wire
  PROVE  (a \o b) \o c = a \o (b \o c)
BY ConcatAssociative DEF Wire

\* A packet appended to the second part is appended to the whole.
LEMMA AppendConcat ==
  ASSUME NEW a \in Wire, NEW b \in Wire, NEW x \in Seq(Int)
  PROVE  Append(a \o b, x) = a \o Append(b, x)
<1>1. << x >> \in Wire /\ a \o b \in Wire
  BY DEF Wire
<1>2. Append(a \o b, x) = (a \o b) \o << x >> /\ Append(b, x) = b \o << x >>
  BY <1>1, AppendIsConcat DEF Wire
<1>3. (a \o b) \o << x >> = a \o (b \o << x >>)
  BY <1>1, ConcatAssociative DEF Wire
<1> QED
  BY <1>2, <1>3

\* The bytes of packets and more packets are those of the one and the other.
LEMMA FlattenConcat ==
  ASSUME NEW u \in Wire, NEW v \in Wire
  PROVE  FlattenSeq(u \o v) = FlattenSeq(u) \o FlattenSeq(v)
<1> DEFINE bad == {n \in Nat : \E w \in Wire : Len(w) = n /\ FlattenSeq(u \o w) # FlattenSeq(u) \o FlattenSeq(w)}
<1>1. bad = {}
  <2> SUFFICES ASSUME bad # {} PROVE FALSE
    OBVIOUS
  <2>1. PICK n \in bad : \A m \in bad : n <= m
    BY Smallest
  <2>2. PICK w \in Wire : Len(w) = n /\ FlattenSeq(u \o w) # FlattenSeq(u) \o FlattenSeq(w)
    OBVIOUS
  <2>3. w # << >>
    <3>1. u \o << >> = u
      BY DEF Wire
    <3>2. FlattenSeq(u) \o << >> = FlattenSeq(u)
      BY FlattenType
    <3> QED
      BY <3>1, <3>2, <2>2, FlattenEmpty
  <2>4. PICK y \in Wire, x \in Seq(Int) : w = Append(y, x) /\ Len(w) = Len(y) + 1
    BY <2>3, LastOf
  <2>5. Len(y) \in Nat /\ ~(n <= Len(y))
    BY <2>2, <2>4
  <2>5a. Len(y) \notin bad
    BY <2>1, <2>5
  <2>6. FlattenSeq(u \o y) = FlattenSeq(u) \o FlattenSeq(y)
    BY <2>5, <2>5a
  <2>7. u \o y \in Wire /\ u \o w = Append(u \o y, x)
    <3>1. u \o y \in Wire
      BY DEF Wire
    <3>2. Append(u \o y, x) = u \o Append(y, x)
      BY AppendConcat
    <3> QED
      BY <2>4, <3>1, <3>2
  <2>8. FlattenSeq(u \o w) = (FlattenSeq(u) \o FlattenSeq(y)) \o x
    BY <2>6, <2>7, FlattenMore
  <2>9. FlattenSeq(w) = FlattenSeq(y) \o x
    BY <2>4, FlattenMore
  <2>10. FlattenSeq(u) \in Seq(Int) /\ FlattenSeq(y) \in Seq(Int)
    BY FlattenType
  <2>11. (FlattenSeq(u) \o FlattenSeq(y)) \o x = FlattenSeq(u) \o (FlattenSeq(y) \o x)
    <3>1. x \in Seq(Int)
      BY <2>4
    <3> QED
      BY <3>1, <2>10, Assoc
  <2> QED
    BY <2>2, <2>8, <2>9, <2>11
<1>2. Len(v) \in Nat
  BY DEF Wire
<1>3. Len(v) \notin bad
  BY <1>1
<1> QED
  BY <1>2, <1>3

-----------------------------------------------------------------------------
\* Slices: what lies between two places of a sequence.
Slice(s, a, b) == SubSeq(s, a + 1, b)

\* A slice has the bytes from the one place to the other.
LEMMA SliceFacts ==
  ASSUME NEW s \in Seq(Int), NEW a \in Nat, NEW b \in Nat, a <= b, b <= Len(s)
  PROVE  /\ Slice(s, a, b) \in Seq(Int) /\ Len(Slice(s, a, b)) = b - a
         /\ \A i \in 1 .. b - a : Slice(s, a, b)[i] = s[a + i]
<1>1. a + 1 \in Int /\ b \in Int /\ Len(s) \in Nat /\ \A i \in a + 1 .. b : s[i] \in Int
  OBVIOUS
<1>2. /\ SubSeq(s, a + 1, b) \in Seq(Int)
      /\ Len(SubSeq(s, a + 1, b)) = IF a + 1 <= b THEN b - (a + 1) + 1 ELSE 0
      /\ \A i \in 1 .. b - (a + 1) + 1 : SubSeq(s, a + 1, b)[i] = s[(a + 1) + i - 1]
  BY <1>1, SubSeqProperties
<1>3. Len(SubSeq(s, a + 1, b)) = b - a
  BY <1>2
<1>4. ASSUME NEW i \in 1 .. b - a PROVE SubSeq(s, a + 1, b)[i] = s[a + i]
  <2>1. i \in 1 .. b - (a + 1) + 1 /\ (a + 1) + i - 1 = a + i
    OBVIOUS
  <2> QED
    BY <2>1, <1>2
<1> QED
  BY <1>2, <1>3, <1>4 DEF Slice

\* Slices that meet make one.
LEMMA SliceJoin ==
  ASSUME NEW s \in Seq(Int), NEW a \in Nat, NEW b \in Nat, NEW c \in Nat, a <= b, b <= c, c <= Len(s)
  PROVE  Slice(s, a, b) \o Slice(s, b, c) = Slice(s, a, c)
<1>1. PICK m \in Nat, l \in Nat : m = a + 1 /\ l = Len(s) /\ c <= l
  OBVIOUS
<1>2. m \in 1 .. l + 1 /\ b \in m - 1 .. l /\ c \in b .. l
  BY <1>1
<1>3. m \in 1 .. Len(s) + 1 /\ b \in m - 1 .. Len(s) /\ c \in b .. Len(s)
  BY <1>1, <1>2
<1>4. SubSeq(s, m, b) \o SubSeq(s, b + 1, c) = SubSeq(s, m, c)
  BY <1>3, ConcatAdjacentSubSeq
<1> QED
  BY <1>1, <1>4 DEF Slice

\* A slice of a slice is a slice.
LEMMA SliceOfSlice ==
  ASSUME NEW s \in Seq(Int), NEW a \in Nat, NEW b \in Nat, a <= b, b <= Len(s),
         NEW i \in Nat, NEW j \in Nat, i <= j, j <= b - a
  PROVE  Slice(Slice(s, a, b), i, j) = Slice(s, a + i, a + j)
<1> DEFINE t == Slice(s, a, b)
<1>1. t \in Seq(Int) /\ Len(t) = b - a /\ \A n \in 1 .. b - a : t[n] = s[a + n]
  BY SliceFacts
<1> HIDE DEF t
<1>2. Slice(t, i, j) \in Seq(Int) /\ Len(Slice(t, i, j)) = j - i /\ \A n \in 1 .. j - i : Slice(t, i, j)[n] = t[i + n]
  BY <1>1, SliceFacts
<1>3. PICK x \in Nat, y \in Nat : x = a + i /\ y = a + j /\ x <= y /\ y <= Len(s) /\ y - x = j - i
  BY <1>1
<1>4a. /\ Slice(s, x, y) \in Seq(Int) /\ Len(Slice(s, x, y)) = y - x
      /\ \A n \in 1 .. y - x : Slice(s, x, y)[n] = s[x + n]
  <2>1. s \in Seq(Int) /\ x \in Nat /\ y \in Nat /\ x <= y /\ y <= Len(s)
    BY <1>3
  <2> QED
    BY <2>1, SliceFacts
<1>4. /\ Slice(s, a + i, a + j) \in Seq(Int) /\ Len(Slice(s, a + i, a + j)) = j - i
      /\ \A n \in 1 .. j - i : Slice(s, a + i, a + j)[n] = s[(a + i) + n]
  BY <1>3, <1>4a
<1>5. ASSUME NEW n \in 1 .. j - i PROVE Slice(t, i, j)[n] = Slice(s, a + i, a + j)[n]
  <2>1. i + n \in 1 .. b - a /\ a + (i + n) = (a + i) + n
    OBVIOUS
  <2> QED
    BY <2>1, <1>1, <1>2, <1>4
<1> QED
  BY <1>2, <1>4, <1>5, SeqEqual DEF t

\* The slice from end to end is everything, ...
LEMMA SliceAll ==
  ASSUME NEW s \in Seq(Int)
  PROVE  Slice(s, 0, Len(s)) = s
BY SubSeqFull DEF Slice

\* ... and the one from a place to itself nothing.
LEMMA SliceNone ==
  ASSUME NEW s, NEW a \in Nat
  PROVE  Slice(s, a, a) = << >>
BY SubSeqEmpty DEF Slice

\* Two slices that meet make the whole, behind whatever comes first.
LEMMA CutInTwo ==
  ASSUME NEW s \in Seq(Int), NEW b \in Nat, b <= Len(s), NEW h \in Seq(Int)
  PROVE  (h \o Slice(s, 0, b)) \o Slice(s, b, Len(s)) = h \o s
<1>0. Len(s) \in Nat /\ 0 \in Nat /\ 0 <= b
  OBVIOUS
<1>1. PICK z \in Nat, l \in Nat : z = 0 /\ l = Len(s) /\ z <= b /\ b <= l
  BY <1>0
<1>2. Slice(s, z, b) \o Slice(s, b, l) = Slice(s, z, l)
  <2>1. z <= b /\ b <= l /\ l <= Len(s)
    BY <1>1
  <2> QED
    BY <2>1, SliceJoin
<1>3. Slice(s, z, b) \in Seq(Int) /\ Slice(s, b, l) \in Seq(Int)
  BY <1>1, SliceFacts
<1>4. (h \o Slice(s, z, b)) \o Slice(s, b, l) = h \o (Slice(s, z, b) \o Slice(s, b, l))
  BY <1>3, Assoc
<1>5. Slice(s, z, l) = s
  BY <1>1, SliceAll
<1> QED
  BY <1>1, <1>2, <1>4, <1>5

-----------------------------------------------------------------------------
\* Packets.
LEMMA Sizing == /\ Packet \in Nat /\ Packet > 0 /\ HdrLen \in Nat /\ HdrLen > 0
                /\ First \in Nat /\ First > 0 /\ 2 * HdrLen < Packet
BY SizeAssumption

\* A packet has room for a byte.
LEMMA Positive == Packet \in Nat \ {0}
BY SizeAssumption

\* More packets have more bytes.
LEMMA Mono ==
  ASSUME NEW a \in Nat, NEW b \in Nat, a <= b, NEW p \in Nat
  PROVE  a * p <= b * p
OBVIOUS

\* How many packets n bytes make.
LEMMA PacketCount ==
  ASSUME NEW n \in Nat
  PROVE  \E c \in Nat : /\ c = (n + Packet - 1) \div Packet
                        /\ n <= c * Packet /\ c * Packet < n + Packet
                        /\ \A i \in 1 .. c : i * Packet \in Nat /\ (i - 1) * Packet \in Nat
                                            /\ (i - 1) * Packet < n /\ i * Packet = (i - 1) * Packet + Packet
                                            /\ (i < c => i * Packet < n)
<1>1. PICK m \in Nat : m = n + Packet - 1
  BY Sizing
<1>2. PICK c \in Nat, r \in 0 .. Packet - 1 : c = m \div Packet /\ m = c * Packet + r
  BY Sizing, DivMod
<1>3. c * Packet \in Nat
  BY Sizing
<1>4. n <= c * Packet /\ c * Packet < n + Packet
  BY <1>1, <1>2, <1>3, Sizing
<1>5. ASSUME NEW i \in 1 .. c
      PROVE  /\ i * Packet \in Nat /\ (i - 1) * Packet \in Nat /\ (i - 1) * Packet < n
             /\ i * Packet = (i - 1) * Packet + Packet /\ (i < c => i * Packet < n)
  <2>1. i \in Nat /\ i - 1 \in Nat /\ i <= c /\ c - 1 \in Nat
    OBVIOUS
  <2>2. i * Packet \in Nat /\ (i - 1) * Packet \in Nat /\ i * Packet = (i - 1) * Packet + Packet
    BY <2>1, Sizing
  <2>3. i * Packet <= c * Packet
    BY <2>1, Mono, Sizing
  <2>4. (i - 1) * Packet < n
    BY <2>2, <2>3, <1>3, <1>4, Sizing
  <2>5. ASSUME i < c PROVE i * Packet < n
    <3>1. i <= c - 1 /\ (c - 1) * Packet = c * Packet - Packet
      BY <2>1, <2>5, Sizing
    <3>2. i * Packet <= (c - 1) * Packet
      BY <2>1, <3>1, Mono, Sizing
    <3> QED
      BY <3>1, <3>2, <2>2, <1>3, <1>4, Sizing
  <2> QED
    BY <2>2, <2>4, <2>5
<1> QED
  BY <1>1, <1>2, <1>4, <1>5

\* A transfer's packets are full, but for the last.
LEMMA PacketsShape ==
  ASSUME NEW s \in Seq(Int)
  PROVE  \E c \in Nat :
           /\ Len(s) <= c * Packet /\ c * Packet < Len(s) + Packet /\ c * Packet \in Nat
           /\ Packets(s) \in Wire /\ Len(Packets(s)) = c /\ (c = (Len(s) + Packet - 1) \div Packet)
           /\ \A i \in 1 .. c :
                /\ Packets(s)[i] = SubSeq(s, (i - 1) * Packet + 1, Least(i * Packet, Len(s)))
                /\ Packets(s)[i] \in Seq(Int)
                /\ (i - 1) * Packet \in Nat /\ (i - 1) * Packet < Len(s)
                /\ Len(Packets(s)[i]) = Least(Packet, Len(s) - (i - 1) * Packet)
                /\ \A j \in 1 .. Len(Packets(s)[i]) : Packets(s)[i][j] = s[(i - 1) * Packet + j]
                /\ i < c => Len(Packets(s)[i]) = Packet /\ i * Packet < Len(s)
<1>1. Len(s) \in Nat
  OBVIOUS
<1>2. PICK c \in Nat : /\ c = (Len(s) + Packet - 1) \div Packet
                       /\ Len(s) <= c * Packet /\ c * Packet < Len(s) + Packet
                       /\ \A i \in 1 .. c : i * Packet \in Nat /\ (i - 1) * Packet \in Nat
                                            /\ (i - 1) * Packet < Len(s) /\ i * Packet = (i - 1) * Packet + Packet
                                            /\ (i < c => i * Packet < Len(s))
  BY <1>1, PacketCount
<1>3. Packets(s) = [i \in 1 .. c |-> SubSeq(s, (i - 1) * Packet + 1, Least(i * Packet, Len(s)))]
  BY <1>2 DEF Packets
<1>4. ASSUME NEW i \in 1 .. c
      PROVE  /\ Packets(s)[i] = SubSeq(s, (i - 1) * Packet + 1, Least(i * Packet, Len(s)))
             /\ Packets(s)[i] \in Seq(Int)
             /\ Len(Packets(s)[i]) = Least(Packet, Len(s) - (i - 1) * Packet)
             /\ \A j \in 1 .. Len(Packets(s)[i]) : Packets(s)[i][j] = s[(i - 1) * Packet + j]
             /\ (i < c => Len(Packets(s)[i]) = Packet)
  <2>1. Packets(s)[i] = SubSeq(s, (i - 1) * Packet + 1, Least(i * Packet, Len(s)))
    BY <1>3
  <2>2. PICK a \in Nat, b \in Nat : /\ a = (i - 1) * Packet /\ b = Least(i * Packet, Len(s))
                                     /\ a < b /\ b <= Len(s) /\ b - a = Least(Packet, Len(s) - a)
                                     /\ (i < c => b - a = Packet)
    <3>1. PICK a \in Nat, e \in Nat : /\ a = (i - 1) * Packet /\ e = i * Packet
                                       /\ a < Len(s) /\ e = a + Packet /\ (i < c => e < Len(s))
      BY <1>2
    <3>2. PICK b \in Nat : b = IF e <= Len(s) THEN e ELSE Len(s)
      BY <1>1
    <3>3. a < b /\ b <= Len(s) /\ b - a = Least(Packet, Len(s) - a) /\ (i < c => b - a = Packet)
      <4>1. PICK l \in Nat : l = Len(s)
        BY <1>1
      <4>2. PICK p \in Nat : p = Packet /\ p > 0
        BY Sizing
      <4>3. a \in Nat /\ e \in Nat /\ a < l /\ e = a + p /\ (i < c => e < l) /\ b = IF e <= l THEN e ELSE l
        BY <3>1, <3>2, <4>1, <4>2
      <4>4. a < b /\ b <= l /\ b - a = IF p <= l - a THEN p ELSE l - a
        BY <4>1, <4>2, <4>3
      <4>5. i < c => b - a = p
        BY <4>1, <4>2, <4>3
      <4> QED
        BY <4>1, <4>2, <4>4, <4>5 DEF Least
    <3> QED
      BY <3>1, <3>2, <3>3 DEF Least
  <2>3. Packets(s)[i] = SubSeq(s, a + 1, b)
    BY <2>1, <2>2
  <2>4. SubSeq(s, a + 1, b) \in Seq(Int) /\ Len(SubSeq(s, a + 1, b)) = b - a
        /\ \A j \in 1 .. b - a : SubSeq(s, a + 1, b)[j] = s[a + j]
    <3>1. a <= b /\ b <= Len(s)
      BY <2>2
    <3> QED
      BY <3>1, SliceFacts DEF Slice
  <2> QED
    BY <2>1, <2>2, <2>3, <2>4
<1>5. Packets(s) \in Wire /\ Len(Packets(s)) = c
  BY <1>3, <1>4 DEF Wire
<1>6. c * Packet \in Nat
  BY Sizing
<1> QED
  BY <1>2, <1>4, <1>5, <1>6

\* No bytes, no packets.
LEMMA PacketsEmpty == Packets(<< >>) = << >>
<1>1. << >> \in Seq(Int) /\ Len(<< >>) = 0
  OBVIOUS
<1>2. PICK c \in Nat : Packets(<< >>) \in Wire /\ Len(Packets(<< >>)) = c /\ \A i \in 1 .. c : (i - 1) * Packet \in Nat /\ (i - 1) * Packet < Len(<< >>)
  BY <1>1, PacketsShape
<1>3. c = 0
  <2> SUFFICES ASSUME c # 0 PROVE FALSE
    OBVIOUS
  <2>1. 1 \in 1 .. c
    OBVIOUS
  <2> QED
    BY <2>1, <1>1, <1>2
<1> QED
  BY <1>2, <1>3, EmptySeq DEF Wire

\* What fits a packet is one packet.
LEMMA PacketsOne ==
  ASSUME NEW s \in Seq(Int), 0 < Len(s), Len(s) <= Packet
  PROVE  Packets(s) = << s >>
<1>1. Len(s) \in Nat
  OBVIOUS
<1>2. PICK c \in Nat : /\ Len(s) <= c * Packet /\ c * Packet < Len(s) + Packet /\ c * Packet \in Nat
                       /\ Packets(s) \in Wire /\ Len(Packets(s)) = c
                       /\ \A i \in 1 .. c : /\ Packets(s)[i] \in Seq(Int)
                                            /\ Len(Packets(s)[i]) = Least(Packet, Len(s) - (i - 1) * Packet)
                                            /\ \A j \in 1 .. Len(Packets(s)[i]) : Packets(s)[i][j] = s[(i - 1) * Packet + j]
  BY PacketsShape
<1>3. c # 0
  BY <1>1, <1>2, Sizing
<1>4. ~(2 <= c)
  <2> SUFFICES ASSUME 2 <= c PROVE FALSE
    OBVIOUS
  <2>1. 2 * Packet <= c * Packet
    BY Mono, Sizing
  <2>2. PICK m \in Nat, l \in Nat, p \in Nat : m = c * Packet /\ l = Len(s) /\ p = Packet /\ l <= p /\ m < l + p
    BY <1>1, <1>2, Sizing
  <2>3. 2 * p <= m
    BY <2>1, <2>2
  <2> QED
    BY <2>2, <2>3
<1>5. c = 1 /\ 1 \in 1 .. c
  BY <1>3, <1>4
<1>6. (1 - 1) * Packet = 0
  BY Sizing
<1>7. Packets(s)[1] = s
  <2>0. PICK z \in Nat : z = 0 /\ (1 - 1) * Packet = z
    BY <1>6
  <2>0a. /\ Packets(s)[1] \in Seq(Int) /\ Len(Packets(s)[1]) = Least(Packet, Len(s) - z)
         /\ \A j \in 1 .. Len(Packets(s)[1]) : Packets(s)[1][j] = s[z + j]
    BY <1>2, <1>5, <2>0
  <2>1. Packets(s)[1] \in Seq(Int) /\ Len(Packets(s)[1]) = Len(s)
    <3>1. Least(Packet, Len(s) - z) = Len(s)
      BY <1>1, <2>0, Sizing DEF Least
    <3> QED
      BY <2>0a, <3>1
  <2>2. \A j \in 1 .. Len(s) : Packets(s)[1][j] = s[j]
    <3>1. \A j \in 1 .. Len(s) : z + j = j
      BY <2>0
    <3> QED
      BY <2>0a, <2>1, <3>1
  <2> QED
    BY <2>1, <2>2, SeqEqual
<1> QED
  BY <1>2, <1>5, <1>7 DEF Wire

\* Whole packets have as many bytes as a multiple of Packet.
LEMMA FullTimes ==
  ASSUME NEW s \in Seq(Int), Full(s)
  PROVE  \E k \in Nat : Len(s) = k * Packet
<1>1. Len(s) \in Nat /\ Packet \in Nat \ {0}
  BY Sizing
<1>2. PICK q \in Nat, r \in 0 .. Packet - 1 : r = Len(s) % Packet /\ Len(s) = q * Packet + r
  BY <1>1, DivMod
<1>3. r = 0
  BY <1>2 DEF Full
<1>4. q * Packet \in Nat
  BY <1>1
<1> QED
  BY <1>2, <1>3, <1>4

\* ... and the other way round.
LEMMA TimesFull ==
  ASSUME NEW k \in Nat
  PROVE  k * Packet \in Nat /\ (k * Packet) % Packet = 0 /\ (k * Packet) \div Packet = k
<1>1. Packet \in Nat \ {0} /\ 0 \in 0 .. Packet - 1
  BY Sizing
<1>2. PICK n \in Nat : n = k * Packet + 0
  BY <1>1
<1>3. n \div Packet = k /\ n % Packet = 0
  BY <1>1, <1>2, Quotient
<1>4. k * Packet \in Nat
  BY <1>1
<1> QED
  BY <1>2, <1>3, <1>4

\* Behind whole packets a transfer is cut as it would be alone.
LEMMA PacketsAppend ==
  ASSUME NEW s \in Seq(Int), NEW t \in Seq(Int), Full(s)
  PROVE  Packets(s \o t) = Packets(s) \o Packets(t)
<1> DEFINE st == s \o t
<1>1. /\ Len(s) \in Nat /\ Len(t) \in Nat /\ st \in Seq(Int) /\ Len(st) = Len(s) + Len(t)
      /\ \A i \in 1 .. Len(s) + Len(t) : st[i] = IF i <= Len(s) THEN s[i] ELSE t[i - Len(s)]
  BY ConcatProperties
<1>0. Len(s) \in Nat /\ Len(t) \in Nat /\ Len(st) = Len(s) + Len(t)
  BY <1>1
<1>2. PICK k \in Nat : Len(s) = k * Packet
  BY FullTimes
<1> HIDE DEF st
<1>3. PICK cs \in Nat : /\ Packets(s) \in Wire /\ Len(Packets(s)) = cs /\ cs = (Len(s) + Packet - 1) \div Packet
                        /\ \A i \in 1 .. cs :
                             /\ Packets(s)[i] \in Seq(Int) /\ (i - 1) * Packet \in Nat /\ (i - 1) * Packet < Len(s)
                             /\ Len(Packets(s)[i]) = Least(Packet, Len(s) - (i - 1) * Packet)
                             /\ \A j \in 1 .. Len(Packets(s)[i]) : Packets(s)[i][j] = s[(i - 1) * Packet + j]
  BY PacketsShape
<1>4. PICK ct \in Nat : /\ Packets(t) \in Wire /\ Len(Packets(t)) = ct /\ ct = (Len(t) + Packet - 1) \div Packet
                        /\ \A i \in 1 .. ct :
                             /\ Packets(t)[i] \in Seq(Int) /\ (i - 1) * Packet \in Nat /\ (i - 1) * Packet < Len(t)
                             /\ Len(Packets(t)[i]) = Least(Packet, Len(t) - (i - 1) * Packet)
                             /\ \A j \in 1 .. Len(Packets(t)[i]) : Packets(t)[i][j] = t[(i - 1) * Packet + j]
  BY PacketsShape
<1>5. PICK c \in Nat : /\ Packets(st) \in Wire /\ Len(Packets(st)) = c /\ c = (Len(st) + Packet - 1) \div Packet
                       /\ \A i \in 1 .. c :
                             /\ Packets(st)[i] \in Seq(Int) /\ (i - 1) * Packet \in Nat /\ (i - 1) * Packet < Len(st)
                             /\ Len(Packets(st)[i]) = Least(Packet, Len(st) - (i - 1) * Packet)
                             /\ \A j \in 1 .. Len(Packets(st)[i]) : Packets(st)[i][j] = st[(i - 1) * Packet + j]
  <2>1. st \in Seq(Int)
    BY <1>1
  <2> QED
    BY <2>1, PacketsShape
<1>6. cs = k
  <2>1. PICK b \in Nat : b = Packet - 1
    BY Sizing
  <2>2. b \div Packet = 0
    <3>1. b \in 0 .. Packet - 1
      BY <2>1, Sizing
    <3> QED
      BY <3>1, Positive, SmallDiv
  <2>3. (k * Packet + b) \div Packet = k + 0
    <3>1. (k * Packet + b) \div Packet = k + b \div Packet
      BY <2>1, <1>2, DivAdd, Positive
    <3> QED
      BY <3>1, <2>2
  <2>4. k * Packet \in Nat /\ k * Packet + Packet - 1 = k * Packet + b
    BY <2>1, Sizing
  <2> QED
    BY <2>3, <2>4, <1>2, <1>3
<1>7. c = k + ct
  <2>1. PICK b \in Nat : b = Len(t) + Packet - 1
    <3>1. Len(t) + Packet - 1 \in Nat
      BY <1>0, Sizing
    <3> QED
      BY <3>1
  <2>2. (k * Packet + b) \div Packet = k + b \div Packet
    BY <2>1, DivAdd, Positive
  <2>3. k * Packet \in Nat
    BY Sizing
  <2>4. Len(st) + Packet - 1 = k * Packet + b
    BY <2>1, <2>3, <1>1, <1>2, Sizing
  <2> QED
    BY <2>1, <2>2, <2>4, <1>4, <1>5
<1>8. ASSUME NEW i \in 1 .. k
      PROVE  Packets(st)[i] = Packets(s)[i]
  <2>1. i \in 1 .. c /\ i \in 1 .. cs /\ i \in Nat
    BY <1>6, <1>7
  <2>2. PICK a \in Nat : a = (i - 1) * Packet
    BY <2>1, <1>3
  <2>3. a + Packet <= Len(s)
    <3>1. i * Packet = a + Packet /\ i * Packet <= k * Packet
      BY <2>1, <2>2, Mono, Sizing
    <3> QED
      BY <3>1, <1>2
  <2>4. Len(Packets(st)[i]) = Packet /\ Len(Packets(s)[i]) = Packet
    <3>1. Len(Packets(st)[i]) = Least(Packet, Len(st) - a) /\ Len(Packets(s)[i]) = Least(Packet, Len(s) - a)
      BY <2>1, <2>2, <1>3, <1>5
    <3> QED
      BY <3>1, <2>2, <2>3, <1>1, Sizing DEF Least
  <2>5. ASSUME NEW j \in 1 .. Packet PROVE Packets(st)[i][j] = Packets(s)[i][j]
    <3>1. Packets(st)[i][j] = st[a + j] /\ Packets(s)[i][j] = s[a + j]
      BY <2>1, <2>2, <2>4, <1>3, <1>5
    <3>2. a + j \in 1 .. Len(s) + Len(t) /\ a + j <= Len(s)
      <4>1. a \in Nat /\ j \in Nat /\ 1 <= j /\ j <= Packet
        BY <2>2, Sizing
      <4> QED
        BY <4>1, <2>3, <1>0, Sizing
    <3> QED
      BY <3>1, <3>2, <1>1
  <2>6. Packets(st)[i] \in Seq(Int) /\ Packets(s)[i] \in Seq(Int)
    BY <2>1, <1>3, <1>5
  <2> QED
    BY <2>4, <2>5, <2>6, SeqEqual
<1>9. ASSUME NEW i \in 1 .. ct
      PROVE  Packets(st)[k + i] = Packets(t)[i]
  <2>1. k + i \in 1 .. c /\ i \in Nat
    BY <1>7
  <2>2. PICK a \in Nat : a = (i - 1) * Packet /\ a < Len(t)
    BY <1>4
  <2>3. ((k + i) - 1) * Packet = Len(s) + a
    <3>1. ((k + i) - 1) * Packet = k * Packet + (i - 1) * Packet
      BY <2>1, Sizing
    <3> QED
      BY <3>1, <2>2, <1>2
  <2>4. /\ Len(Packets(st)[k + i]) = Least(Packet, Len(st) - (Len(s) + a))
        /\ \A j \in 1 .. Len(Packets(st)[k + i]) : Packets(st)[k + i][j] = st[(Len(s) + a) + j]
    BY <2>1, <2>3, <1>5
  <2>5. /\ Len(Packets(t)[i]) = Least(Packet, Len(t) - a)
        /\ \A j \in 1 .. Len(Packets(t)[i]) : Packets(t)[i][j] = t[a + j]
    BY <2>2, <1>4
  <2>6. Len(st) - (Len(s) + a) = Len(t) - a
    BY <1>1, <2>2
  <2>7. PICK l \in Nat : l = Len(Packets(t)[i]) /\ l <= Len(t) - a
    <3>1. PICK n \in Nat : n = Len(t) - a
      BY <2>2, <1>0
    <3>2. Len(Packets(t)[i]) = IF Packet <= n THEN Packet ELSE n
      BY <3>1, <2>5 DEF Least
    <3>3. Len(Packets(t)[i]) \in Nat /\ Len(Packets(t)[i]) <= n
      BY <3>1, <3>2, Sizing
    <3> QED
      BY <3>1, <3>3
  <2>8. Len(Packets(st)[k + i]) = l
    BY <2>4, <2>5, <2>6, <2>7
  <2>9. ASSUME NEW j \in 1 .. l PROVE Packets(st)[k + i][j] = Packets(t)[i][j]
    <3>1. Packets(st)[k + i][j] = st[(Len(s) + a) + j] /\ Packets(t)[i][j] = t[a + j]
      BY <2>4, <2>5, <2>7, <2>8
    <3>2. /\ (Len(s) + a) + j \in 1 .. Len(s) + Len(t) /\ ~((Len(s) + a) + j <= Len(s))
          /\ ((Len(s) + a) + j) - Len(s) = a + j
      <4>1. a \in Nat /\ j \in Nat /\ 1 <= j /\ j <= Len(t) - a
        BY <2>2, <2>7, <1>0
      <4> QED
        BY <4>1, <1>0
    <3> QED
      BY <3>1, <3>2, <1>1
  <2>10. Packets(st)[k + i] \in Seq(Int) /\ Packets(t)[i] \in Seq(Int)
    BY <2>1, <1>4, <1>5
  <2> QED
    BY <2>7, <2>8, <2>9, <2>10, SeqEqual
<1>10. Packets(s) \o Packets(t) \in Wire /\ Len(Packets(s) \o Packets(t)) = c
       /\ \A i \in 1 .. c : (Packets(s) \o Packets(t))[i] = IF i <= k THEN Packets(s)[i] ELSE Packets(t)[i - k]
  <2>1. Packets(s) \in Wire /\ Packets(t) \in Wire /\ Len(Packets(s)) = k /\ Len(Packets(t)) = ct /\ c = k + ct
    BY <1>3, <1>4, <1>6, <1>7
  <2>2. /\ Packets(s) \o Packets(t) \in Wire
        /\ Len(Packets(s) \o Packets(t)) = Len(Packets(s)) + Len(Packets(t))
        /\ \A i \in 1 .. Len(Packets(s)) + Len(Packets(t)) :
             (Packets(s) \o Packets(t))[i] = IF i <= Len(Packets(s)) THEN Packets(s)[i]
                                                               ELSE Packets(t)[i - Len(Packets(s))]
    BY <2>1, ConcatProperties DEF Wire
  <2> QED
    BY <2>1, <2>2
<1>11. ASSUME NEW i \in 1 .. c PROVE Packets(st)[i] = (Packets(s) \o Packets(t))[i]
  <2>1. CASE i <= k
    BY <2>1, <1>8, <1>10
  <2>2. CASE ~(i <= k)
    <3>1. i - k \in 1 .. ct /\ k + (i - k) = i
      BY <2>2, <1>7
    <3> QED
      BY <2>2, <3>1, <1>9, <1>10
  <2> QED
    BY <2>1, <2>2
<1>12. Packets(st) = Packets(s) \o Packets(t)
  BY <1>5, <1>10, <1>11, SeqEqual DEF Wire
<1> QED
  BY <1>12 DEF st

\* Put together again, packets are the transfer.
LEMMA FlattenPackets ==
  ASSUME NEW s \in Seq(Int)
  PROVE  FlattenSeq(Packets(s)) = s
<1> DEFINE bad == {n \in Nat : \E t \in Seq(Int) : Len(t) = n /\ FlattenSeq(Packets(t)) # t}
<1>1. bad = {}
  <2> SUFFICES ASSUME bad # {} PROVE FALSE
    OBVIOUS
  <2>1. PICK n \in bad : \A m \in bad : n <= m
    BY Smallest
  <2>2. PICK t \in Seq(Int) : Len(t) = n /\ FlattenSeq(Packets(t)) # t /\ n \in Nat
    OBVIOUS
  <2>3. CASE n = 0
    <3>1. t = << >>
      BY <2>2, <2>3, EmptySeq
    <3> QED
      BY <3>1, <2>2, PacketsEmpty, FlattenEmpty
  <2>4. CASE 0 < n /\ n <= Packet
    <3>1. Packets(t) = << t >>
      BY <2>2, <2>4, PacketsOne
    <3> QED
      BY <3>1, <2>2, FlattenOne
  <2>5. CASE n > Packet
    <3> DEFINE a == SubSeq(t, 1, Packet)
               b == SubSeq(t, Packet + 1, n)
    <3>1. a \in Seq(Int) /\ Len(a) = Packet /\ b \in Seq(Int) /\ Len(b) = n - Packet /\ t = a \o b
      <4>1. 1 \in 1 .. Len(t) + 1 /\ Packet \in 0 .. Len(t) /\ n \in Packet .. Len(t)
        BY <2>2, <2>5, Sizing
      <4>2. a \o b = SubSeq(t, 1, n) /\ SubSeq(t, 1, n) = t
        <5>0. 1 - 1 .. Len(t) = 0 .. Len(t)
          OBVIOUS
        <5>1. SubSeq(t, 1, Packet) \o SubSeq(t, Packet + 1, n) = SubSeq(t, 1, n)
          BY <4>1, <5>0, <2>2, ConcatAdjacentSubSeq
        <5>2. SubSeq(t, 1, Len(t)) = t
          BY <2>2, SubSeqFull
        <5> QED
          BY <5>1, <5>2, <2>2
      <4>3. \A i \in 1 .. n : t[i] \in Int
        BY <2>2
      <4>4. a \in Seq(Int) /\ b \in Seq(Int) /\ Len(a) = Packet /\ Len(b) = n - Packet
        <5>1. 1 \in Int /\ Packet \in Int /\ n \in Int /\ Packet + 1 \in Int
              /\ (\A i \in 1 .. Packet : t[i] \in Int) /\ (\A i \in Packet + 1 .. n : t[i] \in Int)
          BY <4>1, <4>3, <2>2, <2>5, Sizing
        <5>2. a \in Seq(Int) /\ Len(a) = IF 1 <= Packet THEN Packet - 1 + 1 ELSE 0
          BY <5>1, SubSeqProperties
        <5>3. b \in Seq(Int) /\ Len(b) = IF Packet + 1 <= n THEN n - (Packet + 1) + 1 ELSE 0
          BY <5>1, SubSeqProperties
        <5> QED
          BY <5>2, <5>3, <2>2, <2>5, Sizing
      <4> QED
        BY <4>2, <4>4
    <3> HIDE DEF a, b
    <3>2. Full(a) /\ Packets(a) = << a >>
      <4>1. Packet = 1 * Packet
        BY Sizing
      <4>2. Len(a) % Packet = 0
        BY <4>1, <3>1, TimesFull
      <4>3. 0 < Len(a) /\ Len(a) <= Packet
        BY <3>1, Sizing
      <4> QED
        BY <4>2, <4>3, <3>1, PacketsOne DEF Full
    <3>3. Len(b) \in Nat /\ ~(n <= Len(b))
      BY <3>1, <2>2, <2>5, Sizing
    <3>4. Len(b) \notin bad
      BY <3>3, <2>1
    <3>5. FlattenSeq(Packets(b)) = b
      BY <3>1, <3>3, <3>4
    <3>6. Packets(t) = << a >> \o Packets(b)
      <4>1. a \in Seq(Int) /\ b \in Seq(Int) /\ Full(a)
        BY <3>1, <3>2
      <4>2. Packets(a \o b) = Packets(a) \o Packets(b)
        BY <4>1, PacketsAppend
      <4> QED
        BY <4>2, <3>1, <3>2
    <3>7. << a >> \in Wire /\ Packets(b) \in Wire
      BY <3>1, PacketsShape DEF Wire
    <3>8. FlattenSeq(Packets(t)) = a \o b
      <4>1. FlattenSeq(<< a >> \o Packets(b)) = FlattenSeq(<< a >>) \o FlattenSeq(Packets(b))
        BY <3>7, FlattenConcat
      <4>2. FlattenSeq(<< a >>) = a
        BY <3>1, FlattenOne
      <4> QED
        BY <3>5, <3>6, <4>1, <4>2
    <3> QED
      BY <3>1, <3>8, <2>2
  <2> QED
    BY <2>2, <2>3, <2>4, <2>5, Sizing
<1>2. Len(s) \in Nat
  OBVIOUS
<1>3. Len(s) \notin bad
  BY <1>1
<1> QED
  BY <1>2, <1>3

\* Multiples of Packet.
LEMMA MultipleAdds ==
  ASSUME NEW a \in Nat, NEW b \in Nat, a % Packet = 0
  PROVE  (a + b) % Packet = b % Packet
<1>1. PICK q \in Nat, r \in 0 .. Packet - 1 : q = a \div Packet /\ r = a % Packet /\ a = q * Packet + r
  BY Positive, DivMod
<1>2. q * Packet \in Nat
  BY <1>1, Sizing
<1>3. a = q * Packet
  BY <1>1, <1>2
<1>4. (q * Packet + b) % Packet = b % Packet
  BY <1>1, Positive, DivAdd
<1> QED
  BY <1>3, <1>4

\* Less its remainder a number is a multiple.
LEMMA Remainder ==
  ASSUME NEW n \in Nat
  PROVE  n % Packet \in Nat /\ n % Packet < Packet /\ n % Packet <= n /\ (n - (n % Packet)) % Packet = 0
<1>1. PICK q \in Nat, r \in 0 .. Packet - 1 : r = n % Packet /\ n = q * Packet + r
  BY Positive, DivMod
<1>2. q * Packet \in Nat /\ (q * Packet) % Packet = 0
  BY <1>1, TimesFull
<1>3. n - r = q * Packet /\ r <= n
  BY <1>1, <1>2
<1> QED
  BY <1>1, <1>2, <1>3, Sizing

\* A block is a whole number of packets, ...
LEMMA Blocks == Block \in Nat /\ Block >= Packet /\ Block % Packet = 0
<1>1. PICK k \in 1 .. Block : Block = k * Packet
  BY BlockAssumption
<1>2. Block \in Nat
  BY <1>1, Sizing
<1>3. k \in Nat /\ 1 <= k /\ 1 \in Nat
  BY <1>1, <1>2
<1>4. 1 * Packet <= k * Packet
  BY <1>3, Mono, Sizing
<1> QED
  BY <1>1, <1>2, <1>3, <1>4, TimesFull, Sizing

\* ... and so is the first write with its header.
LEMMA Firsts == (HdrLen + First) % Packet = 0
<1>1. PICK k \in 1 .. Block \div Packet : HdrLen + First = k * Packet
  BY FirstAssumption
<1>2. Block \div Packet \in Nat
  <2>1. PICK q \in Nat, r \in 0 .. Packet - 1 : q = Block \div Packet
    BY Blocks, Positive, DivMod
  <2> QED
    BY <2>1
<1>3. k \in Nat
  BY <1>1, <1>2
<1> QED
  BY <1>1, <1>3, TimesFull

\* A chunk is whole packets, or all there is to write.
LEMMA ChunkFacts ==
  ASSUME NEW n \in Nat, n > 0
  PROVE  /\ Chunk(n) \in Nat /\ 0 < Chunk(n) /\ Chunk(n) <= n
         /\ Chunk(n) % Packet = 0 \/ Chunk(n) = n
<1>1. CASE n > Block
  BY <1>1, Blocks, Sizing DEF Chunk
<1>2. CASE ~(n > Block) /\ n > Packet
  <2>0. n % Packet \in Nat /\ n % Packet < Packet /\ (n - (n % Packet)) % Packet = 0
    BY Remainder
  <2> DEFINE r == n % Packet
  <2>1. r \in Nat /\ r < Packet /\ (n - r) % Packet = 0
    BY <2>0
  <2>2. Chunk(n) = n - r
    BY <1>2, <2>1 DEF Chunk
  <2> HIDE DEF r
  <2> QED
    BY <1>2, <2>1, <2>2, Sizing
<1>3. CASE ~(n > Block) /\ ~(n > Packet)
  BY <1>3 DEF Chunk
<1> QED
  BY <1>1, <1>2, <1>3

-----------------------------------------------------------------------------
\* What the host is to send: a header, alone or with the first of the data, and
\* the data behind.
FirstOf(n, d) == Hdr(Header) \o Slice(Object(n), 0, d)
OthersOf(n, d) == Slice(Object(n), d, n)
OnFirst == FirstOf(size, datawlen(size))
Others == OthersOf(size, datawlen(size))
Current == IF stage = "first" THEN OnFirst ELSE Others
Before == IF stage = "first" THEN << >> ELSE Packets(OnFirst)

\* The bytes of an object, ...
LEMMA Objects ==
  ASSUME NEW n \in Nat
  PROVE  Object(n) \in Seq(Int) /\ Len(Object(n)) = n /\ \A i \in 1 .. n : Object(n)[i] = i
BY DEF Object

\* ... and those of a header.
LEMMA Headers ==
  ASSUME NEW byte \in Int
  PROVE  Hdr(byte) \in Seq(Int) /\ Len(Hdr(byte)) = HdrLen /\ \A i \in 1 .. HdrLen : Hdr(byte)[i] = byte
BY Sizing DEF Hdr

\* A shorter file begins as the whole one does.
LEMMA Shorter ==
  ASSUME NEW n \in Nat, NEW k \in Nat, NEW a \in Nat, NEW b \in Nat, a <= b, b <= k, k <= n
  PROVE  Slice(Object(k), a, b) = Slice(Object(n), a, b)
<1>1. /\ Object(n) \in Seq(Int) /\ Len(Object(n)) = n /\ \A i \in 1 .. n : Object(n)[i] = i
      /\ Object(k) \in Seq(Int) /\ Len(Object(k)) = k /\ \A i \in 1 .. k : Object(k)[i] = i
  BY Objects
<1>1a. b <= Len(Object(n)) /\ b <= Len(Object(k))
  BY <1>1
<1>2. /\ Slice(Object(n), a, b) \in Seq(Int) /\ Len(Slice(Object(n), a, b)) = b - a
      /\ \A i \in 1 .. b - a : Slice(Object(n), a, b)[i] = Object(n)[a + i]
  BY <1>1, <1>1a, SliceFacts
<1>3. /\ Slice(Object(k), a, b) \in Seq(Int) /\ Len(Slice(Object(k), a, b)) = b - a
      /\ \A i \in 1 .. b - a : Slice(Object(k), a, b)[i] = Object(k)[a + i]
  BY <1>1, <1>1a, SliceFacts
<1>4. ASSUME NEW i \in 1 .. b - a PROVE Slice(Object(k), a, b)[i] = Slice(Object(n), a, b)[i]
  <2>1. a + i \in 1 .. k /\ a + i \in 1 .. n
    OBVIOUS
  <2> QED
    BY <2>1, <1>1, <1>2, <1>3
<1> QED
  BY <1>2, <1>3, <1>4, SeqEqual

\* What goes with the header is part of the object.
LEMMA Widths ==
  ASSUME NEW n \in Nat
  PROVE  datawlen(n) \in Nat /\ datawlen(n) <= n
BY Sizing DEF datawlen, Least

\* The first write and the second have all the bytes.
LEMMA Streams ==
  ASSUME NEW n \in Nat, NEW d \in Nat, d <= n
  PROVE  /\ FirstOf(n, d) \in Seq(Int) /\ Len(FirstOf(n, d)) = HdrLen + d
         /\ OthersOf(n, d) \in Seq(Int) /\ Len(OthersOf(n, d)) = n - d
<1>1. /\ Object(n) \in Seq(Int) /\ Len(Object(n)) = n
      /\ Hdr(Header) \in Seq(Int) /\ Len(Hdr(Header)) = HdrLen
  BY Objects, Headers DEF Header
<1>2. 0 \in Nat /\ 0 <= d /\ d <= Len(Object(n)) /\ n <= Len(Object(n)) /\ HdrLen \in Nat
  BY <1>1, Sizing
<1>3. Slice(Object(n), 0, d) \in Seq(Int) /\ Len(Slice(Object(n), 0, d)) = d - 0
  BY <1>1, <1>2, SliceFacts
<1>4. Slice(Object(n), d, n) \in Seq(Int) /\ Len(Slice(Object(n), d, n)) = n - d
  BY <1>1, <1>2, SliceFacts
<1>5. FirstOf(n, d) \in Seq(Int) /\ Len(FirstOf(n, d)) = HdrLen + d
  <2>1. /\ FirstOf(n, d) \in Seq(Int)
        /\ Len(FirstOf(n, d)) = Len(Hdr(Header)) + Len(Slice(Object(n), 0, d))
    BY <1>1, <1>3, ConcatProperties DEF FirstOf
  <2> QED
    BY <2>1, <1>1, <1>2, <1>3
<1> QED
  BY <1>4, <1>5 DEF OthersOf

\* A part of the second write is a part of the object.
LEMMA OthersPrefix ==
  ASSUME NEW n \in Nat, NEW d \in Nat, d <= n, NEW k \in Nat, d <= k, k <= n
  PROVE  Slice(OthersOf(n, d), 0, k - d) = Slice(Object(n), d, k)
<1>1. Object(n) \in Seq(Int) /\ n <= Len(Object(n))
  BY Objects
<1>2. PICK z \in Nat, e \in Nat : z = 0 /\ e = k - d /\ z <= e /\ e <= n - d /\ d + z = d /\ d + e = k
  OBVIOUS
<1>3. Slice(Slice(Object(n), d, n), z, e) = Slice(Object(n), d + z, d + e)
  BY <1>1, <1>2, SliceOfSlice
<1> QED
  BY <1>2, <1>3 DEF OthersOf

\* What was sent is the packets of the first writes, and of what the current one has
\* got to.
Sendings ==
  /\ stage \in {"first", "rest"} /\ left = Len(Current) /\ curwrite \in 0 .. left
  /\ stage = "first" => Len(rest) <= Len(Others) /\ rest = Slice(Others, 0, Len(rest))
  /\ left > 0
  /\ wire = Before \o Packets(Slice(Current, 0, curwrite))
Filling ==
  /\ curwrite + Len(file) <= left /\ Len(file) \in Nat /\ file = Slice(Current, curwrite, curwrite + Len(file))
  /\ curwrite % Packet = 0 \/ Len(file) = 0
  /\ curwrite < left \/ Len(buf) % Packet = curwrite % Packet
Putting ==
  \E at \in Nat, end \in Nat, to \in Nat :
     /\ curwrite = at + usbwritten /\ usbwritten \in {0, Len(buf)} /\ xwritten = usbwritten
     /\ at <= end /\ end <= to /\ to <= left /\ at < left
     /\ Len(buf) = end - at /\ buf = Slice(Current, at, end)
     /\ Len(file) = to - end /\ file = Slice(Current, end, to)
     /\ at % Packet = 0 \/ at = to
     /\ end % Packet = 0 \/ end = to

\* The invariant behind SendFramed.
SendInv ==
  /\ size \in Nat /\ faults \in Nat /\ split \in BOOLEAN
  /\ kind = "send" => pc \in {"idle", "fill", "put", "wrote", "getresp"}
  /\ kind = "send" /\ faults = 0 =>
       /\ pc \in {"fill", "put", "wrote"} => Sendings
       /\ pc = "fill" => Filling
       /\ pc = "put" => Putting
       /\ pc = "wrote" => curwrite = left /\ Len(buf) % Packet = left % Packet
  /\ SendFramed

-----------------------------------------------------------------------------
\* Send begins with everything still to be written.
LEMMA BeginsSend ==
  ASSUME SendInv, NEW n \in Sizes, Send(n)
  PROVE  SendInv'
<1>1. n \in Nat /\ size' = n /\ split' = split /\ faults' = faults /\ kind' = "send"
  BY SizeAssumption DEF Send
<1>2. PICK m \in Missing :
        LET data == Object(IF m <= n THEN n - m ELSE 0)
            d == datawlen(n)
        IN \/ /\ Len(data) >= d /\ pc' = "fill" /\ rc' = "none"
              /\ Begins(HdrLen + d, Hdr(Header) \o SubSeq(data, 1, d), SubSeq(data, d + 1, Len(data)))
           \/ Len(data) < d /\ Return("GeneralError") /\ NoWriting
  BY DEF Send
<1>3. PICK k \in Nat : k = (IF m <= n THEN n - m ELSE 0) /\ k <= n
  BY <1>1, SizeAssumption
<1>4. Object(k) \in Seq(Int) /\ Len(Object(k)) = k
  BY Objects
<1>5. CASE pc' = "idle"
  BY <1>1, <1>5 DEF SendInv, SendFramed
<1>6. CASE pc' # "idle"
  <2>1. PICK d \in Nat : d = datawlen(n) /\ d <= n /\ d = datawlen(size)'
    BY <1>1, Widths DEF datawlen
  <2>2a. /\ Len(Object(k)) >= d /\ pc' = "fill"
         /\ Begins(HdrLen + d, Hdr(Header) \o SubSeq(Object(k), 1, d), SubSeq(Object(k), d + 1, Len(Object(k))))
    BY <1>2, <1>3, <1>6, <2>1 DEF Return
  <2>2b. SubSeq(Object(k), 1, d) = Slice(Object(k), 0, d) /\ SubSeq(Object(k), d + 1, Len(Object(k))) = Slice(Object(k), d, k)
    BY <1>4 DEF Slice
  <2>2. /\ d <= k /\ pc' = "fill" /\ stage' = "first" /\ left' = HdrLen + d /\ curwrite' = 0 /\ wire' = << >>
        /\ file' = Hdr(Header) \o Slice(Object(k), 0, d) /\ rest' = Slice(Object(k), d, k) /\ buf' = << >>
    BY <1>3, <1>4, <2>1, <2>2a, <2>2b DEF Begins
  <2>3. Slice(Object(k), 0, d) = Slice(Object(n), 0, d) /\ Slice(Object(k), d, k) = Slice(Object(n), d, k)
    BY <1>1, <1>3, <2>1, <2>2, Shorter
  <2>4. OnFirst' = FirstOf(n, d) /\ Others' = OthersOf(n, d) /\ Current' = FirstOf(n, d) /\ Before' = << >>
    BY <1>1, <2>1, <2>2 DEF OnFirst, Others, Current, Before
  <2>5. /\ FirstOf(n, d) \in Seq(Int) /\ Len(FirstOf(n, d)) = HdrLen + d
        /\ OthersOf(n, d) \in Seq(Int) /\ Len(OthersOf(n, d)) = n - d
    BY <1>1, <2>1, Streams
  <2>6. file' = FirstOf(n, d)
    BY <2>2, <2>3 DEF FirstOf
  <2>7. rest' = Slice(OthersOf(n, d), 0, k - d) /\ Len(rest') = k - d
    <3>1. Object(n) \in Seq(Int) /\ Len(Object(n)) = n
      BY <1>1, Objects
    <3>2. k - d \in Nat /\ 0 \in Nat /\ 0 <= k - d /\ k - d <= n - d
      BY <1>1, <1>3, <2>1, <2>2
    <3>3. Slice(OthersOf(n, d), 0, k - d) = Slice(Object(n), d, k)
      BY <3>2, <1>1, <1>3, <2>1, OthersPrefix
    <3>5. Len(Slice(Object(n), d, k)) = k - d
      BY <3>1, <1>1, <1>3, <2>1, <2>2, SliceFacts
    <3> QED
      BY <3>3, <3>5, <2>2, <2>3
  <2>8. Sendings'
    <3>1. Slice(FirstOf(n, d), 0, 0) = << >> /\ << >> \o << >> = << >>
      BY SliceNone
    <3>2. wire' = Before' \o Packets(Slice(Current', 0, curwrite'))
      BY <3>1, <2>2, <2>4, PacketsEmpty
    <3>3. HdrLen + d \in Nat /\ HdrLen + d > 0 /\ k - d <= n - d
      <4>1. HdrLen \in Nat /\ HdrLen > 0 /\ d \in Nat /\ k \in Nat /\ n \in Nat /\ k <= n
        BY <1>1, <1>3, <2>1, Sizing
      <4> QED
        BY <4>1
    <3> QED
      BY <3>2, <3>3, <2>2, <2>4, <2>5, <2>7 DEF Sendings
  <2>9. Filling'
    <3>1. file' = Slice(FirstOf(n, d), 0, HdrLen + d)
      BY <2>5, <2>6, SliceAll
    <3>2. HdrLen + d \in Nat /\ HdrLen + d > 0 /\ 0 % Packet = 0 /\ 0 + (HdrLen + d) = HdrLen + d
      BY <2>1, Sizing
    <3> QED
      BY <3>1, <3>2, <2>2, <2>4, <2>5, <2>6 DEF Filling
  <2> QED
    BY <1>1, <2>2, <2>8, <2>9 DEF SendInv, SendFramed
<1> QED
  BY <1>5, <1>6

\* A chunk of the current write is read.
LEMMA FillKeepsSend ==
  ASSUME SendInv, Fill
  PROVE  SendInv'
<1>1. /\ pc = "fill" /\ UNCHANGED <<kind, size, faults, split, stage, rest, left, curwrite, wire>>
      /\ pc' = IF curwrite < left THEN "put" ELSE "wrote"
  BY DEF Fill, call
<1>2. SendFramed' /\ size' \in Nat /\ faults' \in Nat /\ split' \in BOOLEAN
  BY <1>1 DEF SendInv, SendFramed
<1>3. CASE ~(kind = "send" /\ faults = 0)
  BY <1>1, <1>2, <1>3 DEF SendInv
<1>4. CASE kind = "send" /\ faults = 0
  <2>1. Sendings /\ Filling /\ size \in Nat
    BY <1>1, <1>4 DEF SendInv
  <2>2. Current' = Current /\ Others' = Others /\ Before' = Before
    BY <1>1 DEF Current, Others, OnFirst, Before, datawlen
  <2>3. Sendings'
    BY <1>1, <2>1, <2>2 DEF Sendings
  <2>4. Current \in Seq(Int) /\ left = Len(Current) /\ left \in Nat /\ curwrite \in Nat /\ curwrite <= left
    <3>1. OnFirst \in Seq(Int) /\ Others \in Seq(Int)
      BY <2>1, Streams, Widths DEF OnFirst, Others
    <3>2. Current \in Seq(Int)
      BY <3>1 DEF Current
    <3> QED
      BY <3>2, <2>1 DEF Sendings
  <2>5. CASE curwrite < left
    <3> DEFINE n == Least(Chunk(left - curwrite), Len(file))
    <3>1. buf' = SubSeq(file, 1, n) /\ file' = SubSeq(file, n + 1, Len(file)) /\ usbwritten' = 0 /\ xwritten' = 0 /\ pc' = "put"
      BY <2>5 DEF Fill
    <3>2. /\ Chunk(left - curwrite) \in Nat /\ 0 < Chunk(left - curwrite) /\ Chunk(left - curwrite) <= left - curwrite
          /\ Chunk(left - curwrite) % Packet = 0 \/ Chunk(left - curwrite) = left - curwrite
      <4>1. left - curwrite \in Nat /\ left - curwrite > 0
        BY <2>4, <2>5
      <4> QED
        BY <4>1, ChunkFacts
    <3>3. PICK to \in Nat : /\ to = curwrite + Len(file) /\ curwrite <= to /\ to <= left
                            /\ file = Slice(Current, curwrite, to) /\ Len(file) = to - curwrite
      BY <2>1, <2>4 DEF Filling
    <3>4. n \in Nat /\ n <= Len(file) /\ n <= Chunk(left - curwrite) /\ (n < Len(file) => n = Chunk(left - curwrite))
      BY <3>2, <3>3, <2>4 DEF Least
    <3> HIDE DEF n
    <3>5. PICK end \in Nat : end = curwrite + n /\ curwrite <= end /\ end <= to
      BY <3>3, <3>4, <2>4
    <3>6. file \in Seq(Int)
      BY <2>4, <3>3, SliceFacts
    <3>7. buf' = Slice(Current, curwrite, end)
      <4>1. buf' = Slice(file, 0, n)
        BY <3>1 DEF Slice
      <4>2. PICK z \in Nat : z = 0
        OBVIOUS
      <4>3. Slice(Slice(Current, curwrite, to), z, n) = Slice(Current, curwrite + z, curwrite + n)
        BY <4>2, <2>4, <3>3, <3>4, SliceOfSlice
      <4> QED
        BY <4>1, <4>2, <4>3, <3>3, <3>5, <2>4
    <3>8. file' = Slice(Current, end, to)
      <4>1. file' = Slice(file, n, Len(file))
        BY <3>1 DEF Slice
      <4>2. PICK l \in Nat : l = Len(file)
        BY <3>6
      <4>3. Slice(Slice(Current, curwrite, to), n, l) = Slice(Current, curwrite + n, curwrite + l)
        BY <4>2, <2>4, <3>3, <3>4, SliceOfSlice
      <4> QED
        BY <4>1, <4>2, <4>3, <3>3, <3>5
    <3>9. Len(buf') = end - curwrite /\ Len(file') = to - end
      <4>1. end <= Len(Current) /\ to <= Len(Current)
        BY <2>4, <3>3, <3>5
      <4>2. Len(Slice(Current, curwrite, end)) = end - curwrite
        BY <4>1, <2>4, <3>5, SliceFacts
      <4>3. Len(Slice(Current, end, to)) = to - end
        BY <4>1, <2>4, <3>3, <3>5, SliceFacts
      <4> QED
        BY <4>2, <4>3, <3>7, <3>8
    <3>10. curwrite % Packet = 0 \/ curwrite = to
      BY <2>1, <2>4, <3>3 DEF Filling
    <3>11. end % Packet = 0 \/ end = to
      <4>1. CASE end = to
        BY <4>1
      <4>2. CASE end # to
        <5>0. PICK l \in Nat : l = Len(file)
          BY <3>6
        <5>0a. n < l /\ curwrite # to
          <6>1. to = curwrite + l /\ end = curwrite + n /\ end # to /\ n <= l /\ curwrite \in Nat /\ n \in Nat
            BY <4>2, <3>3, <3>4, <3>5, <2>4, <5>0
          <6> QED
            BY <6>1
        <5>1. n < Len(file) /\ n = Chunk(left - curwrite) /\ curwrite # to
          BY <3>4, <5>0, <5>0a
        <5>2. n # left - curwrite
          BY <5>1, <3>3, <2>4
        <5>3. n % Packet = 0 /\ curwrite % Packet = 0
          BY <5>1, <5>2, <3>2, <3>10
        <5> QED
          BY <5>3, <3>4, <3>5, <2>4, MultipleAdds
      <4> QED
        BY <4>1, <4>2
    <3>12. Putting'
      <4>1. curwrite' = curwrite + usbwritten' /\ usbwritten' \in {0, Len(buf')} /\ xwritten' = usbwritten' /\ left' = left
        BY <3>1, <1>1, <2>4
      <4>2. curwrite \in Nat /\ end \in Nat /\ to \in Nat
        BY <2>4, <3>3, <3>5
      <4> QED
        BY <4>1, <4>2, <2>2, <2>5, <3>3, <3>5, <3>7, <3>8, <3>9, <3>10, <3>11 DEF Putting
    <3> QED
      BY <3>1, <3>12, <1>1, <1>2, <1>4, <2>3 DEF SendInv
  <2>6. CASE ~(curwrite < left)
    <3>1. pc' = "wrote" /\ buf' = buf
      BY <2>6, <1>1 DEF Fill
    <3>2. curwrite = left
      BY <2>4, <2>6
    <3>3. Len(buf) % Packet = left % Packet
      BY <3>2, <2>1, <2>6 DEF Filling
    <3> QED
      BY <3>1, <3>2, <3>3, <1>1, <1>2, <1>4, <2>3 DEF SendInv
  <2> QED
    BY <2>5, <2>6
<1> QED
  BY <1>3, <1>4

\* Without faults a chunk is written whole.
LEMMA PutKeepsSend ==
  ASSUME SendInv, Put
  PROVE  SendInv'
<1>1. pc = "put" /\ usbwritten < Len(buf) /\ UNCHANGED <<kind, size, split, stage, rest, left, file, buf>> /\ pc' \in {"put", "idle"}
  BY DEF Put, call, PutBytes, Return
<1>2. SendFramed' /\ size' \in Nat /\ faults' \in Nat /\ split' \in BOOLEAN
  BY <1>1 DEF SendInv, SendFramed, Put
<1>3. CASE kind # "send" \/ faults' # 0
  BY <1>1, <1>2, <1>3 DEF SendInv
<1>4. CASE kind = "send" /\ faults' = 0
  <2>1. PutBytes(Len(buf) - usbwritten) /\ faults = 0
    BY <1>4 DEF Put, SendInv
  <2>2. Sendings /\ Putting /\ size \in Nat
    BY <1>1, <1>4, <2>1 DEF SendInv
  <2>3. Current' = Current /\ Others' = Others /\ Before' = Before
    BY <1>1 DEF Current, Others, OnFirst, Before, datawlen
  <2>4. Current \in Seq(Int) /\ left = Len(Current) /\ left \in Nat /\ curwrite \in Nat /\ curwrite <= left /\ Before \in Wire
    <3>1. OnFirst \in Seq(Int) /\ Others \in Seq(Int)
      BY <2>2, Streams, Widths DEF OnFirst, Others
    <3>2. Current \in Seq(Int)
      BY <3>1 DEF Current
    <3>3. Before \in Wire
      BY <3>1, PacketsShape DEF Before, Wire
    <3> QED
      BY <3>2, <3>3, <2>2 DEF Sendings
  <2>5. PICK at \in Nat, end \in Nat, to \in Nat :
          /\ curwrite = at + usbwritten /\ usbwritten \in {0, Len(buf)} /\ xwritten = usbwritten
          /\ at <= end /\ end <= to /\ to <= left /\ at < left
          /\ Len(buf) = end - at /\ buf = Slice(Current, at, end)
          /\ Len(file) = to - end /\ file = Slice(Current, end, to)
          /\ at % Packet = 0 \/ at = to
          /\ end % Packet = 0 \/ end = to
    BY <2>2 DEF Putting
  <2>6. usbwritten = 0 /\ curwrite = at /\ at < end
    BY <1>1, <2>5
  <2>7. buf \in Seq(Int) /\ Slice(Current, 0, at) \in Seq(Int) /\ Len(Slice(Current, 0, at)) = at
    <3>1. 0 \in Nat /\ 0 <= at /\ at <= Len(Current) /\ end <= Len(Current) /\ at - 0 = at
      BY <2>4, <2>5
    <3> QED
      BY <2>4, <2>5, <3>1, SliceFacts
  <2>8. /\ wire' = wire \o Packets(buf) /\ xwritten' = Len(buf) /\ usbwritten' = Len(buf) /\ curwrite' = end /\ pc' = "put"
    <3>1. Len(buf) - usbwritten = Len(buf) /\ usbwritten + Len(buf) = Len(buf) /\ curwrite + Len(buf) = end /\ usbwritten + 1 = 1
      BY <2>5, <2>6
    <3>2. SubSeq(buf, 1, Len(buf)) = buf
      BY <2>7, SubSeqFull
    <3> QED
      BY <2>1, <3>1, <3>2, <1>1 DEF PutBytes
  <2>9. wire' = Before \o Packets(Slice(Current, 0, end))
    <3>1. Slice(Current, 0, end) = Slice(Current, 0, at) \o buf
      <4>1. PICK z \in Nat : z = 0 /\ z <= at /\ at <= end /\ end <= Len(Current)
        BY <2>4, <2>5
      <4>2. Slice(Current, z, at) \o Slice(Current, at, end) = Slice(Current, z, end)
        <5>1. Current \in Seq(Int) /\ z \in Nat /\ at \in Nat /\ end \in Nat
          BY <4>1, <2>4, <2>5
        <5> QED
          BY <4>1, <5>1, SliceJoin
      <4> QED
        BY <4>1, <4>2, <2>5
    <3>2. Full(Slice(Current, 0, at))
      BY <2>5, <2>6, <2>7 DEF Full
    <3>3. Packets(Slice(Current, 0, end)) = Packets(Slice(Current, 0, at)) \o Packets(buf)
      BY <2>7, <3>1, <3>2, PacketsAppend
    <3>4. Packets(Slice(Current, 0, at)) \in Wire /\ Packets(buf) \in Wire
      BY <2>7, PacketsShape
    <3>5. wire = Before \o Packets(Slice(Current, 0, at))
      BY <2>2, <2>6 DEF Sendings
    <3>6. (Before \o Packets(Slice(Current, 0, at))) \o Packets(buf)
            = Before \o (Packets(Slice(Current, 0, at)) \o Packets(buf))
      BY <2>4, <3>4, Assoc3
    <3> QED
      BY <2>8, <3>3, <3>5, <3>6
  <2>10. Sendings'
    <3>1. curwrite' \in 0 .. left'
      BY <1>1, <2>4, <2>5, <2>8
    <3>2. wire' = Before' \o Packets(Slice(Current', 0, curwrite'))
      BY <2>3, <2>8, <2>9
    <3> QED
      BY <1>1, <2>2, <2>3, <3>1, <3>2 DEF Sendings
  <2>11. Putting'
    <3>1. curwrite' = at + usbwritten'
      BY <2>5, <2>8
    <3> QED
      BY <1>1, <2>3, <2>5, <2>8, <3>1 DEF Putting
  <2> QED
    BY <1>1, <1>2, <1>4, <2>8, <2>10, <2>11 DEF SendInv
<1> QED
  BY <1>3, <1>4

\* ptp_write_func goes on with its next chunk.
LEMMA PutDoneKeepsSend ==
  ASSUME SendInv, PutDone
  PROVE  SendInv'
<1>1. /\ pc = "put" /\ usbwritten = Len(buf) /\ UNCHANGED <<kind, size, faults, split, stage, rest, left, curwrite, wire, buf, file>>
      /\ pc' = IF xwritten < Len(buf) THEN "wrote" ELSE "fill"
  BY DEF PutDone, call, writing
<1>2. SendFramed' /\ size' \in Nat /\ faults' \in Nat /\ split' \in BOOLEAN
  BY <1>1 DEF SendInv, SendFramed
<1>3. CASE ~(kind = "send" /\ faults = 0)
  BY <1>1, <1>2, <1>3 DEF SendInv
<1>4. CASE kind = "send" /\ faults = 0
  <2>1. Sendings /\ Putting
    BY <1>1, <1>4 DEF SendInv
  <2>2. Current' = Current /\ Others' = Others /\ Before' = Before
    BY <1>1 DEF Current, Others, OnFirst, Before, datawlen
  <2>3. Sendings'
    BY <1>1, <2>1, <2>2 DEF Sendings
  <2>4. PICK at \in Nat, end \in Nat, to \in Nat :
          /\ curwrite = at + usbwritten /\ usbwritten \in {0, Len(buf)} /\ xwritten = usbwritten
          /\ at <= end /\ end <= to /\ to <= left /\ at < left
          /\ Len(buf) = end - at /\ buf = Slice(Current, at, end)
          /\ Len(file) = to - end /\ file = Slice(Current, end, to)
          /\ at % Packet = 0 \/ at = to
          /\ end % Packet = 0 \/ end = to
    BY <2>1 DEF Putting
  <2>5. left \in Nat /\ curwrite = end /\ pc' = "fill"
    <3>1. left \in Nat
      BY <2>1, <2>4 DEF Sendings
    <3> QED
      BY <1>1, <2>4, <3>1
  <2>6. curwrite < left \/ Len(buf) % Packet = curwrite % Packet
    <3>1. CASE at = to
      BY <3>1, <2>4, <2>5
    <3>2. CASE at # to
      <4>1. PICK b \in Nat : b = Len(buf) /\ end = at + b
        BY <2>4
      <4>2. (at + b) % Packet = b % Packet
        BY <3>2, <2>4, <4>1, MultipleAdds
      <4> QED
        BY <4>1, <4>2, <2>5
    <3> QED
      BY <3>1, <3>2
  <2>7. Filling'
    <3>1. end + Len(file) = to /\ Len(file) \in Nat
      BY <2>4
    <3>2. curwrite + Len(file) <= left /\ Len(file) \in Nat /\ file = Slice(Current, curwrite, curwrite + Len(file))
      BY <2>4, <2>5, <3>1
    <3>3. curwrite % Packet = 0 \/ Len(file) = 0
      BY <2>4, <2>5
    <3> QED
      BY <1>1, <2>2, <2>6, <3>2, <3>3 DEF Filling
  <2> QED
    BY <1>1, <1>2, <1>4, <2>3, <2>5, <2>7 DEF SendInv
<1> QED
  BY <1>3, <1>4

\* A data phase as it goes out: the header alone or with what follows it.
LEMMA Framed ==
  ASSUME NEW n \in Nat, NEW d \in Nat, d <= n, NEW apart \in BOOLEAN,
         d = IF apart THEN 0 ELSE Least(n, First)
  PROVE  DataPhase(apart, Object(n), << >>) =
           IF d = n THEN Ended(FirstOf(n, d), << >>)
                    ELSE Packets(FirstOf(n, d)) \o Ended(OthersOf(n, d), << >>)
<1> DEFINE o == Object(n)
           h == Hdr(Header)
<1>1. o \in Seq(Int) /\ Len(o) = n /\ h \in Seq(Int) /\ Len(h) = HdrLen
  BY Objects, Headers DEF Header
<1>2. /\ FirstOf(n, d) \in Seq(Int) /\ Len(FirstOf(n, d)) = HdrLen + d
      /\ OthersOf(n, d) \in Seq(Int) /\ Len(OthersOf(n, d)) = n - d
  BY Streams
<1>3. FirstOf(n, d) = h \o Slice(o, 0, d) /\ OthersOf(n, d) = Slice(o, d, n)
  BY DEF FirstOf, OthersOf
<1>4. Slice(o, 0, n) = o
  BY <1>1, SliceAll
<1> HIDE DEF o, h
<1>5. CASE apart
  <2>1. d = 0
    BY <1>5
  <2>2. FirstOf(n, d) = h
    <3>1. Slice(o, 0, 0) = << >>
      BY SliceNone
    <3> QED
      BY <1>1, <1>3, <2>1, <3>1, ConcatEmptySeq
  <2>3. OthersOf(n, d) = o
    BY <2>1, <1>3, <1>4
  <2>4. CASE n = 0
    <3>1. o = << >>
      BY <1>1, <2>4, EmptySeq
    <3>2. DataPhase(apart, o, << >>) = Ended(h \o o, << >>)
      BY <3>1 DEF DataPhase, h
    <3>3. h \o o = h
      BY <1>1, <3>1, ConcatEmptySeq
    <3> QED
      BY <2>1, <2>2, <2>4, <3>2, <3>3 DEF o
  <2>5. CASE n # 0
    <3>1. o # << >>
      BY <1>1, <2>5
    <3>2. DataPhase(apart, o, << >>) = << h >> \o Ended(o, << >>)
      BY <1>5, <3>1 DEF DataPhase, h
    <3>3. Packets(h) = << h >>
      BY <1>1, PacketsOne, Sizing
    <3> QED
      BY <2>1, <2>2, <2>3, <2>5, <3>2, <3>3 DEF o
  <2> QED
    BY <2>4, <2>5
<1>6. CASE ~apart
  <2>1. d = Least(n, First)
    BY <1>6
  <2>2. DataPhase(apart, o, << >>) = Ended(h \o o, << >>)
    BY <1>6 DEF DataPhase, h
  <2>3. CASE d = n
    <3>1. FirstOf(n, d) = h \o o
      BY <1>3, <1>4, <2>3
    <3> QED
      BY <2>2, <2>3, <3>1 DEF o
  <2>4. CASE d # n
    <3>1. d = First
      BY <2>1, <2>4 DEF Least
    <3>2. Full(FirstOf(n, d))
      BY <1>2, <3>1, Firsts DEF Full
    <3>3. h \o o = FirstOf(n, d) \o OthersOf(n, d)
      <4>1. (h \o Slice(o, 0, d)) \o Slice(o, d, Len(o)) = h \o o
        <5>1. d \in Nat /\ d <= Len(o) /\ o \in Seq(Int) /\ h \in Seq(Int)
          BY <1>1
        <5> QED
          BY <5>1, CutInTwo
      <4> QED
        BY <4>1, <1>1, <1>3
    <3>4. Packets(h \o o) = Packets(FirstOf(n, d)) \o Packets(OthersOf(n, d))
      BY <1>2, <3>2, <3>3, PacketsAppend
    <3>5. Full(h \o o) <=> Full(OthersOf(n, d))
      <4>0. HdrLen + d \in Nat /\ n - d \in Nat
        <5>1. HdrLen \in Nat
          BY Sizing
        <5> QED
          BY <5>1
      <4>1. PICK a \in Nat, b \in Nat : a = HdrLen + d /\ b = n - d
        BY <4>0
      <4>2. Len(h \o o) = a + b /\ a % Packet = 0 /\ Len(OthersOf(n, d)) = b
        <5>1. Len(h \o o) = HdrLen + n
          BY <1>1, ConcatProperties
        <5>2. a % Packet = 0
          BY <4>1, <3>1, Firsts
        <5> QED
          BY <5>1, <5>2, <4>1, <1>2, Sizing
      <4>3. (a + b) % Packet = b % Packet
        BY <4>1, <4>2, MultipleAdds
      <4> QED
        BY <4>2, <4>3 DEF Full
    <3>6. Packets(FirstOf(n, d)) \in Wire /\ Packets(OthersOf(n, d)) \in Wire /\ << >> \in Seq(Int)
      BY <1>2, PacketsShape
    <3>7. CASE Full(h \o o)
      <4>1. Ended(h \o o, << >>) = Append(Packets(FirstOf(n, d)) \o Packets(OthersOf(n, d)), << >>)
        BY <3>4, <3>7 DEF Ended
      <4>2. Ended(OthersOf(n, d), << >>) = Append(Packets(OthersOf(n, d)), << >>)
        BY <3>5, <3>7 DEF Ended
      <4>3. Append(Packets(FirstOf(n, d)) \o Packets(OthersOf(n, d)), << >>)
              = Packets(FirstOf(n, d)) \o Append(Packets(OthersOf(n, d)), << >>)
        BY <3>6, AppendConcat
      <4> QED
        BY <2>2, <2>4, <4>1, <4>2, <4>3 DEF o
    <3>8. CASE ~Full(h \o o)
      BY <2>2, <2>4, <3>4, <3>5, <3>8 DEF Ended, o
    <3> QED
      BY <3>7, <3>8
  <2> QED
    BY <2>3, <2>4
<1> QED
  BY <1>5, <1>6

\* What the current write and its predecessors come to.
LEMMA WrittenWhole ==
  ASSUME SendInv, pc = "wrote", kind = "send", faults = 0,
         NEW d \in Nat, d = datawlen(size), d <= size
  PROVE  /\ OnFirst = FirstOf(size, d) /\ Others = OthersOf(size, d)
         /\ OnFirst \in Seq(Int) /\ Len(OnFirst) = HdrLen + d
         /\ Others \in Seq(Int) /\ Len(Others) = size - d
         /\ wire = Before \o Packets(Current) /\ left = Len(Current) /\ left > 0 /\ curwrite = left
         /\ Full(buf) <=> Full(Current)
<1>1. Sendings /\ size \in Nat /\ curwrite = left /\ Len(buf) % Packet = left % Packet
  BY DEF SendInv
<1>2. OnFirst = FirstOf(size, d) /\ Others = OthersOf(size, d)
  BY DEF OnFirst, Others
<1>3. /\ OnFirst \in Seq(Int) /\ Len(OnFirst) = HdrLen + d
      /\ Others \in Seq(Int) /\ Len(Others) = size - d
  BY <1>1, <1>2, Streams
<1>4. Current \in Seq(Int) /\ left = Len(Current) /\ left > 0
  BY <1>1, <1>3 DEF Sendings, Current
<1>5. Slice(Current, 0, left) = Current
  BY <1>4, SliceAll
<1> QED
  BY <1>1, <1>2, <1>3, <1>4, <1>5 DEF Sendings, Full

\* The end of a write: the packet that ends the phase, or the next write.
LEMMA WroteKeepsSend ==
  ASSUME SendInv, Wrote
  PROVE  SendInv'
<1>1. /\ pc = "wrote" /\ UNCHANGED <<kind, size, split, buf, faults>>
      /\ wire' = IF Ends THEN Append(wire, << >>) ELSE wire
      /\ pc' \in {"getresp", "fill", "idle"}
  BY DEF Wrote, call, Sending, NextWrite, Return
<1>2. size' \in Nat /\ faults' \in Nat /\ split' \in BOOLEAN
  BY <1>1 DEF SendInv
<1>3. CASE ~(kind = "send" /\ faults = 0)
  BY <1>1, <1>2, <1>3 DEF SendInv, SendFramed
<1>4. CASE kind = "send" /\ faults = 0
  <2>1. PICK d \in Nat : d = datawlen(size) /\ d <= size
    BY Widths DEF SendInv
  <2>2. size \in Nat /\ split \in BOOLEAN /\ Sendings /\ HdrLen \in Nat
    BY <1>1, <1>4, Sizing DEF SendInv
  <2>3. /\ OnFirst = FirstOf(size, d) /\ Others = OthersOf(size, d)
        /\ OnFirst \in Seq(Int) /\ Len(OnFirst) = HdrLen + d
        /\ Others \in Seq(Int) /\ Len(Others) = size - d
        /\ wire = Before \o Packets(Current) /\ left = Len(Current) /\ left > 0 /\ curwrite = left
        /\ Full(buf) <=> Full(Current)
    BY <1>1, <1>4, <2>1, WrittenWhole
  <2>4. Packets(OnFirst) \in Wire /\ Packets(Others) \in Wire
    BY <2>3, PacketsShape
  <2>5. DataPhase(split, Object(size), << >>) =
          IF d = size THEN Ended(OnFirst, << >>) ELSE Packets(OnFirst) \o Ended(Others, << >>)
    <3>1. d = IF split THEN 0 ELSE Least(size, First)
      BY <2>1 DEF datawlen
    <3>2. DataPhase(split, Object(size), << >>) =
            IF d = size THEN Ended(FirstOf(size, d), << >>)
                        ELSE Packets(FirstOf(size, d)) \o Ended(OthersOf(size, d), << >>)
      BY <2>1, <2>2, <3>1, Framed
    <3> QED
      BY <2>3, <3>2
  <2>6. OnFirst' = OnFirst /\ Others' = Others
    BY <1>1 DEF OnFirst, Others, datawlen
  <2>7. CASE stage = "first"
    <3>1. Current = OnFirst /\ Before = << >>
      BY <2>7 DEF Current, Before
    <3>2. wire = Packets(OnFirst) /\ FlattenSeq(wire) = OnFirst
      <4>1. wire = Packets(OnFirst)
        BY <2>3, <2>4, <3>1, ConcatEmptySeq DEF Wire
      <4> QED
        BY <2>3, <4>1, FlattenPackets
    <3>3. left = HdrLen + d /\ Length = HdrLen + size
      BY <2>3, <3>1 DEF Length
    <3>4. CASE d = size
      <4>1. pc' = "getresp"
        <5>1. Length <= left /\ ~(Length > left)
          BY <2>1, <2>2, <3>3, <3>4
        <5> QED
          BY <2>7, <5>1 DEF Wrote, Sending
      <4>2. Ends <=> Full(OnFirst)
        BY <2>2, <2>3, <3>1, <3>2, <3>3, <3>4 DEF Ends
      <4>3. wire' = Ended(OnFirst, << >>)
        BY <1>1, <3>2, <4>2 DEF Ended
      <4> QED
        BY <1>1, <1>2, <2>5, <3>4, <4>1, <4>3 DEF SendInv, SendFramed
    <3>5. CASE d # size
      <4>1. Length > left /\ ~(Length <= left) /\ ~Ends /\ Length - left = size - d
        <5>1. Length > left /\ ~(Length <= left) /\ Length - left = size - d
          BY <2>1, <2>2, <3>3, <3>5
        <5> QED
          BY <2>2, <2>3, <3>2, <3>3, <5>1 DEF Ends
      <4>2. /\ pc' = "fill" /\ stage' = "rest" /\ left' = size - d /\ file' = rest
            /\ curwrite' = 0 /\ wire' = Packets(OnFirst)
        <5>1. NextWrite(Length - left, rest)
          BY <2>7, <4>1 DEF Wrote
        <5> QED
          BY <1>1, <3>2, <4>1, <5>1 DEF NextWrite
      <4>3. Current' = Others /\ Before' = Packets(OnFirst)
        BY <2>6, <4>2 DEF Current, Before
      <4>4. Len(rest) <= size - d /\ rest = Slice(Others, 0, Len(rest)) /\ Len(rest) \in Nat
        <5>1. Len(rest) <= Len(Others) /\ rest = Slice(Others, 0, Len(rest))
          BY <2>2, <2>7 DEF Sendings
        <5>2. Len(rest) \in Nat
          BY <2>3, <5>1 DEF Slice
        <5> QED
          BY <2>3, <5>1, <5>2
      <4>5. size - d \in Nat /\ size - d > 0
        BY <2>1, <2>2, <3>5
      <4>6. Sendings'
        <5>1. Slice(Others, 0, 0) = << >> /\ Packets(OnFirst) \o << >> = Packets(OnFirst)
          BY <2>4, SliceNone, ConcatEmptySeq DEF Wire
        <5>2. wire' = Before' \o Packets(Slice(Current', 0, curwrite'))
          BY <4>2, <4>3, <5>1, PacketsEmpty
        <5> QED
          BY <2>3, <4>2, <4>3, <4>5, <5>2 DEF Sendings
      <4>7. Filling'
        <5>1. 0 % Packet = 0 /\ 0 + Len(rest) = Len(rest)
          BY <4>4, Sizing
        <5> QED
          BY <4>2, <4>3, <4>4, <4>5, <5>1 DEF Filling
      <4> QED
        BY <1>1, <1>2, <4>2, <4>6, <4>7 DEF SendInv, SendFramed
    <3> QED
      BY <3>4, <3>5
  <2>8. CASE stage # "first"
    <3>1. Current = Others /\ Before = Packets(OnFirst) /\ stage = "rest"
      BY <2>2, <2>8 DEF Current, Before, Sendings
    <3>2. wire = Packets(OnFirst) \o Packets(Others) /\ d # size
      BY <2>1, <2>2, <2>3, <3>1
    <3>3. Len(FlattenSeq(wire)) = Length
      <4>1. FlattenSeq(wire) = OnFirst \o Others
        BY <2>3, <2>4, <3>2, FlattenConcat, FlattenPackets
      <4>2. Len(OnFirst \o Others) = Len(OnFirst) + Len(Others)
        BY <2>3, ConcatProperties
      <4> QED
        BY <2>1, <2>2, <2>3, <4>1, <4>2 DEF Length
    <3>4. Ends <=> Full(Others)
      <4>1. Length \in Nat
        BY <2>2 DEF Length
      <4> QED
        BY <2>3, <3>1, <3>3, <4>1 DEF Ends
    <3>5. wire' = Packets(OnFirst) \o Ended(Others, << >>)
      <4>1. Append(Packets(OnFirst) \o Packets(Others), << >>) = Packets(OnFirst) \o Append(Packets(Others), << >>)
        <5>1. << >> \in Seq(Int)
          OBVIOUS
        <5> QED
          BY <2>4, <5>1, AppendConcat
      <4> QED
        BY <1>1, <3>2, <3>4, <4>1 DEF Ended
    <3>6. pc' = "getresp"
      <4>1. curwrite = left /\ left \in Nat /\ stage = "rest"
        BY <2>3, <3>1
      <4>2. ~(curwrite < left)
        BY <4>1
      <4> QED
        BY <4>1, <4>2 DEF Wrote, Sending
    <3> QED
      BY <1>1, <1>2, <2>5, <3>2, <3>5, <3>6 DEF SendInv, SendFramed
  <2> QED
    BY <2>7, <2>8
<1> QED
  BY <1>3, <1>4

\* The steps of the calls that read change nothing of what was written.
LEMMA OthersKeepSend ==
  ASSUME SendInv,
         \/ \E n \in Sizes : Get(n)
         \/ Answer \/ GetData \/ Stream \/ ReadExtra \/ ReadSized \/ ReadZero \/ GetResp
  PROVE  SendInv'
<1>1. CASE \E n \in Sizes : Get(n)
  <2>1. PICK n \in Sizes : Get(n)
    BY <1>1
  <2>2. kind' = "get" /\ size' = n /\ faults' = faults /\ split' = split
    BY <2>1 DEF Get
  <2>3. n \in Nat
    BY SizeAssumption
  <2> QED
    BY <2>2, <2>3 DEF SendInv, SendFramed
<1>2. CASE GetResp
  <2>1. /\ pc = "getresp" /\ pc' \in {"getresp", "idle"}
        /\ UNCHANGED <<kind, size, faults, split, wire>>
    BY <1>2 DEF GetResp, call, writing, Return
  <2> QED
    BY <2>1 DEF SendInv, SendFramed
<1>3. CASE Answer \/ GetData \/ Stream \/ ReadExtra \/ ReadSized \/ ReadZero
  <2>1. pc \in {"answer", "getdata", "stream", "extra", "sized", "zero"}
    BY <1>3 DEF Answer, GetData, Stream, ReadExtra, ReadSized, ReadZero
  <2>2. kind # "send" /\ kind' = kind /\ size' = size /\ size \in Nat
    BY <1>3, <2>1 DEF SendInv, Answer, GetData, Stream, ReadExtra, ReadSized, ReadZero, call
  <2>3. split' \in BOOLEAN
    BY <1>3 DEF SendInv, Answer, GetData, Stream, ReadExtra, ReadSized, ReadZero
  <2>4. faults' \in Nat
    BY <1>3 DEF SendInv, Answer, GetData, Stream, ReadExtra, ReadSized, ReadZero
  <2> QED
    BY <2>2, <2>3, <2>4 DEF SendInv, SendFramed
<1> QED
  BY <1>1, <1>2, <1>3

\* At first nothing is being sent.
LEMMA SendInitially ==
  ASSUME Init
  PROVE  SendInv
BY DEF Init, SendInv, SendFramed

\* Every step, with any of the libraries, keeps the invariant.
LEMMA SendStep ==
  ASSUME SendInv, [AnyPort]_vars
  PROVE  SendInv'
<1>1. CASE \E n \in Sizes : Send(n)
  BY <1>1, BeginsSend
<1>2. CASE \/ \E n \in Sizes : Get(n)
           \/ Answer \/ GetData \/ Stream \/ ReadExtra \/ ReadSized \/ ReadZero \/ GetResp
  BY <1>2, OthersKeepSend
<1>3. CASE Fill
  BY <1>3, FillKeepsSend
<1>4. CASE Put
  BY <1>4, PutKeepsSend
<1>5. CASE PutDone
  BY <1>5, PutDoneKeepsSend
<1>6. CASE Wrote
  BY <1>6, WroteKeepsSend
<1>7. CASE UNCHANGED vars
  <2>1. UNCHANGED <<kind, size, faults, split, pc, stage, rest, left, curwrite, wire, buf, file, usbwritten, xwritten>>
    BY <1>7 DEF vars, call, writing
  <2>2. Current' = Current /\ Others' = Others /\ Before' = Before
    BY <2>1 DEF Current, Others, OnFirst, Before, datawlen
  <2>3. Sendings => Sendings'
    BY <2>1, <2>2 DEF Sendings
  <2>4. Filling => Filling'
    BY <2>1, <2>2 DEF Filling
  <2>5. Putting => Putting'
    BY <2>1, <2>2 DEF Putting
  <2> QED
    BY <2>1, <2>3, <2>4, <2>5 DEF SendInv, SendFramed
<1>8. Next \/ UNCHANGED vars
  BY DEF AnyPort, Ports, Usb1, Usb0, OpenUsb, Next, Host, getdata_usb0, read_usb0, getresp_usb0,
         senddata_usb0, write_usb0, getdata_openusb, read_openusb, getresp_openusb,
         senddata_openusb, write_openusb
<1> QED
  BY <1>1, <1>2, <1>3, <1>4, <1>5, <1>6, <1>7, <1>8 DEF Next, Host

\* What the host sends in a call that meets no fault is the data phase of its object,
\* for every size of object, packet, block and first write, whatever the device and the
\* file the library is built with (ptp_usb_senddata, ptp_write_func).
THEOREM SendsFramed == PortsSpec => []SendFramed
<1>1. Init => SendInv
  BY SendInitially
<1>2. SendInv /\ [AnyPort]_vars => SendInv'
  BY SendStep
<1>3. SendInv => SendFramed
  BY DEF SendInv
<1> QED
  BY <1>1, <1>2, <1>3, PTL DEF PortsSpec

-----------------------------------------------------------------------------
\* What a read takes.  A part of a wire.
LEMMA WirePart ==
  ASSUME NEW w \in Wire, NEW a \in Nat, NEW b \in Nat, a <= b, b <= Len(w)
  PROVE  /\ SubSeq(w, a + 1, b) \in Wire /\ Len(SubSeq(w, a + 1, b)) = b - a
         /\ \A i \in 1 .. b - a : SubSeq(w, a + 1, b)[i] = w[a + i]
<1>1. a + 1 \in Int /\ b \in Int /\ Len(w) \in Nat /\ \A i \in a + 1 .. b : w[i] \in Seq(Int)
  BY DEF Wire
<1>2. /\ SubSeq(w, a + 1, b) \in Wire
      /\ Len(SubSeq(w, a + 1, b)) = IF a + 1 <= b THEN b - (a + 1) + 1 ELSE 0
      /\ \A i \in 1 .. b - (a + 1) + 1 : SubSeq(w, a + 1, b)[i] = w[(a + 1) + i - 1]
  <2>1. w \in Seq(Seq(Int))
    BY DEF Wire
  <2>2. /\ SubSeq(w, a + 1, b) \in Seq(Seq(Int))
        /\ Len(SubSeq(w, a + 1, b)) = IF a + 1 <= b THEN b - (a + 1) + 1 ELSE 0
        /\ \A i \in 1 .. b - (a + 1) + 1 : SubSeq(w, a + 1, b)[i] = w[(a + 1) + i - 1]
    BY <1>1, <2>1, SubSeqProperties, SMTT(30)
  <2> QED
    BY <2>2 DEF Wire
<1>3. Len(SubSeq(w, a + 1, b)) = b - a
  BY <1>2
<1>4. ASSUME NEW i \in 1 .. b - a PROVE SubSeq(w, a + 1, b)[i] = w[a + i]
  <2>1. i \in 1 .. b - (a + 1) + 1 /\ (a + 1) + i - 1 = a + i
    OBVIOUS
  <2> QED
    BY <2>1, <1>2
<1> QED
  BY <1>2, <1>3, <1>4

\* Wires with the same packets are the same.
LEMMA WireEqual ==
  ASSUME NEW v \in Wire, NEW w \in Wire, Len(v) = Len(w), \A i \in 1 .. Len(v) : v[i] = w[i]
  PROVE  v = w
BY SeqEqual DEF Wire

\* Two wires one behind the other, taken apart again.
LEMMA WireApart ==
  ASSUME NEW v \in Wire, NEW w \in Wire
  PROVE  /\ v \o w \in Wire /\ Len(v \o w) = Len(v) + Len(w)
         /\ \A i \in 1 .. Len(v) + Len(w) : (v \o w)[i] = IF i <= Len(v) THEN v[i] ELSE w[i - Len(v)]
         /\ SubSeq(v \o w, 1, Len(v)) = v /\ SubSeq(v \o w, Len(v) + 1, Len(v \o w)) = w
<1> DEFINE u == v \o w
<1>1. /\ u \in Wire /\ Len(u) = Len(v) + Len(w) /\ Len(v) \in Nat /\ Len(w) \in Nat
      /\ \A i \in 1 .. Len(v) + Len(w) : u[i] = IF i <= Len(v) THEN v[i] ELSE w[i - Len(v)]
  BY ConcatProperties DEF Wire
<1> HIDE DEF u
<1>2. PICK z \in Nat, l \in Nat, k \in Nat : z = 0 /\ l = Len(v) /\ k = Len(u) /\ z <= l /\ l <= k /\ k - l = Len(w) /\ l - z = l
  BY <1>1
<1>3. SubSeq(u, z + 1, l) = v
  <2>1. SubSeq(u, z + 1, l) \in Wire /\ Len(SubSeq(u, z + 1, l)) = l
        /\ \A i \in 1 .. l : SubSeq(u, z + 1, l)[i] = u[z + i]
    <3>1. u \in Wire /\ z <= l /\ l <= Len(u)
      BY <1>1, <1>2
    <3>2. SubSeq(u, z + 1, l) \in Wire /\ Len(SubSeq(u, z + 1, l)) = l - z
          /\ \A i \in 1 .. l - z : SubSeq(u, z + 1, l)[i] = u[z + i]
      BY <3>1, WirePart
    <3> QED
      BY <3>2, <1>2
  <2>2. ASSUME NEW i \in 1 .. l PROVE SubSeq(u, z + 1, l)[i] = v[i]
    <3>1. i \in 1 .. Len(v) + Len(w) /\ i <= Len(v) /\ z + i = i
      BY <1>1, <1>2
    <3> QED
      BY <3>1, <2>1, <1>1
  <2> QED
    BY <2>1, <2>2, <1>2, WireEqual
<1>4. SubSeq(u, l + 1, k) = w
  <2>1. SubSeq(u, l + 1, k) \in Wire /\ Len(SubSeq(u, l + 1, k)) = k - l
        /\ \A i \in 1 .. k - l : SubSeq(u, l + 1, k)[i] = u[l + i]
    <3>1. u \in Wire /\ l <= k /\ k <= Len(u)
      BY <1>1, <1>2
    <3> QED
      BY <3>1, WirePart
  <2>2. ASSUME NEW i \in 1 .. k - l PROVE SubSeq(u, l + 1, k)[i] = w[i]
    <3>1. l + i \in 1 .. Len(v) + Len(w) /\ ~(l + i <= Len(v)) /\ (l + i) - Len(v) = i
      BY <1>1, <1>2
    <3> QED
      BY <3>1, <2>1, <1>1
  <2> QED
    BY <2>1, <2>2, <1>2, WireEqual
<1>5. z + 1 = 1
  BY <1>2
<1> QED
  BY <1>1, <1>2, <1>3, <1>4, <1>5 DEF u

\* The read ends at the first packet where it may.
LEMMA Counted ==
  ASSUME NEW n, Len(pipe) \in Nat, Arrived(n)
  PROVE  /\ Count(n) \in 1 .. Len(pipe) /\ Stops(Count(n), n)
         /\ \A j \in 1 .. Count(n) - 1 : ~Stops(j, n)
<1> DEFINE T == {k \in 1 .. Len(pipe) : Stops(k, n)}
<1>1. T \in SUBSET Nat /\ T # {}
  BY DEF Arrived
<1>2. PICK c \in T : \A m \in T : c <= m
  BY <1>1, Smallest
<1>3. c \in 1 .. Len(pipe) /\ Stops(c, n) /\ \A j \in 1 .. c - 1 : ~Stops(j, n)
  <2>1. c \in 1 .. Len(pipe) /\ Stops(c, n)
    OBVIOUS
  <2>2. ASSUME NEW j \in 1 .. c - 1, Stops(j, n) PROVE FALSE
    <3>1. j \in 1 .. Len(pipe) /\ ~(c <= j)
      BY <2>1
    <3> QED
      BY <3>1, <2>2, <1>2
  <2> QED
    BY <2>1, <2>2
<1> HIDE DEF T
<1>4. \E k \in 1 .. Len(pipe) : Stops(k, n) /\ \A j \in 1 .. k - 1 : ~Stops(j, n)
  BY <1>3
<1> QED
  BY <1>4 DEF Count

\* There is no other such packet.
LEMMA CountIs ==
  ASSUME NEW n, Len(pipe) \in Nat, NEW c \in 1 .. Len(pipe), Stops(c, n),
         \A j \in 1 .. c - 1 : ~Stops(j, n)
  PROVE  Arrived(n) /\ Count(n) = c
<1>1. Arrived(n)
  BY DEF Arrived
<1>2. PICK d \in Nat : d = Count(n) /\ d \in 1 .. Len(pipe) /\ Stops(d, n) /\ \A j \in 1 .. d - 1 : ~Stops(j, n)
  BY <1>1, Counted
<1>3. ~(d < c) /\ ~(c < d)
  <2>1. d < c => d \in 1 .. c - 1
    BY <1>2
  <2>2. c < d => c \in 1 .. d - 1
    BY <1>2
  <2> QED
    BY <2>1, <2>2, <1>2
<1> QED
  BY <1>1, <1>2, <1>3

\* A read that ends with the last packet of v takes v.
LEMMA ReadUpTo ==
  ASSUME NEW n, NEW v \in Wire, NEW w \in Wire, v # << >>, pipe = v \o w,
         \A j \in 1 .. Len(v) : j < Len(v) => Len(v[j]) = Packet /\ ~(j * Packet >= n),
         Len(v[Len(v)]) < Packet \/ Len(v) * Packet >= n
  PROVE  /\ Arrived(n) /\ Count(n) = Len(v) /\ Bytes(n) = FlattenSeq(v)
         /\ SubSeq(pipe, Count(n) + 1, Len(pipe)) = w
<1>1. PICK l \in Nat : l = Len(v) /\ l > 0
  BY DEF Wire
<1>2. /\ pipe \in Wire /\ Len(pipe) \in Nat /\ l <= Len(pipe)
      /\ \A i \in 1 .. l : pipe[i] = v[i]
      /\ SubSeq(pipe, 1, l) = v /\ SubSeq(pipe, l + 1, Len(pipe)) = w
  <2>1. pipe \in Wire /\ Len(pipe) = Len(v) + Len(w) /\ SubSeq(pipe, 1, l) = v /\ SubSeq(pipe, l + 1, Len(pipe)) = w
    BY <1>1, WireApart
  <2>2. Len(w) \in Nat /\ Len(v) \in Nat
    BY DEF Wire
  <2>3. ASSUME NEW i \in 1 .. l PROVE pipe[i] = v[i]
    <3>1. i \in 1 .. Len(v) + Len(w) /\ i <= Len(v)
      BY <1>1, <2>2
    <3> QED
      BY <3>1, WireApart
  <2> QED
    BY <1>1, <2>1, <2>2, <2>3
<1>3. l \in 1 .. Len(pipe) /\ l \in 1 .. l
  BY <1>1, <1>2
<1>4. Stops(l, n)
  BY <1>1, <1>2, <1>3 DEF Stops
<1>5. ASSUME NEW j \in 1 .. l - 1 PROVE ~Stops(j, n)
  <2>1. j \in 1 .. l /\ j < Len(v) /\ j \in 1 .. Len(v)
    BY <1>1
  <2>2. Len(v[j]) = Packet /\ ~(j * Packet >= n) /\ pipe[j] = v[j]
    BY <2>1, <1>2
  <2>3. ~(Len(pipe[j]) < Packet)
    BY <2>2, Sizing
  <2> QED
    BY <2>2, <2>3 DEF Stops
<1>6. Arrived(n) /\ Count(n) = l
  BY <1>2, <1>3, <1>4, <1>5, CountIs
<1> QED
  BY <1>1, <1>2, <1>6 DEF Bytes

\* The packets of a transfer, the last of which is full just when the transfer is.
LEMMA LastPacket ==
  ASSUME NEW s \in Seq(Int), s # << >>
  PROVE  \E c \in Nat :
           /\ c > 0 /\ Packets(s) \in Wire /\ Len(Packets(s)) = c /\ c * Packet \in Nat
           /\ Len(s) <= c * Packet /\ (Full(s) <=> Len(s) = c * Packet)
           /\ \A i \in 1 .. c : i < c => Len(Packets(s)[i]) = Packet /\ i * Packet \in Nat /\ i * Packet < Len(s)
           /\ Len(Packets(s)[c]) \in Nat /\ Len(Packets(s)[c]) > 0
           /\ IF Full(s) THEN Len(Packets(s)[c]) = Packet ELSE Len(Packets(s)[c]) < Packet
<1>1. PICK c \in Nat : /\ Len(s) <= c * Packet /\ c * Packet < Len(s) + Packet /\ c * Packet \in Nat
                       /\ Packets(s) \in Wire /\ Len(Packets(s)) = c
                       /\ \A i \in 1 .. c : /\ (i - 1) * Packet \in Nat /\ (i - 1) * Packet < Len(s)
                                            /\ Len(Packets(s)[i]) = Least(Packet, Len(s) - (i - 1) * Packet)
                                            /\ i < c => Len(Packets(s)[i]) = Packet /\ i * Packet < Len(s)
  BY PacketsShape
<1>2. PICK l \in Nat, p \in Nat, m \in Nat : l = Len(s) /\ p = Packet /\ m = c * Packet /\ l > 0 /\ p > 0 /\ l <= m /\ m < l + p
  BY <1>1, Sizing
<1>3. c > 0
  <2>1. c = 0 => m = 0
    BY <1>2
  <2> QED
    BY <2>1, <1>2
<1>4. (c - 1) * Packet = m - p
  BY <1>2, <1>3, Sizing
<1>5. c \in 1 .. c
  BY <1>3
<1>6. PICK e \in Nat : e = Len(Packets(s)[c]) /\ e = (IF p <= l - (m - p) THEN p ELSE l - (m - p))
  <2>1. Len(Packets(s)[c]) = Least(Packet, Len(s) - (c - 1) * Packet)
    BY <1>1, <1>5
  <2>2. Len(Packets(s)[c]) = IF p <= l - (m - p) THEN p ELSE l - (m - p)
    BY <2>1, <1>2, <1>4 DEF Least
  <2>3. l - (m - p) \in Nat
    BY <1>2
  <2> QED
    BY <2>2, <2>3
<1>7. e > 0 /\ (l = m => e = p) /\ (l # m => e < p)
  BY <1>2, <1>6
<1>8. Full(s) <=> l = m
  <2>1. ASSUME Full(s) PROVE l = m
    <3>1. PICK k \in Nat : l = k * Packet
      BY <2>1, <1>2, FullTimes
    <3>2. ~(k < c)
      <4> SUFFICES ASSUME k < c PROVE FALSE
        OBVIOUS
      <4>1. k <= c - 1 /\ c - 1 \in Nat
        OBVIOUS
      <4>2. k * Packet <= (c - 1) * Packet
        BY <4>1, Mono, Sizing
      <4> QED
        BY <4>2, <3>1, <1>2, <1>4
    <3>3. c * Packet <= k * Packet
      BY <3>2, Mono, Sizing
    <3> QED
      BY <3>1, <3>3, <1>2
  <2>2. ASSUME l = m PROVE Full(s)
    BY <2>2, <1>2, TimesFull DEF Full
  <2> QED
    BY <2>1, <2>2
<1>9. ASSUME NEW i \in 1 .. c, i < c
      PROVE  Len(Packets(s)[i]) = Packet /\ i * Packet \in Nat /\ i * Packet < Len(s)
  <2>1. i * Packet \in Nat
    BY Sizing
  <2> QED
    BY <2>1, <1>1, <1>9
<1> QED
  BY <1>1, <1>2, <1>3, <1>6, <1>7, <1>8, <1>9

\* A read of n bytes takes the packets of n bytes, or of less that end within one.
LEMMA ReadWhole ==
  ASSUME NEW s \in Seq(Int), s # << >>, NEW w \in Wire, pipe = Packets(s) \o w,
         NEW n \in Nat, Len(s) <= n, Len(s) = n \/ ~Full(s)
  PROVE  /\ Arrived(n) /\ Count(n) = Len(Packets(s)) /\ Bytes(n) = s
         /\ SubSeq(pipe, Count(n) + 1, Len(pipe)) = w
<1>1. PICK c \in Nat :
           /\ c > 0 /\ Packets(s) \in Wire /\ Len(Packets(s)) = c /\ c * Packet \in Nat
           /\ Len(s) <= c * Packet
           /\ \A i \in 1 .. c : i < c => Len(Packets(s)[i]) = Packet /\ i * Packet \in Nat /\ i * Packet < Len(s)
           /\ IF Full(s) THEN Len(Packets(s)[c]) = Packet ELSE Len(Packets(s)[c]) < Packet
  BY LastPacket
<1>2. Packets(s) # << >>
  BY <1>1
<1>3. ASSUME NEW j \in 1 .. Len(Packets(s)), j < Len(Packets(s))
      PROVE  Len(Packets(s)[j]) = Packet /\ ~(j * Packet >= n)
  <2>1. Len(Packets(s)[j]) = Packet /\ j * Packet \in Nat /\ j * Packet < Len(s)
    BY <1>1, <1>3
  <2> QED
    BY <2>1
<1>4. Len(Packets(s)[Len(Packets(s))]) < Packet \/ Len(Packets(s)) * Packet >= n
  BY <1>1
<1>5. FlattenSeq(Packets(s)) = s
  BY FlattenPackets
<1>6. Packets(s) \in Wire
  BY <1>1
<1> QED
  BY <1>2, <1>3, <1>4, <1>5, <1>6, ReadUpTo

\* Behind whole packets a read takes the packet that ends them as well.
LEMMA ReadFurther ==
  ASSUME NEW s \in Seq(Int), Full(s), NEW x \in Seq(Int), Len(x) < Packet, NEW w \in Wire,
         pipe = Append(Packets(s), x) \o w, NEW n \in Nat, Len(s) < n
  PROVE  /\ Arrived(n) /\ Count(n) = Len(Packets(s)) + 1 /\ Bytes(n) = s \o x
         /\ SubSeq(pipe, Count(n) + 1, Len(pipe)) = w
<1> DEFINE v == Append(Packets(s), x)
<1>1. Packets(s) \in Wire /\ Len(Packets(s)) \in Nat
  BY PacketsShape DEF Wire
<1>2. v \in Wire /\ v # << >> /\ Len(v) = Len(Packets(s)) + 1 /\ v[Len(v)] = x
      /\ \A i \in 1 .. Len(Packets(s)) : v[i] = Packets(s)[i]
  <2>1. v \in Wire /\ v # << >> /\ Len(v) = Len(Packets(s)) + 1
    <3>1. Packets(s) \in Seq(Seq(Int))
      BY <1>1 DEF Wire
    <3>2. v \in Seq(Seq(Int)) /\ v # << >> /\ Len(v) = Len(Packets(s)) + 1
      BY <3>1, AppendProperties
    <3> QED
      BY <3>2 DEF Wire
  <2>2. v[Len(Packets(s)) + 1] = x /\ \A i \in 1 .. Len(Packets(s)) : v[i] = Packets(s)[i]
    BY <1>1, AppendProperties DEF Wire
  <2> QED
    BY <2>1, <2>2
<1>3. FlattenSeq(v) = s \o x
  BY <1>1, FlattenMore, FlattenPackets
<1> HIDE DEF v
<1>4. ASSUME NEW j \in 1 .. Len(v), j < Len(v)
      PROVE  Len(v[j]) = Packet /\ ~(j * Packet >= n)
  <2>1. j \in 1 .. Len(Packets(s)) /\ v[j] = Packets(s)[j] /\ s # << >>
    <3>1. j \in 1 .. Len(Packets(s))
      BY <1>1, <1>2, <1>4
    <3>2. s # << >>
      BY <3>1, PacketsEmpty
    <3> QED
      BY <3>1, <3>2, <1>2
  <2>2. PICK c \in Nat :
           /\ Len(Packets(s)) = c /\ c * Packet \in Nat
           /\ (Full(s) <=> Len(s) = c * Packet)
           /\ \A i \in 1 .. c : i < c => Len(Packets(s)[i]) = Packet /\ i * Packet \in Nat /\ i * Packet < Len(s)
           /\ IF Full(s) THEN Len(Packets(s)[c]) = Packet ELSE Len(Packets(s)[c]) < Packet
    BY <2>1, LastPacket
  <2>3. CASE j < c
    <3>1. Len(Packets(s)[j]) = Packet /\ j * Packet \in Nat /\ j * Packet < Len(s)
      BY <2>1, <2>2, <2>3
    <3> QED
      BY <2>1, <3>1
  <2>4. CASE ~(j < c)
    <3>1. j = c
      BY <2>1, <2>2, <2>4
    <3>2. j * Packet = Len(s) /\ Len(Packets(s)[j]) = Packet
      BY <3>1, <2>2
    <3> QED
      BY <2>1, <3>2
  <2> QED
    BY <2>3, <2>4
<1>5. pipe = v \o w /\ Len(v[Len(v)]) < Packet
  BY <1>2 DEF v
<1>6. /\ Arrived(n) /\ Count(n) = Len(v) /\ Bytes(n) = FlattenSeq(v)
      /\ SubSeq(pipe, Count(n) + 1, Len(pipe)) = w
  BY <1>2, <1>4, <1>5, ReadUpTo
<1> QED
  BY <1>2, <1>3, <1>6

-----------------------------------------------------------------------------
\* What the host reads.  Bytes of data, and those that may begin a response.
Uncoded(p) == \A j \in 1 .. Len(p) : p[j] \notin {Response, Refusal}
Mute(p) == \A j \in 1 .. Len(p) : p[j] # Response
Coded(p) == p # << >> /\ p[1] \in {Response, Refusal}

\* Of packets: each fits, none has a response, only the last one begins as a response does.
Fits(q) == \A i \in 1 .. Len(q) : Len(q[i]) <= Packet
Quiet(q) == \A i \in 1 .. Len(q) : Mute(q[i])
Tamed(q) == \A i \in 1 .. Len(q) : i < Len(q) => ~Coded(q[i])
Silent == Mute(surplus) /\ Quiet(pipe)

\* What an answer puts on the pipe.
Answered(q) ==
  \/ q = << Hdr(Refusal) >>
  \/ \E m \in 0 .. size : \E code \in {Response, Refusal} : \E k \in 0 .. Len(Sent(Object(m), code)) :
        /\ q = SubSeq(Sent(Object(m), code), 1, k)
        /\ code = Response /\ k = Len(Sent(Object(m), code)) => m = size

\* The bytes in the packets before the last fit what is still to be read.
Volume(q, c) == Len(FlattenSeq(SubSeq(q, 1, c)))
Room == IF dev.noZeroReads /\ Remaining % Packet = 0 THEN Remaining + 1 ELSE Remaining

\* Where what is on its way comes from.
Arriving ==
  /\ kind \in {"get", "send"}
  /\ pc \in {"fill", "put", "wrote"} => kind = "send"
  /\ pc \in {"answer", "getdata", "stream", "extra", "sized", "zero"} => kind = "get"
  /\ pc \in {"idle", "answer", "fill", "put", "wrote"} => pipe = << >>
  /\ pc # "getresp" => surplus = << >>
  /\ Tamed(pipe) /\ (Coded(surplus) => pipe = << >>)
  /\ pc \in {"answer", "getdata"} => curread = 0
  /\ pc = "getdata" => Answered(pipe)
  /\ pc = "extra" => Remaining > 0 /\ Len(pipe) <= 2
  /\ pc = "sized" => Remaining > 0 /\ \A c \in 0 .. Len(pipe) : c < Len(pipe) => Volume(pipe, c) <= Room

\* An undisturbed answer is understood.
Coming(t) == got \o t = Object(size) /\ pipe = Ended(t, EndPacket) \o << Hdr(Response) >>
Ready == \/ surplus = Hdr(Response) /\ pipe = << >>
         \/ ~Coded(surplus) /\ pipe # << >> /\ pipe[Len(pipe)] = Hdr(Response)
Undisturbed ==
  /\ pc = "getdata" => pipe = Sent(Object(size), Response)
  /\ pc = "extra" => Misread
  /\ pc = "stream" /\ ~Misread => \E t \in Seq(Int) : Coming(t) /\ (dev.noZeroReads => ~Full(t))
  /\ pc = "sized" /\ ~Misread => curread = Len(got) /\ Full(got) /\ \E t \in Seq(Int) : Coming(t)
  /\ pc = "zero" /\ ~Misread =>
       /\ got = Object(size) /\ curread = size
       /\ pipe \in {<< Hdr(Response) >>, << EndPacket, Hdr(Response) >>}
       /\ ~dev.noZeroReads => (pipe = << EndPacket, Hdr(Response) >> <=> size % Packet = 0)
  /\ pc = "getresp" /\ ~Misread => got = Object(size) /\ Ready

\* The invariant behind DataExact and NothingLeft.
ReadTypes == /\ dev \in Devices /\ size \in Nat /\ faults \in Nat /\ split \in BOOLEAN
             /\ pipe \in Wire /\ surplus \in Seq(Int) /\ got \in Seq(Int)
             /\ Fits(pipe)
ReadInv ==
  /\ ReadTypes /\ Arriving
  /\ kind = "get" /\ pc \notin {"idle", "answer"} => Undisturbed \/ (Silent /\ faults > 0)
  /\ kind = "send" /\ pc = "getresp" => Ready
  /\ faults = 0 /\ split => dev.split
  /\ DataExact /\ NothingLeft
-----------------------------------------------------------------------------
\* The packets of an answer.  What the assumptions say of a device.
LEMMA DeviceFacts ==
  ASSUME ReadTypes
  PROVE  /\ dev.split \in BOOLEAN /\ dev.noZeroReads \in BOOLEAN /\ dev.tail \in {"none", "joined", "stray"}
         /\ EndPacket \in Seq(Int) /\ Len(EndPacket) <= 1 /\ Len(EndPacket) < Packet /\ Uncoded(EndPacket)
         /\ Len(EndPacket) = (IF dev.noZeroReads THEN 1 ELSE 0)
<1>1. dev \in Device
  BY DeviceAssumption DEF ReadTypes
<1>2. dev.split \in BOOLEAN /\ dev.noZeroReads \in BOOLEAN /\ dev.tail \in {"none", "joined", "stray"}
  BY <1>1 DEF Device
<1>3. CASE dev.noZeroReads
  <2>1. EndPacket = << Extra >>
    BY <1>3 DEF EndPacket
  <2> QED
    BY <1>2, <1>3, <2>1, Sizing DEF Extra, Uncoded, Response, Refusal
<1>4. CASE ~dev.noZeroReads
  <2>1. EndPacket = << >>
    BY <1>4 DEF EndPacket
  <2> QED
    BY <1>2, <1>4, <2>1, Sizing DEF Uncoded
<1> QED
  BY <1>3, <1>4

\* What ends a transfer comes behind its packets.
Ending(t, x) == IF Full(t) THEN << x >> ELSE << >>
LEMMA EndedIs ==
  ASSUME NEW t \in Seq(Int), NEW x \in Seq(Int), NEW w \in Wire
  PROVE  /\ Ended(t, x) \in Wire /\ Ending(t, x) \in Wire /\ Ending(t, x) \o w \in Wire /\ Packets(t) \in Wire
         /\ Ended(t, x) = Packets(t) \o Ending(t, x)
         /\ Ended(t, x) \o w = Packets(t) \o (Ending(t, x) \o w)
<1>1. Packets(t) \in Wire
  BY PacketsShape
<1>2. Ending(t, x) \in Wire
  BY DEF Ending, Wire
<1>3. Ended(t, x) = Packets(t) \o Ending(t, x)
  <2>1. CASE Full(t)
    <3>1. Append(Packets(t), x) = Packets(t) \o << x >>
      BY <1>1, AppendIsConcat DEF Wire
    <3> QED
      BY <2>1, <3>1 DEF Ended, Ending
  <2>2. CASE ~Full(t)
    BY <2>2, <1>1, ConcatEmptySeq DEF Ended, Ending, Wire
  <2> QED
    BY <2>1, <2>2
<1>4. Packets(t) \o Ending(t, x) \in Wire /\ Ending(t, x) \o w \in Wire
  BY <1>1, <1>2, ConcatProperties DEF Wire
<1>5. (Packets(t) \o Ending(t, x)) \o w = Packets(t) \o (Ending(t, x) \o w)
  BY <1>1, <1>2, Assoc3
<1> QED
  BY <1>1, <1>2, <1>3, <1>4, <1>5

\* A transfer goes on behind whole packets as one that begins there.
LEMMA EndedBehind ==
  ASSUME NEW a \in Seq(Int), NEW b \in Seq(Int), NEW x \in Seq(Int), Full(a)
  PROVE  /\ Full(a \o b) <=> Full(b)
         /\ Ended(a \o b, x) = Packets(a) \o Ended(b, x)
<1>1. Packets(a \o b) = Packets(a) \o Packets(b)
  BY PacketsAppend
<1>2. Packets(a) \in Wire /\ Packets(b) \in Wire
  BY PacketsShape
<1>3. Full(a \o b) <=> Full(b)
  <2>1. PICK k \in Nat, l \in Nat : k = Len(a) /\ l = Len(b) /\ Len(a \o b) = k + l
    BY ConcatProperties
  <2>2. (k + l) % Packet = l % Packet
    BY <2>1, MultipleAdds DEF Full
  <2> QED
    BY <2>1, <2>2 DEF Full
<1>4. Append(Packets(a) \o Packets(b), x) = Packets(a) \o Append(Packets(b), x)
  BY <1>2, AppendConcat
<1> QED
  BY <1>1, <1>3, <1>4 DEF Ended

\* The forms of an answer with m bytes: its first packet, and what comes behind it.
Headed(a) == Hdr(Header) \o a
Alone(m, code, p, r) ==
  /\ r = << Hdr(code) >> /\ Len(p) < Packet /\ (dev.split => m = 0)
  /\ \E x \in {<< >>, << Extra >>} : p = Headed(Object(m)) \o x
Joined(m, code, p, r) ==
  r = << >> /\ Len(p) < Packet /\ ~dev.split /\ p = Headed(Object(m)) \o Hdr(code)
Streamed(m, code, p, r) ==
  /\ ~dev.split /\ Len(p) = Packet
  /\ \E a \in Seq(Int), b \in Seq(Int) :
        /\ Object(m) = a \o b /\ p = Headed(a) /\ r = Ended(b, EndPacket) \o << Hdr(code) >>
        /\ Full(b) <=> (HdrLen + m) % Packet = 0
Apart(m, code, p, r) ==
  dev.split /\ m > 0 /\ p = Hdr(Header) /\ r = Ended(Object(m), EndPacket) \o << Hdr(code) >>
Form(m, code, p, r) ==
  /\ Alone(m, code, p, r) \/ Joined(m, code, p, r) \/ Streamed(m, code, p, r) \/ Apart(m, code, p, r)
  /\ p \in Seq(Int) /\ r \in Wire

\* A whole answer in one packet that is not full.
LEMMA ShortAnswer ==
  ASSUME ReadTypes, NEW m \in Nat, NEW code \in {Response, Refusal}, dev.split => m = 0, HdrLen + m < Packet
  PROVE  /\ Ended(Headed(Object(m)), EndPacket) = << Headed(Object(m)) >>
         /\ Alone(m, code, Headed(Object(m)), << Hdr(code) >>)
<1> DEFINE s == Headed(Object(m))
<1>1. s \in Seq(Int) /\ Len(s) = HdrLen + m
  <2>1. Hdr(Header) \in Seq(Int) /\ Len(Hdr(Header)) = HdrLen /\ Object(m) \in Seq(Int) /\ Len(Object(m)) = m
    BY Headers, Objects DEF Header
  <2> QED
    BY <2>1, ConcatProperties DEF Headed
<1> HIDE DEF s
<1>2. PICK l \in Nat, p \in Nat : l = Len(s) /\ p = Packet /\ 0 < l /\ l < p
  BY <1>1, Sizing
<1>3. Packets(s) = << s >>
  BY <1>1, <1>2, PacketsOne
<1>4. ~Full(s)
  <2>1. l \in 0 .. p - 1
    BY <1>2
  <2>2. l % p = l
    BY <2>1, <1>2, SmallDiv
  <2> QED
    BY <2>2, <1>2 DEF Full
<1>5. s \o << >> = s
  BY <1>1, ConcatEmptySeq
<1>6. Alone(m, code, s, << Hdr(code) >>)
  BY <1>2, <1>5 DEF Alone, s
<1> QED
  BY <1>3, <1>4, <1>6 DEF Ended, s

\* A longer one, header first.
LEMMA LongAnswer ==
  ASSUME ReadTypes, NEW m \in Nat, NEW code \in {Response, Refusal}, ~dev.split, ~(HdrLen + m < Packet)
  PROVE  \E p \in Seq(Int), r \in Wire :
           /\ Ended(Headed(Object(m)), EndPacket) \o << Hdr(code) >> = << p >> \o r
           /\ Streamed(m, code, p, r)
<1> DEFINE o == Object(m)
           h == Hdr(Header)
<1>1. o \in Seq(Int) /\ Len(o) = m /\ h \in Seq(Int) /\ Len(h) = HdrLen
  BY Objects, Headers DEF Header
<1> HIDE DEF o, h
<1>2. PICK d \in Nat : d = Packet - HdrLen /\ HdrLen + d = Packet /\ d <= m
  BY Sizing
<1>3. PICK a \in Seq(Int), b \in Seq(Int) : a \o b = o /\ Len(a) = d /\ h \o o = (h \o a) \o b
  <2>1. PICK z \in Nat : z = 0 /\ z <= d /\ d <= Len(o) /\ m = Len(o)
    BY <1>1, <1>2
  <2>2. Slice(o, z, d) \in Seq(Int) /\ Len(Slice(o, z, d)) = d - z /\ Slice(o, d, m) \in Seq(Int)
    <3>1. m <= Len(o) /\ d <= m
      BY <1>1, <1>2
    <3> QED
      BY <1>1, <2>1, <3>1, SliceFacts
  <2>3. Slice(o, z, d) \o Slice(o, d, m) = Slice(o, z, m)
    <3>1. m <= Len(o) /\ d <= m
      BY <1>1, <1>2
    <3> QED
      BY <1>1, <2>1, <3>1, SliceJoin
  <2>4. Slice(o, z, m) = o
    BY <1>1, <2>1, SliceAll
  <2>5. (h \o Slice(o, z, d)) \o Slice(o, d, m) = h \o (Slice(o, z, d) \o Slice(o, d, m))
    BY <1>1, <2>2, Assoc
  <2>6. Len(Slice(o, z, d)) = d
    BY <2>1, <2>2
  <2> QED
    BY <2>2, <2>3, <2>4, <2>5, <2>6
<1>4. h \o a \in Seq(Int) /\ Len(h \o a) = Packet
  <2>1. h \o a \in Seq(Int) /\ Len(h \o a) = Len(h) + Len(a)
    BY <1>1, ConcatProperties
  <2> QED
    BY <2>1, <1>1, <1>2, <1>3
<1>5. Full(h \o a) /\ Packets(h \o a) = << h \o a >>
  <2>1. Full(h \o a)
    <3>1. 1 * Packet = Packet
      BY Sizing
    <3> QED
      BY <1>4, <3>1, TimesFull DEF Full
  <2>2. Packets(h \o a) = << h \o a >>
    <3>1. 0 < Len(h \o a) /\ Len(h \o a) <= Packet
      BY <1>4, Sizing
    <3> QED
      BY <3>1, <1>4, PacketsOne
  <2> QED
    BY <2>1, <2>2
<1>6. /\ Full(h \o o) <=> Full(b)
      /\ Ended(h \o o, EndPacket) = << h \o a >> \o Ended(b, EndPacket)
  <2>1. EndPacket \in Seq(Int)
    BY DeviceFacts
  <2>2. /\ Full((h \o a) \o b) <=> Full(b)
        /\ Ended((h \o a) \o b, EndPacket) = Packets(h \o a) \o Ended(b, EndPacket)
    BY <1>3, <1>4, <1>5, <2>1, EndedBehind
  <2> QED
    BY <2>2, <1>3, <1>5
<1>7. << h \o a >> \in Wire /\ Ended(b, EndPacket) \in Wire /\ << Hdr(code) >> \in Wire
      /\ Ended(b, EndPacket) \o << Hdr(code) >> \in Wire
  <2>1. EndPacket \in Seq(Int) /\ Hdr(code) \in Seq(Int)
    BY DeviceFacts, Headers DEF Response, Refusal
  <2>2. << Hdr(code) >> \in Wire /\ << h \o a >> \in Wire
    BY <2>1, <1>4 DEF Wire
  <2>3. Ended(b, EndPacket) \in Wire
    BY <1>3, <2>1, <2>2, EndedIs
  <2> QED
    BY <2>2, <2>3, ConcatProperties DEF Wire
<1>8. (<< h \o a >> \o Ended(b, EndPacket)) \o << Hdr(code) >> = << h \o a >> \o (Ended(b, EndPacket) \o << Hdr(code) >>)
  BY <1>7, Assoc3
<1>9. Full(b) <=> (HdrLen + m) % Packet = 0
  <2>1. Len(h \o o) = HdrLen + m
    BY <1>1, ConcatProperties
  <2> QED
    BY <2>1, <1>6 DEF Full
<1>10. Streamed(m, code, h \o a, Ended(b, EndPacket) \o << Hdr(code) >>)
  BY <1>3, <1>4, <1>9 DEF Streamed, Headed, h, o
<1>11. Ended(Headed(Object(m)), EndPacket) \o << Hdr(code) >> = << h \o a >> \o (Ended(b, EndPacket) \o << Hdr(code) >>)
  BY <1>6, <1>8 DEF Headed, h, o
<1> QED
  BY <1>4, <1>7, <1>10, <1>11

\* Every answer has one of the forms.
LEMMA SentForms ==
  ASSUME ReadTypes, NEW m \in Nat, NEW code \in {Response, Refusal}
  PROVE  \E p \in Seq(Int), r \in Wire : Sent(Object(m), code) = << p >> \o r /\ Form(m, code, p, r)
<1> DEFINE s == Headed(Object(m))
           tail == CASE dev.tail = "joined" -> Hdr(code) [] dev.tail = "stray" -> << Extra >>
                     [] OTHER -> << >>
<1>0. dev.split \in BOOLEAN /\ dev.tail \in {"none", "joined", "stray"} /\ EndPacket \in Seq(Int)
  BY DeviceFacts
<1>1. s \in Seq(Int) /\ Len(s) = HdrLen + m /\ Object(m) \in Seq(Int) /\ Len(Object(m)) = m
  <2>1. Hdr(Header) \in Seq(Int) /\ Len(Hdr(Header)) = HdrLen /\ Object(m) \in Seq(Int) /\ Len(Object(m)) = m
    BY Headers, Objects DEF Header
  <2> QED
    BY <2>1, ConcatProperties DEF Headed
<1>2. Hdr(code) \in Seq(Int) /\ Len(Hdr(code)) = HdrLen /\ << Extra >> \in Seq(Int) /\ << Hdr(code) >> \in Wire
      /\ Hdr(Header) \in Seq(Int)
  BY Headers DEF Response, Refusal, Wire, Extra, Header
<1>3. tail \in Seq(Int)
  BY <1>0, <1>2
<1>4. Sent(Object(m), code) =
        IF ~dev.split /\ Len(s) + Len(tail) < Packet
          THEN << s \o tail >> \o (IF dev.tail = "joined" THEN << >> ELSE << Hdr(code) >>)
          ELSE DataPhase(dev.split, Object(m), EndPacket) \o << Hdr(code) >>
  BY DEF Sent, Headed
<1>5. CASE ~dev.split /\ Len(s) + Len(tail) < Packet
  <2>1. s \o tail \in Seq(Int) /\ Len(s \o tail) < Packet
    BY <1>1, <1>3, <1>5, ConcatProperties
  <2>2. CASE dev.tail = "joined"
    <3>1. tail = Hdr(code)
      BY <2>2
    <3>2. Joined(m, code, s \o tail, << >>)
      BY <2>1, <3>1, <1>5 DEF Joined
    <3>3. << >> \in Wire
      BY DEF Wire
    <3>4. Sent(Object(m), code) = << s \o tail >> \o << >>
      BY <1>4, <1>5, <2>2
    <3> QED
      BY <2>1, <3>2, <3>3, <3>4 DEF Form
  <2>3. CASE dev.tail # "joined"
    <3>1. tail \in {<< >>, << Extra >>}
      BY <2>3, <1>0
    <3>2. Alone(m, code, s \o tail, << Hdr(code) >>)
      BY <2>1, <3>1, <1>5 DEF Alone
    <3>3. Sent(Object(m), code) = << s \o tail >> \o << Hdr(code) >>
      BY <1>4, <1>5, <2>3
    <3> QED
      BY <2>1, <3>2, <3>3, <1>2 DEF Form
  <2> QED
    BY <2>2, <2>3
<1> HIDE DEF tail, s
<1>6. CASE ~(~dev.split /\ Len(s) + Len(tail) < Packet)
  <2>1. Sent(Object(m), code) = DataPhase(dev.split, Object(m), EndPacket) \o << Hdr(code) >>
    BY <1>4, <1>6
  <2>2. CASE dev.split /\ m # 0
    <3>1. Object(m) # << >>
      BY <1>1, <2>2
    <3>2. DataPhase(dev.split, Object(m), EndPacket) = << Hdr(Header) >> \o Ended(Object(m), EndPacket)
      BY <2>2, <3>1 DEF DataPhase
    <3>3. << Hdr(Header) >> \in Wire /\ Ended(Object(m), EndPacket) \in Wire
          /\ Ended(Object(m), EndPacket) \o << Hdr(code) >> \in Wire
      <4>1. Ended(Object(m), EndPacket) \in Wire
        BY <1>0, <1>1, <1>2, EndedIs
      <4> QED
        BY <4>1, <1>2, ConcatProperties DEF Wire
    <3>4. (<< Hdr(Header) >> \o Ended(Object(m), EndPacket)) \o << Hdr(code) >>
            = << Hdr(Header) >> \o (Ended(Object(m), EndPacket) \o << Hdr(code) >>)
      BY <3>3, <1>2, Assoc3
    <3>5. Apart(m, code, Hdr(Header), Ended(Object(m), EndPacket) \o << Hdr(code) >>)
      BY <2>2 DEF Apart
    <3> QED
      BY <2>1, <3>2, <3>3, <3>4, <3>5, <1>2 DEF Form
  <2>3. CASE ~(dev.split /\ m # 0)
    <3>1. DataPhase(dev.split, Object(m), EndPacket) = Ended(s, EndPacket)
      <4>1. dev.split => Object(m) = << >>
        BY <2>3, <1>1, EmptySeq
      <4> QED
        BY <4>1 DEF DataPhase, s, Headed
    <3>2. CASE HdrLen + m < Packet
      <4>1. Ended(s, EndPacket) = << s >> /\ Alone(m, code, s, << Hdr(code) >>)
        BY <2>3, <3>2, ShortAnswer DEF s
      <4> QED
        BY <2>1, <3>1, <4>1, <1>1, <1>2 DEF Form
    <3>3. CASE ~(HdrLen + m < Packet)
      <4>1. ~dev.split
        BY <2>3, <3>3, Sizing
      <4>2. PICK p \in Seq(Int), r \in Wire :
              Ended(s, EndPacket) \o << Hdr(code) >> = << p >> \o r /\ Streamed(m, code, p, r)
        BY <3>3, <4>1, LongAnswer DEF s
      <4> QED
        BY <2>1, <3>1, <4>2 DEF Form
    <3> QED
      BY <3>2, <3>3
  <2> QED
    BY <2>2, <2>3
<1> QED
  BY <1>5, <1>6

\* Which bytes begin no response.
LEMMA UncodedConcat ==
  ASSUME NEW a \in Seq(Int), NEW b \in Seq(Int)
  PROVE  /\ Uncoded(a) /\ Uncoded(b) => Uncoded(a \o b)
         /\ Uncoded(a \o b) => Uncoded(a) /\ Uncoded(b)
         /\ Mute(a) /\ Mute(b) => Mute(a \o b)
<1>1. PICK k \in Nat, l \in Nat : k = Len(a) /\ l = Len(b) /\ Len(a \o b) = k + l
  BY ConcatProperties
<1>2. ASSUME NEW i \in 1 .. k PROVE i \in 1 .. k + l /\ (a \o b)[i] = a[i]
  BY <1>1, ConcatProperties
<1>3. ASSUME NEW i \in 1 .. l PROVE k + i \in 1 .. k + l /\ (a \o b)[k + i] = b[i]
  <2>1. k + i \in 1 .. Len(a) + Len(b) /\ ~(k + i <= Len(a)) /\ (k + i) - Len(a) = i
    BY <1>1
  <2>2. (a \o b)[k + i] = b[(k + i) - Len(a)]
    BY <2>1, ConcatProperties
  <2> QED
    BY <2>1, <2>2, <1>1
<1>4. ASSUME NEW i \in 1 .. k + l PROVE i \in 1 .. k \/ \E j \in 1 .. l : i = k + j
  <2>1. CASE i <= k
    BY <2>1
  <2>2. CASE ~(i <= k)
    <3>1. i - k \in 1 .. l /\ i = k + (i - k)
      BY <2>2, <1>1
    <3> QED
      BY <3>1
  <2> QED
    BY <2>1, <2>2
<1>5. ASSUME Uncoded(a), Uncoded(b) PROVE Uncoded(a \o b)
  <2>1. ASSUME NEW i \in 1 .. k + l PROVE (a \o b)[i] \notin {Response, Refusal}
    BY <1>1, <1>2, <1>3, <1>4, <1>5 DEF Uncoded
  <2> QED
    BY <2>1, <1>1 DEF Uncoded
<1>6. ASSUME Mute(a), Mute(b) PROVE Mute(a \o b)
  <2>1. ASSUME NEW i \in 1 .. k + l PROVE (a \o b)[i] # Response
    BY <1>1, <1>2, <1>3, <1>4, <1>6 DEF Mute
  <2> QED
    BY <2>1, <1>1 DEF Mute
<1>7. ASSUME Uncoded(a \o b) PROVE Uncoded(a) /\ Uncoded(b)
  <2>1. \A i \in 1 .. k + l : (a \o b)[i] \notin {Response, Refusal}
    BY <1>1, <1>7 DEF Uncoded
  <2>2. Uncoded(a)
    BY <2>1, <1>1, <1>2 DEF Uncoded
  <2>3. ASSUME NEW i \in 1 .. l PROVE b[i] \notin {Response, Refusal}
    BY <2>1, <1>3
  <2> QED
    BY <2>2, <2>3, <1>1 DEF Uncoded
<1> QED
  BY <1>5, <1>6, <1>7

\* Data and headers have no byte of a response.
LEMMA UncodedBytes ==
  /\ \A n \in Nat : Uncoded(Object(n))
  /\ Uncoded(Hdr(Header)) /\ Uncoded(<< Extra >>) /\ Uncoded(<< >>) /\ Mute(Hdr(Refusal))
  /\ \A p \in Seq(Int) : Uncoded(p) => Mute(p) /\ ~Coded(p)
<1>1. ASSUME NEW n \in Nat PROVE Uncoded(Object(n))
  BY Objects DEF Uncoded, Response, Refusal
<1>2. Uncoded(Hdr(Header)) /\ Mute(Hdr(Refusal))
  <2>1. \A i \in 1 .. Len(Hdr(Header)) : Hdr(Header)[i] = 0
    BY Headers DEF Header
  <2>2. \A i \in 1 .. Len(Hdr(Refusal)) : Hdr(Refusal)[i] = -2
    BY Headers DEF Refusal
  <2>3. Uncoded(Hdr(Header))
    BY <2>1 DEF Uncoded, Response, Refusal
  <2>4. Mute(Hdr(Refusal))
    BY <2>2 DEF Mute, Response
  <2> QED
    BY <2>3, <2>4
<1>3. Uncoded(<< Extra >>) /\ Uncoded(<< >>)
  BY DEF Uncoded, Extra, Response, Refusal
<1>4. ASSUME NEW p \in Seq(Int), Uncoded(p) PROVE Mute(p) /\ ~Coded(p)
  <2>1. Mute(p)
    BY <1>4 DEF Uncoded, Mute
  <2>2. ASSUME Coded(p) PROVE FALSE
    <3>1. 1 \in 1 .. Len(p)
      BY <2>2 DEF Coded
    <3> QED
      BY <3>1, <2>2, <1>4 DEF Coded, Uncoded
  <2> QED
    BY <2>1, <2>2
<1> QED
  BY <1>1, <1>2, <1>3, <1>4

\* Packets have the bytes of the transfer.
LEMMA EndedUncoded ==
  ASSUME NEW t \in Seq(Int), NEW x \in Seq(Int), Len(x) <= Packet, Uncoded(t), Uncoded(x)
  PROVE  \A i \in 1 .. Len(Ended(t, x)) : Uncoded(Ended(t, x)[i]) /\ Len(Ended(t, x)[i]) <= Packet
<1>1. PICK c \in Nat :
           /\ Packets(t) \in Wire /\ Len(Packets(t)) = c
           /\ \A i \in 1 .. c :
                /\ (i - 1) * Packet \in Nat /\ (i - 1) * Packet < Len(t)
                /\ Len(Packets(t)[i]) = Least(Packet, Len(t) - (i - 1) * Packet)
                /\ \A j \in 1 .. Len(Packets(t)[i]) : Packets(t)[i][j] = t[(i - 1) * Packet + j]
  BY PacketsShape
<1>2. ASSUME NEW i \in 1 .. c PROVE Uncoded(Packets(t)[i]) /\ Len(Packets(t)[i]) <= Packet
  <2>0. PICK l \in Nat, p \in Nat : l = Len(t) /\ p = Packet
    BY Sizing
  <2>1. PICK a \in Nat : a = (i - 1) * Packet /\ l = Len(t) /\ p = Packet /\ a < l
    BY <1>1, <2>0
  <2>1a. a \in Nat /\ l \in Nat /\ p \in Nat /\ a < l
    BY <2>0, <2>1
  <2>2. Len(Packets(t)[i]) = IF p <= l - a THEN p ELSE l - a
    BY <1>1, <2>1 DEF Least
  <2>3. Len(Packets(t)[i]) <= l - a /\ Len(Packets(t)[i]) <= p /\ Len(Packets(t)[i]) \in Nat
    <3>0. PICK d \in Nat : d = l - a
      BY <2>1a
    <3>1. PICK e \in Nat : (e = IF p <= d THEN p ELSE d) /\ e <= d /\ e <= p
      <4>1. CASE p <= d
        BY <4>1, <2>0
      <4>2. CASE ~(p <= d)
        BY <4>2, <2>0, <3>0
      <4> QED
        BY <4>1, <4>2
    <3>2. Len(Packets(t)[i]) = e
      BY <3>0, <3>1, <2>2
    <3> QED
      BY <3>0, <3>1, <3>2
  <2>4. ASSUME NEW j \in 1 .. Len(Packets(t)[i]) PROVE Packets(t)[i][j] \notin {Response, Refusal}
    <3>1. a + j \in 1 .. l
      <4>1. PICK e \in Nat : e = Len(Packets(t)[i]) /\ e <= l - a
        BY <2>3
      <4>2. j \in 1 .. e
        BY <4>1
      <4> QED
        BY <4>1, <4>2, <2>1a
    <3>2. Packets(t)[i][j] = t[a + j]
      BY <1>1, <2>1
    <3> QED
      BY <3>1, <3>2, <2>1 DEF Uncoded
  <2> QED
    BY <2>1, <2>3, <2>4 DEF Uncoded
<1>3. CASE ~Full(t)
  BY <1>1, <1>2, <1>3 DEF Ended
<1>4. CASE Full(t)
  <2>1. Ended(t, x) = Append(Packets(t), x)
    BY <1>4 DEF Ended
  <2>2. Len(Append(Packets(t), x)) = c + 1 /\ Append(Packets(t), x)[c + 1] = x
    <3>1. PICK w \in Seq(Seq(Int)) : w = Packets(t) /\ Len(w) = c
      BY <1>1 DEF Wire
    <3>2. Len(Append(w, x)) = Len(w) + 1 /\ Append(w, x)[Len(w) + 1] = x
      BY <3>1, AppendProperties
    <3> QED
      BY <3>1, <3>2
  <2>3. \A i \in 1 .. c : Append(Packets(t), x)[i] = Packets(t)[i]
    BY <1>1, AppendProperties DEF Wire
  <2>4. ASSUME NEW i \in 1 .. c + 1 PROVE i \in 1 .. c \/ i = c + 1
    OBVIOUS
  <2> QED
    BY <2>1, <2>2, <2>3, <2>4, <1>2
<1> QED
  BY <1>3, <1>4

\* A data phase with its response behind it.
LEMMA PhaseFacts ==
  ASSUME ReadTypes, NEW t \in Seq(Int), Uncoded(t), NEW code \in {Response, Refusal},
         NEW r \in Wire, r = Ended(t, EndPacket) \o << Hdr(code) >>
  PROVE  /\ r # << >> /\ r[Len(r)] = Hdr(code)
         /\ \A i \in 1 .. Len(r) : /\ i < Len(r) => Uncoded(r[i])
                                   /\ Len(r[i]) <= Packet
<1>1. EndPacket \in Seq(Int) /\ Len(EndPacket) <= Packet /\ Uncoded(EndPacket)
  BY DeviceFacts, Sizing
<1>2. Hdr(code) \in Seq(Int) /\ Len(Hdr(code)) = HdrLen /\ << Hdr(code) >> \in Wire /\ Len(<< Hdr(code) >>) = 1
  BY Headers DEF Response, Refusal, Wire
<1>3. Ended(t, EndPacket) \in Wire
  BY <1>1, <1>2, EndedIs
<1>4. PICK c \in Nat : c = Len(Ended(t, EndPacket)) /\ Len(r) = c + 1
  <2>1. Len(Ended(t, EndPacket)) \in Nat /\ Len(r) = Len(Ended(t, EndPacket)) + Len(<< Hdr(code) >>)
    BY <1>2, <1>3, WireApart DEF Wire
  <2> QED
    BY <2>1, <1>2
<1>5. ASSUME NEW i \in 1 .. c PROVE r[i] = Ended(t, EndPacket)[i]
  <2>1. i \in 1 .. Len(Ended(t, EndPacket)) + Len(<< Hdr(code) >>) /\ i <= Len(Ended(t, EndPacket))
    BY <1>2, <1>4
  <2> QED
    BY <2>1, <1>2, <1>3, WireApart
<1>6. r[c + 1] = Hdr(code)
  <2>1. c + 1 \in 1 .. Len(Ended(t, EndPacket)) + Len(<< Hdr(code) >>) /\ ~(c + 1 <= Len(Ended(t, EndPacket)))
        /\ (c + 1) - Len(Ended(t, EndPacket)) = 1 /\ << Hdr(code) >>[1] = Hdr(code)
    BY <1>2, <1>4
  <2> QED
    <3>1. \A i \in 1 .. Len(Ended(t, EndPacket)) + Len(<< Hdr(code) >>) :
             r[i] = IF i <= Len(Ended(t, EndPacket)) THEN Ended(t, EndPacket)[i]
                                                    ELSE << Hdr(code) >>[i - Len(Ended(t, EndPacket))]
      BY <1>2, <1>3, WireApart
    <3>2. r[c + 1] = << Hdr(code) >>[(c + 1) - Len(Ended(t, EndPacket))]
      BY <3>1, <2>1
    <3> QED
      BY <3>2, <2>1
<1>7. \A i \in 1 .. c : Uncoded(Ended(t, EndPacket)[i]) /\ Len(Ended(t, EndPacket)[i]) <= Packet
  BY <1>1, <1>4, EndedUncoded
<1>8. HdrLen <= Packet
  BY Sizing
<1>9. ASSUME NEW i \in 1 .. Len(r) PROVE i \in 1 .. c \/ (i = c + 1 /\ ~(i < Len(r)))
  BY <1>4
<1>10. r # << >> /\ r[Len(r)] = Hdr(code)
  BY <1>4, <1>6
<1>11. ASSUME NEW i \in 1 .. Len(r)
       PROVE  (i < Len(r) => Uncoded(r[i])) /\ Len(r[i]) <= Packet
  <2>1. CASE i \in 1 .. c
    BY <2>1, <1>5, <1>7
  <2>2. CASE i = c + 1 /\ ~(i < Len(r))
    BY <2>2, <1>2, <1>6, <1>8
  <2> QED
    BY <2>1, <2>2, <1>9
<1> QED
  BY <1>10, <1>11

\* Every answer begins with a header, and what begins as a response does is its last packet.
LEMMA FormFacts ==
  ASSUME ReadTypes, NEW m \in Nat, NEW code \in {Response, Refusal},
         NEW p \in Seq(Int), NEW r \in Wire, Form(m, code, p, r)
  PROVE  /\ p # << >> /\ p[1] = Header /\ Len(p) <= Packet /\ Len(p) >= HdrLen
         /\ r # << >> => r[Len(r)] = Hdr(code) /\ Uncoded(p)
         /\ \A i \in 1 .. Len(r) : /\ i < Len(r) => Uncoded(r[i])
                                   /\ Len(r[i]) <= Packet
         /\ code = Refusal => Mute(p) /\ \A i \in 1 .. Len(r) : Mute(r[i])
<1> DEFINE h == Hdr(Header)
           o == Object(m)
<1>1. /\ h \in Seq(Int) /\ Len(h) = HdrLen /\ h[1] = Header /\ Uncoded(h) /\ Mute(h)
      /\ o \in Seq(Int) /\ Uncoded(o) /\ Mute(o)
  <2>1. h \in Seq(Int) /\ Len(h) = HdrLen /\ h[1] = Header
    <3>1. 1 \in 1 .. HdrLen
      BY Sizing
    <3> QED
      BY <3>1, Headers DEF Header
  <2>2. o \in Seq(Int) /\ Uncoded(o) /\ Uncoded(h)
    BY Objects, UncodedBytes
  <2> QED
    BY <2>1, <2>2, UncodedBytes
<1>2. /\ Hdr(code) \in Seq(Int) /\ Len(Hdr(code)) = HdrLen /\ HdrLen <= Packet
      /\ code = Refusal => Mute(Hdr(code))
  <2>1. Hdr(code) \in Seq(Int) /\ Len(Hdr(code)) = HdrLen
    BY Headers DEF Response, Refusal
  <2> QED
    BY <2>1, Sizing, UncodedBytes
<1>3. ASSUME NEW a \in Seq(Int)
      PROVE  /\ h \o a \in Seq(Int) /\ h \o a # << >> /\ (h \o a)[1] = Header /\ Len(h \o a) >= HdrLen
             /\ Uncoded(a) => Uncoded(h \o a)
             /\ Mute(a) => Mute(h \o a)
  <2>1. h \o a \in Seq(Int) /\ Len(h \o a) = Len(h) + Len(a)
    BY <1>1, ConcatProperties
  <2>2. (h \o a)[1] = h[1]
    <3>1. 1 \in 1 .. Len(h) + Len(a) /\ 1 <= Len(h)
      BY <1>1, Sizing
    <3> QED
      BY <3>1, <1>1, ConcatProperties
  <2>3. Len(h \o a) >= HdrLen /\ h \o a # << >>
    BY <2>1, <1>1, Sizing
  <2> QED
    BY <2>1, <2>2, <2>3, <1>1, UncodedConcat
<1> HIDE DEF h, o
<1>4. CASE Alone(m, code, p, r)
  <2>1. PICK x \in {<< >>, << Extra >>} : p = (h \o o) \o x
    BY <1>4 DEF Alone, Headed, h, o
  <2>2. x \in Seq(Int) /\ Uncoded(x)
    <3>1. << Extra >> \in Seq(Int) /\ << >> \in Seq(Int)
      BY DEF Extra
    <3> QED
      BY <3>1, UncodedBytes
  <2>3. o \o x \in Seq(Int) /\ Uncoded(o \o x) /\ p = h \o (o \o x)
    <3>1. o \o x \in Seq(Int)
      BY <1>1, <2>2, ConcatProperties
    <3>2. Uncoded(o \o x)
      BY <1>1, <2>2, UncodedConcat
    <3>3. (h \o o) \o x = h \o (o \o x)
      BY <1>1, <2>2, Assoc
    <3> QED
      BY <2>1, <3>1, <3>2, <3>3
  <2>4. p # << >> /\ p[1] = Header /\ Len(p) >= HdrLen /\ Uncoded(p) /\ Mute(p)
    <3>1. p # << >> /\ p[1] = Header /\ Len(p) >= HdrLen /\ Uncoded(p)
      BY <1>3, <2>3
    <3> QED
      BY <3>1, UncodedBytes
  <2>5. r = << Hdr(code) >> /\ Len(p) <= Packet
    BY <1>4, Sizing DEF Alone
  <2> QED
    BY <2>4, <2>5, <1>2
<1>5. CASE Joined(m, code, p, r)
  <2>1. p = (h \o o) \o Hdr(code) /\ r = << >> /\ Len(p) <= Packet
    BY <1>5, Sizing DEF Joined, Headed, h, o
  <2>2. o \o Hdr(code) \in Seq(Int) /\ p = h \o (o \o Hdr(code))
    <3>1. o \o Hdr(code) \in Seq(Int)
      BY <1>1, <1>2, ConcatProperties
    <3>2. (h \o o) \o Hdr(code) = h \o (o \o Hdr(code))
      BY <1>1, <1>2, Assoc
    <3> QED
      BY <2>1, <3>1, <3>2
  <2>3. code = Refusal => Mute(o \o Hdr(code))
    BY <1>1, <1>2, UncodedConcat
  <2>4. p # << >> /\ p[1] = Header /\ Len(p) >= HdrLen /\ (code = Refusal => Mute(p))
    BY <2>2, <2>3, <1>3
  <2> QED
    BY <2>1, <2>4
<1>6. CASE Streamed(m, code, p, r)
  <2>1. PICK a \in Seq(Int), b \in Seq(Int) : /\ o = a \o b /\ p = h \o a
                                              /\ r = Ended(b, EndPacket) \o << Hdr(code) >> /\ Len(p) = Packet
    BY <1>6 DEF Streamed, Headed, h, o
  <2>2. Uncoded(a) /\ Uncoded(b)
    BY <1>1, <2>1, UncodedConcat
  <2>3. p # << >> /\ p[1] = Header /\ Len(p) >= HdrLen /\ Uncoded(p) /\ Mute(p) /\ Len(p) <= Packet
    <3>1. p # << >> /\ p[1] = Header /\ Len(p) >= HdrLen /\ Uncoded(p)
      BY <1>3, <2>1, <2>2
    <3>2. Mute(p)
      BY <3>1, UncodedBytes
    <3>3. Len(p) <= Packet
      BY <2>1, Sizing
    <3> QED
      BY <3>1, <3>2, <3>3
  <2>4. /\ r # << >> /\ r[Len(r)] = Hdr(code)
        /\ \A i \in 1 .. Len(r) : /\ i < Len(r) => Uncoded(r[i])
                                  /\ Len(r[i]) <= Packet
    BY <2>1, <2>2, PhaseFacts
  <2>5. code = Refusal => \A i \in 1 .. Len(r) : Mute(r[i])
    <3>1. ASSUME NEW i \in 1 .. Len(r), i < Len(r) PROVE Mute(r[i])
      BY <2>4, <3>1, UncodedBytes DEF Wire
    <3>2. ASSUME NEW i \in 1 .. Len(r), ~(i < Len(r)), code = Refusal PROVE Mute(r[i])
      <4>1. i = Len(r)
        BY <3>2 DEF Wire
      <4> QED
        BY <4>1, <2>4, <1>2, <3>2
    <3> QED
      BY <3>1, <3>2
  <2> QED
    BY <2>3, <2>4, <2>5
<1>7. CASE Apart(m, code, p, r)
  <2>1. p = h /\ r = Ended(o, EndPacket) \o << Hdr(code) >>
    BY <1>7 DEF Apart, h, o
  <2>2. p # << >> /\ p[1] = Header /\ Len(p) >= HdrLen /\ Uncoded(p) /\ Mute(p) /\ Len(p) <= Packet
    BY <1>1, <1>2, <2>1, Sizing
  <2>4. /\ r # << >> /\ r[Len(r)] = Hdr(code)
        /\ \A i \in 1 .. Len(r) : /\ i < Len(r) => Uncoded(r[i])
                                  /\ Len(r[i]) <= Packet
    BY <1>1, <2>1, PhaseFacts
  <2>5. code = Refusal => \A i \in 1 .. Len(r) : Mute(r[i])
    <3>1. ASSUME NEW i \in 1 .. Len(r), i < Len(r) PROVE Mute(r[i])
      BY <2>4, <3>1, UncodedBytes DEF Wire
    <3>2. ASSUME NEW i \in 1 .. Len(r), ~(i < Len(r)), code = Refusal PROVE Mute(r[i])
      <4>1. i = Len(r)
        BY <3>2 DEF Wire
      <4> QED
        BY <4>1, <2>4, <1>2, <3>2
    <3> QED
      BY <3>1, <3>2
  <2> QED
    BY <2>2, <2>4, <2>5
<1> QED
  BY <1>4, <1>5, <1>6, <1>7 DEF Form

-----------------------------------------------------------------------------
\* What reading leaves on the pipe.  The packets behind a place keep what all have.
From(q, k) == SubSeq(q, k + 1, Len(q))
LEMMA Suffix ==
  ASSUME NEW q \in Wire, NEW k \in Nat, k <= Len(q)
  PROVE  /\ From(q, k) \in Wire /\ Len(From(q, k)) = Len(q) - k
         /\ \A i \in 1 .. Len(q) - k : From(q, k)[i] = q[k + i]
         /\ Fits(q) => Fits(From(q, k))
         /\ Quiet(q) => Quiet(From(q, k))
         /\ Tamed(q) => Tamed(From(q, k))
         /\ From(q, k) # << >> => q # << >> /\ From(q, k)[Len(q) - k] = q[Len(q)]
<1> DEFINE u == From(q, k)
<1>1. PICK l \in Nat, n \in Nat : l = Len(q) /\ n = l - k /\ l = k + n
  BY DEF Wire
<1>2. u \in Wire /\ Len(u) = n /\ \A i \in 1 .. n : u[i] = q[k + i]
  <2>1. k <= l /\ l <= Len(q) /\ l - k = n /\ l \in Nat /\ q \in Wire /\ k \in Nat
    BY <1>1
  <2>2. /\ SubSeq(q, k + 1, l) \in Wire /\ Len(SubSeq(q, k + 1, l)) = l - k
        /\ \A i \in 1 .. l - k : SubSeq(q, k + 1, l)[i] = q[k + i]
    BY <2>1, WirePart
  <2>3. u = SubSeq(q, k + 1, l)
    BY <1>1 DEF From
  <2> QED
    BY <2>1, <2>2, <2>3
<1> HIDE DEF u
<1>3. ASSUME NEW i \in 1 .. n
      PROVE  k + i \in 1 .. l /\ u[i] = q[k + i] /\ (i < n <=> k + i < l)
  BY <1>1, <1>2
<1>4. Fits(q) => Fits(u)
  BY <1>1, <1>2, <1>3 DEF Fits
<1>5. Quiet(q) => Quiet(u)
  BY <1>1, <1>2, <1>3 DEF Quiet
<1>6. Tamed(q) => Tamed(u)
  BY <1>1, <1>2, <1>3 DEF Tamed
<1>7. u # << >> => q # << >> /\ u[n] = q[l]
  <2> SUFFICES ASSUME u # << >> PROVE q # << >> /\ u[n] = q[l]
    OBVIOUS
  <2>1. n # 0
    BY <1>2, EmptySeq DEF Wire
  <2>2. n \in 1 .. n /\ k + n = l /\ l # 0
    BY <1>1, <2>1
  <2> QED
    BY <1>1, <1>2, <2>2
<1> QED
  BY <1>1, <1>2, <1>4, <1>5, <1>6, <1>7 DEF u

\* A read takes what it has counted, and leaves the rest as it was.
Rest(n) == From(pipe, Count(n))
LEMMA TakesFrom ==
  ASSUME ReadTypes, NEW n, Arrived(n)
  PROVE  /\ Bytes(n) \in Seq(Int) /\ Count(n) \in 1 .. Len(pipe)
         /\ Rest(n) \in Wire /\ Len(Rest(n)) = Len(pipe) - Count(n) /\ Fits(Rest(n))
         /\ Quiet(pipe) => Quiet(Rest(n))
         /\ Tamed(pipe) => Tamed(Rest(n))
<1>1. pipe \in Wire /\ Len(pipe) \in Nat /\ Fits(pipe)
  BY DEF ReadTypes, Wire
<1>2. PICK k \in Nat : k = Count(n) /\ k \in 1 .. Len(pipe) /\ k <= Len(pipe)
  BY <1>1, Counted
<1>3. /\ From(pipe, k) \in Wire /\ Len(From(pipe, k)) = Len(pipe) - k /\ (Fits(pipe) => Fits(From(pipe, k)))
      /\ (Quiet(pipe) => Quiet(From(pipe, k))) /\ (Tamed(pipe) => Tamed(From(pipe, k)))
  BY <1>1, <1>2, Suffix
<1>4. Bytes(n) \in Seq(Int)
  <2>1. PICK z \in Nat : z = 0 /\ z + 1 = 1 /\ z <= k
    BY <1>2
  <2>2. SubSeq(pipe, 1, k) \in Wire
    BY <1>1, <1>2, <2>1, WirePart
  <2> QED
    BY <1>2, <2>2, FlattenType DEF Bytes
<1> QED
  BY <1>1, <1>2, <1>3, <1>4 DEF Rest

\* A read of at most a packet takes one, if there is any.
LEMMA FirstPacket ==
  ASSUME ReadTypes, NEW n \in Nat, n <= Packet
  PROVE  /\ Arrived(n) <=> pipe # << >>
         /\ pipe # << >> => Count(n) = 1 /\ Bytes(n) = pipe[1] /\ pipe[1] \in Seq(Int) /\ Len(pipe) >= 1
<1>1. pipe \in Wire /\ Len(pipe) \in Nat
  BY DEF ReadTypes, Wire
<1>2. ASSUME Arrived(n) PROVE pipe # << >>
  BY <1>2 DEF Arrived
<1>3. ASSUME pipe # << >>
      PROVE  Arrived(n) /\ Count(n) = 1 /\ Bytes(n) = pipe[1] /\ pipe[1] \in Seq(Int) /\ Len(pipe) >= 1
  <2>1. 1 \in 1 .. Len(pipe) /\ Len(pipe) >= 1 /\ pipe[1] \in Seq(Int)
    BY <1>1, <1>3 DEF Wire
  <2>2. Stops(1, n)
    BY Sizing DEF Stops
  <2>3. Arrived(n) /\ Count(n) = 1
    BY <1>1, <2>1, <2>2, CountIs
  <2>4. SubSeq(pipe, 1, 1) = << pipe[1] >>
    <3>1. PICK z \in Nat : z = 0 /\ z + 1 = 1 /\ z <= 1 /\ 1 - z = 1
      OBVIOUS
    <3>2. /\ SubSeq(pipe, z + 1, 1) \in Wire /\ Len(SubSeq(pipe, z + 1, 1)) = 1 - z
          /\ \A i \in 1 .. 1 - z : SubSeq(pipe, z + 1, 1)[i] = pipe[z + i]
      BY <1>1, <2>1, <3>1, WirePart
    <3>3. << pipe[1] >> \in Wire /\ Len(<< pipe[1] >>) = 1 /\ << pipe[1] >>[1] = pipe[1]
      BY <2>1 DEF Wire
    <3>4. \A i \in 1 .. 1 : i = 1
      OBVIOUS
    <3>5. SubSeq(pipe, 1, 1) \in Wire /\ Len(SubSeq(pipe, 1, 1)) = 1 /\ SubSeq(pipe, 1, 1)[1] = pipe[1]
      BY <3>1, <3>2
    <3> QED
      BY <3>3, <3>4, <3>5, WireEqual
  <2> QED
    BY <2>1, <2>3, <2>4, FlattenOne DEF Bytes
<1> QED
  BY <1>2, <1>3

\* A call that goes on keeps the invariant when what is on its way does, ...
LEMMA GoesOn ==
  ASSUME ReadTypes', Arriving', kind' = "get", pc' # "idle",
         pc' = "answer" \/ Undisturbed' \/ (Silent' /\ faults' > 0),
         faults' = 0 /\ split' => dev'.split
  PROVE  ReadInv'
BY DEF ReadInv, DataExact, NothingLeft, Done

\* ... and one that fails does when there was a reason.
LEMMA FailsFor ==
  ASSUME ReadTypes', kind' = "get", pc' = "idle", rc' # "OK", pipe' = << >>, surplus' = << >>,
         faults' > 0 \/ Misread', faults' = 0 /\ split' => dev'.split
  PROVE  ReadInv'
<1>1. Tamed(pipe') /\ ~Coded(surplus')
  BY DEF Tamed, Coded
<1>2. Arriving'
  BY <1>1 DEF Arriving
<1> QED
  BY <1>2 DEF ReadInv, DataExact, NothingLeft, Done, ReadTypes

-----------------------------------------------------------------------------
\* The steps, one at a time.  A call begins with an empty pipe.
LEMMA BeginsRead ==
  ASSUME ReadInv, NEW n \in Sizes, Get(n)
  PROVE  ReadInv'
<1>1. /\ pc = "idle" /\ pc' = "answer" /\ kind' = "get" /\ size' = n /\ n \in Nat
      /\ UNCHANGED <<dev, pipe, surplus, split, faults>> /\ got' = << >> /\ curread' = 0
  BY SizeAssumption DEF Get
<1>2. pipe = << >> /\ surplus = << >>
  BY <1>1 DEF ReadInv, Arriving
<1>3. ReadTypes'
  BY <1>1 DEF ReadInv, ReadTypes
<1>4. Arriving'
  BY <1>1, <1>2 DEF ReadInv, Arriving
<1>5. faults' = 0 /\ split' => dev'.split
  BY <1>1 DEF ReadInv
<1> QED
  BY <1>1, <1>3, <1>4, <1>5, GoesOn

\* So does one that sends.
LEMMA BeginsWrite ==
  ASSUME ReadInv, NEW n \in Sizes, Send(n)
  PROVE  ReadInv'
<1>1. /\ pc = "idle" /\ kind' = "send" /\ size' = n /\ n \in Nat
      /\ UNCHANGED <<dev, pipe, surplus, split, faults>> /\ got' = << >>
      /\ pc' = "fill" \/ (pc' = "idle" /\ rc' = "GeneralError")
  BY SizeAssumption DEF Send, Return
<1>2. pipe = << >> /\ surplus = << >>
  BY <1>1 DEF ReadInv, Arriving
<1>3. ReadTypes'
  BY <1>1 DEF ReadInv, ReadTypes
<1>4. Arriving'
  BY <1>1, <1>2 DEF ReadInv, Arriving
<1> QED
  BY <1>1, <1>3, <1>4 DEF ReadInv, DataExact, NothingLeft, Done

\* Writing leaves what is read alone, and fails only when a write does.
LEMMA WritingKeeps ==
  ASSUME ReadInv, SendInv, Fill \/ Put \/ PutDone \/ Wrote
  PROVE  ReadInv'
<1>1. /\ pc \in {"fill", "put", "wrote"} /\ kind = "send"
      /\ UNCHANGED <<dev, kind, size, surplus, got, split>>
  BY DEF ReadInv, Arriving, Fill, Put, PutDone, Wrote, call, reading
<1>2. pipe = << >> /\ surplus = << >>
  BY <1>1 DEF ReadInv, Arriving
<1>3. CASE pc' \in {"fill", "put", "wrote"} /\ pipe' = pipe /\ faults' \in Nat /\ (faults' = 0 => faults = 0)
  <2>1. ReadTypes'
    BY <1>1, <1>3 DEF ReadInv, ReadTypes
  <2>2. Arriving'
    BY <1>1, <1>2, <1>3 DEF ReadInv, Arriving
  <2> QED
    BY <1>1, <1>3, <2>1, <2>2 DEF ReadInv, DataExact, NothingLeft, Done
<1>4. CASE pc' = "getresp" /\ pipe' = Append(pipe, Hdr(Response)) /\ faults' = faults
  <2>1. Hdr(Response) \in Seq(Int) /\ Len(Hdr(Response)) <= Packet
    BY Headers, Sizing DEF Response
  <2>2. pipe' = << Hdr(Response) >> /\ Len(pipe') = 1 /\ pipe'[1] = Hdr(Response) /\ pipe' \in Wire
    BY <1>2, <1>4, <2>1 DEF Wire
  <2>3. Fits(pipe') /\ Tamed(pipe') /\ pipe' # << >> /\ ~Coded(surplus')
    BY <1>1, <1>2, <2>1, <2>2 DEF Fits, Tamed, Coded
  <2>4. ReadTypes'
    BY <1>1, <1>4, <2>2, <2>3 DEF ReadInv, ReadTypes
  <2>5. Arriving'
    BY <1>1, <1>2, <1>4, <2>3 DEF ReadInv, Arriving
  <2>6. Ready'
    BY <2>2, <2>3 DEF Ready
  <2> QED
    BY <1>1, <1>4, <2>4, <2>5, <2>6 DEF ReadInv, DataExact, NothingLeft, Done
<1>5. CASE pc' = "idle" /\ pipe' = pipe /\ faults' \in Nat /\ faults' > 0
  <2>1. ReadTypes'
    BY <1>1, <1>5 DEF ReadInv, ReadTypes
  <2>2. Arriving'
    BY <1>1, <1>2, <1>5 DEF ReadInv, Arriving
  <2> QED
    BY <1>1, <1>5, <2>1, <2>2 DEF ReadInv, DataExact, NothingLeft, Done
<1>6. faults \in Nat
  BY DEF ReadInv, ReadTypes
<1>7. CASE Fill
  <2>1. pc' \in {"put", "wrote"} /\ pipe' = pipe /\ faults' = faults
    BY <1>7 DEF Fill, reading
  <2> QED
    BY <2>1, <1>3, <1>6
<1>8. CASE PutDone
  <2>1. pc' \in {"fill", "wrote"} /\ pipe' = pipe /\ faults' = faults
    BY <1>8 DEF PutDone, reading
  <2> QED
    BY <2>1, <1>3, <1>6
<1>9. CASE Put
  <2>1. pipe' = pipe /\ \/ pc' = pc /\ faults' \in {faults, faults + 1}
                        \/ pc' = "idle" /\ faults' = faults + 1
    BY <1>9 DEF Put, PutBytes, Return, reading
  <2>2. CASE pc' = pc
    BY <2>1, <2>2, <1>1, <1>3, <1>6
  <2>3. CASE pc' # pc
    BY <2>1, <2>3, <1>5, <1>6
  <2> QED
    BY <2>2, <2>3
<1>10. CASE Wrote
  <2>1. pc = "wrote" /\ faults' = faults
        /\ \/ pc' = "getresp" /\ pipe' = Append(pipe, Hdr(Response))
           \/ pc' = "fill" /\ pipe' = pipe
           \/ pc' = "idle" /\ pipe' = pipe /\ curwrite < left
    BY <1>10 DEF Wrote, Sending, NextWrite, Return
  <2>2. faults = 0 => ~(curwrite < left)
    <3> SUFFICES ASSUME faults = 0 PROVE ~(curwrite < left)
      OBVIOUS
    <3>1. size \in Nat
      BY DEF SendInv
    <3>2. PICK d \in Nat : d = datawlen(size) /\ d <= size
      BY <3>1, Widths
    <3>3. left = Len(Current) /\ curwrite = left /\ left > 0
      BY <1>1, <2>1, <3>2, WrittenWhole
    <3>4. left \in Nat
      <4>1. Sendings
        BY <1>1, <2>1 DEF SendInv
      <4> QED
        BY <3>3, WrittenWhole, <1>1, <2>1, <3>2 DEF Current
    <3> QED
      BY <3>3, <3>4
  <2>3. CASE pc' = "idle"
    BY <2>1, <2>2, <2>3, <1>5, <1>6
  <2>4. CASE pc' # "idle"
    BY <2>1, <2>4, <1>3, <1>4, <1>6
  <2> QED
    BY <2>3, <2>4
<1> QED
  BY <1>7, <1>8, <1>9, <1>10

\* Data as long as a packet: at most the response is left when something has been read.
LEMMA ReadExtraKeeps ==
  ASSUME ReadInv, ReadExtra
  PROVE  ReadInv'
<1>1. /\ pc = "extra" /\ pc' = "sized" /\ kind = "get"
      /\ UNCHANGED <<dev, kind, size, faults, surplus, got, split>>
  BY DEF ReadInv, Arriving, ReadExtra, call
<1>2. /\ ReadTypes /\ Remaining > 0 /\ surplus = << >> /\ Tamed(pipe) /\ Len(pipe) <= 2
      /\ Undisturbed \/ (Silent /\ faults > 0)
  BY <1>1 DEF ReadInv, Arriving
<1>3. PICK n \in Nat : n <= Packet /\ TakeIgnored(n)
  <2>1. 0 \in Nat /\ 1 \in Nat /\ 0 <= Packet /\ 1 <= Packet
    BY Sizing
  <2> QED
    BY <2>1 DEF ReadExtra
<1>4. /\ pipe' \in Wire /\ Fits(pipe') /\ Tamed(pipe') /\ (Quiet(pipe) => Quiet(pipe')) /\ Len(pipe') <= 1
  <2>1. CASE Arrived(n)
    <3>1. pipe' = Rest(n)
      BY <1>3, <2>1 DEF TakeIgnored, Take, Rest, From
    <3>2. Count(n) = 1
      BY <1>2, <1>3, <2>1, FirstPacket
    <3>3. /\ Rest(n) \in Wire /\ Len(Rest(n)) = Len(pipe) - Count(n) /\ Fits(Rest(n))
          /\ (Quiet(pipe) => Quiet(Rest(n))) /\ (Tamed(pipe) => Tamed(Rest(n)))
      BY <1>2, <2>1, TakesFrom
    <3>4. Len(pipe) \in Nat
      BY <1>2 DEF ReadTypes, Wire
    <3> QED
      BY <1>2, <3>1, <3>2, <3>3, <3>4
  <2>2. CASE ~Arrived(n)
    <3>1. pipe' = << >> /\ << >> \in Wire
      BY <1>3, <2>2 DEF TakeIgnored, Lost, Wire
    <3> QED
      BY <3>1 DEF Fits, Tamed, Quiet
  <2> QED
    BY <2>1, <2>2
<1>5. ReadTypes'
  BY <1>1, <1>2, <1>4 DEF ReadTypes
<1>6. Remaining' = Remaining /\ Room' = Room /\ Misread' = Misread /\ Remaining \in Int
  BY <1>1, <1>2 DEF Remaining, Room, Misread, Length, ReadTypes
<1>7. ASSUME NEW c \in 0 .. Len(pipe'), c < Len(pipe') PROVE Volume(pipe', c) <= Room
  <2>1. c = 0
    BY <1>4, <1>7 DEF Wire
  <2>2. SubSeq(pipe', 1, 0) = << >>
    BY <1>4 DEF Wire
  <2>3. Volume(pipe', 0) = 0
    <3>1. Volume(pipe', 0) = Len(<< >>)
      BY <2>2, FlattenEmpty, Zenon DEF Volume
    <3> QED
      BY <3>1
  <2> QED
    BY <2>1, <2>3, <1>2, <1>6 DEF Room
<1>8. Arriving'
  <2>1. ~Coded(surplus')
    BY <1>1, <1>2 DEF Coded
  <2> QED
    BY <1>1, <1>2, <1>4, <1>6, <1>7, <2>1 DEF ReadInv, Arriving
<1>9. Undisturbed' \/ (Silent' /\ faults' > 0)
  <2>1. CASE Undisturbed
    BY <2>1, <1>1, <1>6 DEF Undisturbed
  <2>2. CASE Silent /\ faults > 0
    BY <2>2, <1>1, <1>4 DEF Silent
  <2> QED
    BY <2>1, <2>2, <1>2
<1> QED
  BY <1>1, <1>5, <1>8, <1>9, GoesOn DEF ReadInv

\* A zero packet that may be there is taken before the response.
LEMMA ReadZeroKeeps ==
  ASSUME ReadInv, ReadZero
  PROVE  ReadInv'
<1>1. /\ pc = "zero" /\ pc' = "getresp" /\ kind = "get"
      /\ UNCHANGED <<dev, kind, size, faults, surplus, got, split>>
  BY DEF ReadInv, Arriving, ReadZero, call
<1>2. /\ ReadTypes /\ surplus = << >> /\ Tamed(pipe) /\ pipe \in Wire /\ Fits(pipe)
      /\ Undisturbed \/ (Silent /\ faults > 0)
  BY <1>1 DEF ReadInv, Arriving, ReadTypes
<1>3. 0 \in Nat /\ 0 <= Packet
  BY Sizing
<1>5. /\ pipe' \in Wire /\ Fits(pipe') /\ Tamed(pipe') /\ (Quiet(pipe) => Quiet(pipe'))
  <2>1. CASE ZeroPacket /\ Arrived(0)
    <3>1. pipe' = Rest(0)
      BY <2>1 DEF ReadZero, TakeIgnored, Take, Rest, From
    <3> QED
      BY <1>2, <2>1, <3>1, TakesFrom
  <2>2. CASE ZeroPacket /\ ~Arrived(0)
    <3>1. pipe' = << >> /\ << >> \in Wire
      BY <2>2 DEF ReadZero, TakeIgnored, Lost, Wire
    <3> QED
      BY <3>1 DEF Fits, Tamed, Quiet
  <2>3. CASE ~ZeroPacket
    <3>1. pipe' = pipe
      BY <2>3 DEF ReadZero
    <3> QED
      BY <1>2, <3>1
  <2> QED
    BY <2>1, <2>2, <2>3
<1>6. ReadTypes'
  BY <1>1, <1>2, <1>5 DEF ReadTypes
<1>7. ~Coded(surplus') /\ Misread' = Misread
  BY <1>1, <1>2 DEF Coded, Misread, Length
<1>8. Arriving'
  BY <1>1, <1>2, <1>5, <1>7 DEF ReadInv, Arriving
<1>9. Undisturbed' \/ (Silent' /\ faults' > 0)
  <2>1. CASE Undisturbed /\ Misread
    BY <2>1, <1>1, <1>7 DEF Undisturbed
  <2>2. CASE Undisturbed /\ ~Misread
    <3>1. /\ got = Object(size) /\ curread = size
          /\ pipe \in {<< Hdr(Response) >>, << EndPacket, Hdr(Response) >>}
          /\ ~dev.noZeroReads => (pipe = << EndPacket, Hdr(Response) >> <=> size % Packet = 0)
      BY <2>2, <1>1 DEF Undisturbed
    <3>2. EndPacket \in Seq(Int) /\ Hdr(Response) \in Seq(Int)
      BY <1>2, DeviceFacts, Headers DEF Response
    <3>3. pipe' # << >> /\ pipe'[Len(pipe')] = Hdr(Response)
      <4>1. CASE ZeroPacket
        <5>1. pipe = << EndPacket, Hdr(Response) >>
          BY <4>1, <3>1 DEF ZeroPacket
        <5>2. pipe # << >> /\ Arrived(0) /\ Count(0) = 1
          BY <5>1, <1>2, <1>3, FirstPacket
        <5>3. pipe' = SubSeq(pipe, 2, Len(pipe))
          BY <4>1, <5>2 DEF ReadZero, TakeIgnored, Take
        <5>4. pipe' = SubSeq(<< EndPacket, Hdr(Response) >>, 2, 2)
          BY <5>1, <5>3
        <5> QED
          BY <5>4
      <4>2. CASE ~ZeroPacket
        <5>1. pipe' = pipe
          BY <4>2 DEF ReadZero
        <5>2. << Hdr(Response) >> # << >> /\ << Hdr(Response) >>[Len(<< Hdr(Response) >>)] = Hdr(Response)
          OBVIOUS
        <5>3. /\ << EndPacket, Hdr(Response) >> # << >>
              /\ << EndPacket, Hdr(Response) >>[Len(<< EndPacket, Hdr(Response) >>)] = Hdr(Response)
          OBVIOUS
        <5> QED
          BY <5>1, <5>2, <5>3, <3>1
      <4> QED
        BY <4>1, <4>2
    <3>4. Ready'
      BY <3>3, <1>7 DEF Ready
    <3> QED
      BY <1>1, <3>1, <3>4 DEF Undisturbed
  <2>3. CASE Silent /\ faults > 0
    BY <2>3, <1>1, <1>5 DEF Silent
  <2> QED
    BY <2>1, <2>2, <2>3, <1>2
<1> QED
  BY <1>1, <1>6, <1>8, <1>9, GoesOn DEF ReadInv

\* The response: what comes before it is passed over.
LEMMA GetRespKeeps ==
  ASSUME ReadInv, GetResp
  PROVE  ReadInv'
<1> DEFINE p == ThePacket
<1>1. /\ pc = "getresp" /\ UNCHANGED <<dev, kind, size, faults, got, split>> /\ surplus' \in {<< >>, surplus}
      /\ Misread' = Misread
  BY DEF GetResp, call, Misread, Length
<1>2. /\ ReadTypes /\ Tamed(pipe) /\ pipe \in Wire /\ Len(pipe) \in Nat /\ Fits(pipe) /\ surplus \in Seq(Int)
      /\ (Coded(surplus) => pipe = << >>) /\ kind \in {"get", "send"}
      /\ kind = "get" => Undisturbed \/ (Silent /\ faults > 0)
      /\ kind = "send" => Ready
  BY <1>1 DEF ReadInv, Arriving, ReadTypes, Wire
<1>3. PICK n \in Nat : n = Packet
  BY Sizing
<1>4. Arrived(Packet) => Count(Packet) = 1 /\ Bytes(Packet) = pipe[1] /\ pipe[1] \in Seq(Int) /\ Len(pipe) >= 1
  BY <1>2, <1>3, FirstPacket
<1>5. Arrived(Packet) <=> pipe # << >>
  BY <1>2, <1>3, FirstPacket
\* What has been said of the response holds when nothing misleads the library.
<1>6. faults = 0 /\ ~(kind = "get" /\ Misread) => Ready
  BY <1>1, <1>2 DEF Undisturbed
<1>7. Ready => PacketThere
  <2>1. Hdr(Response) # << >>
    BY Headers, Sizing DEF Response
  <2> QED
    BY <1>5, <2>1 DEF Ready, PacketThere
<1>8. CASE ~PacketThere
  <2>1. pipe' = << >> /\ pc' = "idle" /\ rc' = "IO" /\ surplus' = << >> /\ << >> \in Wire
    BY <1>8 DEF GetResp, Lost, Return, PacketThere, Wire
  <2>2. ~(faults = 0 /\ ~(kind = "get" /\ Misread))
    BY <1>6, <1>7, <1>8
  <2>3. ReadTypes'
    BY <1>1, <1>2, <2>1 DEF ReadTypes, Fits
  <2>4. Tamed(pipe') /\ ~Coded(surplus')
    BY <2>1 DEF Tamed, Coded
  <2>5. Arriving'
    BY <1>1, <1>2, <2>1, <2>4 DEF Arriving
  <2> QED
    BY <1>1, <2>1, <2>2, <2>3, <2>5 DEF ReadInv, DataExact, NothingLeft, Done
<1>9. CASE PacketThere
  <2>1. /\ TakePacket /\ surplus' = << >>
        /\ IF Coded(p) THEN pc' = "idle" /\ rc' = (IF p[1] = Response THEN "OK" ELSE "refused")
                       ELSE pc' = pc
    BY <1>9 DEF GetResp, Coded, Return
  <2>2. /\ pipe' \in Wire /\ Fits(pipe') /\ Tamed(pipe') /\ (Quiet(pipe) => Quiet(pipe'))
        /\ Coded(p) => pipe' = << >>
        /\ Silent => Mute(p)
        /\ Ready /\ Coded(p) => p = Hdr(Response)
        /\ Ready /\ ~Coded(p) => pipe' # << >> /\ pipe'[Len(pipe')] = Hdr(Response)
    <3>1. CASE surplus # << >>
      <4>1. pipe' = pipe /\ p = surplus
        BY <2>1, <3>1 DEF TakePacket, ThePacket
      <4>2. Ready /\ ~Coded(p) => pipe # << >> /\ pipe[Len(pipe)] = Hdr(Response)
        <5>1. 1 \in 1 .. HdrLen /\ Hdr(Response) \in Seq(Int) /\ Len(Hdr(Response)) = HdrLen
              /\ Hdr(Response)[1] = Response
          BY Headers, Sizing DEF Response
        <5>2. Coded(Hdr(Response))
          BY <5>1, Sizing DEF Coded
        <5> QED
          BY <4>1, <5>2 DEF Ready
      <4>3. Ready /\ Coded(p) => p = Hdr(Response)
        BY <4>1 DEF Ready
      <4> QED
        BY <1>2, <4>1, <4>2, <4>3 DEF Silent
    <3>2. CASE surplus = << >>
      <4>1. p = pipe[1] /\ Arrived(Packet) /\ pipe # << >>
        BY <1>4, <1>5, <1>9, <3>2 DEF ThePacket, PacketThere
      <4>2. pipe' = Rest(Packet) /\ Rest(Packet) = From(pipe, 1)
        BY <1>4, <2>1, <3>2, <4>1 DEF TakePacket, Take, Rest, From
      <4>3. PICK l \in Nat : l = Len(pipe) /\ 1 <= l /\ 1 \in 1 .. l
        BY <1>2, <1>4, <4>1
      <4>4. /\ pipe' \in Wire /\ Len(pipe') = l - 1
            /\ Fits(pipe') /\ Tamed(pipe') /\ (Quiet(pipe) => Quiet(pipe'))
            /\ pipe' # << >> => pipe'[Len(pipe')] = pipe[l]
        <5>1. PICK k \in Nat : k = 1 /\ k <= Len(pipe)
          BY <4>3
        <5>2. /\ From(pipe, k) \in Wire /\ Len(From(pipe, k)) = Len(pipe) - k
              /\ From(pipe, k) # << >> => From(pipe, k)[Len(pipe) - k] = pipe[Len(pipe)]
          BY <1>2, <5>1, Suffix
        <5>3. Fits(Rest(Packet)) /\ (Tamed(pipe) => Tamed(Rest(Packet))) /\ (Quiet(pipe) => Quiet(Rest(Packet)))
          BY <1>2, <4>1, TakesFrom
        <5> QED
          BY <1>2, <4>2, <4>3, <5>1, <5>2, <5>3
      <4>5. Silent => Mute(p)
        BY <4>1, <4>3 DEF Silent, Quiet
      <4>6. Coded(p) => l = 1
        BY <1>2, <4>1, <4>3 DEF Tamed
      <4>7. Coded(p) => pipe' = << >>
        BY <4>4, <4>6, EmptySeq DEF Wire
      <4>8. Ready => pipe[l] = Hdr(Response)
        <5>1. ~Coded(surplus)
          BY <3>2 DEF Coded
        <5>2. surplus # Hdr(Response)
          BY <3>2, Headers, Sizing DEF Response
        <5> QED
          BY <4>1, <4>3, <5>2 DEF Ready
      <4>9. Ready /\ Coded(p) => p = Hdr(Response)
        BY <4>1, <4>6, <4>8
      <4>10. Ready /\ ~Coded(p) => pipe' # << >>
        <5> SUFFICES ASSUME Ready, ~Coded(p), pipe' = << >> PROVE FALSE
          OBVIOUS
        <5>0. l - 1 = 0
          <6>1. Len(pipe') = l - 1 /\ pipe' = << >>
            BY <4>4
          <6>2. Len(<< >>) = 0
            OBVIOUS
          <6> QED
            BY <6>1, <6>2
        <5>1. l = 1
          <6>1. l \in Nat
            BY <4>3
          <6> QED
            BY <6>1, <5>0
        <5>2. 1 \in 1 .. HdrLen /\ Hdr(Response) \in Seq(Int) /\ Len(Hdr(Response)) = HdrLen
              /\ Hdr(Response)[1] = Response
          BY Headers, Sizing DEF Response
        <5> QED
          BY <4>1, <4>8, <5>1, <5>2, Sizing DEF Coded
      <4> QED
        BY <4>4, <4>5, <4>7, <4>8, <4>9, <4>10
    <3> QED
      BY <3>1, <3>2
  <2>3. ReadTypes'
    BY <1>1, <1>2, <2>1, <2>2 DEF ReadTypes
  <2>4. ~Coded(surplus') /\ Mute(surplus')
    BY <2>1 DEF Coded, Mute
  <2>5. Arriving'
    BY <1>1, <1>2, <2>1, <2>2, <2>4 DEF Arriving
  <2>6. Silent => Silent'
    BY <2>2, <2>4 DEF Silent
  <2>7. CASE Coded(p)
    <3>1. pc' = "idle" /\ rc' = (IF p[1] = Response THEN "OK" ELSE "refused") /\ pipe' = << >> /\ surplus' = << >>
      BY <2>1, <2>2, <2>7
    <3>2. Ready => rc' = "OK"
      <4>1. 1 \in 1 .. HdrLen /\ Hdr(Response)[1] = Response
        BY Headers, Sizing DEF Response
      <4> QED
        BY <2>2, <2>7, <3>1, <4>1
    <3>3. Silent => rc' # "OK"
      <4>1. Silent => p[1] # Response
        <5>1. p \in Seq(Int)
          BY <1>2, <1>4, <1>9 DEF ThePacket, PacketThere
        <5>2. 1 \in 1 .. Len(p)
          BY <2>7, <5>1 DEF Coded
        <5> QED
          BY <2>2, <5>2 DEF Mute
      <4> QED
        BY <3>1, <4>1
    <3>4. DataExact'
      <4> SUFFICES ASSUME kind = "get", rc' = "OK", ~Misread PROVE got = Object(size)
        BY <1>1 DEF DataExact, Done
      <4> QED
        BY <1>1, <1>2, <3>3 DEF Undisturbed
    <3>5. NothingLeft'
      <4> SUFFICES ASSUME faults = 0, ~(kind = "get" /\ Misread)
                   PROVE  rc' = "OK" /\ (split => dev.split)
        BY <1>1, <3>1 DEF NothingLeft
      <4> QED
        BY <1>6, <3>2 DEF ReadInv
    <3> QED
      BY <1>1, <2>3, <2>5, <3>1, <3>4, <3>5 DEF ReadInv
  <2>8. CASE ~Coded(p)
    <3>1. pc' = "getresp"
      BY <1>1, <2>1, <2>8
    <3>2. Ready => Ready'
      BY <2>2, <2>4, <2>8 DEF Ready
    <3>3. Undisturbed => Undisturbed'
      BY <1>1, <3>1, <3>2 DEF Undisturbed
    <3>4. DataExact' /\ NothingLeft'
      BY <3>1 DEF DataExact, NothingLeft, Done
    <3> QED
      BY <1>1, <1>2, <2>3, <2>5, <2>6, <3>1, <3>2, <3>3, <3>4 DEF ReadInv
  <2> QED
    BY <2>7, <2>8
<1> QED
  BY <1>8, <1>9

-----------------------------------------------------------------------------
\* Reading what is coming.  Two packets are the one and the other.
LEMMA Pair ==
  ASSUME NEW e \in Seq(Int), NEW h \in Seq(Int)
  PROVE  << e >> \o << h >> = << e, h >>
<1>1. PICK v \in Wire, w \in Wire, u \in Wire : v = << e >> /\ w = << h >> /\ u = << e, h >>
  <2>1. << e >> \in Wire /\ << h >> \in Wire
    BY DEF Wire
  <2>2. << e, h >> \in Wire
    BY DEF Wire
  <2> QED
    BY <2>1, <2>2
<1>2. Len(v) = 1 /\ Len(w) = 1 /\ Len(u) = 2 /\ v[1] = e /\ w[1] = h /\ u[1] = e /\ u[2] = h
  BY <1>1
<1>3. /\ v \o w \in Wire /\ Len(v \o w) = Len(v) + Len(w)
      /\ \A i \in 1 .. Len(v) + Len(w) : (v \o w)[i] = IF i <= Len(v) THEN v[i] ELSE w[i - Len(v)]
  BY WireApart
<1>4. Len(v \o w) = 2 /\ (v \o w)[1] = e /\ (v \o w)[2] = h
  <2>1. 1 \in 1 .. Len(v) + Len(w) /\ 2 \in 1 .. Len(v) + Len(w) /\ 1 <= Len(v) /\ ~(2 <= Len(v))
        /\ 2 - Len(v) = 1 /\ Len(v) + Len(w) = 2
    BY <1>2
  <2>2. (v \o w)[1] = v[1] /\ (v \o w)[2] = w[2 - Len(v)]
    BY <1>3, <2>1
  <2> QED
    BY <1>2, <1>3, <2>1, <2>2
<1>5. \A i \in 1 .. 2 : i = 1 \/ i = 2
  OBVIOUS
<1>6. v \o w = u
  <2>1. \A i \in 1 .. Len(v \o w) : (v \o w)[i] = u[i]
    BY <1>2, <1>4, <1>5
  <2>2. v \o w \in Wire /\ Len(v \o w) = Len(u)
    BY <1>2, <1>3, <1>4
  <2> QED
    BY <2>1, <2>2, WireEqual
<1> QED
  BY <1>1, <1>6

\* As long as there is a block of it, a block is read, ...
LEMMA ReadsBlock ==
  ASSUME ReadTypes, NEW t \in Seq(Int), pipe = Ended(t, EndPacket) \o << Hdr(Response) >>, Len(t) >= Block
  PROVE  \E a \in Seq(Int), b \in Seq(Int) :
           /\ t = a \o b /\ Len(a) = Block /\ Full(a) /\ (Full(t) <=> Full(b))
           /\ Arrived(Block) /\ Bytes(Block) = a
           /\ Rest(Block) = Ended(b, EndPacket) \o << Hdr(Response) >>
<1>1. PICK a \in Seq(Int), b \in Seq(Int) : a = Slice(t, 0, Block) /\ b = Slice(t, Block, Len(t))
  <2>1. Block \in Nat /\ 0 \in Nat /\ 0 <= Block /\ Block <= Len(t) /\ Len(t) \in Nat /\ Len(t) <= Len(t)
    BY Blocks
  <2>2. Slice(t, 0, Block) \in Seq(Int) /\ Slice(t, Block, Len(t)) \in Seq(Int)
    BY <2>1, SliceFacts
  <2> QED
    BY <2>2
<1>2. Len(a) = Block /\ Block \in Nat /\ Block > 0
  <2>1. Block \in Nat /\ 0 \in Nat /\ 0 <= Block /\ Block <= Len(t) /\ Block - 0 = Block /\ Block > 0
    BY Blocks, Sizing
  <2>2. Len(Slice(t, 0, Block)) = Block - 0
    BY <2>1, SliceFacts
  <2> QED
    BY <1>1, <2>1, <2>2
<1>3. t = a \o b
  <2>1. Block \in Nat /\ Len(t) \in Nat /\ 0 \in Nat /\ 0 <= Block /\ Block <= Len(t) /\ Len(t) <= Len(t)
    BY Blocks
  <2>2. Slice(t, 0, Block) \o Slice(t, Block, Len(t)) = Slice(t, 0, Len(t))
    BY <2>1, SliceJoin
  <2> QED
    BY <1>1, <2>2, SliceAll
<1>4. Full(a) /\ a # << >>
  BY <1>2, Blocks DEF Full
<1>5. EndPacket \in Seq(Int) /\ Hdr(Response) \in Seq(Int) /\ << Hdr(Response) >> \in Wire
  <2>1. EndPacket \in Seq(Int) /\ Hdr(Response) \in Seq(Int)
    BY DeviceFacts, Headers DEF Response
  <2> QED
    BY <2>1 DEF Wire
<1>6. Ended(t, EndPacket) = Packets(a) \o Ended(b, EndPacket) /\ (Full(t) <=> Full(b))
  <2>1. (Full(a \o b) <=> Full(b)) /\ Ended(a \o b, EndPacket) = Packets(a) \o Ended(b, EndPacket)
    BY <1>4, <1>5, EndedBehind
  <2> QED
    BY <1>3, <2>1
<1>7. Packets(a) \in Wire /\ Ended(b, EndPacket) \in Wire
  BY <1>5, EndedIs
<1> DEFINE w == Ended(b, EndPacket) \o << Hdr(Response) >>
<1>8. w \in Wire /\ pipe = Packets(a) \o w
  <2>1. w \in Wire
    BY <1>5, <1>7, WireApart
  <2>2. (Packets(a) \o Ended(b, EndPacket)) \o << Hdr(Response) >> = Packets(a) \o w
    BY <1>5, <1>7, Assoc3
  <2> QED
    BY <1>6, <2>1, <2>2
<1> HIDE DEF w
<1>9. Arrived(Block) /\ Bytes(Block) = a /\ Rest(Block) = w
  <2>1. Block \in Nat /\ Len(a) <= Block /\ Len(a) = Block
    BY <1>2
  <2>2. Arrived(Block) /\ Bytes(Block) = a
    BY <1>4, <1>8, <2>1, ReadWhole
  <2>3. SubSeq(pipe, Count(Block) + 1, Len(pipe)) = w
    BY <1>4, <1>8, <2>1, ReadWhole
  <2> QED
    BY <2>2, <2>3 DEF Rest, From
<1> QED
  BY <1>2, <1>3, <1>4, <1>6, <1>9 DEF w

\* ... a read of the rest, or past its end where it is not full, has all of it, ...
LEMMA ReadsRest ==
  ASSUME ReadTypes, NEW t \in Seq(Int), pipe = Ended(t, EndPacket) \o << Hdr(Response) >>, t # << >>,
         NEW n \in Nat, Len(t) <= n, Len(t) = n \/ ~Full(t)
  PROVE  /\ Arrived(n) /\ Bytes(n) = t
         /\ Rest(n) = IF Full(t) THEN << EndPacket, Hdr(Response) >> ELSE << Hdr(Response) >>
<1>1. EndPacket \in Seq(Int) /\ Hdr(Response) \in Seq(Int) /\ << Hdr(Response) >> \in Wire
  <2>1. EndPacket \in Seq(Int) /\ Hdr(Response) \in Seq(Int)
    BY DeviceFacts, Headers DEF Response
  <2> QED
    BY <2>1 DEF Wire
<1> DEFINE w == Ending(t, EndPacket) \o << Hdr(Response) >>
<1>2. w \in Wire /\ pipe = Packets(t) \o w
  BY <1>1, EndedIs
<1>3. w = IF Full(t) THEN << EndPacket, Hdr(Response) >> ELSE << Hdr(Response) >>
  <2>1. << EndPacket >> \o << Hdr(Response) >> = << EndPacket, Hdr(Response) >>
    BY <1>1, Pair
  <2>2. << >> \o << Hdr(Response) >> = << Hdr(Response) >>
    BY <1>1, ConcatEmptySeq DEF Wire
  <2> QED
    BY <2>1, <2>2 DEF Ending
<1> HIDE DEF w
<1>4. Arrived(n) /\ Bytes(n) = t /\ Rest(n) = w
  BY <1>2, ReadWhole DEF Rest, From
<1> QED
  BY <1>3, <1>4

\* ... and one past the end of whole packets has what ends them, too.
LEMMA ReadsEnd ==
  ASSUME ReadTypes, NEW t \in Seq(Int), pipe = Ended(t, EndPacket) \o << Hdr(Response) >>, Full(t),
         NEW n \in Nat, Len(t) < n
  PROVE  /\ Arrived(n) /\ Bytes(n) = t \o EndPacket
         /\ Rest(n) = << Hdr(Response) >>
<1>1. EndPacket \in Seq(Int) /\ << Hdr(Response) >> \in Wire /\ Len(EndPacket) < Packet
  <2>1. EndPacket \in Seq(Int) /\ Hdr(Response) \in Seq(Int) /\ Len(EndPacket) < Packet
    BY DeviceFacts, Headers DEF Response
  <2> QED
    BY <2>1 DEF Wire
<1>2. pipe = Append(Packets(t), EndPacket) \o << Hdr(Response) >>
  BY DEF Ended
<1> QED
  BY <1>1, <1>2, ReadFurther DEF Rest, From

\* Blocks until one is short: it has the last of the data.
LEMMA StreamKeeps ==
  ASSUME ReadInv, Stream
  PROVE  ReadInv'
<1>1. /\ pc = "stream" /\ kind = "get" /\ UNCHANGED <<dev, kind, size, faults, surplus, split>>
      /\ Misread' = Misread /\ EndPacket' = EndPacket
  BY DEF ReadInv, Arriving, Stream, call, Misread, Length, EndPacket
<1>2. /\ ReadTypes /\ surplus = << >> /\ Tamed(pipe) /\ got \in Seq(Int)
      /\ Undisturbed \/ (Silent /\ faults > 0)
      /\ faults' = 0 /\ split' => dev'.split
  BY <1>1 DEF ReadInv, Arriving, ReadTypes
<1>3. ASSUME Undisturbed, ~Misread
      PROVE  /\ Arrived(Block)
             /\ \/ /\ Len(Bytes(Block)) = Block
                   /\ \E b \in Seq(Int) : /\ (got \o Bytes(Block)) \o b = Object(size)
                                          /\ Rest(Block) = Ended(b, EndPacket) \o << Hdr(Response) >>
                                          /\ dev.noZeroReads => ~Full(b)
                \/ /\ Len(Bytes(Block)) < Block
                   /\ got \o Bytes(Block) = Object(size) /\ Rest(Block) = << Hdr(Response) >>
  <2>1. PICK t \in Seq(Int) : Coming(t) /\ (dev.noZeroReads => ~Full(t))
    BY <1>1, <1>3 DEF Undisturbed
  <2>2. got \o t = Object(size) /\ pipe = Ended(t, EndPacket) \o << Hdr(Response) >>
    BY <2>1 DEF Coming
  <2>3. CASE Len(t) >= Block
    <3>1. PICK a \in Seq(Int), b \in Seq(Int) :
            /\ t = a \o b /\ Len(a) = Block /\ (Full(t) <=> Full(b))
            /\ Arrived(Block) /\ Bytes(Block) = a
            /\ Rest(Block) = Ended(b, EndPacket) \o << Hdr(Response) >>
      BY <1>2, <2>2, <2>3, ReadsBlock
    <3>2. (got \o a) \o b = Object(size)
      <4>1. (got \o a) \o b = got \o (a \o b)
        BY <1>2, Assoc
      <4> QED
        BY <2>2, <3>1, <4>1
    <3> QED
      BY <2>1, <3>1, <3>2
  <2>4. CASE ~(Len(t) >= Block)
    <3>1. Block \in Nat /\ Len(t) < Block /\ Len(t) <= Block
      BY <2>4, Blocks
    <3>2. CASE ~Full(t)
      <4>1. t # << >>
        BY <3>2, Sizing DEF Full
      <4>2. Arrived(Block) /\ Bytes(Block) = t /\ Rest(Block) = << Hdr(Response) >>
        BY <1>2, <2>2, <3>1, <3>2, <4>1, ReadsRest
      <4> QED
        BY <2>2, <3>1, <4>2
    <3>3. CASE Full(t)
      <4>1. EndPacket = << >>
        BY <2>1, <3>3 DEF EndPacket
      <4>2. Arrived(Block) /\ Bytes(Block) = t \o EndPacket /\ Rest(Block) = << Hdr(Response) >>
        BY <1>2, <2>2, <3>1, <3>3, ReadsEnd
      <4>3. Bytes(Block) = t
        BY <4>1, <4>2, ConcatEmptySeq
      <4> QED
        BY <2>2, <3>1, <4>2, <4>3
    <3> QED
      BY <3>2, <3>3
  <2> QED
    BY <2>3, <2>4
<1>4. CASE Arrived(Block)
  <2>1. /\ pipe' = Rest(Block) /\ got' = got \o Bytes(Block)
        /\ pc' = IF Len(Bytes(Block)) < Block THEN "getresp" ELSE "stream"
    BY <1>4 DEF Stream, Take, Rest, From
  <2>2. /\ Bytes(Block) \in Seq(Int) /\ pipe' \in Wire /\ Fits(pipe')
        /\ (Quiet(pipe) => Quiet(pipe')) /\ (Tamed(pipe) => Tamed(pipe'))
    <3>1. /\ Bytes(Block) \in Seq(Int) /\ Rest(Block) \in Wire /\ Fits(Rest(Block))
          /\ (Quiet(pipe) => Quiet(Rest(Block))) /\ (Tamed(pipe) => Tamed(Rest(Block)))
      BY <1>2, <1>4, TakesFrom
    <3> QED
      BY <2>1, <3>1
  <2>3. ReadTypes'
    <3>1. got' \in Seq(Int)
      BY <1>2, <2>1, <2>2, ConcatProperties
    <3> QED
      BY <1>1, <1>2, <2>2, <3>1 DEF ReadTypes
  <2>4. ~Coded(surplus')
    BY <1>1, <1>2 DEF Coded
  <2>5. Arriving' /\ pc' # "idle"
    BY <1>1, <1>2, <2>1, <2>2, <2>4 DEF Arriving
  <2>6. Undisturbed' \/ (Silent' /\ faults' > 0)
    <3>1. CASE Silent /\ faults > 0
      BY <1>1, <2>2, <3>1 DEF Silent
    <3>2. CASE Undisturbed /\ Misread
      BY <1>1, <2>1, <3>2 DEF Undisturbed
    <3>3. CASE Undisturbed /\ ~Misread
      <4>1. CASE Len(Bytes(Block)) = Block
        <5>1. pc' = "stream"
          BY <2>1, <4>1, Blocks
        <5>2. PICK b \in Seq(Int) : /\ (got \o Bytes(Block)) \o b = Object(size)
                                    /\ Rest(Block) = Ended(b, EndPacket) \o << Hdr(Response) >>
                                    /\ dev.noZeroReads => ~Full(b)
          <6>1. ~(Len(Bytes(Block)) < Block)
            BY <4>1, Blocks
          <6> QED
            BY <1>3, <3>3, <6>1
        <5>3. got' \o b = Object(size') /\ pipe' = Ended(b, EndPacket') \o << Hdr(Response) >>
          BY <1>1, <2>1, <5>2
        <5>4. \E t \in Seq(Int) : /\ got' \o t = Object(size') /\ pipe' = Ended(t, EndPacket') \o << Hdr(Response) >>
                                  /\ dev'.noZeroReads => ~Full(t)
          BY <1>1, <5>2, <5>3
        <5> QED
          BY <5>1, <5>4 DEF Undisturbed, Coming
      <4>2. CASE Len(Bytes(Block)) # Block
        <5>1. Len(Bytes(Block)) < Block /\ got \o Bytes(Block) = Object(size) /\ Rest(Block) = << Hdr(Response) >>
          BY <1>3, <3>3, <4>2
        <5>2. pc' = "getresp" /\ got' = Object(size') /\ pipe' = << Hdr(Response) >>
          BY <1>1, <2>1, <5>1
        <5>3. Ready'
          BY <2>4, <5>2 DEF Ready
        <5> QED
          BY <5>2, <5>3 DEF Undisturbed
      <4> QED
        BY <4>1, <4>2
    <3> QED
      BY <1>2, <3>1, <3>2, <3>3
  <2> QED
    BY <1>1, <1>2, <2>3, <2>5, <2>6, GoesOn
<1>5. CASE ~Arrived(Block)
  <2>1. pipe' = << >> /\ pc' = "idle" /\ rc' # "OK" /\ got' = got /\ << >> \in Wire /\ surplus' = << >>
    BY <1>1, <1>2, <1>5 DEF Stream, Lost, Return, TimeoutCode, Wire
  <2>2. faults' > 0 \/ Misread'
    BY <1>1, <1>2, <1>3, <1>5
  <2>3. ReadTypes'
    BY <1>1, <1>2, <2>1 DEF ReadTypes, Fits
  <2> QED
    BY <1>1, <1>2, <2>1, <2>2, <2>3, FailsFor
<1> QED
  BY <1>4, <1>5

-----------------------------------------------------------------------------
\* How many bytes packets have.  The bytes up to a place and from there on add up, ...
LEMMA VolumeSplit ==
  ASSUME NEW q \in Wire, NEW k \in Nat, NEW c \in Nat, k + c <= Len(q)
  PROVE  /\ Volume(q, k) \in Nat /\ Volume(From(q, k), c) \in Nat
         /\ Volume(q, k + c) = Volume(q, k) + Volume(From(q, k), c)
<1> DEFINE u == From(q, k)
<1>1. PICK l \in Nat, m \in Nat : l = Len(q) /\ m = k + c /\ k <= m /\ m <= l /\ k <= l /\ c <= l - k /\ m - k = c
  BY DEF Wire
<1>2. u \in Wire /\ Len(u) = l - k /\ \A i \in 1 .. l - k : u[i] = q[k + i]
  BY <1>1, Suffix
<1> HIDE DEF u
<1>3. PICK z \in Nat : z = 0 /\ z + 1 = 1 /\ z <= k /\ z <= c /\ c - z = c /\ k - z = k /\ \A i \in Nat : z + i = i
  OBVIOUS
<1>4. SubSeq(q, 1, k) \in Wire /\ SubSeq(q, k + 1, m) \in Wire /\ Len(SubSeq(q, k + 1, m)) = c
      /\ \A i \in 1 .. c : SubSeq(q, k + 1, m)[i] = q[k + i]
  <2>1. SubSeq(q, z + 1, k) \in Wire
    BY <1>1, <1>3, WirePart
  <2>2. SubSeq(q, k + 1, m) \in Wire /\ Len(SubSeq(q, k + 1, m)) = m - k
        /\ \A i \in 1 .. m - k : SubSeq(q, k + 1, m)[i] = q[k + i]
    BY <1>1, WirePart
  <2> QED
    BY <1>1, <1>3, <2>1, <2>2
<1>5. SubSeq(u, 1, c) \in Wire /\ Len(SubSeq(u, 1, c)) = c /\ \A i \in 1 .. c : SubSeq(u, 1, c)[i] = u[i]
  <2>1. u \in Wire /\ z \in Nat /\ c \in Nat /\ z <= c /\ c <= Len(u)
    BY <1>1, <1>2, <1>3
  <2>2. SubSeq(u, z + 1, c) \in Wire /\ Len(SubSeq(u, z + 1, c)) = c - z
        /\ \A i \in 1 .. c - z : SubSeq(u, z + 1, c)[i] = u[z + i]
    BY <2>1, WirePart
  <2>3. \A i \in 1 .. c : SubSeq(u, z + 1, c)[i] = u[i]
    BY <1>3, <2>2
  <2> QED
    BY <1>3, <2>2, <2>3
<1>6. SubSeq(u, 1, c) = SubSeq(q, k + 1, m)
  <2>1. \A i \in 1 .. c : i \in 1 .. l - k
    BY <1>1
  <2>2. \A i \in 1 .. c : SubSeq(u, 1, c)[i] = SubSeq(q, k + 1, m)[i]
    BY <1>2, <1>4, <1>5, <2>1
  <2> QED
    BY <1>4, <1>5, <2>2, WireEqual
<1>7. SubSeq(q, 1, m) = SubSeq(q, 1, k) \o SubSeq(q, k + 1, m)
  <2>1. 1 \in 1 .. Len(q) + 1 /\ k \in 1 - 1 .. Len(q) /\ m \in k .. Len(q) /\ q \in Seq(Seq(Int))
    BY <1>1 DEF Wire
  <2> QED
    BY <2>1, ConcatAdjacentSubSeq
<1>8. FlattenSeq(SubSeq(q, 1, m)) = FlattenSeq(SubSeq(q, 1, k)) \o FlattenSeq(SubSeq(u, 1, c))
  BY <1>4, <1>6, <1>7, FlattenConcat
<1>9. FlattenSeq(SubSeq(q, 1, k)) \in Seq(Int) /\ FlattenSeq(SubSeq(u, 1, c)) \in Seq(Int)
  BY <1>4, <1>5, FlattenType
<1>10. PICK a \in Seq(Int), b \in Seq(Int) :
         /\ a = FlattenSeq(SubSeq(q, 1, k)) /\ b = FlattenSeq(SubSeq(u, 1, c))
         /\ FlattenSeq(SubSeq(q, 1, m)) = a \o b
  BY <1>8, <1>9
<1>11. Len(a \o b) = Len(a) + Len(b) /\ Len(a) \in Nat /\ Len(b) \in Nat
  BY ConcatProperties
<1> QED
  BY <1>1, <1>10, <1>11 DEF Volume, u

\* ... nothing has none, one packet its own, ...
LEMMA VolumeOne ==
  ASSUME NEW q \in Wire
  PROVE  /\ Volume(q, 0) = 0
         /\ q # << >> => Volume(q, 1) = Len(q[1])
<1>1. SubSeq(q, 1, 0) = << >>
  BY DEF Wire
<1>2. Volume(q, 0) = 0
  <2>1. Volume(q, 0) = Len(<< >>)
    BY <1>1, FlattenEmpty, Zenon DEF Volume
  <2> QED
    BY <2>1
<1>3. ASSUME q # << >> PROVE Volume(q, 1) = Len(q[1])
  <2>1. 1 <= Len(q) /\ q[1] \in Seq(Int)
    BY <1>3 DEF Wire
  <2>2. PICK x \in Seq(Int) : x = q[1] /\ << x >> \in Wire /\ Len(<< x >>) = 1 /\ << x >>[1] = x
    BY <2>1 DEF Wire
  <2>3. PICK z \in Nat, o \in Nat : z = 0 /\ o = 1 /\ z + 1 = o /\ z <= o /\ o - z = 1 /\ o <= Len(q)
    BY <2>1
  <2>4. /\ SubSeq(q, z + 1, o) \in Wire /\ Len(SubSeq(q, z + 1, o)) = o - z
        /\ \A i \in 1 .. o - z : SubSeq(q, z + 1, o)[i] = q[z + i]
    BY <2>3, WirePart
  <2>5. SubSeq(q, 1, 1) \in Wire /\ Len(SubSeq(q, 1, 1)) = 1 /\ SubSeq(q, 1, 1)[1] = x
    BY <2>2, <2>3, <2>4
  <2>6. \A i \in 1 .. 1 : i = 1
    OBVIOUS
  <2>7. SubSeq(q, 1, 1) = << x >>
    BY <2>2, <2>5, <2>6, WireEqual
  <2> QED
    BY <2>2, <2>7, FlattenOne DEF Volume
<1> QED
  BY <1>2, <1>3

\* ... and none has more than fit.
LEMMA VolumeBound ==
  ASSUME NEW q \in Wire, Fits(q), NEW c \in Nat, c <= Len(q)
  PROVE  Volume(q, c) \in Nat /\ c * Packet \in Nat /\ Volume(q, c) <= c * Packet
<1> DEFINE bad == {n \in Nat : n <= Len(q) /\ ~(Volume(q, n) \in Nat /\ Volume(q, n) <= n * Packet)}
<1>1. bad = {}
  <2> SUFFICES ASSUME bad # {} PROVE FALSE
    OBVIOUS
  <2>1. PICK n \in bad : \A m \in bad : n <= m
    BY Smallest
  <2>2. n \in Nat /\ n <= Len(q) /\ ~(Volume(q, n) \in Nat /\ Volume(q, n) <= n * Packet)
    OBVIOUS
  <2>3. PICK p \in Nat : p = Packet /\ 0 * p = 0
    BY Sizing
  <2>4. n # 0
    <3>1. Volume(q, 0) = 0 /\ 0 * Packet = 0
      BY <2>3, VolumeOne
    <3> QED
      BY <2>2, <3>1
  <2>5. PICK k \in Nat : n = k + 1 /\ k <= Len(q) /\ k + 1 <= Len(q) /\ k < n
    <3>1. n - 1 \in Nat /\ n = (n - 1) + 1 /\ Len(q) \in Nat
      BY <2>2, <2>4 DEF Wire
    <3> QED
      BY <2>2, <3>1
  <2>6. Volume(q, k) \in Nat /\ Volume(q, k) <= k * Packet
    <3>1. k \notin bad
      BY <2>1, <2>2, <2>5
    <3> QED
      BY <2>5, <3>1
  <2>7. PICK u : u = From(q, k)
    OBVIOUS
  <2>8. Volume(q, k + 1) = Volume(q, k) + Volume(u, 1)
    <3>1. PICK o \in Nat : o = 1 /\ k + o <= Len(q)
      BY <2>5
    <3>2. Volume(q, k + o) = Volume(q, k) + Volume(From(q, k), o)
      BY <2>5, <3>1, VolumeSplit
    <3> QED
      BY <2>7, <3>1, <3>2
  <2>9. u \in Wire /\ Len(u) = Len(q) - k /\ Fits(u)
    BY <2>5, <2>7, Suffix
  <2>10. u # << >> /\ 1 \in 1 .. Len(u)
    <3>1. Len(q) \in Nat /\ Len(u) >= 1
      BY <2>5, <2>9 DEF Wire
    <3> QED
      BY <2>9, <3>1, EmptySeq DEF Wire
  <2>11. Volume(u, 1) \in Nat /\ Volume(u, 1) <= p
    <3>1. Volume(u, 1) = Len(u[1]) /\ u[1] \in Seq(Int)
      BY <2>9, <2>10, VolumeOne DEF Wire
    <3>2. Len(u[1]) <= Packet
      BY <2>9, <2>10 DEF Fits
    <3> QED
      BY <2>3, <3>1, <3>2
  <2>12. PICK x \in Nat, y \in Nat : x = k * p /\ y = n * p /\ y = x + p
    <3>1. k * p \in Nat /\ (k + 1) * p = k * p + p
      OBVIOUS
    <3> QED
      BY <2>5, <3>1
  <2>13. Volume(q, n) = Volume(q, k) + Volume(u, 1) /\ Volume(q, k) <= x
    BY <2>3, <2>5, <2>6, <2>8, <2>12
  <2>14. Volume(q, n) \in Nat /\ Volume(q, n) <= y
    BY <2>6, <2>11, <2>12, <2>13
  <2> QED
    BY <2>2, <2>3, <2>12, <2>14
<1>2. c \notin bad
  BY <1>1
<1>3. c * Packet \in Nat
  BY Sizing
<1> QED
  BY <1>2, <1>3

-----------------------------------------------------------------------------
\* What ptp_read_func asks for.
LEMMA ToRead ==
  ASSUME ReadTypes, Remaining > 0
  PROVE  /\ Remaining \in Nat /\ toread \in Nat /\ Room \in Nat
         /\ \/ Terminator /\ toread = Remaining + 1 /\ Room = Remaining + 1
            \/ ~Terminator /\ Remaining < Block /\ toread = Remaining /\ Room = Remaining
            \/ ~Terminator /\ ~(Remaining < Block) /\ toread = Block
<1>1. size \in Nat /\ Len(got) \in Nat /\ dev.noZeroReads \in BOOLEAN /\ Block \in Nat
  BY DeviceFacts, Blocks DEF ReadTypes
<1>2. PICK r \in Nat : r = Remaining
  BY <1>1 DEF Remaining
<1>3. CASE Terminator
  <2>1. toread = r + 1
    BY <1>2, <1>3 DEF toread
  <2>2. Room = r + 1
    BY <1>2, <1>3 DEF Room, Terminator
  <2> QED
    BY <1>2, <1>3, <2>1, <2>2
<1>4. CASE ~Terminator /\ r < Block
  <2>1. toread = r
    BY <1>1, <1>2, <1>4 DEF toread, Least
  <2>2. Room = r
    BY <1>2, <1>4 DEF Room, Terminator
  <2> QED
    BY <1>2, <1>4, <2>1, <2>2
<1>5. CASE ~Terminator /\ ~(r < Block)
  <2>1. toread = Block
    BY <1>1, <1>2, <1>5 DEF toread, Least
  <2>2. Room \in Nat
    BY <1>2 DEF Room
  <2> QED
    BY <1>1, <1>2, <1>5, <2>1, <2>2
<1> QED
  BY <1>2, <1>3, <1>4, <1>5

\* A whole number of packets that has not all been read stays one.
LEMMA BlockLess ==
  ASSUME NEW r \in Nat, NEW s \in Nat, r = Block + s
  PROVE  r % Packet = s % Packet
BY Blocks, MultipleAdds

\* What is too much for a read is the last packet: nothing is left behind it.
LEMMA TooMuchIsLast ==
  ASSUME ReadTypes, Remaining > 0, \A c \in 0 .. Len(pipe) : c < Len(pipe) => Volume(pipe, c) <= Room,
         Arrived(toread), Overflow(toread)
  PROVE  Rest(toread) = << >>
<1>1. PICK l \in Nat, k \in Nat : l = Len(pipe) /\ k = Count(toread) /\ k \in 1 .. l
        /\ \A j \in 1 .. k - 1 : ~Stops(j, toread)
  <2>1. Len(pipe) \in Nat
    BY DEF ReadTypes, Wire
  <2> QED
    BY <2>1, Counted
<1>2. Remaining \in Nat /\ toread \in Nat /\ Room \in Nat
  BY ToRead
<1>3. PICK v \in Nat : v = Volume(pipe, k) /\ v > toread /\ k * Packet \in Nat /\ v <= k * Packet
  <2>1. pipe \in Wire /\ Fits(pipe) /\ k <= Len(pipe)
    BY <1>1 DEF ReadTypes
  <2>2. Volume(pipe, k) \in Nat /\ k * Packet \in Nat /\ Volume(pipe, k) <= k * Packet
    BY <2>1, VolumeBound
  <2>3. Volume(pipe, k) > toread
    BY <1>1 DEF Overflow, Bytes, Volume
  <2> QED
    BY <2>2, <2>3
<1>4. k < l => v <= Room
  BY <1>1, <1>3
<1>5. toread = Block => ~(k < l)
  <2> SUFFICES ASSUME toread = Block PROVE FALSE
    OBVIOUS
  <2>1. CASE k = 1
    <3>1. k * Packet = Packet
      BY <2>1, Sizing
    <3> QED
      BY <1>3, <3>1, Blocks, Sizing
  <2>2. CASE k # 1
    <3>1. PICK j \in Nat : k = j + 1 /\ j \in 1 .. k - 1
      <4>1. k - 1 \in Nat /\ k - 1 \in 1 .. k - 1 /\ k = (k - 1) + 1
        BY <1>1, <2>2
      <4> QED
        BY <4>1
    <3>2. ~(j * Packet >= Block)
      BY <1>1, <3>1 DEF Stops
    <3>3. PICK b \in Nat : Block = b * Packet
      <4>1. PICK b \in 1 .. Block : Block = b * Packet
        BY BlockAssumption
      <4> QED
        BY <4>1, Blocks
    <3>4. j < b
      <4> SUFFICES ASSUME b <= j PROVE FALSE
        BY <3>1, <3>3
      <4>1. b * Packet <= j * Packet
        BY <3>1, <3>3, Mono, Sizing
      <4>2. j * Packet \in Nat /\ b * Packet \in Nat
        BY <3>1, <3>3, Sizing
      <4> QED
        BY <3>2, <3>3, <4>1, <4>2
    <3>5. k <= b
      BY <3>1, <3>3, <3>4
    <3>6. k * Packet <= b * Packet
      BY <3>3, <3>5, Mono, Sizing
    <3>7. b * Packet \in Nat
      BY <3>3, Sizing
    <3> QED
      BY <1>3, <3>3, <3>6, <3>7
  <2> QED
    BY <2>1, <2>2
<1>6. ~(k < l)
  BY <1>2, <1>3, <1>4, <1>5, ToRead
<1>7. Rest(toread) \in Wire /\ Len(Rest(toread)) = Len(pipe) - Count(toread)
  BY TakesFrom
<1>8. Len(Rest(toread)) = 0
  BY <1>1, <1>6, <1>7
<1> QED
  BY <1>7, <1>8, EmptySeq DEF Wire

\* Behind a block there is no more than there may be behind what it has left to be read.
LEMMA RoomLeft ==
  ASSUME ReadTypes, Remaining > 0, \A c \in 0 .. Len(pipe) : c < Len(pipe) => Volume(pipe, c) <= Room,
         Arrived(toread), ~Terminator, ~(Remaining < Block), Len(Bytes(toread)) = Block,
         NEW s \in Nat, s = Remaining - Block
  PROVE  \A c \in 0 .. Len(Rest(toread)) : c < Len(Rest(toread)) =>
            Volume(Rest(toread), c) <= IF dev.noZeroReads /\ s % Packet = 0 THEN s + 1 ELSE s
<1>1. PICK l \in Nat, k \in Nat : l = Len(pipe) /\ k = Count(toread) /\ k \in 1 .. l
  <2>1. Len(pipe) \in Nat
    BY DEF ReadTypes, Wire
  <2> QED
    BY <2>1, Counted
<1>2. Rest(toread) = From(pipe, k) /\ Len(From(pipe, k)) = l - k /\ pipe \in Wire
  <2>1. Len(Rest(toread)) = Len(pipe) - Count(toread)
    BY TakesFrom
  <2> QED
    BY <1>1, <2>1 DEF Rest, ReadTypes
<1>3. Remaining \in Nat /\ Block \in Nat
  BY ToRead, Blocks
<1>4. Volume(pipe, k) = Block
  BY <1>1 DEF Bytes, Volume
<1>5. Room = IF dev.noZeroReads /\ s % Packet = 0 THEN s + 1 + Block ELSE s + Block
  <2>1. Remaining = Block + s
    BY <1>3
  <2>2. Remaining % Packet = s % Packet
    BY <1>3, <2>1, BlockLess
  <2> QED
    BY <1>3, <2>1, <2>2 DEF Room
<1>6. ASSUME NEW c \in 0 .. Len(From(pipe, k)), c < Len(From(pipe, k))
      PROVE  Volume(From(pipe, k), c) <= IF dev.noZeroReads /\ s % Packet = 0 THEN s + 1 ELSE s
  <2>1. c \in Nat /\ k + c < l /\ k + c \in 0 .. l /\ k + c <= Len(pipe)
    BY <1>1, <1>2, <1>6
  <2>2. Volume(pipe, k + c) <= Room
    BY <1>1, <2>1
  <2>3. Volume(pipe, k + c) = Volume(pipe, k) + Volume(From(pipe, k), c) /\ Volume(From(pipe, k), c) \in Nat
    BY <1>1, <1>2, <2>1, VolumeSplit
  <2> QED
    BY <1>3, <1>4, <1>5, <2>2, <2>3
<1> QED
  BY <1>2, <1>6

\* An undisturbed transfer is read whole, with what ends it or without.
LEMMA SizedReads ==
  ASSUME ReadTypes, Remaining > 0, Full(got), NEW t \in Seq(Int), Coming(t)
  PROVE  /\ Arrived(toread) /\ ~Overflow(toread) /\ Kept \in Seq(Int)
         /\ \/ /\ Len(Kept) = toread /\ Remaining > Len(Kept) /\ Full(got \o Kept)
               /\ \E b \in Seq(Int) : /\ (got \o Kept) \o b = Object(size)
                                      /\ Rest(toread) = Ended(b, EndPacket) \o << Hdr(Response) >>
            \/ /\ Len(Kept) < toread \/ Remaining <= Len(Kept)
               /\ got \o Kept = Object(size)
               /\ Rest(toread) \in {<< Hdr(Response) >>, << EndPacket, Hdr(Response) >>}
               /\ ~dev.noZeroReads => (Rest(toread) = << EndPacket, Hdr(Response) >> <=> size % Packet = 0)
<1>1. /\ got \in Seq(Int) /\ size \in Nat /\ Len(got) \in Nat /\ dev.noZeroReads \in BOOLEAN
      /\ EndPacket \in Seq(Int) /\ Len(EndPacket) = (IF dev.noZeroReads THEN 1 ELSE 0)
  BY DeviceFacts DEF ReadTypes
<1>2. got \o t = Object(size) /\ pipe = Ended(t, EndPacket) \o << Hdr(Response) >>
  BY DEF Coming
<1>3. Len(t) = Remaining /\ Remaining \in Nat /\ t # << >> /\ toread \in Nat
  <2>1. Len(got \o t) = Len(got) + Len(t) /\ Len(t) \in Nat
    BY <1>1, ConcatProperties
  <2>2. Len(Object(size)) = size
    BY <1>1, Objects
  <2>3. Len(t) = Remaining
    <3>1. PICK g \in Nat, m \in Nat : g = Len(got) /\ m = Len(t) /\ size = g + m
      BY <1>1, <1>2, <2>1, <2>2
    <3>2. Remaining = size - g
      BY <3>1 DEF Remaining
    <3> QED
      BY <3>1, <3>2
  <2> QED
    BY <2>1, <2>3, ToRead
<1>4. Full(t) <=> size % Packet = 0
  <2>1. Full(got \o t) <=> Full(t)
    BY <1>1, EndedBehind
  <2>2. Len(Object(size)) = size
    BY <1>1, Objects
  <2> QED
    BY <1>2, <2>1, <2>2 DEF Full
<1>5. << Hdr(Response) >> # << EndPacket, Hdr(Response) >>
  <2>1. Len(<< Hdr(Response) >>) = 1 /\ Len(<< EndPacket, Hdr(Response) >>) = 2
    OBVIOUS
  <2> QED
    BY <2>1
\* Read with nothing behind it.
<1>6. ASSUME Arrived(toread), Bytes(toread) = t, ~Terminator, Len(t) <= toread,
             Rest(toread) = IF Full(t) THEN << EndPacket, Hdr(Response) >> ELSE << Hdr(Response) >>
      PROVE  /\ ~Overflow(toread) /\ Kept = t /\ Remaining <= Len(Kept)
             /\ Rest(toread) \in {<< Hdr(Response) >>, << EndPacket, Hdr(Response) >>}
             /\ Rest(toread) = << EndPacket, Hdr(Response) >> <=> size % Packet = 0
  <2>1. Kept = t /\ ~Overflow(toread)
    BY <1>3, <1>6 DEF Kept, Overflow
  <2>2. Rest(toread) \in {<< Hdr(Response) >>, << EndPacket, Hdr(Response) >>}
    BY <1>6
  <2>3. Rest(toread) = << EndPacket, Hdr(Response) >> <=> size % Packet = 0
    BY <1>4, <1>5, <1>6
  <2>4. Remaining <= Len(Kept)
    BY <1>3, <2>1
  <2> QED
    BY <2>1, <2>2, <2>3, <2>4
<1>7. CASE Terminator
  <2>1. dev.noZeroReads /\ toread = Remaining + 1 /\ Full(t)
    BY <1>3, <1>7, ToRead DEF Terminator, Full
  <2>2. Len(t) < toread
    BY <1>3, <2>1
  <2>3. Arrived(toread) /\ Bytes(toread) = t \o EndPacket /\ Rest(toread) = << Hdr(Response) >>
    BY <1>2, <1>3, <2>1, <2>2, ReadsEnd
  <2>4. Len(t \o EndPacket) = Remaining + 1
    <3>1. Len(t \o EndPacket) = Len(t) + Len(EndPacket)
      BY <1>1, ConcatProperties
    <3> QED
      BY <1>1, <1>3, <2>1, <3>1
  <2>5. SubSeq(t \o EndPacket, 1, Remaining) = t
    <3>1. /\ t \o EndPacket \in Seq(Int) /\ Len(t \o EndPacket) = Len(t) + Len(EndPacket)
          /\ \A i \in 1 .. Len(t) + Len(EndPacket) :
               (t \o EndPacket)[i] = IF i <= Len(t) THEN t[i] ELSE EndPacket[i - Len(t)]
      BY <1>1, ConcatProperties
    <3>2. PICK z \in Nat : z = 0 /\ z <= Remaining /\ Remaining - z = Remaining /\ z + 1 = 1 /\ \A i \in Nat : z + i = i
      BY <1>3
    <3>3. Remaining <= Len(t \o EndPacket)
      BY <1>3, <2>4
    <3>4. PICK u : u = Slice(t \o EndPacket, z, Remaining)
      OBVIOUS
    <3>5. u \in Seq(Int) /\ Len(u) = Remaining - z /\ \A i \in 1 .. Remaining - z : u[i] = (t \o EndPacket)[z + i]
      <4>1. PICK r \in Nat : r = Remaining /\ z <= r /\ r <= Len(t \o EndPacket)
        BY <1>3, <3>2, <3>3
      <4>2. /\ Slice(t \o EndPacket, z, r) \in Seq(Int) /\ Len(Slice(t \o EndPacket, z, r)) = r - z
            /\ \A i \in 1 .. r - z : Slice(t \o EndPacket, z, r)[i] = (t \o EndPacket)[z + i]
        BY <3>1, <4>1, SliceFacts
      <4> QED
        BY <3>4, <4>1, <4>2
    <3>6. ASSUME NEW i \in 1 .. Remaining PROVE u[i] = t[i]
      <4>1. i \in 1 .. Len(t) + Len(EndPacket) /\ i <= Len(t) /\ i \in Nat
        BY <1>1, <1>3
      <4>2. u[i] = (t \o EndPacket)[i]
        BY <3>2, <3>5, <4>1
      <4> QED
        BY <3>1, <4>1, <4>2
    <3>7. u = t
      BY <1>3, <3>2, <3>5, <3>6, SeqEqual
    <3>8. SubSeq(t \o EndPacket, 1, Remaining) = u
      BY <3>2, <3>4 DEF Slice
    <3> QED
      BY <3>7, <3>8
  <2>6. Kept = t
    <3>1. Least(Remaining, Len(Bytes(toread))) = Remaining
      BY <1>3, <2>3, <2>4 DEF Least
    <3> QED
      BY <1>7, <2>3, <2>5, <3>1 DEF Kept
  <2>7. ~Overflow(toread) /\ Len(Kept) < toread
    BY <1>3, <2>1, <2>2, <2>3, <2>4, <2>6 DEF Overflow
  <2> QED
    BY <1>2, <2>1, <2>3, <2>6, <2>7
<1>8. CASE ~Terminator /\ Remaining < Block
  <2>1. toread = Remaining /\ Len(t) = toread /\ Len(t) <= toread
    BY <1>3, <1>8, ToRead
  <2>2. Arrived(toread) /\ Bytes(toread) = t
        /\ Rest(toread) = IF Full(t) THEN << EndPacket, Hdr(Response) >> ELSE << Hdr(Response) >>
    BY <1>2, <1>3, <2>1, ReadsRest
  <2> QED
    BY <1>2, <1>6, <1>8, <2>1, <2>2
<1>9. CASE ~Terminator /\ Remaining = Block
  <2>1. toread = Block /\ Len(t) = toread /\ Len(t) <= toread
    BY <1>3, <1>9, ToRead
  <2>2. Arrived(toread) /\ Bytes(toread) = t
        /\ Rest(toread) = IF Full(t) THEN << EndPacket, Hdr(Response) >> ELSE << Hdr(Response) >>
    BY <1>2, <1>3, <2>1, ReadsRest
  <2> QED
    BY <1>2, <1>6, <1>9, <2>1, <2>2
<1>10. CASE ~Terminator /\ Remaining > Block
  <2>1. toread = Block /\ Block \in Nat /\ Len(t) >= Block
    BY <1>3, <1>10, ToRead, Blocks
  <2>2. PICK a \in Seq(Int), b \in Seq(Int) :
            /\ t = a \o b /\ Len(a) = Block /\ Full(a)
            /\ Arrived(Block) /\ Bytes(Block) = a
            /\ Rest(Block) = Ended(b, EndPacket) \o << Hdr(Response) >>
    BY <1>2, <2>1, ReadsBlock
  <2>3. Kept = a /\ ~Overflow(toread) /\ Len(Kept) = toread /\ Remaining > Len(Kept)
    BY <1>10, <2>1, <2>2 DEF Kept, Overflow
  <2>4. (got \o a) \o b = Object(size)
    <3>1. got \in Seq(Int) /\ got \o t = Object(size)
      BY <1>1, <1>2
    <3>2. (got \o a) \o b = got \o (a \o b)
      BY <3>1, Assoc
    <3> QED
      BY <2>2, <3>1, <3>2
  <2>5. Full(got \o a)
    BY <1>1, <2>2, EndedBehind
  <2> QED
    BY <2>1, <2>2, <2>3, <2>4, <2>5
<1>11. Remaining < Block \/ Remaining = Block \/ Remaining > Block
  BY <1>3, Blocks
<1> QED
  BY <1>7, <1>8, <1>9, <1>10, <1>11

\* What has been announced, in blocks: nothing is left when there is too much or too little.
LEMMA ReadSizedKeeps ==
  ASSUME ReadInv, ReadSized
  PROVE  ReadInv'
<1>1. /\ pc = "sized" /\ kind = "get" /\ UNCHANGED <<dev, kind, size, faults, surplus, split>>
      /\ Misread' = Misread /\ EndPacket' = EndPacket
  BY DEF ReadInv, Arriving, ReadSized, call, Misread, Length, EndPacket
<1>2. /\ ReadTypes /\ surplus = << >> /\ Tamed(pipe) /\ got \in Seq(Int)
      /\ Undisturbed \/ (Silent /\ faults > 0)
      /\ faults' = 0 /\ split' => dev'.split
      /\ Remaining > 0
      /\ \A c \in 0 .. Len(pipe) : c < Len(pipe) => Volume(pipe, c) <= Room
  BY <1>1 DEF ReadInv, Arriving, ReadTypes
<1>3. ASSUME Undisturbed, ~Misread
      PROVE  /\ Arrived(toread) /\ ~Overflow(toread) /\ curread = Len(got)
             /\ \/ /\ Len(Kept) = toread /\ Remaining > Len(Kept) /\ Full(got \o Kept)
                   /\ \E b \in Seq(Int) : /\ (got \o Kept) \o b = Object(size)
                                          /\ Rest(toread) = Ended(b, EndPacket) \o << Hdr(Response) >>
                \/ /\ Len(Kept) < toread \/ Remaining <= Len(Kept)
                   /\ got \o Kept = Object(size)
                   /\ Rest(toread) \in {<< Hdr(Response) >>, << EndPacket, Hdr(Response) >>}
                   /\ ~dev.noZeroReads =>
                        (Rest(toread) = << EndPacket, Hdr(Response) >> <=> size % Packet = 0)
  <2>1. PICK t \in Seq(Int) : Coming(t) /\ Full(got) /\ curread = Len(got)
    BY <1>1, <1>3 DEF Undisturbed
  <2> QED
    BY <1>2, <2>1, SizedReads
<1>4. CASE Arrived(toread) /\ ~Overflow(toread)
  <2>1. /\ pipe' = Rest(toread) /\ got' = got \o Kept /\ curread' = curread + Len(Kept)
        /\ pc' = IF Len(Kept) < toread \/ Remaining <= Len(Kept) THEN "zero" ELSE "sized"
    BY <1>4 DEF ReadSized, Take, Rest, From
  <2>2. /\ Bytes(toread) \in Seq(Int) /\ pipe' \in Wire /\ Fits(pipe')
        /\ (Quiet(pipe) => Quiet(pipe')) /\ (Tamed(pipe) => Tamed(pipe'))
    <3>1. /\ Bytes(toread) \in Seq(Int) /\ Rest(toread) \in Wire /\ Fits(Rest(toread))
          /\ (Quiet(pipe) => Quiet(Rest(toread))) /\ (Tamed(pipe) => Tamed(Rest(toread)))
      BY <1>2, <1>4, TakesFrom
    <3> QED
      BY <2>1, <3>1
  <2>3. /\ Kept \in Seq(Int) /\ Len(Kept) \in Nat /\ got' \in Seq(Int) /\ Len(got') = Len(got) + Len(Kept)
        /\ Len(Kept) <= Remaining \/ ~Terminator
        /\ ~Terminator => Kept = Bytes(toread)
    <3>1. PICK r \in Nat, m \in Nat : r = Remaining /\ m = Len(Bytes(toread))
      BY <1>2, <2>2, ToRead
    <3>2. CASE Terminator
      <4>1. PICK e \in Nat : e = Least(r, m) /\ e <= m /\ e <= r
        BY <3>1 DEF Least
      <4>2. PICK z \in Nat : z = 0 /\ z + 1 = 1 /\ z <= e /\ e - z = e
        BY <4>1
      <4>3. Slice(Bytes(toread), z, e) \in Seq(Int) /\ Len(Slice(Bytes(toread), z, e)) = e - z
        BY <2>2, <3>1, <4>1, <4>2, SliceFacts
      <4>4. Kept = Slice(Bytes(toread), z, e)
        BY <3>1, <3>2, <4>1, <4>2 DEF Kept, Slice
      <4> QED
        BY <1>2, <2>1, <3>1, <3>2, <4>1, <4>2, <4>3, <4>4, ConcatProperties
    <3>3. CASE ~Terminator
      <4>1. Kept = Bytes(toread)
        BY <3>3 DEF Kept
      <4> QED
        BY <1>2, <2>1, <2>2, <3>3, <4>1, ConcatProperties
    <3> QED
      BY <3>2, <3>3
  <2>4. ReadTypes'
    BY <1>1, <1>2, <2>2, <2>3 DEF ReadTypes
  <2>5. ~Coded(surplus')
    BY <1>1, <1>2 DEF Coded
  <2>6. CASE pc' = "sized"
    <3>1. ~(Len(Kept) < toread) /\ ~(Remaining <= Len(Kept))
      BY <2>1, <2>6
    <3>2. PICK r \in Nat : r = Remaining /\ Len(Bytes(toread)) \in Nat /\ Len(Bytes(toread)) <= toread /\ toread \in Nat
      BY <1>2, <1>4, <2>2, ToRead DEF Overflow
    <3>3. ~Terminator /\ ~(Remaining < Block) /\ Len(Bytes(toread)) = Block /\ r > Block /\ Block \in Nat
      <4>1. ~Terminator
        BY <1>2, <2>3, <3>1, <3>2, ToRead
      <4>2. Kept = Bytes(toread) /\ Len(Bytes(toread)) = toread /\ toread < r
        BY <2>3, <3>1, <3>2, <4>1
      <4> QED
        BY <1>2, <3>2, <4>1, <4>2, ToRead, Blocks
    <3>4. PICK s \in Nat : s = Remaining - Block /\ s > 0 /\ Remaining' = s
      <4>1. Len(got') = Len(got) + Block /\ Len(got) \in Nat /\ size \in Nat
        <5>1. Kept = Bytes(toread) /\ Len(Bytes(toread)) = Block
          BY <2>3, <3>3
        <5>2. Len(got') = Len(got) + Block
          BY <2>3, <5>1
        <5> QED
          BY <1>2, <5>2 DEF ReadTypes
      <4>2. Remaining' = Remaining - Block
        BY <1>1, <3>3, <4>1 DEF Remaining
      <4> QED
        BY <3>2, <3>3, <4>2
    <3>5. Room' = IF dev.noZeroReads /\ s % Packet = 0 THEN s + 1 ELSE s
      BY <1>1, <3>4 DEF Room
    <3>6. \A c \in 0 .. Len(Rest(toread)) : c < Len(Rest(toread)) =>
            Volume(Rest(toread), c) <= IF dev.noZeroReads /\ s % Packet = 0 THEN s + 1 ELSE s
      BY <1>2, <1>4, <3>3, <3>4, RoomLeft
    <3>7. \A c \in 0 .. Len(pipe') : c < Len(pipe') => Volume(pipe', c) <= Room'
      BY <2>1, <3>5, <3>6
    <3>8. Arriving'
      BY <1>1, <1>2, <2>2, <2>5, <2>6, <3>4, <3>7 DEF Arriving
    <3>9. Undisturbed' \/ (Silent' /\ faults' > 0)
      <4>1. CASE Silent /\ faults > 0
        BY <1>1, <2>2, <4>1 DEF Silent
      <4>2. CASE Undisturbed /\ Misread
        BY <1>1, <2>6, <4>2 DEF Undisturbed
      <4>3. CASE Undisturbed /\ ~Misread
        <5>1. curread = Len(got) /\ Full(got')
          BY <1>3, <2>1, <3>1, <4>3
        <5>2. PICK b \in Seq(Int) : got' \o b = Object(size') /\ pipe' = Ended(b, EndPacket') \o << Hdr(Response) >>
          BY <1>1, <1>3, <2>1, <3>1, <4>3
        <5>3. curread' = Len(got')
          BY <2>1, <2>3, <5>1
        <5>4. \E t \in Seq(Int) : got' \o t = Object(size') /\ pipe' = Ended(t, EndPacket') \o << Hdr(Response) >>
          BY <5>2
        <5> QED
          BY <2>6, <5>1, <5>3, <5>4 DEF Undisturbed, Coming
      <4> QED
        BY <1>2, <4>1, <4>2, <4>3
    <3> QED
      BY <1>1, <1>2, <2>4, <2>6, <3>8, <3>9, GoesOn
  <2>7. CASE pc' = "zero"
    <3>1. Len(Kept) < toread \/ Remaining <= Len(Kept)
      BY <2>1, <2>7
    <3>2. Arriving'
      BY <1>1, <1>2, <2>2, <2>5, <2>7 DEF Arriving
    <3>3. Undisturbed' \/ (Silent' /\ faults' > 0)
      <4>1. CASE Silent /\ faults > 0
        BY <1>1, <2>2, <4>1 DEF Silent
      <4>2. CASE Undisturbed /\ Misread
        BY <1>1, <2>7, <4>2 DEF Undisturbed
      <4>3. CASE Undisturbed /\ ~Misread
        <5>1. ~(Len(Kept) = toread /\ Remaining > Len(Kept))
          BY <1>2, <2>3, <3>1, ToRead
        <5>2. /\ got' = Object(size') /\ curread = Len(got)
              /\ pipe' \in {<< Hdr(Response) >>, << EndPacket', Hdr(Response) >>}
              /\ ~dev'.noZeroReads => (pipe' = << EndPacket', Hdr(Response) >> <=> size' % Packet = 0)
          BY <1>1, <1>3, <2>1, <4>3, <5>1
        <5>3. curread' = size'
          BY <1>1, <1>2, <2>1, <2>3, <5>2, Objects DEF ReadTypes
        <5> QED
          BY <2>7, <5>2, <5>3 DEF Undisturbed
      <4> QED
        BY <1>2, <4>1, <4>2, <4>3
    <3> QED
      BY <1>1, <1>2, <2>4, <2>7, <3>2, <3>3, GoesOn
  <2> QED
    BY <2>1, <2>6, <2>7
<1>5. CASE Arrived(toread) /\ Overflow(toread)
  <2>1. Rest(toread) = << >>
    BY <1>2, <1>5, TooMuchIsLast
  <2>2. pipe' = << >> /\ pc' = "idle" /\ rc' # "OK" /\ got' = got /\ << >> \in Wire /\ surplus' = << >>
    <3>1. Take(toread) /\ Return("IO") /\ got' = got
      BY <1>5 DEF ReadSized
    <3>2. pipe' = << >>
      BY <2>1, <3>1 DEF Take, Rest, From
    <3> QED
      BY <1>1, <1>2, <3>1, <3>2 DEF Return, Wire
  <2>3. faults' > 0 \/ Misread'
    BY <1>1, <1>2, <1>3, <1>5
  <2>4. ReadTypes'
    BY <1>1, <1>2, <2>2 DEF ReadTypes, Fits
  <2> QED
    BY <1>1, <1>2, <2>2, <2>3, <2>4, FailsFor
<1>6. CASE ~Arrived(toread)
  <2>1. pipe' = << >> /\ pc' = "idle" /\ rc' # "OK" /\ got' = got /\ << >> \in Wire /\ surplus' = << >>
    BY <1>1, <1>2, <1>6 DEF ReadSized, Lost, Return, TimeoutCode, Wire
  <2>2. faults' > 0 \/ Misread'
    BY <1>1, <1>2, <1>3, <1>6
  <2>3. ReadTypes'
    BY <1>1, <1>2, <2>1 DEF ReadTypes, Fits
  <2> QED
    BY <1>1, <1>2, <2>1, <2>2, <2>3, FailsFor
<1> QED
  BY <1>4, <1>5, <1>6

-----------------------------------------------------------------------------
\* The beginning of what is on the pipe.  Its packets keep what all have.
Upto(q, k) == SubSeq(q, 1, k)
LEMMA Prefix ==
  ASSUME NEW q \in Wire, NEW k \in Nat, k <= Len(q)
  PROVE  /\ Upto(q, k) \in Wire /\ Len(Upto(q, k)) = k
         /\ \A i \in 1 .. k : Upto(q, k)[i] = q[i]
         /\ Fits(q) => Fits(Upto(q, k))
         /\ Quiet(q) => Quiet(Upto(q, k))
         /\ Tamed(q) => Tamed(Upto(q, k))
<1> DEFINE u == Upto(q, k)
<1>1. PICK l \in Nat, z \in Nat : l = Len(q) /\ z = 0 /\ z + 1 = 1 /\ k <= l /\ z <= k /\ k - z = k
  BY DEF Wire
<1>2. u \in Wire /\ Len(u) = k /\ \A i \in 1 .. k : u[i] = q[i]
  <2>1. /\ SubSeq(q, z + 1, k) \in Wire /\ Len(SubSeq(q, z + 1, k)) = k - z
        /\ \A i \in 1 .. k - z : SubSeq(q, z + 1, k)[i] = q[z + i]
    BY <1>1, WirePart
  <2>2. u = SubSeq(q, z + 1, k)
    BY <1>1 DEF Upto
  <2>3. \A i \in 1 .. k : z + i = i
    BY <1>1
  <2> QED
    BY <1>1, <2>1, <2>2, <2>3
<1> HIDE DEF u
<1>3. ASSUME NEW i \in 1 .. k PROVE i \in 1 .. l /\ u[i] = q[i] /\ (i < k => i < l)
  BY <1>1, <1>2
<1>4. Fits(q) => Fits(u)
  BY <1>1, <1>2, <1>3 DEF Fits
<1>5. Quiet(q) => Quiet(u)
  BY <1>1, <1>2, <1>3 DEF Quiet
<1>6. Tamed(q) => Tamed(u)
  BY <1>1, <1>2, <1>3 DEF Tamed
<1> QED
  BY <1>2, <1>4, <1>5, <1>6 DEF u

\* A packet, and what comes behind it.
Led(p, r) == << p >> \o r
LEMMA Leading ==
  ASSUME NEW p \in Seq(Int), NEW r \in Wire
  PROVE  /\ Led(p, r) \in Wire /\ Len(Led(p, r)) = Len(r) + 1
         /\ (Led(p, r))[1] = p /\ Led(p, r) # << >>
         /\ \A i \in 1 .. Len(r) : (Led(p, r))[i + 1] = r[i]
         /\ From(Led(p, r), 1) = r
<1>1. PICK v \in Wire, n \in Nat : v = << p >> /\ Len(v) = 1 /\ v[1] = p /\ n = Len(r)
  <2>1. << p >> \in Wire /\ Len(<< p >>) = 1 /\ << p >>[1] = p
    BY DEF Wire
  <2>2. Len(r) \in Nat
    BY DEF Wire
  <2> QED
    BY <2>1, <2>2
<1>2. /\ v \o r \in Wire /\ Len(v \o r) = Len(v) + Len(r)
      /\ \A i \in 1 .. Len(v) + Len(r) : (v \o r)[i] = IF i <= Len(v) THEN v[i] ELSE r[i - Len(v)]
      /\ SubSeq(v \o r, Len(v) + 1, Len(v \o r)) = r
  BY WireApart
<1>3. Len(v \o r) = n + 1
  BY <1>1, <1>2
<1>4. (v \o r)[1] = p
  BY <1>1, <1>2
<1>5. ASSUME NEW i \in 1 .. n PROVE (v \o r)[i + 1] = r[i]
  <2>1. i + 1 \in 1 .. Len(v) + Len(r) /\ ~(i + 1 <= Len(v)) /\ (i + 1) - Len(v) = i
    BY <1>1
  <2>2. (v \o r)[i + 1] = r[(i + 1) - Len(v)]
    BY <1>2, <2>1
  <2> QED
    BY <2>1, <2>2
<1>6. From(v \o r, 1) = r
  BY <1>1, <1>2 DEF From
<1>7. v \o r # << >>
  <2>1. Len(<< >>) = 0
    OBVIOUS
  <2>2. n + 1 # 0
    BY <1>1
  <2> QED
    BY <1>3, <2>1, <2>2
<1> QED
  BY <1>1, <1>2, <1>3, <1>4, <1>5, <1>6, <1>7 DEF Led

\* The beginning of an answer is none of it, or its first packet and a beginning of the others.
LEMMA LeadingFront ==
  ASSUME NEW p \in Seq(Int), NEW r \in Wire, NEW j \in Nat, j <= Len(r)
  PROVE  Upto(Led(p, r), j + 1) = Led(p, Upto(r, j))
<1>1. PICK s \in Wire, n \in Nat : s = Led(p, r) /\ n = Len(r) /\ Len(s) = n + 1 /\ s[1] = p
                     /\ \A i \in 1 .. n : s[i + 1] = r[i]
  BY Leading DEF Wire
<1>2. PICK k \in Nat : k = j + 1 /\ k <= Len(s)
  BY <1>1
<1>3. Upto(s, k) \in Wire /\ Len(Upto(s, k)) = k /\ \A i \in 1 .. k : Upto(s, k)[i] = s[i]
  BY <1>2, Prefix
<1>4. PICK u \in Wire : u = Upto(r, j) /\ Len(u) = j /\ \A i \in 1 .. j : u[i] = r[i]
  BY Prefix
<1>5. PICK v \in Wire : /\ v = Led(p, u) /\ Len(v) = j + 1 /\ v[1] = p
                        /\ \A i \in 1 .. j : v[i + 1] = u[i]
  <2>1. /\ Led(p, u) \in Wire /\ Len(Led(p, u)) = Len(u) + 1 /\ Led(p, u)[1] = p
        /\ \A i \in 1 .. Len(u) : Led(p, u)[i + 1] = u[i]
    BY Leading
  <2> QED
    BY <2>1, <1>4
<1>6. ASSUME NEW i \in 1 .. k PROVE Upto(s, k)[i] = v[i]
  <2>1. CASE i = 1
    BY <2>1, <1>1, <1>3, <1>5
  <2>2. CASE i # 1
    <3>1. PICK h \in 1 .. j : i = h + 1 /\ h \in 1 .. n
      <4>1. i - 1 \in 1 .. j /\ i = (i - 1) + 1 /\ i - 1 \in 1 .. n
        BY <2>2, <1>1, <1>2
      <4> QED
        BY <4>1
    <3>2. Upto(s, k)[i] = s[i]
      BY <1>3
    <3> QED
      BY <3>1, <3>2, <1>1, <1>4, <1>5
  <2> QED
    BY <2>1, <2>2
<1>7. Upto(s, k) = v
  BY <1>2, <1>3, <1>5, <1>6, WireEqual
<1> QED
  BY <1>1, <1>2, <1>4, <1>5, <1>7

\* The packets of a whole answer fit; what begins as a response does is the last of them.
LEMMA WholeAnswer ==
  ASSUME ReadTypes, NEW m \in Nat, NEW code \in {Response, Refusal},
         NEW p \in Seq(Int), NEW r \in Wire, Form(m, code, p, r)
  PROVE  /\ Fits(Led(p, r)) /\ Tamed(Led(p, r))
         /\ code = Refusal => Quiet(Led(p, r))
         /\ \A i \in 1 .. Len(Led(p, r)) : i < Len(Led(p, r)) => Mute(Led(p, r)[i])
<1>1. PICK s \in Wire, n \in Nat : s = Led(p, r) /\ n = Len(r) /\ Len(s) = n + 1 /\ s[1] = p
                     /\ \A i \in 1 .. n : s[i + 1] = r[i]
  <2>1. /\ Led(p, r) \in Wire /\ Len(Led(p, r)) = Len(r) + 1 /\ Led(p, r)[1] = p
        /\ \A i \in 1 .. Len(r) : Led(p, r)[i + 1] = r[i]
    BY Leading
  <2>2. Len(r) \in Nat
    BY DEF Wire
  <2> QED
    BY <2>1, <2>2
<1>2. /\ p # << >> /\ p[1] = Header /\ Len(p) <= Packet
      /\ r # << >> => Uncoded(p)
      /\ \A i \in 1 .. n : (i < n => Uncoded(r[i])) /\ Len(r[i]) <= Packet
      /\ code = Refusal => Mute(p) /\ \A i \in 1 .. n : Mute(r[i])
  <2>1. /\ p # << >> /\ p[1] = Header /\ Len(p) <= Packet
        /\ r # << >> => r[Len(r)] = Hdr(code) /\ Uncoded(p)
        /\ \A i \in 1 .. Len(r) : (i < Len(r) => Uncoded(r[i])) /\ Len(r[i]) <= Packet
        /\ code = Refusal => Mute(p) /\ \A i \in 1 .. Len(r) : Mute(r[i])
    BY FormFacts
  <2> QED
    BY <1>1, <2>1
<1>3. ASSUME NEW i \in 1 .. n + 1
      PROVE  i = 1 \/ \E j \in 1 .. n : i = j + 1 /\ s[i] = r[j]
  <2>1. CASE i # 1
    <3>1. i - 1 \in 1 .. n /\ i = (i - 1) + 1
      BY <2>1
    <3> QED
      BY <3>1, <1>1
  <2> QED
    BY <2>1
<1>4. \A i \in 1 .. n : r[i] \in Seq(Int)
  BY <1>1 DEF Wire
<1>5. ASSUME NEW i \in 1 .. n + 1, i < n + 1 PROVE Mute(s[i]) /\ ~Coded(s[i])
  <2>1. CASE i = 1
    <3>1. n # 0
      BY <1>5, <2>1
    <3>2. r # << >>
      <4>1. Len(<< >>) = 0
        OBVIOUS
      <4> QED
        BY <3>1, <4>1, <1>1
    <3> QED
      BY <3>2, <2>1, <1>1, <1>2, UncodedBytes
  <2>2. CASE i # 1
    <3>1. PICK j \in 1 .. n : i = j + 1 /\ s[i] = r[j]
      BY <2>2, <1>3
    <3>2. j < n
      BY <3>1, <1>5
    <3> QED
      BY <3>1, <3>2, <1>2, <1>4, UncodedBytes
  <2> QED
    BY <2>1, <2>2
<1>6. ASSUME NEW i \in 1 .. n + 1 PROVE Len(s[i]) <= Packet /\ (code = Refusal => Mute(s[i]))
  <2>1. CASE i = 1
    BY <2>1, <1>1, <1>2
  <2>2. CASE i # 1
    BY <2>2, <1>2, <1>3
  <2> QED
    BY <2>1, <2>2
<1> QED
  BY <1>1, <1>5, <1>6 DEF Fits, Tamed, Quiet

\* What an answer is: nothing, a refusal, or the first packet of its form and some of the others.
LEMMA Answers ==
  ASSUME ReadTypes, NEW q, Answered(q)
  PROVE  \/ q = << >> \/ q = << Hdr(Refusal) >>
         \/ \E m \in Nat, code \in {Response, Refusal}, p \in Seq(Int), r \in Wire, j \in Nat :
               /\ Form(m, code, p, r) /\ m <= size /\ j <= Len(r) /\ q = Led(p, Upto(r, j))
               /\ code = Response /\ j = Len(r) => m = size
<1>1. CASE q = << Hdr(Refusal) >>
  BY <1>1
<1>2. CASE q # << Hdr(Refusal) >>
  <2>0. PICK m \in 0 .. size, code \in {Response, Refusal} :
          \E k \in 0 .. Len(Sent(Object(m), code)) :
            /\ q = Upto(Sent(Object(m), code), k)
            /\ code = Response /\ k = Len(Sent(Object(m), code)) => m = size
    BY <1>2 DEF Answered, Upto
  <2>1. PICK k \in 0 .. Len(Sent(Object(m), code)) :
          /\ q = Upto(Sent(Object(m), code), k)
          /\ code = Response /\ k = Len(Sent(Object(m), code)) => m = size
    BY <2>0
  <2>2. m \in Nat /\ m <= size
    BY DEF ReadTypes
  <2>3. PICK p \in Seq(Int), r \in Wire : Sent(Object(m), code) = Led(p, r) /\ Form(m, code, p, r)
    BY <2>2, SentForms DEF Led
  <2>4. Led(p, r) \in Wire /\ Len(Led(p, r)) = Len(r) + 1 /\ Len(r) \in Nat
    <3>1. Led(p, r) \in Wire /\ Len(Led(p, r)) = Len(r) + 1
      BY Leading
    <3>2. Len(r) \in Nat
      BY DEF Wire
    <3> QED
      BY <3>1, <3>2
  <2>5. CASE k = 0
    <3>1. PICK z \in Nat : z = 0 /\ z <= Len(Led(p, r))
      BY <2>4
    <3>2. Upto(Led(p, r), z) \in Wire /\ Len(Upto(Led(p, r), z)) = z
      BY <2>4, <3>1, Prefix
    <3>3. q = << >>
      BY <2>1, <2>3, <2>5, <3>1, <3>2, EmptySeq DEF Wire
    <3> QED
      BY <3>3
  <2>6. CASE k # 0
    <3>1. PICK j \in Nat : k = j + 1 /\ j <= Len(r) /\ (j = Len(r) <=> k = Len(Led(p, r)))
      <4>1. k - 1 \in Nat /\ k = (k - 1) + 1 /\ k - 1 <= Len(r)
        BY <2>3, <2>4, <2>6
      <4> QED
        BY <2>4, <4>1
    <3>2. Upto(Led(p, r), j + 1) = Led(p, Upto(r, j))
      BY <3>1, LeadingFront
    <3>3. q = Led(p, Upto(r, j)) /\ (code = Response /\ j = Len(r) => m = size)
      BY <2>1, <2>3, <3>1, <3>2
    <3> QED
      BY <2>2, <2>3, <3>1, <3>3
  <2> QED
    BY <2>5, <2>6
<1> QED
  BY <1>1, <1>2

\* Also the beginning of one.
LEMMA AnsweredTame ==
  ASSUME ReadTypes, NEW q, Answered(q)
  PROVE  q \in Wire /\ Fits(q) /\ Tamed(q)
<1>1. CASE q = << >>
  <2>1. q \in Wire /\ \A i \in 1 .. Len(q) : FALSE
    BY <1>1 DEF Wire
  <2> QED
    BY <2>1 DEF Fits, Tamed
<1>2. CASE q = << Hdr(Refusal) >>
  <2>1. PICK h \in Seq(Int) : h = Hdr(Refusal) /\ Len(h) <= Packet
    BY Headers, Sizing DEF Refusal
  <2>2. q \in Wire /\ Len(q) = 1 /\ q[1] = h
    BY <1>2, <2>1 DEF Wire
  <2> QED
    BY <2>1, <2>2 DEF Fits, Tamed
<1>3. CASE q # << >> /\ q # << Hdr(Refusal) >>
  <2>1. PICK m \in Nat, code \in {Response, Refusal}, p \in Seq(Int), r \in Wire, j \in Nat :
           Form(m, code, p, r) /\ j <= Len(r) /\ q = Led(p, Upto(r, j))
    BY <1>3, Answers
  <2>2. Fits(Led(p, r)) /\ Tamed(Led(p, r))
    BY <2>1, WholeAnswer
  <2>3. Led(p, r) \in Wire /\ Len(Led(p, r)) = Len(r) + 1 /\ Len(r) \in Nat
    <3>1. Led(p, r) \in Wire /\ Len(Led(p, r)) = Len(r) + 1
      BY Leading
    <3>2. Len(r) \in Nat
      BY DEF Wire
    <3> QED
      BY <3>1, <3>2
  <2>4. PICK k \in Nat : k = j + 1 /\ k <= Len(Led(p, r))
    BY <2>1, <2>3
  <2>5. q = Upto(Led(p, r), k)
    <3>1. Upto(Led(p, r), j + 1) = Led(p, Upto(r, j))
      BY <2>1, LeadingFront
    <3> QED
      BY <2>1, <2>4, <3>1
  <2> QED
    BY <2>2, <2>3, <2>4, <2>5, Prefix
<1> QED
  BY <1>1, <1>2, <1>3

\* The same device sends the same.
LEMMA SendsSame ==
  ASSUME dev' = dev, NEW CONSTANT s, NEW CONSTANT code
  PROVE  Sent(s, code)' = Sent(s, code)
BY DEF Sent, EndPacket

\* The device that sends less, or refuses, says nothing that would be taken for success.
LEMMA Disturbs ==
  ASSUME ReadTypes, NEW a \in GetAnswers
  PROVE  Answered(a) /\ Quiet(a)
<1>1. CASE a = << Hdr(Refusal) >>
  <2>1. Answered(a)
    BY <1>1 DEF Answered
  <2>2. a[1] = Hdr(Refusal) /\ Len(a) = 1 /\ Mute(Hdr(Refusal))
    BY <1>1, UncodedBytes
  <2> QED
    BY <2>1, <2>2 DEF Quiet
<1>2. CASE \E m \in 0 .. size - 1 : a = Sent(Object(m), Refusal)
  <2>1. PICK m \in Nat : m \in 0 .. size /\ a = Sent(Object(m), Refusal)
    BY <1>2 DEF ReadTypes
  <2>2. PICK p \in Seq(Int), r \in Wire : a = Led(p, r) /\ Form(m, Refusal, p, r)
    <3>1. Refusal \in {Response, Refusal}
      OBVIOUS
    <3> QED
      BY <2>1, <3>1, SentForms DEF Led
  <2>3. Quiet(a) /\ a \in Wire
    <3>1. Refusal \in {Response, Refusal}
      OBVIOUS
    <3>2. Quiet(Led(p, r))
      BY <2>2, <3>1, WholeAnswer
    <3> QED
      BY <2>2, <3>2, Leading
  <2>4. PICK l \in Nat : l = Len(a)
    BY <2>3 DEF Wire
  <2>5. a = SubSeq(a, 1, l)
    <3>1. Upto(a, l) \in Wire /\ Len(Upto(a, l)) = l /\ \A i \in 1 .. l : Upto(a, l)[i] = a[i]
      BY <2>3, <2>4, Prefix
    <3>2. Upto(a, l) = a
      BY <2>3, <2>4, <3>1, WireEqual
    <3> QED
      BY <3>2 DEF Upto
  <2>6. l \in 0 .. Len(a) /\ Refusal # Response
    BY <2>4 DEF Refusal, Response
  <2>7. Answered(a)
    BY <2>1, <2>5, <2>6 DEF Answered
  <2> QED
    BY <2>3, <2>7
<1>3. CASE \E k \in 0 .. Len(Sent(Object(size), Response)) - 1 : a = SubSeq(Sent(Object(size), Response), 1, k)
  <2>1. PICK p \in Seq(Int), r \in Wire : Sent(Object(size), Response) = Led(p, r) /\ Form(size, Response, p, r)
    BY SentForms DEF Led, ReadTypes
  <2>2. PICK s \in Wire, l \in Nat : /\ s = Led(p, r) /\ l = Len(s)
                            /\ \A i \in 1 .. l : i < l => Mute(s[i])
    <3>1. Led(p, r) \in Wire /\ Len(Led(p, r)) \in Nat
      BY Leading DEF Wire
    <3>2. \A i \in 1 .. Len(Led(p, r)) : i < Len(Led(p, r)) => Mute(Led(p, r)[i])
      BY <2>1, WholeAnswer DEF ReadTypes
    <3> QED
      BY <3>1, <3>2
  <2>3. PICK k \in Nat : k < l /\ k <= Len(s) /\ a = SubSeq(s, 1, k)
    BY <1>3, <2>1, <2>2
  <2>4. Len(a) = k /\ \A i \in 1 .. k : a[i] = s[i]
    <3>1. Len(Upto(s, k)) = k /\ \A i \in 1 .. k : Upto(s, k)[i] = s[i]
      BY <2>3, Prefix
    <3> QED
      BY <2>3, <3>1 DEF Upto
  <2>5. Quiet(a)
    <3>1. ASSUME NEW i \in 1 .. k PROVE Mute(a[i])
      BY <2>2, <2>3, <2>4
    <3> QED
      BY <2>4, <3>1 DEF Quiet
  <2>6. Answered(a)
    <3>1. size \in 0 .. size /\ k \in 0 .. Len(Sent(Object(size), Response)) /\ a = SubSeq(Sent(Object(size), Response), 1, k)
      BY <2>1, <2>2, <2>3 DEF ReadTypes
    <3> QED
      BY <3>1 DEF Answered
  <2> QED
    BY <2>5, <2>6
<1> QED
  BY <1>1, <1>2, <1>3 DEF GetAnswers

\* The device answers.
LEMMA AnswerKeeps ==
  ASSUME ReadInv, Answer
  PROVE  ReadInv'
<1>1. /\ pc = "answer" /\ kind = "get" /\ pc' = "getdata" /\ UNCHANGED <<dev, kind, size, surplus, got, curread, split>>
      /\ pipe = << >> /\ surplus = << >> /\ curread = 0
  BY DEF ReadInv, Arriving, Answer, call
<1>2. ReadTypes /\ (faults = 0 /\ split => dev.split)
  BY DEF ReadInv
<1>3. ASSUME NEW q, pipe' = q, Answered(q)
      PROVE  (faults' \in Nat => ReadTypes') /\ Arriving'
  <2>1. q \in Wire /\ Fits(q) /\ Tamed(q)
    BY <1>2, <1>3, AnsweredTame
  <2>2. Answered(pipe)'
    <3>1. dev' = dev /\ size' = size
      BY <1>1
    <3> QED
      BY <3>1, <1>3, SendsSame DEF Answered
  <2>3. ~Coded(surplus')
    BY <1>1 DEF Coded
  <2> QED
    BY <1>1, <1>2, <1>3, <2>1, <2>2, <2>3 DEF ReadTypes, Arriving
<1>4. CASE pipe' = pipe \o Sent(Object(size), Response) /\ UNCHANGED faults
  <2>1. PICK s \in Wire : s = Sent(Object(size), Response)
    <3>1. size \in Nat /\ Response \in {Response, Refusal}
      BY <1>2 DEF ReadTypes
    <3>2. PICK p \in Seq(Int), r \in Wire : Sent(Object(size), Response) = Led(p, r)
      BY <1>2, <3>1, SentForms DEF Led
    <3> QED
      BY <3>2, Leading
  <2>2. pipe' = s
    BY <1>1, <1>4, <2>1, ConcatEmptySeq DEF Wire
  <2>3. Answered(s)
    <3>1. PICK l \in Nat : l = Len(s)
      BY DEF Wire
    <3>2. s = SubSeq(s, 1, l)
      <4>1. Upto(s, l) \in Wire /\ Len(Upto(s, l)) = l /\ \A i \in 1 .. l : Upto(s, l)[i] = s[i]
        BY <3>1, Prefix
      <4>2. Upto(s, l) = s
        BY <3>1, <4>1, WireEqual
      <4> QED
        BY <4>2 DEF Upto
    <3>3. size \in 0 .. size /\ l \in 0 .. Len(s)
      BY <1>2, <3>1 DEF ReadTypes
    <3> QED
      BY <2>1, <3>2, <3>3 DEF Answered
  <2>4. Undisturbed'
    <3>1. Sent(Object(size), Response)' = Sent(Object(size), Response)
      BY <1>1 DEF Sent, EndPacket
    <3> QED
      BY <1>1, <2>1, <2>2, <3>1 DEF Undisturbed
  <2>5. ReadTypes' /\ Arriving'
    BY <1>2, <1>3, <1>4, <2>2, <2>3 DEF ReadTypes
  <2> QED
    BY <1>1, <1>2, <1>4, <2>4, <2>5, GoesOn
<1>5. CASE faults' = faults + 1 /\ \E a \in GetAnswers : pipe' = pipe \o a
  <2>1. PICK a \in GetAnswers : pipe' = pipe \o a
    BY <1>5
  <2>2. Answered(a) /\ Quiet(a)
    BY <1>2, Disturbs
  <2>3. a \in Wire
    BY <1>2, <2>2, AnsweredTame
  <2>4. pipe' = a
    BY <1>1, <2>1, <2>3, ConcatEmptySeq DEF Wire
  <2>5. Silent' /\ faults' > 0 /\ faults' \in Nat
    BY <1>1, <1>2, <1>5, <2>2, <2>4 DEF Silent, Mute, ReadTypes
  <2>6. ReadTypes' /\ Arriving'
    BY <1>3, <2>2, <2>4, <2>5
  <2> QED
    BY <1>1, <1>2, <2>5, <2>6, GoesOn
<1> QED
  BY <1>4, <1>5 DEF Answer

-----------------------------------------------------------------------------
\* What ptp_usb_getdata makes of its first packet.  A sequence of three parts, taken apart.
Three(h, o, x) == (h \o o) \o x
LEMMA ThreeParts ==
  ASSUME NEW h \in Seq(Int), NEW o \in Seq(Int), NEW x \in Seq(Int)
  PROVE  /\ Three(h, o, x) \in Seq(Int) /\ Len(Three(h, o, x)) = Len(h) + Len(o) + Len(x)
         /\ Slice(Three(h, o, x), Len(h), Len(h) + Len(o)) = o
         /\ Slice(Three(h, o, x), Len(h) + Len(o), Len(Three(h, o, x))) = x
<1>0. PICK p \in Seq(Int) : p = (h \o o) \o x /\ p = Three(h, o, x)
  <2>1. h \o o \in Seq(Int)
    BY ConcatProperties
  <2>2. (h \o o) \o x \in Seq(Int)
    BY <2>1, ConcatProperties
  <2> QED
    BY <2>2 DEF Three
<1>1. PICK a \in Nat, b \in Nat, c \in Nat, d \in Nat, n \in Nat :
        a = Len(h) /\ b = Len(o) /\ c = Len(x) /\ d = a + b /\ n = d + c
  OBVIOUS
<1>2. h \o o \in Seq(Int) /\ Len(h \o o) = d /\ \A i \in 1 .. b : (h \o o)[a + i] = o[i]
  <2>1. h \o o \in Seq(Int) /\ Len(h \o o) = a + b
        /\ \A i \in 1 .. a + b : (h \o o)[i] = IF i <= a THEN h[i] ELSE o[i - a]
    BY <1>1, ConcatProperties
  <2>2. ASSUME NEW i \in 1 .. b PROVE (h \o o)[a + i] = o[i]
    <3>1. a + i \in 1 .. a + b /\ ~(a + i <= a) /\ (a + i) - a = i
      BY <1>1
    <3>2. (h \o o)[a + i] = o[(a + i) - a]
      BY <3>1, <2>1
    <3> QED
      BY <3>1, <3>2
  <2> QED
    BY <1>1, <2>1, <2>2
<1>3. /\ Len(p) = n /\ \A i \in 1 .. b : p[a + i] = o[i]
      /\ \A i \in 1 .. c : p[d + i] = x[i]
  <2>1. Len(p) = d + c /\ \A i \in 1 .. d + c : p[i] = IF i <= d THEN (h \o o)[i] ELSE x[i - d]
    <3>1. PICK k \in Seq(Int) : k = h \o o /\ Len(k) = d /\ p = k \o x
      BY <1>0, <1>2
    <3>2. /\ Len(k \o x) = Len(k) + Len(x)
          /\ \A i \in 1 .. Len(k) + Len(x) : (k \o x)[i] = IF i <= Len(k) THEN k[i] ELSE x[i - Len(k)]
      BY ConcatProperties
    <3> QED
      BY <1>1, <3>1, <3>2
  <2>2. ASSUME NEW i \in 1 .. b PROVE p[a + i] = o[i]
    <3>1. a + i \in 1 .. d + c /\ a + i <= d
      BY <1>1
    <3> QED
      BY <3>1, <2>1, <1>2
  <2>3. ASSUME NEW i \in 1 .. c PROVE p[d + i] = x[i]
    <3>1. d + i \in 1 .. d + c /\ ~(d + i <= d) /\ (d + i) - d = i
      BY <1>1
    <3>2. p[d + i] = x[(d + i) - d]
      BY <3>1, <2>1
    <3> QED
      BY <3>1, <3>2
  <2> QED
    BY <1>1, <2>1, <2>2, <2>3
<1>4. Slice(p, a, d) = o
  <2>1. a <= d /\ d <= Len(p) /\ d - a = b
    BY <1>1, <1>3
  <2>2. /\ Slice(p, a, d) \in Seq(Int) /\ Len(Slice(p, a, d)) = d - a
        /\ \A i \in 1 .. d - a : Slice(p, a, d)[i] = p[a + i]
    BY <2>1, SliceFacts
  <2>3. \A i \in 1 .. b : Slice(p, a, d)[i] = o[i]
    BY <1>3, <2>1, <2>2
  <2> QED
    BY <1>1, <2>1, <2>2, <2>3, SeqEqual
<1>5. Slice(p, d, n) = x
  <2>1. d <= n /\ n <= Len(p) /\ n - d = c
    BY <1>1, <1>3
  <2>2. /\ Slice(p, d, n) \in Seq(Int) /\ Len(Slice(p, d, n)) = n - d
        /\ \A i \in 1 .. n - d : Slice(p, d, n)[i] = p[d + i]
    BY <2>1, SliceFacts
  <2>3. \A i \in 1 .. c : Slice(p, d, n)[i] = x[i]
    BY <1>3, <2>1, <2>2
  <2> QED
    BY <1>1, <2>1, <2>2, <2>3, SeqEqual
<1> QED
  BY <1>0, <1>1, <1>3, <1>4, <1>5

\* The part of the packet that is data, and the part behind the announced length.
LEMMA Parses ==
  ASSUME ReadTypes, NEW p \in Seq(Int), ThePacket = p, HdrLen <= Len(p), Len(p) <= Packet
  PROVE  /\ rlen \in Nat /\ HdrLen <= rlen /\ rlen <= Len(p) /\ Length \in Nat
         /\ rlen = IF Len(p) = Packet THEN Packet ELSE Least(Length, Len(p))
         /\ SubSeq(ThePacket, HdrLen + 1, rlen) = Slice(p, HdrLen, rlen)
         /\ Slice(p, HdrLen, rlen) \in Seq(Int) /\ Len(Slice(p, HdrLen, rlen)) = rlen - HdrLen
         /\ Surplus \in Seq(Int) /\ (Mute(p) => Mute(Surplus)) /\ (Uncoded(p) => Uncoded(Surplus))
         /\ Len(p) # Packet /\ Len(p) >= Length + HdrLen => Surplus = Slice(p, Length, Len(p))
         /\ ~(Len(p) # Packet /\ Len(p) >= Length + HdrLen) => Surplus = << >>
<1>1. PICK n \in Nat, l \in Nat, h \in Nat : /\ n = Len(p) /\ l = Length /\ l = h + size /\ h = HdrLen /\ h > 0
                                   /\ size \in Nat /\ Packet \in Nat
  BY Sizing DEF ReadTypes, Length
<1>2. rlen = IF n = Packet THEN Packet ELSE Least(l, n)
  BY <1>1 DEF rlen, Whole
<1>3. PICK e \in Nat : e = rlen /\ h <= e /\ e <= n
  BY <1>1, <1>2 DEF Least
<1>4. Slice(p, h, e) \in Seq(Int) /\ Len(Slice(p, h, e)) = e - h
  BY <1>1, <1>3, SliceFacts
<1>5. CASE n # Packet /\ n >= l + h
  <2>1. /\ Slice(p, l, n) \in Seq(Int) /\ Len(Slice(p, l, n)) = n - l
        /\ \A i \in 1 .. n - l : Slice(p, l, n)[i] = p[l + i]
    <3>1. l <= n /\ n <= Len(p)
      BY <1>1, <1>5
    <3> QED
      BY <3>1, SliceFacts
  <2>2. Behind = Slice(p, l, n)
    BY <1>1 DEF Behind, Slice
  <2>3. Surplus = Slice(p, l, n)
    BY <1>1, <1>5, <2>1, <2>2 DEF Surplus, Whole
  <2>4. ASSUME NEW i \in 1 .. n - l PROVE Slice(p, l, n)[i] = p[l + i] /\ l + i \in 1 .. n
    <3>1. Slice(p, l, n)[i] = p[l + i]
      BY <2>1
    <3>2. l + i \in 1 .. n
      BY <1>1
    <3> QED
      BY <3>1, <3>2
  <2>5. (Mute(p) => Mute(Surplus)) /\ (Uncoded(p) => Uncoded(Surplus))
    BY <1>1, <2>1, <2>3, <2>4 DEF Mute, Uncoded
  <2> QED
    BY <1>1, <1>2, <1>3, <1>4, <1>5, <2>1, <2>3, <2>5 DEF Slice
<1>6. CASE ~(n # Packet /\ n >= l + h)
  <2>1. Surplus = << >>
    <3>1. CASE n = Packet
      BY <1>1, <3>1 DEF Surplus, Whole
    <3>2. CASE n # Packet /\ l <= n
      <4>1. Len(Slice(p, l, n)) = n - l
        <5>1. l <= n /\ n <= Len(p)
          BY <1>1, <3>2
        <5> QED
          BY <5>1, SliceFacts
      <4>2. Behind = Slice(p, l, n)
        BY <1>1 DEF Behind, Slice
      <4> QED
        BY <1>1, <1>6, <3>2, <4>1, <4>2 DEF Surplus
    <3>3. CASE n # Packet /\ ~(l <= n)
      <4>1. Len(SubSeq(p, l + 1, n)) = 0
        BY <1>1, <3>3, SubSeqProperties
      <4> QED
        BY <1>1, <4>1 DEF Surplus, Behind
    <3> QED
      BY <3>1, <3>2, <3>3
  <2>2. Surplus \in Seq(Int) /\ Mute(Surplus) /\ Uncoded(Surplus)
    BY <2>1 DEF Mute, Uncoded
  <2> QED
    BY <1>1, <1>2, <1>3, <1>4, <1>6, <2>1, <2>2 DEF Slice
<1> QED
  BY <1>5, <1>6

\* Header and data in a packet that is not full: all of the data, and what comes behind it.
Payload == SubSeq(ThePacket, HdrLen + 1, rlen)
LEMMA DataParses ==
  ASSUME ReadTypes, NEW x \in Seq(Int), NEW p \in Seq(Int), ThePacket = p,
         p = Headed(Object(size)) \o x, Len(p) < Packet
  PROVE  /\ rlen = Length /\ Payload = Object(size)
         /\ Len(x) >= HdrLen => Surplus = x
<1>0. size \in Nat /\ HdrLen \in Nat /\ Packet \in Nat /\ Length = HdrLen + size
  BY Sizing DEF ReadTypes, Length
<1>a. PICK h \in Seq(Int), o \in Seq(Int) : /\ h = Hdr(Header) /\ o = Object(size)
                                          /\ Len(h) = HdrLen /\ Len(o) = size
  BY <1>0, Headers, Objects DEF Header
<1>b. PICK n \in Nat, l \in Nat, c \in Nat : l = HdrLen + size /\ c = Len(x) /\ n = l + c
  <2>1. PICK l \in Nat : l = HdrLen + size
    BY <1>0
  <2>2. PICK c \in Nat : c = Len(x)
    OBVIOUS
  <2>3. l + c \in Nat
    OBVIOUS
  <2> QED
    BY <2>1, <2>2, <2>3
<1>1. /\ Len(h) = HdrLen /\ Len(o) = size /\ l = Length /\ l = HdrLen + size /\ c = Len(x) /\ n = l + c
      /\ HdrLen \in Nat /\ size \in Nat /\ Packet \in Nat
  BY <1>0, <1>a, <1>b
<1>2. p = Three(h, o, x)
  BY <1>a DEF Headed, Three
<1>3. /\ Len(p) = Len(h) + Len(o) + Len(x)
      /\ Slice(p, Len(h), Len(h) + Len(o)) = o
      /\ Slice(p, Len(h) + Len(o), Len(p)) = x
  <2>1. /\ Len(Three(h, o, x)) = Len(h) + Len(o) + Len(x)
        /\ Slice(Three(h, o, x), Len(h), Len(h) + Len(o)) = o
        /\ Slice(Three(h, o, x), Len(h) + Len(o), Len(Three(h, o, x))) = x
    BY ThreeParts
  <2> QED
    BY <1>2, <2>1
<1>4. Len(p) = n /\ Slice(p, HdrLen, l) = o /\ Slice(p, l, Len(p)) = x
  BY <1>1, <1>3
<1>5. HdrLen <= Len(p) /\ Len(p) <= Packet /\ Len(p) # Packet /\ l <= Len(p)
  BY <1>1, <1>4
<1>6. /\ rlen = IF Len(p) = Packet THEN Packet ELSE Least(Length, Len(p))
      /\ SubSeq(ThePacket, HdrLen + 1, rlen) = Slice(p, HdrLen, rlen)
      /\ Len(p) # Packet /\ Len(p) >= Length + HdrLen => Surplus = Slice(p, Length, Len(p))
  BY <1>5, Parses
<1>7. rlen = l
  BY <1>1, <1>5, <1>6 DEF Least
<1>8. Payload = o
  BY <1>4, <1>6, <1>7 DEF Payload
<1>9. ASSUME c >= HdrLen PROVE Surplus = x
  <2>1. Len(p) >= l + HdrLen
    BY <1>1, <1>4, <1>9
  <2> QED
    BY <1>1, <1>4, <1>5, <1>6, <2>1
<1> QED
  BY <1>1, <1>7, <1>8, <1>9, <1>a

\* A full packet: nothing but data behind the header.
LEMMA FullParses ==
  ASSUME ReadTypes, NEW a \in Seq(Int), NEW p \in Seq(Int), ThePacket = p, p = Headed(a), Len(p) = Packet
  PROVE  rlen = Packet /\ Payload = a /\ Surplus = << >> /\ HdrLen + Len(a) = Packet
<1>0. HdrLen \in Nat /\ Packet \in Nat
  BY Sizing
<1>1. PICK h \in Seq(Int) : h = Hdr(Header) /\ Len(h) = HdrLen
  BY Headers DEF Header
<1>2. PICK x \in Seq(Int), c \in Nat : x = << >> /\ Len(x) = 0 /\ c = Len(a)
  <2>1. << >> \in Seq(Int) /\ Len(<< >>) = 0 /\ Len(a) \in Nat
    OBVIOUS
  <2> QED
    BY <2>1
<1>3. p = Three(h, a, x)
  <2>1. p = h \o a
    BY <1>1 DEF Headed
  <2>2. p \o << >> = p
    BY ConcatEmptySeq
  <2> QED
    BY <1>2, <2>1, <2>2 DEF Three
<1>4. /\ Len(p) = Len(h) + Len(a) + Len(x)
      /\ Slice(p, Len(h), Len(h) + Len(a)) = a
  <2>1. /\ Len(Three(h, a, x)) = Len(h) + Len(a) + Len(x)
        /\ Slice(Three(h, a, x), Len(h), Len(h) + Len(a)) = a
    BY ThreeParts
  <2> QED
    BY <1>3, <2>1
<1>5. HdrLen + c = Packet /\ Slice(p, HdrLen, Packet) = a
  BY <1>0, <1>1, <1>2, <1>4
<1>6. HdrLen <= Len(p) /\ Len(p) <= Packet
  BY <1>0, <1>2, <1>5
<1>7. /\ rlen = IF Len(p) = Packet THEN Packet ELSE Least(Length, Len(p))
      /\ SubSeq(ThePacket, HdrLen + 1, rlen) = Slice(p, HdrLen, rlen)
      /\ ~(Len(p) # Packet /\ Len(p) >= Length + HdrLen) => Surplus = << >>
  BY <1>6, Parses
<1> QED
  BY <1>2, <1>5, <1>7 DEF Payload

\* A header alone: the data is still to come.
LEMMA HeaderParses ==
  ASSUME ReadTypes, ThePacket = Hdr(Header), size > 0
  PROVE  /\ rlen = HdrLen /\ Payload = << >> /\ Surplus = << >> /\ Length > HdrLen
         /\ HdrLen < Packet /\ Len(ThePacket) # Packet
<1>1. PICK p \in Seq(Int), l \in Nat, h \in Nat : /\ p = Hdr(Header) /\ Len(p) = h /\ l = Length /\ l = h + size
                                         /\ h = HdrLen /\ h < Packet /\ Packet \in Nat /\ size \in Nat
  <2>1. Hdr(Header) \in Seq(Int) /\ Len(Hdr(Header)) = HdrLen
    BY Headers DEF Header
  <2>2. HdrLen \in Nat /\ size \in Nat /\ Length = HdrLen + size /\ HdrLen < Packet /\ Packet \in Nat
    BY Sizing DEF ReadTypes, Length
  <2> QED
    BY <2>1, <2>2
<1>2. HdrLen <= Len(p) /\ Len(p) <= Packet /\ ThePacket = p
  BY <1>1
<1>3. /\ rlen = IF Len(p) = Packet THEN Packet ELSE Least(Length, Len(p))
      /\ SubSeq(ThePacket, HdrLen + 1, rlen) = Slice(p, HdrLen, rlen)
      /\ ~(Len(p) # Packet /\ Len(p) >= Length + HdrLen) => Surplus = << >>
  BY <1>2, Parses
<1>4. rlen = h /\ l > h
  <2>1. rlen = IF Len(p) = Packet THEN Packet ELSE Least(Length, Len(p))
    BY <1>3
  <2>2. l > h /\ ~(l <= h)
    BY <1>1
  <2> QED
    BY <1>1, <2>1, <2>2 DEF Least
<1>5. Slice(p, h, h) = << >>
  BY SliceNone
<1>6. ~(Len(p) >= Length + HdrLen)
  BY <1>1
<1>7. Payload = << >>
  <2>1. SubSeq(ThePacket, HdrLen + 1, rlen) = Slice(p, h, h)
    BY <1>1, <1>3, <1>4
  <2> QED
    BY <1>5, <2>1 DEF Payload
<1>8. Surplus = << >>
  BY <1>3, <1>6
<1> QED
  BY <1>1, <1>2, <1>4, <1>7, <1>8

\* The first packet is the first on the pipe.
LEMMA FirstOfAnswer ==
  ASSUME ReadInv, pc = "getdata"
  PROVE  /\ ReadTypes /\ surplus = << >> /\ kind = "get" /\ curread = 0 /\ Answered(pipe) /\ Tamed(pipe)
         /\ PacketThere <=> pipe # << >>
         /\ pipe # << >> => /\ ThePacket = pipe[1] /\ pipe[1] \in Seq(Int) /\ Len(pipe[1]) <= Packet
                            /\ TakePacket => pipe' = From(pipe, 1)
<1>1. ReadTypes /\ surplus = << >> /\ kind = "get" /\ curread = 0 /\ Answered(pipe) /\ Tamed(pipe)
  BY DEF ReadInv, Arriving
<1>2. PICK n \in Nat : n = Packet /\ n <= Packet
  BY Sizing
<1>3. Arrived(Packet) <=> pipe # << >>
  BY <1>1, <1>2, FirstPacket
<1>4. ASSUME pipe # << >>
      PROVE  /\ ThePacket = pipe[1] /\ pipe[1] \in Seq(Int) /\ Len(pipe[1]) <= Packet
             /\ TakePacket => pipe' = From(pipe, 1)
  <2>1. Count(Packet) = 1 /\ Bytes(Packet) = pipe[1] /\ pipe[1] \in Seq(Int) /\ Len(pipe) >= 1
    BY <1>1, <1>2, <1>4, FirstPacket
  <2>2. Len(pipe[1]) <= Packet
    <3>1. Len(pipe) \in Nat
      BY <1>1 DEF ReadTypes, Wire
    <3>2. 1 \in 1 .. Len(pipe)
      BY <2>1, <3>1
    <3> QED
      BY <1>1, <3>2 DEF ReadTypes, Fits
  <2>3. TakePacket => pipe' = From(pipe, 1)
    BY <1>1, <2>1 DEF TakePacket, Take, From
  <2> QED
    BY <1>1, <2>1, <2>2, <2>3 DEF ThePacket
<1> QED
  BY <1>1, <1>3, <1>4 DEF PacketThere

\* It begins an answer of some form, maybe of a shorter object, maybe not all of it.
LEMMA FirstIs ==
  ASSUME ReadInv, pc = "getdata", PacketThere, IsData
  PROVE  \E m \in Nat, code \in {Response, Refusal}, p \in Seq(Int), r \in Wire, j \in Nat :
           /\ Form(m, code, p, r) /\ m <= size /\ j <= Len(r) /\ ThePacket = p /\ pipe[1] = p
           /\ TakePacket => pipe' = Upto(r, j)
<1>1. /\ ReadTypes /\ Answered(pipe) /\ pipe # << >>
      /\ ThePacket = pipe[1] /\ (TakePacket => pipe' = From(pipe, 1))
  BY FirstOfAnswer
<1>2. pipe # << Hdr(Refusal) >>
  <2> SUFFICES ASSUME pipe = << Hdr(Refusal) >> PROVE FALSE
    OBVIOUS
  <2>1. 1 \in 1 .. HdrLen /\ Hdr(Refusal)[1] = Refusal
    BY Headers, Sizing DEF Refusal
  <2>2. ThePacket = Hdr(Refusal)
    BY <1>1
  <2> QED
    BY <2>1, <2>2 DEF IsData, Refusal, Header
<1>3. PICK m \in Nat, code \in {Response, Refusal}, p \in Seq(Int), r \in Wire, j \in Nat :
        Form(m, code, p, r) /\ m <= size /\ j <= Len(r) /\ pipe = Led(p, Upto(r, j))
  BY <1>1, <1>2, Answers
<1>4. Upto(r, j) \in Wire
  BY <1>3, Prefix
<1>5. pipe[1] = p /\ From(pipe, 1) = Upto(r, j)
  BY <1>3, <1>4, Leading
<1> QED
  BY <1>1, <1>3, <1>5

\* The data of an answer that comes behind its header is no more than has been announced.
LEMMA AheadFits ==
  ASSUME ReadTypes, NEW m \in Nat, m <= size, NEW x \in Seq(Int), NEW r \in Wire,
         r = Ended(Object(m), EndPacket) \o << x >>, NEW j \in Nat, j <= Len(r), NEW c \in Nat, c < j
  PROVE  Volume(Upto(r, j), c) <= IF dev.noZeroReads /\ size % Packet = 0 THEN size + 1 ELSE size
<1>1. /\ EndPacket \in Seq(Int) /\ Len(EndPacket) = (IF dev.noZeroReads THEN 1 ELSE 0)
      /\ size \in Nat /\ Packet \in Nat /\ Packet > 0
  BY DeviceFacts, Sizing DEF ReadTypes
<1>2. PICK o \in Seq(Int) : o = Object(m) /\ Len(o) = m
  BY Objects
<1>3. PICK w \in Wire : w = << x >> /\ Len(w) = 1
  <2>1. << x >> \in Wire /\ Len(<< x >>) = 1
    BY DEF Wire
  <2> QED
    BY <2>1
<1>4. PICK e \in Wire, n \in Nat, d \in Nat : e = Ended(o, EndPacket) /\ n = Len(e) /\ Len(r) = n + 1 /\ n = c + d
                                     /\ \A i \in 1 .. n : r[i] = e[i]
  <2>1. PICK e \in Wire : e = Ended(o, EndPacket)
    BY <1>1, <1>3, EndedIs
  <2>2. PICK n \in Nat : n = Len(e)
    BY DEF Wire
  <2>3. /\ Len(e \o w) = Len(e) + Len(w)
        /\ \A i \in 1 .. Len(e) + Len(w) : (e \o w)[i] = IF i <= Len(e) THEN e[i] ELSE w[i - Len(e)]
    BY WireApart
  <2>4. r = e \o w
    BY <1>2, <1>3, <2>1
  <2>5. Len(r) = n + 1
    BY <1>3, <2>2, <2>3, <2>4
  <2>6. ASSUME NEW i \in 1 .. n PROVE r[i] = e[i]
    <3>1. i \in 1 .. Len(e) + Len(w) /\ i <= Len(e)
      BY <1>3, <2>2
    <3> QED
      BY <2>3, <2>4, <3>1
  <2>7. PICK d \in Nat : n = c + d
    <3>1. n - c \in Nat /\ n = c + (n - c)
      BY <2>5
    <3> QED
      BY <3>1
  <2> QED
    BY <2>1, <2>2, <2>5, <2>6, <2>7
<1>5. Volume(Upto(r, j), c) = Volume(e, c)
  <2>1. Upto(r, j) \in Wire /\ Len(Upto(r, j)) = j /\ \A i \in 1 .. j : Upto(r, j)[i] = r[i]
    BY Prefix
  <2>2. PICK f \in Wire : f = Upto(r, j) /\ Len(f) = j /\ \A i \in 1 .. j : f[i] = r[i]
    BY <2>1
  <2>3. c <= Len(f) /\ c <= Len(e)
    <3>1. n = Len(e) /\ n = c + d
      BY <1>4
    <3>2. c <= n /\ c <= j
      BY <3>1
    <3> QED
      BY <2>2, <3>1, <3>2
  <2>4. /\ Upto(f, c) \in Wire /\ Len(Upto(f, c)) = c /\ \A i \in 1 .. c : Upto(f, c)[i] = f[i]
    BY <2>3, Prefix
  <2>5. /\ Upto(e, c) \in Wire /\ Len(Upto(e, c)) = c /\ \A i \in 1 .. c : Upto(e, c)[i] = e[i]
    BY <2>3, Prefix
  <2>6. ASSUME NEW i \in 1 .. c PROVE Upto(f, c)[i] = Upto(e, c)[i]
    <3>1. i \in 1 .. j /\ i \in 1 .. n
      BY <1>4
    <3> QED
      BY <1>4, <2>2, <2>4, <2>5, <3>1
  <2>7. Upto(f, c) = Upto(e, c)
    BY <2>4, <2>5, <2>6, WireEqual
  <2> QED
    BY <2>2, <2>7 DEF Volume, Upto
<1>6. Volume(e, c) \in Nat /\ Volume(e, c) <= Volume(e, n)
  <2>1. c + d <= Len(e)
    BY <1>4
  <2>2. Volume(e, c) \in Nat /\ Volume(From(e, c), d) \in Nat /\ Volume(e, c + d) = Volume(e, c) + Volume(From(e, c), d)
    BY <2>1, VolumeSplit
  <2> QED
    BY <1>4, <2>2
<1>7. Volume(e, n) = Len(FlattenSeq(e))
  <2>1. Upto(e, n) \in Wire /\ Len(Upto(e, n)) = n /\ \A i \in 1 .. n : Upto(e, n)[i] = e[i]
    <3>1. n = Len(e)
      BY <1>4
    <3>2. n <= Len(e)
      BY <3>1
    <3> QED
      BY <3>2, Prefix
  <2>2. Upto(e, n) = e
    BY <1>4, <2>1, WireEqual
  <2> QED
    BY <2>2 DEF Volume, Upto
<1>8. Len(FlattenSeq(e)) = IF Full(o) THEN m + Len(EndPacket) ELSE m
  <2>1. Packets(o) \in Wire /\ FlattenSeq(Packets(o)) = o
    BY PacketsShape, FlattenPackets
  <2>2. FlattenSeq(Append(Packets(o), EndPacket)) = FlattenSeq(Packets(o)) \o EndPacket
    BY <1>1, <2>1, FlattenMore
  <2>3. Len(o \o EndPacket) = m + Len(EndPacket)
    BY <1>1, <1>2, ConcatProperties
  <2> QED
    BY <1>2, <1>4, <2>1, <2>2, <2>3 DEF Ended
<1>9. Full(o) <=> m % Packet = 0
  BY <1>2 DEF Full
<1>10. CASE Full(o) /\ m = size
  BY <1>1, <1>5, <1>6, <1>7, <1>8, <1>9, <1>10
<1>11. CASE ~(Full(o) /\ m = size)
  <2>1. Volume(e, c) <= size
    BY <1>1, <1>6, <1>7, <1>8, <1>11
  <2> QED
    BY <1>1, <1>5, <1>6, <2>1
<1> QED
  BY <1>10, <1>11

\* The steps of ptp_usb_getdata that find data.
LEMMA GetDataStep ==
  ASSUME GetData, PacketThere, IsData
  PROVE  /\ pc = "getdata" /\ UNCHANGED <<dev, kind, size, curread, faults>>
         /\ TakePacket /\ surplus' = Surplus /\ got' = Payload /\ split' = (split \/ SplitHeader)
         /\ pc' \in {"getresp", "stream", "extra", "sized"}
         /\ rlen = Length => pc' = "getresp"
         /\ rlen # Length => pc' = IF Whole THEN "stream"
                                   ELSE IF Length = Packet /\ (dev.noZeroReads \/ ~split') THEN "extra"
                                   ELSE "sized"
<1>1. /\ pc = "getdata" /\ UNCHANGED <<dev, kind, size, curread, faults>>
      /\ TakePacket /\ surplus' = Surplus /\ got' = Payload /\ split' = (split \/ SplitHeader)
  BY DEF GetData, call, Payload
<1>2. pc' = IF rlen = Length THEN "getresp"
            ELSE IF Whole THEN "stream"
            ELSE IF Length = Packet /\ (dev.noZeroReads \/ ~split') THEN "extra" ELSE "sized"
  BY DEF GetData
<1> QED
  BY <1>1, <1>2

\* A transfer shorter than a packet takes one.
LEMMA ApartShort ==
  ASSUME NEW m \in Nat, 0 < m, m < Packet, NEW e \in Seq(Int), NEW x \in Seq(Int), NEW r \in Wire,
         r = Ended(Object(m), e) \o << x >>
  PROVE  Len(r) = 2
<1>1. PICK o \in Seq(Int) : o = Object(m) /\ Len(o) = m /\ 0 < Len(o) /\ Len(o) <= Packet
  BY Objects, Sizing
<1>2. Packets(o) = << o >>
  BY <1>1, PacketsOne
<1>3. ~Full(o)
  <2>1. PICK p \in Nat \ {0} : p = Packet
    BY Positive
  <2>2. m \in 0 .. p - 1
    BY <2>1, Sizing
  <2>3. m % p = m
    BY <2>2, SmallDiv
  <2> QED
    BY <1>1, <2>1, <2>3 DEF Full
<1>4. r = << o, x >>
  <2>1. r = << o >> \o << x >>
    BY <1>1, <1>2, <1>3 DEF Ended
  <2> QED
    BY <2>1, Pair
<1>5. Len(<< o, x >>) = 2
  OBVIOUS
<1> QED
  BY <1>4, <1>5

\* Whatever has been sent, what ptp_usb_getdata leaves for later fits in its place.
LEMMA GetDataArrives ==
  ASSUME ReadInv, GetData, PacketThere, IsData
  PROVE  ReadTypes' /\ Arriving' /\ (Silent => Silent')
<1>1. /\ pc = "getdata" /\ UNCHANGED <<dev, kind, size, curread, faults>>
      /\ TakePacket /\ surplus' = Surplus /\ got' = Payload /\ split' = (split \/ SplitHeader)
      /\ pc' \in {"getresp", "stream", "extra", "sized"}
      /\ rlen = Length => pc' = "getresp"
      /\ rlen # Length => pc' = IF Whole THEN "stream"
                                ELSE IF Length = Packet /\ (dev.noZeroReads \/ ~split') THEN "extra"
                                ELSE "sized"
  BY GetDataStep
<1>2. /\ ReadTypes /\ surplus = << >> /\ kind = "get" /\ Tamed(pipe) /\ pipe # << >>
      /\ pipe' = From(pipe, 1)
  BY <1>1, FirstOfAnswer
<1>3. PICK m \in Nat, code \in {Response, Refusal}, p \in Seq(Int), r \in Wire, j \in Nat :
        /\ Form(m, code, p, r) /\ m <= size /\ j <= Len(r) /\ ThePacket = p /\ pipe[1] = p
        /\ pipe' = Upto(r, j)
  BY <1>1, FirstIs
<1>b. PICK b \in Nat : b = Len(r) /\ j <= b
  <2>1. Len(r) \in Nat
    BY DEF Wire
  <2> QED
    BY <1>3, <2>1
<1>4. p # << >> /\ Len(p) <= Packet /\ HdrLen <= Len(p) /\ (r # << >> => Uncoded(p))
  BY <1>2, <1>3, FormFacts
<1>5. PICK n \in Nat, l \in Nat, h \in Nat, e \in Nat :
        /\ n = Len(p) /\ l = Length /\ h = HdrLen /\ l = h + size /\ e = rlen /\ h <= e /\ e <= n
        /\ h > 0 /\ size \in Nat /\ Packet \in Nat /\ h < Packet
  <2>1. rlen \in Nat /\ HdrLen <= rlen /\ rlen <= Len(p) /\ Length \in Nat
    BY <1>2, <1>3, <1>4, Parses
  <2>2. HdrLen \in Nat /\ HdrLen > 0 /\ Packet \in Nat /\ HdrLen < Packet /\ size \in Nat /\ Length = HdrLen + size
    BY <1>2, Sizing DEF Length, ReadTypes
  <2>3. Len(p) \in Nat
    OBVIOUS
  <2> QED
    BY <2>1, <2>2, <2>3
<1>6. /\ rlen = IF n = Packet THEN Packet ELSE Least(l, n)
      /\ Payload \in Seq(Int) /\ Len(Payload) = e - h
      /\ Surplus \in Seq(Int) /\ (Mute(p) => Mute(Surplus)) /\ (Uncoded(p) => Uncoded(Surplus))
      /\ Surplus # << >> => n # Packet /\ n >= l + h
  <2>1. /\ rlen = IF Len(p) = Packet THEN Packet ELSE Least(Length, Len(p))
        /\ SubSeq(ThePacket, HdrLen + 1, rlen) = Slice(p, HdrLen, rlen)
        /\ Slice(p, HdrLen, rlen) \in Seq(Int) /\ Len(Slice(p, HdrLen, rlen)) = rlen - HdrLen
        /\ Surplus \in Seq(Int) /\ (Mute(p) => Mute(Surplus)) /\ (Uncoded(p) => Uncoded(Surplus))
        /\ ~(Len(p) # Packet /\ Len(p) >= Length + HdrLen) => Surplus = << >>
    BY <1>2, <1>3, <1>4, Parses
  <2>2. Payload = Slice(p, HdrLen, rlen)
    BY <2>1 DEF Payload
  <2> QED
    BY <1>5, <2>1, <2>2
<1>7. /\ pipe' \in Wire /\ Fits(pipe') /\ Tamed(pipe') /\ (Quiet(pipe) => Quiet(pipe'))
      /\ Len(pipe') = j
  <2>1. PICK k \in Nat : k = 1 /\ k <= Len(pipe) /\ 1 \in 1 .. Len(pipe) /\ pipe \in Wire /\ Fits(pipe)
    <3>1. pipe \in Wire /\ Fits(pipe) /\ Len(pipe) \in Nat
      BY <1>2 DEF ReadTypes, Wire
    <3>2. Len(pipe) # 0
      BY <1>2, <3>1, EmptySeq DEF Wire
    <3> QED
      BY <3>1, <3>2
  <2>2. /\ From(pipe, k) \in Wire /\ (Fits(pipe) => Fits(From(pipe, k)))
        /\ (Quiet(pipe) => Quiet(From(pipe, k))) /\ (Tamed(pipe) => Tamed(From(pipe, k)))
    BY <2>1, Suffix
  <2>3. Len(Upto(r, j)) = j
    BY <1>3, Prefix
  <2> QED
    BY <1>2, <1>3, <2>1, <2>2, <2>3
<1>8. ReadTypes'
  BY <1>1, <1>2, <1>6, <1>7 DEF ReadTypes
<1>9. Silent => Silent'
  <2>1. Silent => Mute(p)
    <3>1. Len(pipe) \in Nat /\ Len(pipe) # 0
      BY <1>2, EmptySeq DEF ReadTypes, Wire
    <3>2. 1 \in 1 .. Len(pipe)
      BY <3>1
    <3> QED
      BY <1>3, <3>2 DEF Silent, Quiet
  <2> QED
    BY <1>1, <1>6, <1>7, <2>1 DEF Silent
<1>10. surplus' # << >> => pc' = "getresp"
  <2> SUFFICES ASSUME surplus' # << >> PROVE rlen = Length
    BY <1>1
  <2>1. n # Packet /\ n >= l + h
    BY <1>1, <1>6
  <2> QED
    BY <1>5, <1>6, <2>1 DEF Least
<1>11. Coded(surplus') => pipe' = << >>
  <2> SUFFICES ASSUME Coded(surplus') PROVE pipe' = << >>
    OBVIOUS
  <2>1. ~Uncoded(Surplus)
    BY <1>1, <1>6, UncodedBytes
  <2>2. r = << >>
    BY <1>4, <1>6, <2>1
  <2>3. Len(<< >>) = 0
    OBVIOUS
  <2>4. Len(pipe') = 0
    BY <1>3, <1>7, <2>2, <2>3
  <2> QED
    BY <1>7, <2>4, EmptySeq DEF Wire
<1>12. ASSUME pc' \in {"extra", "sized"}
       PROVE  /\ Remaining' \in Nat /\ Remaining' > 0
              /\ b \in {0, 1} \/ (Apart(m, code, p, r) /\ Remaining' = size)
  <2>1. rlen # Length /\ ~Whole
    BY <1>1, <1>12
  <2>2. n # Packet
    BY <1>3, <1>5, <2>1 DEF Whole
  <2>3. e < l /\ Remaining' = l - e
    <3>1. e <= l /\ e # l
      BY <1>5, <1>6, <2>1, <2>2 DEF Least
    <3>2. Remaining' = size - (e - h)
      BY <1>1, <1>6 DEF Remaining
    <3> QED
      BY <1>5, <3>1, <3>2
  <2>4. Remaining' \in Nat /\ Remaining' > 0
    BY <1>5, <2>3
  <2>5. CASE Alone(m, code, p, r) \/ Joined(m, code, p, r)
    <3>1. b \in {0, 1}
      <4>1. r = << Hdr(code) >> \/ r = << >>
        BY <2>5 DEF Alone, Joined
      <4>2. Len(<< Hdr(code) >>) = 1 /\ Len(<< >>) = 0
        OBVIOUS
      <4>3. Len(r) = 1 \/ Len(r) = 0
        BY <4>1, <4>2
      <4> QED
        BY <1>b, <4>3
    <3> QED
      BY <2>4, <3>1
  <2>6. CASE Apart(m, code, p, r)
    <3>1. n = h
      BY <1>5, <2>6, Headers DEF Apart, Header
    <3>2. Remaining' = size
      BY <1>5, <2>3, <3>1
    <3> QED
      BY <2>4, <2>6, <3>2
  <2>7. ~Streamed(m, code, p, r)
    BY <1>5, <2>2 DEF Streamed
  <2> QED
    BY <1>3, <2>5, <2>6, <2>7 DEF Form
<1>13. ASSUME pc' = "extra" PROVE Len(pipe') <= 2
  <2>1. CASE b \in {0, 1}
    <3> QED
      BY <1>7, <1>b, <2>1
  <2>2. CASE Apart(m, code, p, r)
    <3>1. Length = Packet
      BY <1>1, <1>13
    <3>2. 0 < m /\ m < Packet
      <4>1. m > 0
        BY <2>2 DEF Apart
      <4>2. m <= size /\ l = Packet /\ l = h + size /\ h > 0
        BY <1>3, <1>5, <3>1
      <4> QED
        BY <1>5, <4>1, <4>2
    <3>3. EndPacket \in Seq(Int) /\ Hdr(code) \in Seq(Int) /\ r = Ended(Object(m), EndPacket) \o << Hdr(code) >>
      BY <1>2, <2>2, DeviceFacts, Headers DEF Apart, Response, Refusal
    <3>4. Len(r) = 2
      BY <3>2, <3>3, ApartShort
    <3> QED
      BY <1>7, <1>b, <3>4
  <2> QED
    BY <1>12, <1>13, <2>1, <2>2
<1>14. ASSUME pc' = "sized", NEW c \in 0 .. Len(pipe'), c < Len(pipe') PROVE Volume(pipe', c) <= Room'
  <2>1. Room' \in Nat /\ Room' = IF dev.noZeroReads /\ Remaining' % Packet = 0 THEN Remaining' + 1 ELSE Remaining'
    BY <1>1, <1>12, <1>14 DEF Room
  <2>2. c \in Nat /\ c < j
    BY <1>7, <1>14
  <2>3. CASE b \in {0, 1}
    <3>2. c = 0
      BY <1>b, <2>2, <2>3
    <3>3. Volume(pipe', 0) = 0
      BY <1>7, VolumeOne
    <3> QED
      BY <2>1, <3>2, <3>3
  <2>4. CASE Apart(m, code, p, r) /\ Remaining' = size
    <3>1. Hdr(code) \in Seq(Int) /\ r = Ended(Object(m), EndPacket) \o << Hdr(code) >>
      BY <2>4, Headers DEF Apart, Response, Refusal
    <3>2. Volume(Upto(r, j), c) <= IF dev.noZeroReads /\ size % Packet = 0 THEN size + 1 ELSE size
      BY <1>2, <1>3, <2>2, <3>1, AheadFits
    <3> QED
      BY <1>3, <2>1, <2>4, <3>2
  <2> QED
    BY <1>12, <1>14, <2>3, <2>4
<1>15. Arriving'
  <2>1. kind' = "get" /\ pc' \notin {"idle", "answer", "fill", "put", "wrote", "getdata"}
    BY <1>1, <1>2
  <2> QED
    BY <1>7, <1>10, <1>11, <1>12, <1>13, <1>14, <2>1 DEF Arriving
<1> QED
  BY <1>8, <1>9, <1>15

\* An answer that nothing has disturbed begins with data.
LEMMA WholeIs ==
  ASSUME ReadInv, pc = "getdata", Undisturbed
  PROVE  /\ PacketThere /\ IsData
         /\ \E p \in Seq(Int), r \in Wire :
               /\ Form(size, Response, p, r) /\ ThePacket = p /\ (TakePacket => pipe' = r)
<1>1. /\ ReadTypes /\ (PacketThere <=> pipe # << >>)
      /\ pipe # << >> => /\ ThePacket = pipe[1]
                         /\ TakePacket => pipe' = From(pipe, 1)
  BY FirstOfAnswer
<1>2. pipe = Sent(Object(size), Response) /\ size \in Nat /\ Response \in {Response, Refusal}
  BY <1>1 DEF Undisturbed, ReadTypes
<1>3. PICK p \in Seq(Int), r \in Wire : pipe = Led(p, r) /\ Form(size, Response, p, r)
  <2>1. \E p \in Seq(Int), r \in Wire : Sent(Object(size), Response) = << p >> \o r /\ Form(size, Response, p, r)
    BY <1>1, <1>2, SentForms
  <2> QED
    BY <1>2, <2>1 DEF Led
<1>4. pipe # << >> /\ pipe[1] = p /\ From(pipe, 1) = r
  BY <1>3, Leading
<1>5. p # << >> /\ p[1] = Header
  BY <1>1, <1>2, <1>3, FormFacts
<1> QED
  BY <1>1, <1>3, <1>4, <1>5 DEF IsData

\* Header and data in one packet: the response is next, or what the packet has behind the data.
LEMMA UnderstandsShort ==
  ASSUME ReadTypes, NEW p \in Seq(Int), NEW r \in Wire, ThePacket = p, Form(size, Response, p, r),
         Alone(size, Response, p, r) \/ Joined(size, Response, p, r)
  PROVE  /\ rlen = Length /\ Payload = Object(size) /\ ~SplitHeader
         /\ \/ Surplus = Hdr(Response) /\ r = << >>
            \/ ~Coded(Surplus) /\ r # << >> /\ r[Len(r)] = Hdr(Response)
<1>1. size \in Nat /\ Hdr(Response) \in Seq(Int) /\ Len(Hdr(Response)) = HdrLen /\ HdrLen \in Nat /\ Packet \in Nat
  BY Headers, Sizing DEF ReadTypes, Response
<1>2. /\ Len(p) <= Packet /\ HdrLen <= Len(p) /\ (r # << >> => r[Len(r)] = Hdr(Response) /\ Uncoded(p))
  <2>1. Response \in {Response, Refusal}
    OBVIOUS
  <2> QED
    BY <1>1, <2>1, FormFacts
<1>3. PICK x \in Seq(Int) : /\ p = Headed(Object(size)) \o x /\ Len(p) < Packet
                            /\ (x = Hdr(Response) /\ r = << >>) \/ r # << >>
  <2>1. CASE Alone(size, Response, p, r)
    <3>1. PICK x \in Seq(Int) : p = Headed(Object(size)) \o x
      <4>1. << >> \in Seq(Int) /\ << Extra >> \in Seq(Int)
        BY DEF Extra
      <4> QED
        BY <2>1, <4>1 DEF Alone
    <3>2. r # << >>
      BY <2>1 DEF Alone
    <3> QED
      BY <2>1, <3>1, <3>2 DEF Alone
  <2>2. CASE Joined(size, Response, p, r)
    BY <1>1, <2>2 DEF Joined
  <2> QED
    BY <2>1, <2>2
<1>4. rlen = Length /\ Payload = Object(size) /\ (Len(x) >= HdrLen => Surplus = x)
  BY <1>3, DataParses
<1>5. Uncoded(p) => ~Coded(Surplus)
  <2>1. Surplus \in Seq(Int) /\ (Uncoded(p) => Uncoded(Surplus))
    BY <1>2, Parses
  <2> QED
    BY <2>1, UncodedBytes
<1>6. ~SplitHeader
  <2>1. ~(rlen = HdrLen /\ Length > HdrLen)
    <3>1. Length \in Nat
      BY <1>1 DEF Length
    <3> QED
      BY <1>1, <1>4, <3>1
  <2> QED
    BY <2>1 DEF SplitHeader
<1>7. CASE x = Hdr(Response) /\ r = << >>
  <2>1. Len(x) >= HdrLen
    BY <1>1, <1>7
  <2> QED
    BY <1>4, <1>6, <1>7, <2>1
<1>8. CASE r # << >>
  BY <1>2, <1>4, <1>5, <1>6, <1>8
<1> QED
  BY <1>3, <1>7, <1>8

\* A first packet that is full: the data, when it is no longer, or some of it.
LEMMA UnderstandsFull ==
  ASSUME ReadTypes, NEW p \in Seq(Int), NEW r \in Wire, ThePacket = p, Form(size, Response, p, r),
         Streamed(size, Response, p, r)
  PROVE  /\ Whole /\ Surplus = << >> /\ ~SplitHeader
         /\ r # << >> /\ r[Len(r)] = Hdr(Response)
         /\ rlen = Length => Payload = Object(size)
         /\ \E b \in Seq(Int) : /\ Payload \o b = Object(size) /\ r = Ended(b, EndPacket) \o << Hdr(Response) >>
                                /\ rlen # Length /\ dev.noZeroReads /\ ~Misread => ~Full(b)
<1>1. size \in Nat /\ HdrLen \in Nat /\ Packet \in Nat /\ Length \in Nat /\ Length = HdrLen + size
      /\ Packet > 0 /\ Hdr(Response) \in Seq(Int)
  BY Headers, Sizing DEF ReadTypes, Length, Response
<1>2. /\ ~dev.split /\ Len(p) = Packet
      /\ \E a \in Seq(Int), b \in Seq(Int) :
            /\ Object(size) = a \o b /\ p = Headed(a) /\ r = Ended(b, EndPacket) \o << Hdr(Response) >>
            /\ Full(b) <=> (HdrLen + size) % Packet = 0
  BY DEF Streamed
<1>3. PICK a \in Seq(Int), b \in Seq(Int) :
            /\ Object(size) = a \o b /\ p = Headed(a) /\ r = Ended(b, EndPacket) \o << Hdr(Response) >>
            /\ Full(b) <=> (HdrLen + size) % Packet = 0
  BY <1>2
<1>4. rlen = Packet /\ Payload = a /\ Surplus = << >> /\ HdrLen + Len(a) = Packet
  BY <1>2, <1>3, FullParses
<1>5. Whole /\ ~SplitHeader
  BY <1>2 DEF Whole, SplitHeader
<1>6. r # << >> /\ r[Len(r)] = Hdr(Response)
  <2>1. Response \in {Response, Refusal}
    OBVIOUS
  <2>2. r # << >> => r[Len(r)] = Hdr(Response)
    BY <1>1, <2>1, FormFacts
  <2>3. EndPacket \in Seq(Int)
    BY DeviceFacts
  <2>4. PICK u \in Wire, w \in Wire : u = Ended(b, EndPacket) /\ w = << Hdr(Response) >> /\ Len(w) = 1
    <3>1. << Hdr(Response) >> \in Wire /\ Len(<< Hdr(Response) >>) = 1
      BY <1>1 DEF Wire
    <3>2. Ended(b, EndPacket) \in Wire
      BY <2>3, <3>1, EndedIs
    <3> QED
      BY <3>1, <3>2
  <2>5. r = u \o w
    BY <1>3, <2>4
  <2>6. Len(r) = Len(u) + 1 /\ Len(u) \in Nat
    <3>1. Len(u \o w) = Len(u) + Len(w)
      BY WireApart
    <3>2. Len(u) \in Nat
      BY DEF Wire
    <3> QED
      BY <2>4, <2>5, <3>1, <3>2
  <2>7. r # << >>
    <3>1. Len(<< >>) = 0
      OBVIOUS
    <3>2. Len(r) # 0
      BY <2>6
    <3> QED
      BY <3>1, <3>2
  <2> QED
    BY <2>2, <2>7
<1>7. PICK k \in Nat, l \in Nat : k = Len(a) /\ l = Len(b) /\ size = k + l
  <2>1. Len(Object(size)) = size
    BY <1>1, Objects
  <2>2. Len(a \o b) = Len(a) + Len(b) /\ Len(a) \in Nat /\ Len(b) \in Nat
    BY ConcatProperties
  <2> QED
    BY <1>3, <2>1, <2>2
<1>8. ASSUME rlen = Length PROVE Payload = Object(size)
  <2>1. l = 0
    BY <1>1, <1>4, <1>7, <1>8
  <2>2. b = << >>
    BY <1>7, <2>1, EmptySeq
  <2>3. a \o << >> = a
    BY ConcatEmptySeq
  <2> QED
    BY <1>3, <1>4, <2>2, <2>3
<1>9. ASSUME rlen # Length, dev.noZeroReads, ~Misread PROVE ~Full(b)
  <2>1. Length > Packet
    BY <1>1, <1>4, <1>7, <1>9
  <2>2. Length % Packet # 0
    BY <1>2, <1>9, <2>1 DEF Misread
  <2> QED
    BY <1>1, <1>3, <2>2
<1> QED
  BY <1>3, <1>4, <1>5, <1>6, <1>8, <1>9

\* What ptp_usb_getdata makes of an answer that nothing has disturbed.
LEMMA GetDataUnderstands ==
  ASSUME ReadInv, GetData, PacketThere, IsData, Undisturbed
  PROVE  Undisturbed' /\ (SplitHeader => dev.split)
<1>1. /\ pc = "getdata" /\ UNCHANGED <<dev, kind, size, curread, faults>>
      /\ TakePacket /\ surplus' = Surplus /\ got' = Payload /\ split' = (split \/ SplitHeader)
      /\ pc' \in {"getresp", "stream", "extra", "sized"}
      /\ rlen = Length => pc' = "getresp"
      /\ rlen # Length => pc' = IF Whole THEN "stream"
                                ELSE IF Length = Packet /\ (dev.noZeroReads \/ ~split') THEN "extra"
                                ELSE "sized"
  BY GetDataStep
<1>2. ReadTypes /\ curread = 0 /\ Misread' = Misread /\ EndPacket' = EndPacket
  BY <1>1 DEF ReadInv, Arriving, Misread, Length, EndPacket
<1>3. PICK p \in Seq(Int), r \in Wire : Form(size, Response, p, r) /\ ThePacket = p /\ pipe' = r
  BY <1>1, WholeIs
<1>4. CASE Alone(size, Response, p, r) \/ Joined(size, Response, p, r)
  <2>1. /\ rlen = Length /\ Payload = Object(size) /\ ~SplitHeader
        /\ \/ Surplus = Hdr(Response) /\ r = << >>
           \/ ~Coded(Surplus) /\ r # << >> /\ r[Len(r)] = Hdr(Response)
    BY <1>2, <1>3, <1>4, UnderstandsShort
  <2>2. Ready'
    BY <1>1, <1>3, <2>1 DEF Ready
  <2> QED
    BY <1>1, <2>1, <2>2 DEF Undisturbed
<1>5. CASE Streamed(size, Response, p, r)
  <2>1. /\ Whole /\ Surplus = << >> /\ ~SplitHeader
        /\ r # << >> /\ r[Len(r)] = Hdr(Response)
        /\ rlen = Length => Payload = Object(size)
        /\ \E b \in Seq(Int) : /\ Payload \o b = Object(size) /\ r = Ended(b, EndPacket) \o << Hdr(Response) >>
                               /\ rlen # Length /\ dev.noZeroReads /\ ~Misread => ~Full(b)
    BY <1>2, <1>3, <1>5, UnderstandsFull
  <2>2. Ready'
    BY <1>1, <1>3, <2>1 DEF Ready, Coded
  <2>3. CASE rlen = Length
    BY <1>1, <2>1, <2>2, <2>3 DEF Undisturbed
  <2>4. CASE rlen # Length
    <3>1. pc' = "stream"
      BY <1>1, <2>1, <2>4
    <3>2. PICK b \in Seq(Int) : /\ Payload \o b = Object(size) /\ r = Ended(b, EndPacket) \o << Hdr(Response) >>
                                /\ rlen # Length /\ dev.noZeroReads /\ ~Misread => ~Full(b)
      BY <2>1
    <3>3. ~Misread' => \E t \in Seq(Int) : /\ got' \o t = Object(size') /\ pipe' = Ended(t, EndPacket') \o << Hdr(Response) >>
                                           /\ dev'.noZeroReads => ~Full(t)
      BY <1>1, <1>2, <1>3, <2>4, <3>2
    <3> QED
      BY <2>1, <3>1, <3>3 DEF Undisturbed, Coming
  <2> QED
    BY <2>3, <2>4
<1>6. CASE Apart(size, Response, p, r)
  <2>1. /\ dev.split /\ size > 0 /\ p = Hdr(Header)
        /\ r = Ended(Object(size), EndPacket) \o << Hdr(Response) >>
    BY <1>6 DEF Apart
  <2>2. /\ rlen = HdrLen /\ Payload = << >> /\ Surplus = << >> /\ Length > HdrLen
        /\ HdrLen < Packet /\ Len(ThePacket) # Packet
    BY <1>2, <1>3, <2>1, HeaderParses
  <2>3. ~Whole /\ SplitHeader /\ split' = TRUE /\ rlen # Length
    <3>1. HdrLen \in Nat /\ Length \in Nat /\ Packet \in Nat
      BY <1>2, Sizing DEF Length, ReadTypes
    <3>2. ~Whole /\ rlen # Length
      BY <2>2, <3>1 DEF Whole
    <3>3. SplitHeader
      BY <2>2, <3>2 DEF SplitHeader
    <3> QED
      BY <1>1, <3>2, <3>3
  <2>4. pc' = IF Length = Packet /\ dev.noZeroReads THEN "extra" ELSE "sized"
    BY <1>1, <2>3
  <2>5. CASE Length = Packet /\ dev.noZeroReads
    <3>1. pc' = "extra" /\ Misread
      BY <2>1, <2>4, <2>5 DEF Misread
    <3> QED
      BY <1>2, <2>1, <3>1 DEF Undisturbed
  <2>6. CASE ~(Length = Packet /\ dev.noZeroReads)
    <3>1. pc' = "sized"
      BY <2>4, <2>6
    <3>2. Len(got') = 0 /\ curread' = Len(got')
      <4>1. Len(<< >>) = 0
        OBVIOUS
      <4> QED
        BY <1>1, <1>2, <2>2, <4>1
    <3>3. Full(got')
      <4>1. PICK z \in Nat, n \in Nat \ {0} : z = 0 /\ n = Packet /\ z \in 0 .. n - 1
        BY Positive, Sizing
      <4>2. z % n = z
        BY <4>1, SmallDiv
      <4> QED
        BY <3>2, <4>1, <4>2 DEF Full
    <3>4. PICK o \in Seq(Int) : o = Object(size) /\ << >> \o o = o
      BY <1>2, Objects, ConcatEmptySeq DEF ReadTypes
    <3>5. got' \o o = Object(size') /\ pipe' = Ended(o, EndPacket') \o << Hdr(Response) >>
      BY <1>1, <1>2, <1>3, <2>1, <2>2, <3>4
    <3>6. \E t \in Seq(Int) : got' \o t = Object(size') /\ pipe' = Ended(t, EndPacket') \o << Hdr(Response) >>
      BY <3>5
    <3>7. \E t \in Seq(Int) : Coming(t)'
      BY <3>6 DEF Coming
    <3>8. curread' = Len(got') /\ pc' \notin {"getdata", "extra", "stream", "zero", "getresp"}
      BY <3>1, <3>2
    <3> QED
      BY <2>1, <3>1, <3>3, <3>7, <3>8 DEF Undisturbed
  <2> QED
    BY <2>1, <2>5, <2>6
<1> QED
  BY <1>3, <1>4, <1>5, <1>6 DEF Form

\* The first packet of an answer, or none.
LEMMA GetDataKeeps ==
  ASSUME ReadInv, GetData
  PROVE  ReadInv'
<1>1. /\ pc = "getdata" /\ kind = "get" /\ UNCHANGED <<dev, kind, size, faults>> /\ Misread' = Misread
      /\ Undisturbed \/ (Silent /\ faults > 0)
      /\ faults = 0 /\ split => dev.split
  BY DEF ReadInv, Arriving, GetData, call, Misread, Length
<1>2. /\ ReadTypes /\ surplus = << >> /\ Answered(pipe)
      /\ PacketThere <=> pipe # << >>
      /\ pipe # << >> => /\ ThePacket = pipe[1]
                         /\ TakePacket => pipe' = From(pipe, 1)
  BY <1>1, FirstOfAnswer
<1>3. CASE ~PacketThere
  <2>1. pipe' = << >> /\ pc' = "idle" /\ rc' # "OK" /\ got' = got /\ surplus' = << >> /\ split' = split /\ << >> \in Wire
    BY <1>2, <1>3 DEF GetData, Lost, Return, Wire
  <2>2. faults' > 0
    BY <1>1, <1>3, WholeIs
  <2>3. ReadTypes'
    BY <1>1, <1>2, <2>1 DEF ReadTypes, Fits
  <2> QED
    BY <1>1, <2>1, <2>2, <2>3, FailsFor
<1>4. CASE PacketThere /\ ~IsData
  <2>1. TakePacket /\ pc' = "idle" /\ rc' # "OK" /\ got' = got /\ surplus' = << >> /\ split' = split /\ << >> \in Wire
    BY <1>4 DEF GetData, Return, Wire
  <2>2. faults' > 0
    BY <1>1, <1>4, WholeIs
  <2>3. pipe = << Hdr(Refusal) >>
    <3> SUFFICES ASSUME pipe # << Hdr(Refusal) >> PROVE FALSE
      OBVIOUS
    <3>1. PICK m \in Nat, code \in {Response, Refusal}, p \in Seq(Int), r \in Wire, j \in Nat :
             Form(m, code, p, r) /\ j <= Len(r) /\ pipe = Led(p, Upto(r, j))
      BY <1>2, <1>4, Answers
    <3>2. Upto(r, j) \in Wire
      BY <3>1, Prefix
    <3>3. pipe[1] = p
      BY <3>1, <3>2, Leading
    <3>4. p # << >> /\ p[1] = Header
      BY <1>2, <3>1, FormFacts
    <3> QED
      BY <1>2, <1>4, <3>3, <3>4 DEF IsData
  <2>4. pipe' = << >>
    <3>1. PICK h \in Seq(Int), w \in Wire : h = Hdr(Refusal) /\ w = << >>
      BY <2>1, Headers DEF Refusal
    <3>2. pipe = Led(h, w)
      <4>1. << h >> \in Wire
        BY DEF Wire
      <4>2. << h >> \o << >> = << h >>
        BY <4>1, ConcatEmptySeq DEF Wire
      <4> QED
        BY <2>3, <3>1, <4>2 DEF Led
    <3>3. From(Led(h, w), 1) = w
      BY Leading
    <3> QED
      BY <1>2, <1>4, <2>1, <3>1, <3>2, <3>3
  <2>5. ReadTypes'
    BY <1>1, <1>2, <2>1, <2>4 DEF ReadTypes, Fits
  <2> QED
    BY <1>1, <2>1, <2>2, <2>4, <2>5, FailsFor
<1>5. CASE PacketThere /\ IsData
  <2>1. ReadTypes' /\ Arriving' /\ (Silent => Silent')
    BY <1>5, GetDataArrives
  <2>2. pc' \in {"getresp", "stream", "extra", "sized"} /\ split' = (split \/ SplitHeader)
    BY <1>5, GetDataStep
  <2>3. CASE Undisturbed
    <3>1. Undisturbed' /\ (SplitHeader => dev.split)
      BY <1>5, <2>3, GetDataUnderstands
    <3> QED
      BY <1>1, <2>1, <2>2, <3>1, GoesOn
  <2>4. CASE Silent /\ faults > 0
    <3>1. Silent' /\ faults' > 0 /\ faults' # 0
      BY <1>1, <1>2, <2>1, <2>4 DEF ReadTypes
    <3> QED
      BY <1>1, <2>1, <2>2, <3>1, GoesOn
  <2> QED
    BY <1>1, <2>3, <2>4
<1> QED
  BY <1>3, <1>4, <1>5

-----------------------------------------------------------------------------
\* The read side as a whole.  At first nothing is on its way.
LEMMA ReadInitially ==
  ASSUME Init
  PROVE  ReadInv
<1>1. /\ dev \in Devices /\ pc = "idle" /\ kind = "get" /\ size = 0 /\ rc = "none" /\ faults = 0 /\ split = FALSE
      /\ pipe = << >> /\ surplus = << >> /\ got = << >> /\ << >> \in Wire
  BY DEF Init, Wire
<1>2. ReadTypes
  <2>1. Fits(pipe)
    BY <1>1 DEF Fits
  <2>2. surplus \in Seq(Int) /\ got \in Seq(Int)
    BY <1>1
  <2> QED
    BY <1>1, <2>1, <2>2 DEF ReadTypes
<1>3. Tamed(pipe) /\ ~Coded(surplus)
  BY <1>1 DEF Tamed, Coded
<1>4. Arriving
  BY <1>1, <1>3 DEF Arriving
<1> QED
  BY <1>1, <1>2, <1>4 DEF ReadInv, DataExact, NothingLeft, Done

\* Every step, with any of the libraries, keeps the invariant.
LEMMA ReadStep ==
  ASSUME ReadInv, SendInv, [AnyPort]_vars
  PROVE  ReadInv'
<1>1. CASE \E n \in Sizes : Get(n)
  BY <1>1, BeginsRead
<1>2. CASE \E n \in Sizes : Send(n)
  BY <1>2, BeginsWrite
<1>3. CASE Answer
  BY <1>3, AnswerKeeps
<1>4. CASE GetData
  BY <1>4, GetDataKeeps
<1>5. CASE Stream
  BY <1>5, StreamKeeps
<1>6. CASE ReadExtra
  BY <1>6, ReadExtraKeeps
<1>7. CASE ReadSized
  BY <1>7, ReadSizedKeeps
<1>8. CASE ReadZero
  BY <1>8, ReadZeroKeeps
<1>9. CASE GetResp
  BY <1>9, GetRespKeeps
<1>10. CASE Fill \/ Put \/ PutDone \/ Wrote
  BY <1>10, WritingKeeps
<1>11. CASE UNCHANGED vars
  <2>1. UNCHANGED <<dev, kind, size, pc, rc, pipe, surplus, got, curread, split, faults>>
    BY <1>11 DEF vars, call, reading
  <2>2. Misread' = Misread /\ EndPacket' = EndPacket
    BY <2>1 DEF Misread, Length, EndPacket
  <2>3. ReadTypes => ReadTypes'
    BY <2>1 DEF ReadTypes
  <2>4. Arriving => Arriving'
    <3>1. Answered(pipe) => Answered(pipe)'
      <4>1. dev' = dev /\ pipe' = pipe /\ size' = size
        BY <2>1
      <4> QED
        BY <4>1, SendsSame DEF Answered
    <3>2. Remaining' = Remaining /\ Room' = Room
      BY <2>1 DEF Remaining, Room
    <3> QED
      BY <2>1, <3>1, <3>2 DEF Arriving
  <2>5. Undisturbed => Undisturbed'
    <3>1. Sent(Object(size), Response)' = Sent(Object(size), Response)
      BY <2>1 DEF Sent, EndPacket
    <3> QED
      BY <2>1, <2>2, <3>1 DEF Undisturbed, Coming, Ready
  <2>6. (Silent => Silent') /\ (Ready => Ready')
    BY <2>1 DEF Silent, Ready
  <2>7. (DataExact => DataExact') /\ (NothingLeft => NothingLeft')
    BY <2>1, <2>2 DEF DataExact, NothingLeft, Done
  <2> QED
    BY <2>1, <2>3, <2>4, <2>5, <2>6, <2>7 DEF ReadInv
<1>12. Next \/ UNCHANGED vars
  BY DEF AnyPort, Ports, Usb1, Usb0, OpenUsb, Next, Host, getdata_usb0, read_usb0, getresp_usb0,
         senddata_usb0, write_usb0, getdata_openusb, read_openusb, getresp_openusb,
         senddata_openusb, write_openusb
<1> QED
  BY <1>1, <1>2, <1>3, <1>4, <1>5, <1>6, <1>7, <1>8, <1>9, <1>10, <1>11, <1>12 DEF Next, Host

\* The host needs what is said of the writes for what is said of the reads.
LEMMA ReadsAndSends == PortsSpec => [](ReadInv /\ SendInv)
<1>1. Init => ReadInv /\ SendInv
  BY ReadInitially, SendInitially
<1>2. ReadInv /\ SendInv /\ [AnyPort]_vars => ReadInv' /\ SendInv'
  BY ReadStep, SendStep
<1> QED
  BY <1>1, <1>2, PTL DEF PortsSpec

\* A call for data that succeeds has delivered the object, byte for byte, whatever its size
\* and the device, and also when the device refused, sent a shorter object or stopped half
\* way (ptp_usb_getdata, ptp_read_func, ptp_usb_getresp).
THEOREM ReadsExactly == PortsSpec => []DataExact
<1>1. ReadInv => DataExact
  BY DEF ReadInv
<1> QED
  BY <1>1, ReadsAndSends, PTL

\* A device that behaves is understood: its call succeeds and leaves nothing on the pipe, or
\* kept aside, for the next one to stumble over, and header and data are sent apart only to
\* devices that do so themselves.
THEOREM NothingIsLeft == PortsSpec => []NothingLeft
<1>1. ReadInv => NothingLeft
  BY DEF ReadInv
<1> QED
  BY <1>1, ReadsAndSends, PTL
=============================================================================
