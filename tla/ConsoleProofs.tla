---------------------------- MODULE ConsoleProofs ---------------------------
(***************************************************************************)
(* Proofs about Console for any readers, any size of the ring and of its   *)
(* indices: no reader sleeps beside a line, and the ring is an edited line *)
(* behind completed ones.                                                  *)
(***************************************************************************)
EXTENDS Console, SequenceTheorems, WellFoundedInduction, TLAPS

\* INPUT_BUF is 128 and the indices are unsigned ints; a read of no bytes
\* returns at once and is no step of Console.
ConsoleConstants ==
    /\ INPUT_BUF \in Nat \ {0} /\ Wrap \in Nat /\ Wrap > INPUT_BUF /\ Wrap % INPUT_BUF = 0
    /\ Sizes \subseteq Nat \ {0}

-----------------------------------------------------------------------------
(***************************************************************************)
(* The inductive invariant.                                                *)
(***************************************************************************)

\* The characters from index i up to index j.
Distance(i, j) == (j - i) % Wrap

\* The three indices are in the order r, w, e, at most a ring apart.
IndicesOK == Distance(r, w) + Distance(w, e) <= INPUT_BUF

\* What ends a line is never in the line being edited.
LineOpen == \A k \in 1 .. Distance(w, e) : buf[(w + k - 1) % INPUT_BUF] = "a"

\* A read under way still wants something.
CallsOK == \A p \in Readers : at[p] # "user" => n[p] >= 1

IInv == TypeOK /\ IndicesOK /\ LineOpen /\ CallsOK /\ ReadersAwake

-----------------------------------------------------------------------------
(***************************************************************************)
(* Indices modulo Wrap.                                                    *)
(***************************************************************************)

LEMMA ModRange == ASSUME NEW a \in Int, NEW b \in Nat \ {0} PROVE a % b \in 0 .. b - 1
  OBVIOUS

LEMMA ModUnique ==
    ASSUME NEW a \in Int, NEW b \in Nat \ {0}, NEW q \in Int, NEW z \in 0 .. b - 1, a = b * q + z
    PROVE  a % b = z
  OBVIOUS

LEMMA DivMod ==
    ASSUME NEW a \in Int, NEW b \in Nat \ {0}
    PROVE  a \div b \in Int /\ a = b * (a \div b) + (a % b)
  <1>1. a \div b \in Int /\ a % b \in Int
    OBVIOUS
  <1> QED BY <1>1, Z3

\* A number at most one turn away from the indices.
LEMMA Turn ==
    ASSUME NEW b \in Nat \ {0}, NEW x \in (0 - b) .. (b + b - 1)
    PROVE  x % b = IF x < 0 THEN x + b ELSE IF x < b THEN x ELSE x - b
  <1>1. CASE x < 0
    <2>1. x = b * (0 - 1) + (x + b) /\ x + b \in 0 .. b - 1 /\ 0 - 1 \in Int /\ x \in Int
      BY <1>1
    <2> QED BY <1>1, <2>1, ModUnique
  <1>2. CASE x >= 0 /\ x < b
    <2>1. x = b * 0 + x /\ x \in 0 .. b - 1
      BY <1>2
    <2> QED BY <1>2, <2>1, ModUnique
  <1>3. CASE x >= b
    <2>1. x = b * 1 + (x - b) /\ x - b \in 0 .. b - 1 /\ x \in Int
      BY <1>3
    <2> QED BY <1>3, <2>1, ModUnique
  <1> QED BY <1>1, <1>2, <1>3

LEMMA DistanceIs ==
    ASSUME ConsoleConstants, NEW i \in 0 .. Wrap - 1, NEW j \in 0 .. Wrap - 1
    PROVE  Distance(i, j) = IF i <= j THEN j - i ELSE j - i + Wrap
  <1>1. Wrap \in Nat \ {0} /\ j - i \in (0 - Wrap) .. (Wrap + Wrap - 1)
    BY DEF ConsoleConstants
  <1>2. (j - i) % Wrap = IF j - i < 0 THEN (j - i) + Wrap ELSE IF j - i < Wrap THEN j - i ELSE (j - i) - Wrap
    BY <1>1, Turn
  <1> DEFINE d == (j - i) % Wrap
  <1>3. d = IF j - i < 0 THEN (j - i) + Wrap ELSE IF j - i < Wrap THEN j - i ELSE (j - i) - Wrap
    BY <1>2
  <1> HIDE DEF d
  <1>4. d = IF i <= j THEN j - i ELSE j - i + Wrap
    BY <1>1, <1>3
  <1> QED BY <1>4 DEF Distance, d

LEMMA AdvanceIs ==
    ASSUME ConsoleConstants, NEW i \in 0 .. Wrap - 1, NEW k \in 0 .. Wrap - 1
    PROVE  (i + k) % Wrap = IF i + k < Wrap THEN i + k ELSE i + k - Wrap
  <1>1. Wrap \in Nat \ {0} /\ i + k \in (0 - Wrap) .. (Wrap + Wrap - 1) /\ ~(i + k < 0)
    BY DEF ConsoleConstants
  <1> DEFINE x == i + k
             y == x % Wrap
  <1>2. y = IF x < 0 THEN x + Wrap ELSE IF x < Wrap THEN x ELSE x - Wrap
    BY <1>1, Turn
  <1> HIDE DEF y
  <1>3. y = IF i + k < Wrap THEN i + k ELSE i + k - Wrap
    BY <1>1, <1>2
  <1> QED BY <1>3 DEF y

\* Moving the far index, and moving the near one.
LEMMA Advance ==
    ASSUME ConsoleConstants, NEW i \in 0 .. Wrap - 1, NEW k \in 0 .. Wrap - 1
    PROVE  (i + k) % Wrap \in 0 .. Wrap - 1 /\ Distance(i, (i + k) % Wrap) = k
  <1> DEFINE j == (i + k) % Wrap
  <1>1. Wrap \in Nat \ {0} /\ j = IF i + k < Wrap THEN i + k ELSE i + k - Wrap
    BY AdvanceIs DEF ConsoleConstants
  <1> HIDE DEF j
  <1>2. j \in 0 .. Wrap - 1
    BY <1>1
  <1>3. Distance(i, j) = IF i <= j THEN j - i ELSE j - i + Wrap
    BY <1>2, DistanceIs
  <1> DEFINE d == Distance(i, j)
  <1>4. d = IF i <= j THEN j - i ELSE j - i + Wrap
    BY <1>3
  <1> HIDE DEF d
  <1>5. d = k
    BY <1>1, <1>2, <1>4
  <1> QED BY <1>2, <1>5 DEF j, d

LEMMA Distances ==
    ASSUME ConsoleConstants, NEW i \in 0 .. Wrap - 1, NEW j \in 0 .. Wrap - 1
    PROVE  /\ Distance(i, j) \in 0 .. Wrap - 1 /\ (Distance(i, j) = 0 <=> i = j)
           /\ (i + Distance(i, j)) % Wrap = j
  <1> DEFINE d == Distance(i, j)
             x == (i + d) % Wrap
  <1>1. Wrap \in Nat \ {0} /\ d = IF i <= j THEN j - i ELSE j - i + Wrap
    BY DistanceIs DEF ConsoleConstants
  <1> HIDE DEF d
  <1>2. d \in 0 .. Wrap - 1 /\ (d = 0 <=> i = j)
    BY <1>1
  <1>3. x = IF i + d < Wrap THEN i + d ELSE i + d - Wrap
    BY <1>2, AdvanceIs
  <1> HIDE DEF x
  <1>4. x = j
    BY <1>1, <1>2, <1>3
  <1> QED BY <1>2, <1>4 DEF x, d

LEMMA NoAdvance == ASSUME ConsoleConstants, NEW i \in 0 .. Wrap - 1 PROVE (i + 0) % Wrap = i
  <1>1. Wrap \in Nat \ {0} /\ i \in (0 - Wrap) .. (Wrap + Wrap - 1) /\ i + 0 = i
    BY DEF ConsoleConstants
  <1>2. i % Wrap = IF i < 0 THEN i + Wrap ELSE IF i < Wrap THEN i ELSE i - Wrap
    BY <1>1, Turn
  <1>3. i % Wrap = i
    BY <1>1, <1>2
  <1> QED BY <1>1, <1>3

\* An index between two others splits their distance.
LEMMA Split ==
    ASSUME ConsoleConstants, NEW i \in 0 .. Wrap - 1, NEW j \in 0 .. Wrap - 1, NEW k \in 0 .. Wrap - 1,
           Distance(i, j) + Distance(j, k) < Wrap
    PROVE  Distance(i, k) = Distance(i, j) + Distance(j, k)
  <1> DEFINE a == Distance(i, j)
             b == Distance(j, k)
             c == Distance(i, k)
  <1>1. Wrap \in Nat \ {0} /\ a + b < Wrap
    BY DEF ConsoleConstants
  <1>2. /\ a = IF i <= j THEN j - i ELSE j - i + Wrap
        /\ b = IF j <= k THEN k - j ELSE k - j + Wrap
        /\ c = IF i <= k THEN k - i ELSE k - i + Wrap
    BY DistanceIs
  <1> HIDE DEF a, b, c
  <1>3. c = a + b
    BY <1>1, <1>2
  <1> QED BY <1>3 DEF a, b, c

\* Taking k characters at the near end.
LEMMA Shorten ==
    ASSUME ConsoleConstants, NEW i \in 0 .. Wrap - 1, NEW j \in 0 .. Wrap - 1, NEW k \in 0 .. Distance(i, j)
    PROVE  (i + k) % Wrap \in 0 .. Wrap - 1 /\ Distance((i + k) % Wrap, j) = Distance(i, j) - k
  <1> DEFINE d == Distance(i, j)
             x == (i + k) % Wrap
             c == Distance(x, j)
  <1>1. Wrap \in Nat \ {0} /\ d = (IF i <= j THEN j - i ELSE j - i + Wrap) /\ k \in 0 .. d
    BY DistanceIs DEF ConsoleConstants
  <1> HIDE DEF d
  <1>2. k \in 0 .. Wrap - 1
    BY <1>1
  <1>3. x = IF i + k < Wrap THEN i + k ELSE i + k - Wrap
    BY <1>2, AdvanceIs
  <1> HIDE DEF x
  <1>4. x \in 0 .. Wrap - 1
    BY <1>1, <1>2, <1>3
  <1>5. c = IF x <= j THEN j - x ELSE j - x + Wrap
    BY <1>4, DistanceIs
  <1> HIDE DEF c
  <1>6. c = d - k
    BY <1>1, <1>2, <1>3, <1>4, <1>5
  <1> QED BY <1>4, <1>6 DEF c, x, d

-----------------------------------------------------------------------------
(***************************************************************************)
(* Places in the ring.                                                     *)
(***************************************************************************)

\* Numbers that differ by a multiple of b have the same place.
LEMMA SamePlace ==
    ASSUME NEW b \in Nat \ {0}, NEW x \in Int, NEW y \in Int, NEW t \in Int, x = y + b * t
    PROVE  x % b = y % b
  <1> DEFINE q == y \div b
             z == y % b
  <1>1. q \in Int /\ y = b * q + z /\ z \in 0 .. b - 1
    BY DivMod, ModRange
  <1> HIDE DEF q, z
  <1>2. x = b * (q + t) + z /\ q + t \in Int
    BY <1>1
  <1>3. x % b = z
    BY <1>1, <1>2, ModUnique
  <1> QED BY <1>3 DEF z

\* An index wraps at a multiple of the size of the ring.
LEMMA WrapStep ==
    ASSUME ConsoleConstants, NEW x \in Int
    PROVE  \E t \in Int : x = (x % Wrap) + INPUT_BUF * t
  <1> DEFINE q == x \div Wrap
             z == x % Wrap
             c == Wrap \div INPUT_BUF
  <1>1. Wrap \in Nat \ {0} /\ INPUT_BUF \in Nat \ {0} /\ Wrap % INPUT_BUF = 0
    BY DEF ConsoleConstants
  <1>2. q \in Int /\ x = Wrap * q + z /\ z \in 0 .. Wrap - 1
    BY <1>1, DivMod, ModRange
  <1>3. c \in Int /\ Wrap = INPUT_BUF * c
    <2>1. c \in Int /\ Wrap = INPUT_BUF * c + (Wrap % INPUT_BUF)
      BY <1>1, DivMod
    <2>2. INPUT_BUF * c \in Int
      BY <1>1, <2>1
    <2> HIDE DEF c
    <2> QED BY <1>1, <2>1, <2>2
  <1> HIDE DEF q, c
  <1>4. Wrap * q = INPUT_BUF * (c * q)
    <2>1. Wrap * q = (INPUT_BUF * c) * q
      BY <1>3
    <2>2. (INPUT_BUF * c) * q = INPUT_BUF * (c * q)
      BY <1>1, <1>2, <1>3
    <2> QED BY <2>1, <2>2
  <1>5. c * q \in Int
    BY <1>2, <1>3
  <1>6. x = z + INPUT_BUF * (c * q)
    <2>1. INPUT_BUF * (c * q) \in Int
      BY <1>1, <1>5
    <2> HIDE DEF z
    <2> QED BY <1>2, <1>4, <2>1
  <1> QED BY <1>5, <1>6

LEMMA WrapKeepsPlace ==
    ASSUME ConsoleConstants, NEW x \in Int, NEW i \in Int
    PROVE  ((x % Wrap) + i) % INPUT_BUF = (x + i) % INPUT_BUF
  <1>1. PICK t \in Int : x = (x % Wrap) + INPUT_BUF * t
    BY WrapStep
  <1> DEFINE z == x % Wrap
  <1>2. INPUT_BUF \in Nat \ {0} /\ z \in Int
    BY ModRange DEF ConsoleConstants
  <1>3. x = z + INPUT_BUF * t
    BY <1>1
  <1> HIDE DEF z
  <1>4. x + i = (z + i) + INPUT_BUF * t /\ z + i \in Int /\ x + i \in Int
    BY <1>2, <1>3
  <1>5. (x + i) % INPUT_BUF = (z + i) % INPUT_BUF
    BY <1>2, <1>4, SamePlace
  <1> QED BY <1>5 DEF z

\* Two numbers less than a ring apart have different places.
LEMMA OtherPlace ==
    ASSUME NEW b \in Nat \ {0}, NEW x \in Int, NEW y \in Int, x < y, y < x + b
    PROVE  x % b # y % b
  <1> DEFINE q == x \div b
             u == y \div b
             z == x % b
  <1> SUFFICES ASSUME y % b = z PROVE FALSE
    OBVIOUS
  <1>1. q \in Int /\ x = b * q + z /\ z \in 0 .. b - 1 /\ u \in Int /\ y = b * u + z
    BY DivMod, ModRange
  <1> HIDE DEF q, u, z
  <1>2. b * q \in Int /\ b * u \in Int /\ b * q < b * u /\ b * u < b * q + b
    BY <1>1
  <1>3. CASE u <= q
    <2>1. b * u <= b * q
      BY <1>1, <1>3
    <2> QED BY <1>2, <2>1
  <1>4. CASE u >= q + 1
    <2>1. b * u >= b * (q + 1) /\ b * (q + 1) = b * q + b
      BY <1>1, <1>4
    <2> QED BY <1>2, <2>1
  <1> QED BY <1>1, <1>3, <1>4

\* k characters of the ring d from index a on.
Ring(k, a, d) == [i \in 1 .. k |-> d[(a + i - 1) % INPUT_BUF]]
Rings         == [0 .. INPUT_BUF - 1 -> Chars]

\* The ring d with c at index x.
Stored(d, x, c) == [d EXCEPT ![x % INPUT_BUF] = c]

LEMMA RingSeq ==
    ASSUME ConsoleConstants, NEW k \in Nat, NEW a \in Int, NEW d \in Rings
    PROVE  /\ Ring(k, a, d) \in Seq(Chars) /\ Len(Ring(k, a, d)) = k
           /\ \A i \in 1 .. k : Ring(k, a, d)[i] = d[(a + i - 1) % INPUT_BUF]
  <1>1. \A i \in 1 .. k : d[(a + i - 1) % INPUT_BUF] \in Chars
    <2> SUFFICES ASSUME NEW i \in 1 .. k PROVE d[(a + i - 1) % INPUT_BUF] \in Chars
      OBVIOUS
    <2>1. a + i - 1 \in Int /\ INPUT_BUF \in Nat \ {0}
      BY DEF ConsoleConstants
    <2>2. (a + i - 1) % INPUT_BUF \in 0 .. INPUT_BUF - 1
      BY <2>1, ModRange
    <2> QED BY <2>2 DEF Rings
  <1>2. Ring(k, a, d) \in [1 .. k -> Chars]
    BY <1>1 DEF Ring
  <1>3. Ring(k, a, d) \in Seq(Chars)
    BY <1>2, SeqDef
  <1>4. Len(Ring(k, a, d)) = k
    <2> DEFINE l == Len(Ring(k, a, d))
    <2>1. l \in Nat /\ 1 .. l = 1 .. k
      <3>1. DOMAIN Ring(k, a, d) = 1 .. k
        BY DEF Ring
      <3> QED BY <1>3, <3>1, LenProperties
    <2> HIDE DEF l
    <2>2. l = k
      BY <2>1
    <2> QED BY <2>2 DEF l
  <1> QED BY <1>3, <1>4 DEF Ring

\* Two pieces of the ring, one behind the other.
LEMMA RingJoin ==
    ASSUME ConsoleConstants, NEW a \in 0 .. Wrap - 1, NEW k \in Nat, NEW m \in Nat, NEW d \in Rings
    PROVE  Ring(k + m, a, d) = Ring(k, a, d) \o Ring(m, (a + k) % Wrap, d)
  <1> DEFINE z == (a + k) % Wrap
             s == Ring(k, a, d)
             u == Ring(m, z, d)
             t == s \o u
             v == Ring(k + m, a, d)
  <1>1. Wrap \in Nat \ {0} /\ a \in Int /\ a + k \in Int /\ k + m \in Nat
    BY DEF ConsoleConstants
  <1>2. z \in Int
    BY <1>1, ModRange
  <1>3. s \in Seq(Chars) /\ Len(s) = k /\ \A i \in 1 .. k : s[i] = d[(a + i - 1) % INPUT_BUF]
    BY <1>1, RingSeq
  <1>4. u \in Seq(Chars) /\ Len(u) = m /\ \A i \in 1 .. m : u[i] = d[(z + i - 1) % INPUT_BUF]
    <2> HIDE DEF z
    <2> QED BY <1>2, RingSeq
  <1>5. v \in Seq(Chars) /\ Len(v) = k + m /\ \A i \in 1 .. k + m : v[i] = d[(a + i - 1) % INPUT_BUF]
    BY <1>1, RingSeq
  <1> HIDE DEF s, u, v
  <1>6. t \in Seq(Chars) /\ Len(t) = k + m /\ \A i \in 1 .. k + m : t[i] = IF i <= k THEN s[i] ELSE u[i - k]
    <2>1. /\ t \in Seq(Chars) /\ Len(t) = Len(s) + Len(u)
          /\ \A i \in 1 .. Len(s) + Len(u) : t[i] = IF i <= Len(s) THEN s[i] ELSE u[i - Len(s)]
      BY <1>3, <1>4, ConcatProperties, Zenon
    <2> HIDE DEF t
    <2> QED BY <1>3, <1>4, <2>1, Zenon
  <1> HIDE DEF t
  <1>7. \A i \in 1 .. k + m : v[i] = t[i]
    <2> SUFFICES ASSUME NEW i \in 1 .. k + m PROVE v[i] = t[i]
      OBVIOUS
    <2>1. v[i] = d[(a + i - 1) % INPUT_BUF] /\ t[i] = IF i <= k THEN s[i] ELSE u[i - k]
      BY <1>5, <1>6
    <2>2. CASE i <= k
      <3>1. i \in 1 .. k
        BY <2>2
      <3> QED BY <1>3, <2>1, <2>2, <3>1
    <2>3. CASE ~(i <= k)
      <3>1. i - k \in 1 .. m /\ i - k - 1 \in Int
        BY <2>3
      <3>2. u[i - k] = d[(z + (i - k) - 1) % INPUT_BUF]
        BY <1>4, <3>1
      <3>3. (z + (i - k - 1)) % INPUT_BUF = ((a + k) + (i - k - 1)) % INPUT_BUF
        BY <1>1, <3>1, WrapKeepsPlace
      <3>4. z + (i - k) - 1 = z + (i - k - 1) /\ (a + k) + (i - k - 1) = a + i - 1
        <4> HIDE DEF z
        <4> QED BY <1>1, <1>2
      <3> QED BY <2>1, <2>3, <3>2, <3>3, <3>4
    <2> QED BY <2>2, <2>3
  <1>8. v = t
    BY <1>5, <1>6, <1>7, SeqEqual
  <1> QED BY <1>8 DEF v, t, s, u

\* A character stored behind k others, at most a ring away, is none of them.
LEMMA RingKept ==
    ASSUME ConsoleConstants, NEW a \in 0 .. Wrap - 1, NEW k \in Nat, NEW m \in k .. INPUT_BUF - 1, NEW d \in Rings,
           NEW c \in Chars
    PROVE  Ring(k, a, Stored(d, (a + m) % Wrap, c)) = Ring(k, a, d)
  <1> DEFINE x == ((a + m) % Wrap) % INPUT_BUF
             f == [d EXCEPT ![x] = c]
  <1>1. INPUT_BUF \in Nat \ {0} /\ a + m \in Int /\ a \in Int /\ m \in Int
    BY DEF ConsoleConstants
  <1>2. x = (a + m) % INPUT_BUF
    <2> DEFINE y == (a + m) % Wrap
    <2>1. (y + 0) % INPUT_BUF = ((a + m) + 0) % INPUT_BUF
      BY <1>1, WrapKeepsPlace
    <2>2. y \in Int
      BY <1>1, ModRange DEF ConsoleConstants
    <2> HIDE DEF y
    <2>3. y + 0 = y /\ (a + m) + 0 = a + m
      BY <1>1, <2>2
    <2> QED BY <2>1, <2>3 DEF y
  <1> HIDE DEF x
  <1>3. \A i \in 1 .. k : f[(a + i - 1) % INPUT_BUF] = d[(a + i - 1) % INPUT_BUF]
    <2> SUFFICES ASSUME NEW i \in 1 .. k PROVE f[(a + i - 1) % INPUT_BUF] = d[(a + i - 1) % INPUT_BUF]
      OBVIOUS
    <2>1. a + i - 1 \in Int /\ a + i - 1 < a + m /\ a + m < (a + i - 1) + INPUT_BUF
      BY <1>1
    <2>2. (a + i - 1) % INPUT_BUF # x
      BY <1>1, <1>2, <2>1, OtherPlace
    <2>3. (a + i - 1) % INPUT_BUF \in 0 .. INPUT_BUF - 1
      BY <1>1, <2>1, ModRange
    <2> DEFINE y == (a + i - 1) % INPUT_BUF
    <2> HIDE DEF y
    <2>4. y \in 0 .. INPUT_BUF - 1 /\ y # x
      BY <2>2, <2>3 DEF y
    <2>5. f[y] = d[y]
      BY <2>4 DEF Rings
    <2> QED BY <2>5 DEF y
  <1> HIDE DEF f
  <1>4. Ring(k, a, f) = Ring(k, a, d)
    BY <1>3 DEF Ring
  <1> QED BY <1>4 DEF f, x, Stored

\* With the stored one they are one more.
LEMMA RingAppend ==
    ASSUME ConsoleConstants, NEW a \in 0 .. Wrap - 1, NEW k \in 0 .. INPUT_BUF - 1, NEW d \in Rings, NEW c \in Chars
    PROVE  /\ Stored(d, (a + k) % Wrap, c) \in Rings
           /\ Ring(k + 1, a, Stored(d, (a + k) % Wrap, c)) = Append(Ring(k, a, d), c)
  <1> DEFINE x == (a + k) % Wrap
             f == Stored(d, x, c)
  <1>1. INPUT_BUF \in Nat \ {0} /\ Wrap \in Nat \ {0} /\ a + k \in Int /\ k \in Nat /\ k \in k .. INPUT_BUF - 1
    BY DEF ConsoleConstants
  <1>2. x \in 0 .. Wrap - 1
    BY <1>1, ModRange
  <1>3. Ring(k, a, f) = Ring(k, a, d)
    <2>1. \A m \in k .. INPUT_BUF - 1 : Ring(k, a, Stored(d, (a + m) % Wrap, c)) = Ring(k, a, d)
      BY <1>1, RingKept, Zenon
    <2> QED BY <1>1, <2>1, Zenon
  <1> HIDE DEF x
  <1>4. x % INPUT_BUF \in 0 .. INPUT_BUF - 1
    BY <1>1, <1>2, ModRange
  <1>5. f \in Rings /\ f[x % INPUT_BUF] = c
    <2> DEFINE y == x % INPUT_BUF
    <2>1. y \in 0 .. INPUT_BUF - 1
      BY <1>4
    <2> HIDE DEF y
    <2>2. [d EXCEPT ![y] = c] \in Rings /\ [d EXCEPT ![y] = c][y] = c
      BY <2>1 DEF Rings
    <2> QED BY <2>2 DEF y, Stored
  <1> HIDE DEF f
  <1>6. Ring(k + 1, a, f) = Ring(k, a, f) \o Ring(1, x, f)
    <2>1. \A m \in Nat : Ring(k + m, a, f) = Ring(k, a, f) \o Ring(m, (a + k) % Wrap, f)
      BY <1>1, <1>5, RingJoin, Zenon
    <2>2. 1 \in Nat
      OBVIOUS
    <2> QED BY <2>1, <2>2, Zenon DEF x
  <1>7. Ring(1, x, f) = <<c>>
    <2>1. Ring(1, x, f) \in Seq(Chars) /\ Len(Ring(1, x, f)) = 1 /\ Ring(1, x, f)[1] = f[(x + 1 - 1) % INPUT_BUF]
      <3>1. 1 \in Nat /\ x \in Int /\ 1 \in 1 .. 1
        BY <1>1, <1>2
      <3> QED BY <1>5, <3>1, RingSeq, Zenon
    <2>2. x + 1 - 1 = x
      BY <1>2
    <2>3. Ring(1, x, f)[1] = c
      BY <1>5, <2>1, <2>2
    <2> HIDE DEF Ring
    <2>4. <<c>> \in Seq(Chars) /\ Len(<<c>>) = 1 /\ <<c>>[1] = c
      OBVIOUS
    <2>5. \A i \in 1 .. 1 : Ring(1, x, f)[i] = <<c>>[i]
      BY <2>3, <2>4
    <2> QED BY <2>1, <2>4, <2>5, SeqEqual
  <1>8. Ring(k, a, d) \in Seq(Chars)
    BY <1>1, RingSeq
  <1>9. Append(Ring(k, a, d), c) = Ring(k, a, d) \o <<c>>
    BY <1>8, AppendIsConcat
  <1> QED BY <1>3, <1>5, <1>6, <1>7, <1>9 DEF f, x

-----------------------------------------------------------------------------
(***************************************************************************)
(* The steps.                                                              *)
(***************************************************************************)

LEMMA Known ==
    ASSUME ConsoleConstants, IInv
    PROVE  /\ INPUT_BUF \in Nat \ {0} /\ Wrap \in Nat \ {0} /\ INPUT_BUF < Wrap
           /\ r \in 0 .. Wrap - 1 /\ w \in 0 .. Wrap - 1 /\ e \in 0 .. Wrap - 1 /\ buf \in Rings
           /\ Distance(r, w) \in Nat /\ Distance(w, e) \in Nat /\ Distance(r, w) + Distance(w, e) <= INPUT_BUF
           /\ Distance(r, e) = Distance(r, w) + Distance(w, e)
           /\ Distance(r, w) = 0 <=> r = w
           /\ Distance(w, e) = 0 <=> w = e
           /\ w = (r + Distance(r, w)) % Wrap /\ e = (w + Distance(w, e)) % Wrap /\ e = (r + Distance(r, e)) % Wrap
  <1>1. INPUT_BUF \in Nat \ {0} /\ Wrap \in Nat \ {0} /\ INPUT_BUF < Wrap
    BY DEF ConsoleConstants
  <1>2. r \in 0 .. Wrap - 1 /\ w \in 0 .. Wrap - 1 /\ e \in 0 .. Wrap - 1 /\ buf \in Rings
    BY DEF IInv, TypeOK, Rings
  <1>3. /\ Distance(r, w) \in 0 .. Wrap - 1 /\ Distance(w, e) \in 0 .. Wrap - 1
        /\ Distance(r, w) = 0 <=> r = w
        /\ Distance(w, e) = 0 <=> w = e
        /\ w = (r + Distance(r, w)) % Wrap /\ e = (w + Distance(w, e)) % Wrap /\ e = (r + Distance(r, e)) % Wrap
    BY <1>2, Distances
  <1>4. Distance(r, w) + Distance(w, e) <= INPUT_BUF
    BY DEF IInv, IndicesOK
  <1>5. Distance(r, w) \in Nat /\ Distance(w, e) \in Nat /\ Distance(r, w) + Distance(w, e) < Wrap
    BY <1>1, <1>3, <1>4
  <1>6. Distance(r, e) = Distance(r, w) + Distance(w, e)
    BY <1>2, <1>5, Split
  <1> QED BY <1>1, <1>2, <1>3, <1>4, <1>5, <1>6

\* The two parts of the abstract state, now and after a step.
Ready == Between(r, w)
Line  == Between(w, e)

LEMMA PartsAreRings ==
    /\ Ready = Ring(Distance(r, w), r, buf) /\ Line = Ring(Distance(w, e), w, buf)
    /\ Ready' = Ring(Distance(r', w'), r', buf') /\ Line' = Ring(Distance(w', e'), w', buf')
  BY DEF Ready, Line, Between, Ring, Distance

LEMMA PartsAreSeqs ==
    ASSUME ConsoleConstants, IInv
    PROVE  /\ Ready \in Seq(Chars) /\ Len(Ready) = Distance(r, w)
           /\ Line \in Seq(Chars) /\ Len(Line) = Distance(w, e)
           /\ \A i \in 1 .. Distance(w, e) : Line[i] = buf[(w + i - 1) % INPUT_BUF]
  <1>1. Distance(r, w) \in Nat /\ Distance(w, e) \in Nat /\ r \in Int /\ w \in Int /\ buf \in Rings
    BY Known
  <1> QED BY <1>1, RingSeq, PartsAreRings

LEMMA EmptyRing == ASSUME ConsoleConstants, NEW a \in Int, NEW d \in Rings PROVE Ring(0, a, d) = <<>>
  <1>1. Ring(0, a, d) \in Seq(Chars) /\ Len(Ring(0, a, d)) = 0
    BY RingSeq
  <1> QED BY <1>1, EmptySeq

\* A step of LineInput, or none.
LineStep == Lines!Next \/ UNCHANGED Lines!vars

\* Completes(c) is what it says: a line's end, or the last place of the ring.
LEMMA CompletesIs ==
    ASSUME ConsoleConstants, IInv, NEW c \in Chars, Distance(r, e) < INPUT_BUF
    PROVE  Completes(c) <=> c \in {"nl", "eof"} \/ Distance(r, e) + 1 = INPUT_BUF
  <1> DEFINE x == (e + 1) % Wrap
             y == (r + INPUT_BUF) % Wrap
             d == Distance(r, e)
  <1>1. /\ INPUT_BUF \in 1 .. Wrap - 1 /\ Wrap \in Nat /\ r \in 0 .. Wrap - 1 /\ e \in 0 .. Wrap - 1
        /\ 1 \in 0 .. Wrap - 1 /\ INPUT_BUF \in 0 .. Wrap - 1
    BY Known
  <1>2. x = IF e + 1 < Wrap THEN e + 1 ELSE e + 1 - Wrap
    BY <1>1, AdvanceIs
  <1>3. y = IF r + INPUT_BUF < Wrap THEN r + INPUT_BUF ELSE r + INPUT_BUF - Wrap
    BY <1>1, AdvanceIs
  <1>4. d = IF r <= e THEN e - r ELSE e - r + Wrap
    BY <1>1, DistanceIs
  <1>5. d < INPUT_BUF
    OBVIOUS
  <1> HIDE DEF x, y, d
  <1>6. x = y <=> d + 1 = INPUT_BUF
    BY <1>1, <1>2, <1>3, <1>4, <1>5
  <1> QED BY <1>6 DEF Completes, x, y, d

LEMMA LineOpenIs ==
    /\ LineOpen <=> \A k \in 1 .. Distance(w, e) : Line[k] = "a"
    /\ LineOpen' <=> \A k \in 1 .. Distance(w', e') : Line'[k] = "a"
  BY DEF LineOpen, Line, Between, Distance

\* One more at the far end.
LEMMA Lengthen ==
    ASSUME ConsoleConstants, NEW i \in 0 .. Wrap - 1, NEW j \in 0 .. Wrap - 1, Distance(i, j) + 1 < Wrap
    PROVE  (j + 1) % Wrap \in 0 .. Wrap - 1 /\ Distance(i, (j + 1) % Wrap) = Distance(i, j) + 1
  <1>1. 1 \in 0 .. Wrap - 1
    BY Distances DEF ConsoleConstants
  <1>2. (j + 1) % Wrap \in 0 .. Wrap - 1 /\ Distance(j, (j + 1) % Wrap) = 1
    BY <1>1, Advance
  <1> QED BY <1>2, Split

LEMMA KeyMoves ==
    ASSUME ConsoleConstants, IInv, NEW c \in Chars, Key(c)
    PROVE  /\ e' \in 0 .. Wrap - 1 /\ buf' \in Rings /\ r' = r
           /\ Distance(r, e) < INPUT_BUF /\ Distance(r, e') = Distance(r, e) + 1
           /\ Completes(c) => /\ w' = e' /\ at' = Woken
                              /\ Ready' = Ready \o Append(Line, c) /\ Line' = <<>>
           /\ ~Completes(c) => /\ w' = w /\ at' = at /\ Distance(w, e') = Distance(w, e) + 1
                               /\ Ready' = Ready /\ Line' = Append(Line, c)
  <1> DEFINE R == Distance(r, w)
             L == Distance(w, e)
  <1>1. /\ INPUT_BUF \in Nat \ {0} /\ Wrap \in Nat \ {0} /\ INPUT_BUF < Wrap
        /\ r \in 0 .. Wrap - 1 /\ w \in 0 .. Wrap - 1 /\ e \in 0 .. Wrap - 1 /\ buf \in Rings
        /\ R \in Nat /\ L \in Nat /\ R + L <= INPUT_BUF /\ Distance(r, e) = R + L
        /\ w = (r + R) % Wrap /\ e = (w + L) % Wrap /\ e = (r + Distance(r, e)) % Wrap
    BY Known
  <1>2. /\ Distance(r, e) < INPUT_BUF /\ r' = r /\ e' = (e + 1) % Wrap /\ buf' = Stored(buf, e, c)
        /\ IF Completes(c) THEN w' = e' /\ at' = Woken ELSE w' = w /\ at' = at
    BY DEF Key, Distance, Stored
  <1> HIDE DEF R, L
  <1>3. r \in 0 .. Wrap - 1 /\ w \in 0 .. Wrap - 1 /\ buf \in Rings /\ R \in Nat /\ L \in Nat
    BY <1>1
  <1>4. R + L \in 0 .. INPUT_BUF - 1 /\ L \in 0 .. INPUT_BUF - 1 /\ R + L \in R .. INPUT_BUF - 1
    BY <1>1, <1>2
  <1>5. e' \in 0 .. Wrap - 1 /\ Distance(r, e') = R + L + 1 /\ Distance(w, e') = L + 1
    <2>1. Distance(r, e) + 1 < Wrap /\ Distance(w, e) + 1 < Wrap
      BY <1>1, <1>4 DEF L
    <2> QED BY <1>1, <1>2, <2>1, Lengthen DEF L
  <1>6. buf' \in Rings /\ Ring(R + L + 1, r, buf') = Append(Ring(R + L, r, buf), c)
    <2>1. e = (r + (R + L)) % Wrap
      BY <1>1
    <2>2. /\ Stored(buf, (r + (R + L)) % Wrap, c) \in Rings
          /\ Ring((R + L) + 1, r, Stored(buf, (r + (R + L)) % Wrap, c)) = Append(Ring(R + L, r, buf), c)
      BY <1>3, <1>4, RingAppend, Zenon
    <2> QED BY <1>2, <2>1, <2>2, Zenon
  <1>7. Ring(L + 1, w, buf') = Append(Line, c)
    <2>1. Ring(L + 1, w, Stored(buf, (w + L) % Wrap, c)) = Append(Ring(L, w, buf), c)
      BY <1>3, <1>4, RingAppend, Zenon
    <2> QED BY <1>1, <1>2, <2>1, PartsAreRings DEF L
  <1>8. Ring(R, r, buf') = Ready
    <2>1. \A m \in R .. INPUT_BUF - 1 : Ring(R, r, Stored(buf, (r + m) % Wrap, c)) = Ring(R, r, buf)
      BY <1>3, RingKept, Zenon
    <2>2. Ring(R, r, Stored(buf, (r + (R + L)) % Wrap, c)) = Ring(R, r, buf)
      BY <1>4, <2>1
    <2> QED BY <1>1, <1>2, <2>2, PartsAreRings DEF R
  <1>9. ASSUME Completes(c) PROVE Ready' = Ready \o Append(Line, c) /\ Line' = <<>>
    <2>1. Ready' = Ring(R + L + 1, r, buf')
      BY <1>2, <1>5, <1>9, PartsAreRings
    <2>2. Ring(R + L, r, buf) = Ready \o Line
      <3>1. Ring(R + L, r, buf) = Ring(R, r, buf) \o Ring(L, (r + R) % Wrap, buf)
        <4>1. \A k, m \in Nat : Ring(k + m, r, buf) = Ring(k, r, buf) \o Ring(m, (r + k) % Wrap, buf)
          BY <1>3, RingJoin, Zenon
        <4> QED BY <1>3, <4>1, Zenon
      <3> QED BY <1>1, <3>1, PartsAreRings DEF R, L
    <2>3. Ready \in Seq(Chars) /\ Line \in Seq(Chars)
      BY PartsAreSeqs
    <2>4. Append(Ready \o Line, c) = Ready \o Append(Line, c)
      <3>1. Append(Ready \o Line, c) = (Ready \o Line) \o <<c>> /\ Append(Line, c) = Line \o <<c>>
        <4>1. Ready \o Line \in Seq(Chars)
          BY <2>3, ConcatProperties
        <4> QED BY <2>3, <4>1, AppendIsConcat
      <3> DEFINE o == <<c>>
      <3>2. o \in Seq(Chars)
        OBVIOUS
      <3> HIDE DEF o
      <3>3. (Ready \o Line) \o o = Ready \o (Line \o o)
        BY <2>3, <3>2, ConcatAssociative
      <3> USE DEF o
      <3> QED BY <3>1, <3>3
    <2>5. Line' = <<>>
      <3>1. Distance(w', e') = 0 /\ w' \in Int
        BY <1>2, <1>5, <1>9, Distances
      <3> QED BY <1>6, <3>1, EmptyRing, PartsAreRings
    <2> QED BY <1>6, <2>1, <2>2, <2>4, <2>5
  <1>10. ASSUME ~Completes(c) PROVE Ready' = Ready /\ Line' = Append(Line, c)
    BY <1>2, <1>5, <1>7, <1>8, <1>10, PartsAreRings DEF R
  <1>11. Distance(r, e') = Distance(r, e) + 1 /\ Distance(w, e') = Distance(w, e) + 1
    BY <1>1, <1>5 DEF L
  <1> QED BY <1>2, <1>5, <1>6, <1>9, <1>10, <1>11

\* The default case of consoleintr.
LEMMA StepKey == ASSUME ConsoleConstants, IInv, NEW c \in Chars, Key(c) PROVE IInv' /\ LineStep
  <1>1. /\ e' \in 0 .. Wrap - 1 /\ buf' \in Rings /\ r' = r
        /\ Distance(r, e) < INPUT_BUF /\ Distance(r, e') = Distance(r, e) + 1
        /\ Completes(c) => /\ w' = e' /\ at' = Woken
                           /\ Ready' = Ready \o Append(Line, c) /\ Line' = <<>>
        /\ ~Completes(c) => /\ w' = w /\ at' = at /\ Distance(w, e') = Distance(w, e) + 1
                            /\ Ready' = Ready /\ Line' = Append(Line, c)
    BY KeyMoves
  <1>2. /\ INPUT_BUF \in Nat \ {0} /\ Wrap \in Nat \ {0} /\ INPUT_BUF < Wrap
        /\ r \in 0 .. Wrap - 1 /\ w \in 0 .. Wrap - 1
        /\ Distance(r, w) \in Nat /\ Distance(w, e) \in Nat
        /\ Distance(r, e) = Distance(r, w) + Distance(w, e)
    BY Known
  <1>3. Completes(c) <=> c \in {"nl", "eof"} \/ Distance(r, e) + 1 = INPUT_BUF
    BY <1>1, CompletesIs
  <1>4. TypeOK'
    <2>1. w' \in 0 .. Wrap - 1
      BY <1>1, <1>2
    <2>2. at' \in [Readers -> {"user", "read", "sleep"}]
      BY <1>1 DEF Woken, IInv, TypeOK
    <2> QED BY <1>1, <1>2, <2>1, <2>2 DEF Key, IInv, TypeOK, Rings
  <1>5. IndicesOK'
    <2>1. CASE Completes(c)
      <3>1. Distance(e', e') = 0
        BY <1>1, Distances
      <3>2. Distance(r', w') + Distance(w', e') <= INPUT_BUF
        BY <1>1, <1>2, <2>1, <3>1
      <3> QED BY <3>2 DEF IndicesOK, Distance
    <2>2. CASE ~Completes(c)
      <3>1. Distance(r', w') = Distance(r, w) /\ Distance(w', e') = Distance(w, e) + 1
        BY <1>1, <2>2
      <3>2. Distance(r, w) + (Distance(w, e) + 1) <= INPUT_BUF
        BY <1>1, <1>2
      <3>3. Distance(r', w') + Distance(w', e') <= INPUT_BUF
        BY <3>1, <3>2
      <3> QED BY <3>3 DEF IndicesOK, Distance
    <2> QED BY <2>1, <2>2
  <1>6. LineOpen'
    <2>1. CASE Completes(c)
      <3>1. Distance(w', e') = 0
        BY <1>1, <2>1, Distances
      <3> QED BY <3>1, LineOpenIs
    <2>2. CASE ~Completes(c)
      <3>1. c = "a"
        BY <1>3, <2>2 DEF Chars
      <3>2. Line \in Seq(Chars) /\ Len(Line) = Distance(w, e) /\ \A k \in 1 .. Distance(w, e) : Line[k] = "a"
        BY PartsAreSeqs, LineOpenIs DEF IInv
      <3>3. /\ \A k \in 1 .. Len(Line) : Append(Line, c)[k] = Line[k]
            /\ Append(Line, c)[Len(Line) + 1] = c
        BY <3>2, AppendProperties
      <3>4. \A k \in 1 .. Distance(w, e) + 1 : k \in 1 .. Distance(w, e) \/ k = Distance(w, e) + 1
        BY <1>2
      <3>5. \A k \in 1 .. Distance(w, e) + 1 : Append(Line, c)[k] = "a"
        BY <3>1, <3>2, <3>3, <3>4
      <3>6. Distance(w', e') = Distance(w, e) + 1 /\ Line' = Append(Line, c)
        BY <1>1, <2>2
      <3>7. \A k \in 1 .. Distance(w', e') : Line'[k] = "a"
        BY <3>5, <3>6
      <3> QED BY <3>7, LineOpenIs
    <2> QED BY <2>1, <2>2
  <1>7. CallsOK'
    BY <1>1 DEF Woken, CallsOK, Key, IInv, TypeOK
  <1>8. ReadersAwake'
    <2>1. Distance(r', e') = (e' - r') % Wrap
      BY DEF Distance
    <2>2. CASE Completes(c)
      <3>1. \A p \in Readers : at'[p] # "sleep"
        BY <1>1, <2>2 DEF Woken
      <3>2. r' # w'
        <4>1. Distance(r, e') # 0
          BY <1>1, <1>2
        <4> QED BY <1>1, <1>2, <2>2, <4>1, Distances
      <3> QED BY <3>1, <3>2 DEF ReadersAwake
    <2>3. CASE ~Completes(c)
      <3>1. Distance(r', e') < INPUT_BUF
        BY <1>1, <1>2, <1>3, <2>3
      <3> QED BY <1>1, <2>1, <2>3, <3>1 DEF ReadersAwake, IInv
    <2> QED BY <2>2, <2>3
  <1>9. LineStep
    <2>1. Len(Ready) = Distance(r, w) /\ Len(Line) = Distance(w, e)
      BY PartsAreSeqs
    <2>2. Len(Ready) + Len(Line) < INPUT_BUF
      BY <1>1, <1>2, <2>1
    <2>3. Completes(c) <=> c \in {"nl", "eof"} \/ Len(Ready) + Len(Line) + 1 = INPUT_BUF
      BY <1>2, <1>3, <2>1
    <2>4. IF c \in {"nl", "eof"} \/ Len(Ready) + Len(Line) + 1 = INPUT_BUF
          THEN Ready' = Ready \o Append(Line, c) /\ Line' = <<>>
          ELSE Line' = Append(Line, c) /\ Ready' = Ready
      BY <1>1, <2>3
    <2>5. Lines!Type
      BY <2>2, <2>4 DEF Lines!Type, Ready, Line
    <2> QED BY <2>5 DEF LineStep, Lines!Next
  <1> QED BY <1>4, <1>5, <1>6, <1>7, <1>8, <1>9 DEF IInv

\* One less at the far end.
LEMMA Shrink ==
    ASSUME ConsoleConstants, NEW i \in 0 .. Wrap - 1, NEW j \in 0 .. Wrap - 1, i # j
    PROVE  (j - 1) % Wrap \in 0 .. Wrap - 1 /\ Distance(i, (j - 1) % Wrap) = Distance(i, j) - 1
  <1> DEFINE x == j - 1
             y == x % Wrap
             d == Distance(i, j)
             c == Distance(i, y)
  <1>1. Wrap \in Nat \ {0} /\ x \in (0 - Wrap) .. (Wrap + Wrap - 1)
    BY DEF ConsoleConstants
  <1>2. y = IF x < 0 THEN x + Wrap ELSE IF x < Wrap THEN x ELSE x - Wrap
    BY <1>1, Turn
  <1> HIDE DEF y
  <1>3. y \in 0 .. Wrap - 1
    BY <1>1, <1>2
  <1>4. d = IF i <= j THEN j - i ELSE j - i + Wrap
    BY DistanceIs
  <1>5. c = IF i <= y THEN y - i ELSE y - i + Wrap
    BY <1>3, DistanceIs
  <1> HIDE DEF d, c
  <1>6. c = d - 1
    BY <1>1, <1>2, <1>3, <1>4, <1>5
  <1> QED BY <1>3, <1>6 DEF c, d, y

\* The first k characters of m.
LEMMA RingPrefix ==
    ASSUME ConsoleConstants, NEW m \in Nat, NEW k \in 0 .. m, NEW a \in Int, NEW d \in Rings
    PROVE  Ring(k, a, d) = SubSeq(Ring(m, a, d), 1, k)
  <1> DEFINE s == Ring(k, a, d)
             u == Ring(m, a, d)
             t == SubSeq(u, 1, k)
  <1>1. k \in Nat /\ k - 1 + 1 = k /\ 1 \in Int /\ (~(1 <= k) => k = 0)
    OBVIOUS
  <1>2. s \in Seq(Chars) /\ Len(s) = k /\ \A i \in 1 .. k : s[i] = d[(a + i - 1) % INPUT_BUF]
    BY <1>1, RingSeq
  <1>3. u \in Seq(Chars) /\ Len(u) = m /\ \A i \in 1 .. m : u[i] = d[(a + i - 1) % INPUT_BUF]
    BY RingSeq
  <1>4. \A i \in 1 .. k : i \in 1 .. m
    OBVIOUS
  <1> HIDE DEF s, u
  <1>5. \A i \in 1 .. k : u[i] \in Chars
    BY <1>3, <1>4, ElementOfSeq
  <1>6. t \in Seq(Chars) /\ Len(t) = k /\ \A i \in 1 .. k : t[i] = u[i]
    <2>1. /\ t \in Seq(Chars) /\ Len(t) = IF 1 <= k THEN k - 1 + 1 ELSE 0
          /\ \A i \in 1 .. k - 1 + 1 : t[i] = u[1 + i - 1]
      BY <1>1, <1>5, SubSeqProperties
    <2>2. \A i \in 1 .. k : 1 + i - 1 = i
      OBVIOUS
    <2> HIDE DEF t
    <2> QED BY <1>1, <2>1, <2>2
  <1> HIDE DEF t
  <1>7. \A i \in 1 .. k : s[i] = t[i]
    BY <1>2, <1>3, <1>4, <1>6
  <1>8. s = t
    BY <1>2, <1>6, <1>7, SeqEqual
  <1> QED BY <1>8 DEF s, t, u

\* A change of e only, back to the index k characters behind w.
LEMMA Erased ==
    ASSUME ConsoleConstants, IInv, UNCHANGED <<buf, r, w, at, n, target, doomed>>,
           NEW k \in 0 .. Distance(w, e) - 1, e' \in 0 .. Wrap - 1, Distance(w, e') = k,
           k = 0 \/ k = Distance(w, e) - 1
    PROVE  IInv' /\ LineStep
  <1>1. /\ INPUT_BUF \in Nat \ {0} /\ Wrap \in Nat \ {0} /\ INPUT_BUF < Wrap
        /\ r \in 0 .. Wrap - 1 /\ w \in 0 .. Wrap - 1 /\ buf \in Rings
        /\ Distance(r, w) \in Nat /\ Distance(w, e) \in Nat /\ Distance(r, w) + Distance(w, e) <= INPUT_BUF
        /\ Distance(r, e) = Distance(r, w) + Distance(w, e) /\ w \in Int
    BY Known
  <1>2. Distance(r, w) + Distance(w, e') < INPUT_BUF /\ Distance(r, w) + Distance(w, e') < Wrap
    BY <1>1
  <1>3. Distance(r, e') = Distance(r, w) + Distance(w, e')
    BY <1>1, <1>2, Split
  <1>4. TypeOK'
    BY DEF IInv, TypeOK
  <1>5. IndicesOK'
    <2>1. Distance(r', w') + Distance(w', e') <= INPUT_BUF
      BY <1>1, <1>2
    <2> QED BY <2>1 DEF IndicesOK, Distance
  <1>6. LineOpen'
    <2>1. \A i \in 1 .. Distance(w', e') : i \in 1 .. Distance(w, e)
      BY <1>1
    <2> QED BY <2>1 DEF LineOpen, Distance, IInv
  <1>7. CallsOK' /\ ReadersAwake'
    <2>1. Distance(r', e') < INPUT_BUF
      BY <1>1, <1>2, <1>3
    <2> QED BY <2>1 DEF CallsOK, ReadersAwake, IInv, Distance
  <1>8. LineStep
    <2>1. Ready' = Ready
      BY DEF Ready, Between
    <2>2. Line' = Ring(k, w, buf) /\ Line = Ring(Distance(w, e), w, buf)
      BY PartsAreRings
    <2>3. Line \in Seq(Chars) /\ Len(Line) = Distance(w, e) /\ Line # <<>>
      <3>1. Line \in Seq(Chars) /\ Len(Line) = Distance(w, e)
        BY PartsAreSeqs
      <3>2. Len(Line) # Len(<<>>)
        BY <1>1, <3>1, EmptySeq
      <3> QED BY <3>1, <3>2
    <2>4. k = 0 => Line' = <<>>
      BY <1>1, <2>2, EmptyRing
    <2>5. k = Distance(w, e) - 1 => Line' = SubSeq(Line, 1, Len(Line) - 1)
      <3>1. k \in 0 .. Distance(w, e)
        BY <1>1
      <3>2. Ring(k, w, buf) = SubSeq(Ring(Distance(w, e), w, buf), 1, k)
        BY <1>1, <3>1, RingPrefix
      <3> QED BY <2>2, <2>3, <3>2
    <2>6. Lines!Erase
      BY <2>1, <2>3, <2>4, <2>5 DEF Lines!Erase, Ready, Line
    <2> QED BY <2>6 DEF LineStep, Lines!Next
  <1> QED BY <1>4, <1>5, <1>6, <1>7, <1>8 DEF IInv

LEMMA StepBackspace == ASSUME ConsoleConstants, IInv, Backspace PROVE IInv' /\ LineStep
  <1>1. e # w /\ e' = (e - 1) % Wrap /\ UNCHANGED <<buf, r, w, at, n, target, doomed>>
    BY DEF Backspace, MayErase
  <1>2. /\ w \in 0 .. Wrap - 1 /\ e \in 0 .. Wrap - 1 /\ Distance(w, e) \in Nat /\ Distance(w, e) # 0
    BY <1>1, Known
  <1>3. e' \in 0 .. Wrap - 1 /\ Distance(w, e') = Distance(w, e) - 1
    BY <1>1, <1>2, Shrink
  <1>4. Distance(w, e') \in 0 .. Distance(w, e) - 1
    BY <1>2, <1>3
  <1> QED BY <1>1, <1>3, <1>4, Erased

\* Since the line holds no '\n', ^U erases all of it.
LEMMA StepKillLine == ASSUME ConsoleConstants, IInv, KillLine PROVE IInv' /\ LineStep
  <1> DEFINE stops == {k \in 1 .. Len(Line) : Line[k] = "nl"}
             keep  == IF stops = {} THEN 0 ELSE CHOOSE k \in stops : \A j \in stops : j <= k
  <1>1. e # w /\ e' = (w + keep) % Wrap /\ UNCHANGED <<buf, r, w, at, n, target, doomed>>
    BY DEF KillLine, MayErase, Line
  <1>2. /\ w \in 0 .. Wrap - 1 /\ e \in 0 .. Wrap - 1 /\ Distance(w, e) \in Nat /\ Distance(w, e) # 0
        /\ Wrap \in Nat \ {0}
    BY <1>1, Known
  <1>3. Len(Line) = Distance(w, e) /\ \A k \in 1 .. Distance(w, e) : Line[k] = "a"
    BY PartsAreSeqs, LineOpenIs DEF IInv
  <1>4. keep = 0
    BY <1>3
  <1>5. 0 \in 0 .. Wrap - 1
    BY <1>2
  <1>6. e' \in 0 .. Wrap - 1 /\ Distance(w, e') = 0
    BY <1>1, <1>2, <1>4, <1>5, Advance
  <1>7. 0 \in 0 .. Distance(w, e) - 1
    BY <1>2
  <1> QED BY <1>1, <1>6, <1>7, Erased

\* What is left when the first k of m characters are taken.
LEMMA RingSuffix ==
    ASSUME ConsoleConstants, NEW m \in Nat, NEW k \in 0 .. m, NEW a \in 0 .. Wrap - 1, NEW d \in Rings
    PROVE  Ring(m - k, (a + k) % Wrap, d) = SubSeq(Ring(m, a, d), k + 1, m)
  <1> DEFINE z == (a + k) % Wrap
             s == Ring(m - k, z, d)
             u == Ring(m, a, d)
             t == SubSeq(u, k + 1, m)
  <1>1. Wrap \in Nat \ {0} /\ a \in Int /\ k \in Int /\ m - k \in Nat /\ a + k \in Int
    BY DEF ConsoleConstants
  <1>2. z \in Int
    BY <1>1, ModRange
  <1>3. s \in Seq(Chars) /\ Len(s) = m - k /\ \A i \in 1 .. m - k : s[i] = d[(z + i - 1) % INPUT_BUF]
    <2> HIDE DEF z
    <2> QED BY <1>1, <1>2, RingSeq
  <1>4. u \in Seq(Chars) /\ Len(u) = m /\ \A i \in 1 .. m : u[i] = d[(a + i - 1) % INPUT_BUF]
    BY <1>1, RingSeq
  <1> HIDE DEF s, u
  <1>5. t \in Seq(Chars) /\ Len(t) = m - k /\ \A i \in 1 .. m - k : t[i] = u[k + i]
    <2>1. \A i \in k + 1 .. m : u[i] \in Chars
      <3>1. \A i \in k + 1 .. m : i \in 1 .. Len(u)
        BY <1>1, <1>4
      <3> QED BY <1>4, <3>1, ElementOfSeq
    <2>2. k + 1 \in Int /\ m \in Int
      BY <1>1
    <2>3. /\ t \in Seq(Chars)
          /\ Len(t) = IF k + 1 <= m THEN m - (k + 1) + 1 ELSE 0
          /\ \A i \in 1 .. m - (k + 1) + 1 : t[i] = u[(k + 1) + i - 1]
      BY <2>1, <2>2, SubSeqProperties
    <2>4. m - (k + 1) + 1 = m - k /\ (~(k + 1 <= m) => m - k = 0)
      BY <1>1
    <2>5. \A i \in 1 .. m - k : (k + 1) + i - 1 = k + i
      BY <1>1
    <2> HIDE DEF t
    <2>6. \A i \in 1 .. m - k : t[i] = u[(k + 1) + i - 1]
      BY <2>3, <2>4
    <2>7. \A i \in 1 .. m - k : t[i] = u[k + i]
      BY <2>5, <2>6
    <2> QED BY <2>3, <2>4, <2>7
  <1> HIDE DEF t
  <1>6. \A i \in 1 .. m - k : s[i] = t[i]
    <2> SUFFICES ASSUME NEW i \in 1 .. m - k PROVE s[i] = t[i]
      OBVIOUS
    <2>1. s[i] = d[(z + i - 1) % INPUT_BUF] /\ t[i] = u[k + i]
      BY <1>3, <1>5
    <2>2. k + i \in 1 .. m /\ i - 1 \in Int
      BY <1>1
    <2>3. u[k + i] = d[(a + (k + i) - 1) % INPUT_BUF]
      BY <1>4, <2>2
    <2>4. ((z + (i - 1)) % INPUT_BUF) = ((a + k) + (i - 1)) % INPUT_BUF
      BY <1>1, <2>2, WrapKeepsPlace
    <2>5. z + i - 1 = z + (i - 1) /\ a + (k + i) - 1 = (a + k) + (i - 1)
      BY <1>1, <1>2
    <2> QED BY <2>1, <2>3, <2>4, <2>5
  <1>7. s = t
    BY <1>3, <1>5, <1>6, SeqEqual
  <1> QED BY <1>7 DEF s, t, u

LEMMA LeastIn ==
    ASSUME NEW S \in SUBSET Nat, S # {}
    PROVE  (CHOOSE x \in S : \A y \in S : x <= y) \in S
  <1>1. IsWellFoundedOn(OpToRel(<, Nat), Nat)
    BY NatLessThanWellFounded
  <1>2. PICK x \in S : \A y \in S : ~(<<y, x>> \in OpToRel(<, Nat))
    BY <1>1, WFMin
  <1>3. \A y \in S : ~(y < x)
    BY <1>2 DEF OpToRel
  <1>4. \A y \in S : x <= y
    BY <1>3
  <1> QED BY <1>4

\* consoleread takes some of what is there and returns, or takes all of it,
\* wants more and sleeps.
LEMMA ReadMoves ==
    ASSUME ConsoleConstants, IInv, NEW p \in Readers, ReadLoop(p)
    PROVE  \E k \in 0 .. Distance(r, w) :
              /\ r' = (r + k) % Wrap
              /\ UNCHANGED <<buf, w, e, doomed>>
              /\ \/ /\ at' = [at EXCEPT ![p] = "user"] /\ n' = [n EXCEPT ![p] = 0]
                    /\ target' = [target EXCEPT ![p] = 0]
                 \/ /\ k = Distance(r, w) /\ k < n[p]
                    /\ at' = [at EXCEPT ![p] = "sleep"] /\ n' = [n EXCEPT ![p] = n[p] - k]
                    /\ target' = [target EXCEPT ![p] = target[p]]
  <1> DEFINE last(m) == m = n[p] \/ Ready[m] \in {"nl", "eof"}
             ends  == {m \in 1 .. Len(Ready) : last(m)}
             m     == CHOOSE x \in ends : \A y \in ends : x <= y
             taken == IF ends = {} THEN Len(Ready)
                      ELSE IF Ready[m] = "eof" /\ n[p] - (m - 1) < target[p] THEN m - 1 ELSE m
             back  == ends # {} \/ doomed[p]
  <1>1. /\ at[p] = "read" /\ r' = (r + taken) % Wrap
        /\ at' = [at EXCEPT ![p] = IF back THEN "user" ELSE "sleep"]
        /\ n' = [n EXCEPT ![p] = IF back THEN 0 ELSE n[p] - taken]
        /\ target' = [target EXCEPT ![p] = IF back THEN 0 ELSE target[p]]
        /\ UNCHANGED <<buf, w, e, doomed>>
    BY DEF ReadLoop, Ready
  <1>2. Len(Ready) = Distance(r, w) /\ Distance(r, w) \in Nat
    BY Known, PartsAreSeqs
  <1>3. n[p] \in Nat /\ n[p] >= 1
    BY <1>1 DEF IInv, TypeOK, CallsOK
  <1>4. ends # {} => m \in 1 .. Distance(r, w)
    <2>1. ends \in SUBSET Nat
      BY <1>2
    <2>2. ends # {} => m \in ends
      BY <2>1, LeastIn
    <2> QED BY <1>2, <2>2
  <1>5. ends = {} => Distance(r, w) < n[p]
    <2>1. ends = {} => ~(n[p] \in 1 .. Distance(r, w))
      BY <1>2
    <2> QED BY <1>2, <1>3, <2>1
  <1> HIDE DEF ends, m
  <1>6. taken \in 0 .. Distance(r, w)
    BY <1>2, <1>4
  <1>7. ends = {} => taken = Distance(r, w)
    BY <1>2
  <1> HIDE DEF taken
  <1>8. CASE back
    <2>1. /\ at' = [at EXCEPT ![p] = "user"] /\ n' = [n EXCEPT ![p] = 0]
          /\ target' = [target EXCEPT ![p] = 0]
      BY <1>1, <1>8
    <2> QED BY <1>1, <1>6, <2>1
  <1>9. CASE ~back
    <2>1. /\ at' = [at EXCEPT ![p] = "sleep"] /\ n' = [n EXCEPT ![p] = n[p] - taken]
          /\ target' = [target EXCEPT ![p] = target[p]] /\ ends = {}
      BY <1>1, <1>9
    <2> QED BY <1>1, <1>5, <1>6, <1>7, <2>1
  <1> QED BY <1>8, <1>9

LEMMA StepReadLoop ==
    ASSUME ConsoleConstants, IInv, NEW p \in Readers, ReadLoop(p)
    PROVE  IInv' /\ LineStep
  <1>1. PICK k \in 0 .. Distance(r, w) :
           /\ r' = (r + k) % Wrap
           /\ UNCHANGED <<buf, w, e, doomed>>
           /\ \/ /\ at' = [at EXCEPT ![p] = "user"] /\ n' = [n EXCEPT ![p] = 0]
                 /\ target' = [target EXCEPT ![p] = 0]
              \/ /\ k = Distance(r, w) /\ k < n[p]
                 /\ at' = [at EXCEPT ![p] = "sleep"] /\ n' = [n EXCEPT ![p] = n[p] - k]
                 /\ target' = [target EXCEPT ![p] = target[p]]
    BY ReadMoves
  <1>2. /\ INPUT_BUF \in Nat \ {0} /\ Wrap \in Nat \ {0} /\ INPUT_BUF < Wrap
        /\ r \in 0 .. Wrap - 1 /\ w \in 0 .. Wrap - 1 /\ e \in 0 .. Wrap - 1 /\ buf \in Rings
        /\ Distance(r, w) \in Nat /\ Distance(w, e) \in Nat /\ Distance(r, w) + Distance(w, e) <= INPUT_BUF
        /\ w = (r + Distance(r, w)) % Wrap
    BY Known
  <1>3. r' \in 0 .. Wrap - 1 /\ Distance(r', w) = Distance(r, w) - k
    BY <1>1, <1>2, Shorten
  <1>4. Distance(r', w') = Distance(r, w) - k /\ Distance(w', e') = Distance(w, e)
    BY <1>1, <1>3
  <1>5. Distance(r', w') + Distance(w', e') <= INPUT_BUF /\ Distance(r', w') + Distance(w', e') < Wrap
    BY <1>2, <1>4
  <1>6. TypeOK'
    <2> DEFINE Places == {"user", "read", "sleep"}
    <2>0. at \in [Readers -> Places] /\ target \in [Readers -> Nat] /\ n \in [Readers -> Nat]
      BY DEF IInv, TypeOK
    <2>1. at' \in [Readers -> Places] /\ target' \in [Readers -> Nat]
      <3>1. target[p] \in Nat /\ 0 \in Nat /\ "user" \in Places /\ "sleep" \in Places
        BY <2>0
      <3> HIDE DEF Places
      <3> QED BY <1>1, <2>0, <3>1
    <2>2. n' \in [Readers -> Nat]
      <3>1. k < n[p] => n[p] - k \in Nat
        BY <1>2, <2>0
      <3> QED BY <1>1, <2>0, <3>1
    <2> QED BY <1>1, <1>3, <2>1, <2>2 DEF IInv, TypeOK
  <1>7. IndicesOK'
    BY <1>5 DEF IndicesOK, Distance
  <1>8. LineOpen'
    BY <1>1 DEF LineOpen, Distance, IInv
  <1>9. CallsOK'
    <2>1. k < n[p] => n[p] - k >= 1
      BY <1>2 DEF IInv, TypeOK
    <2> QED BY <1>1, <2>1 DEF IInv, TypeOK, CallsOK
  <1>10. ReadersAwake'
    <2>1. \A q \in Readers : at'[q] = "sleep" => r' = w'
      <3>1. CASE at' = [at EXCEPT ![p] = "user"]
        <4>1. r = w => r' = w'
          <5>1. r = w => k = 0
            BY <1>2, Known
          <5>2. (r + 0) % Wrap = r
            BY <1>2, NoAdvance
          <5> QED BY <1>1, <1>2, <5>1, <5>2
        <4> QED BY <3>1, <4>1 DEF ReadersAwake, IInv, TypeOK
      <3>2. CASE k = Distance(r, w)
        BY <1>1, <1>2, <3>2
      <3> QED BY <1>1, <3>1, <3>2
    <2>2. r' = w' => (e' - r') % Wrap < INPUT_BUF
      <3>1. CASE k = 0
        <4>1. (r + 0) % Wrap = r
          BY <1>2, NoAdvance
        <4>2. r' = r
          BY <1>1, <1>2, <3>1, <4>1
        <4> QED BY <1>1, <4>2 DEF ReadersAwake, IInv
      <3>2. CASE k > 0
        <4>1. Distance(w, e) < INPUT_BUF
          BY <1>2, <3>2
        <4>2. r' = w' => Distance(r', e') < INPUT_BUF
          BY <1>1, <4>1
        <4> QED BY <4>2 DEF Distance
      <3> QED BY <1>2, <3>1, <3>2
    <2> QED BY <2>1, <2>2 DEF ReadersAwake
  <1>11. LineStep
    <2>1. Line' = Line
      BY <1>1 DEF Line, Between
    <2>2. Ready' = SubSeq(Ready, k + 1, Len(Ready)) /\ Len(Ready) = Distance(r, w)
      <3>1. Ready' = Ring(Distance(r, w) - k, (r + k) % Wrap, buf)
        BY <1>1, <1>4, PartsAreRings
      <3>2. Ring(Distance(r, w) - k, (r + k) % Wrap, buf) = SubSeq(Ring(Distance(r, w), r, buf), k + 1, Distance(r, w))
        BY <1>2, RingSuffix
      <3>3. Len(Ready) = Distance(r, w)
        BY PartsAreSeqs
      <3> QED BY <3>1, <3>2, <3>3, PartsAreRings
    <2>3. CASE k = 0
      <3>1. (r + 0) % Wrap = r
        BY <1>2, NoAdvance
      <3>2. r' = r
        BY <1>1, <1>2, <2>3, <3>1
      <3>3. Ready' = Ready
        BY <1>1, <3>2 DEF Ready, Between
      <3> QED BY <2>1, <3>3 DEF LineStep, Lines!vars, Ready, Line
    <2>4. CASE k > 0
      <3>1. k \in 1 .. Len(Ready)
        BY <1>2, <2>2, <2>4
      <3>2. Lines!Take
        BY <2>1, <2>2, <3>1 DEF Lines!Take, Ready, Line
      <3> QED BY <3>2 DEF LineStep, Lines!Next
    <2> QED BY <1>2, <2>3, <2>4
  <1> QED BY <1>6, <1>7, <1>8, <1>9, <1>10, <1>11 DEF IInv

\* The steps that leave the ring alone.
LEMMA StepOther ==
    ASSUME ConsoleConstants, IInv, NEW p \in Readers,
           (\E size \in Sizes : ConsoleRead(p, size)) \/ KillReader(p) \/ ExitReader(p)
    PROVE  IInv' /\ LineStep
  <1>1. UNCHANGED <<buf, r, w, e>>
    BY DEF ConsoleRead, KillReader, ExitReader, input
  <1>2. TypeOK'
    BY DEF ConsoleRead, KillReader, ExitReader, input, IInv, TypeOK, ConsoleConstants
  <1>3. IndicesOK' /\ LineOpen'
    BY <1>1 DEF IInv, IndicesOK, LineOpen, Distance
  <1>4. CallsOK'
    BY DEF ConsoleRead, KillReader, ExitReader, CallsOK, IInv, TypeOK, ConsoleConstants
  <1>5. ReadersAwake'
    <2>1. \A q \in Readers : at'[q] = "sleep" => at[q] = "sleep"
      BY DEF ConsoleRead, KillReader, ExitReader, IInv, TypeOK
    <2> QED BY <1>1, <2>1 DEF ReadersAwake, IInv
  <1>6. LineStep
    BY <1>1 DEF LineStep, Lines!vars, Between
  <1> QED BY <1>2, <1>3, <1>4, <1>5, <1>6 DEF IInv

LEMMA InitIInv == ASSUME ConsoleConstants, Init PROVE IInv /\ Lines!Init
  <1>1. INPUT_BUF \in Nat \ {0} /\ Wrap \in Nat \ {0} /\ 0 \in 0 .. Wrap - 1
    BY DEF ConsoleConstants
  <1>2. Distance(0, 0) = 0
    BY <1>1, Distances
  <1>3. r = 0 /\ w = 0 /\ e = 0
    BY DEF Init
  <1>4. TypeOK
    BY <1>1 DEF Init, TypeOK, Chars
  <1>5. IndicesOK /\ LineOpen /\ CallsOK
    BY <1>1, <1>2, <1>3 DEF Init, IndicesOK, LineOpen, CallsOK
  <1>6. ReadersAwake
    BY <1>1, <1>2, <1>3 DEF Init, ReadersAwake, Distance
  <1>7. Ready = <<>> /\ Line = <<>>
    <2>1. buf \in Rings /\ 0 \in Int
      BY <1>4 DEF TypeOK, Rings
    <2> QED BY <1>2, <1>3, <2>1, EmptyRing, PartsAreRings
  <1> QED BY <1>4, <1>5, <1>6, <1>7 DEF IInv, Lines!Init, Ready, Line

LEMMA StepIInv == ASSUME ConsoleConstants, IInv, [Next]_vars PROVE IInv' /\ LineStep
  <1>1. CASE UNCHANGED vars
    BY <1>1 DEF vars, input, IInv, TypeOK, IndicesOK, LineOpen, CallsOK, ReadersAwake, Distance, LineStep, Lines!vars, Between
  <1>2. CASE Next
    BY <1>2, StepKey, StepBackspace, StepKillLine, StepReadLoop, StepOther DEF Next
  <1> QED BY <1>1, <1>2

-----------------------------------------------------------------------------
(***************************************************************************)
(* The theorems.                                                           *)
(***************************************************************************)

\* The indices, the ring and the calls of consoleread keep their types.
THEOREM ConsoleTypes == ConsoleConstants => (Spec => []TypeOK)
  <1> SUFFICES ASSUME ConsoleConstants PROVE Spec => []TypeOK
    OBVIOUS
  <1>1. Init => IInv
    BY InitIInv
  <1>2. IInv /\ [Next]_vars => IInv'
    BY StepIInv
  <1>3. IInv => TypeOK
    BY DEF IInv
  <1> QED BY <1>1, <1>2, <1>3, PTL DEF Spec

\* No reader sleeps beside a completed line, and a full ring can always be
\* emptied: consoleintr completes the line when it stores in the last place.
THEOREM ConsoleReadersAwake == ConsoleConstants => (Spec => []ReadersAwake)
  <1> SUFFICES ASSUME ConsoleConstants PROVE Spec => []ReadersAwake
    OBVIOUS
  <1>1. Init => IInv
    BY InitIInv
  <1>2. IInv /\ [Next]_vars => IInv'
    BY StepIInv
  <1>3. IInv => ReadersAwake
    BY DEF IInv
  <1> QED BY <1>1, <1>2, <1>3, PTL DEF Spec

\* The ring of console.c with its three wrapping indices implements LineInput:
\* editing stays within the line, completed lines are taken from the front
\* only, and nothing is overwritten before it is read.
THEOREM ConsoleImplementsLineInput == ConsoleConstants => (Spec => ConsoleIsLineInput)
  <1> SUFFICES ASSUME ConsoleConstants PROVE Spec => ConsoleIsLineInput
    OBVIOUS
  <1>1. Init => IInv /\ Lines!Init
    BY InitIInv
  <1>2. IInv /\ [Next]_vars => IInv' /\ [Lines!Next]_Lines!vars
    BY StepIInv DEF LineStep
  <1> QED BY <1>1, <1>2, PTL DEF Spec, ConsoleIsLineInput, Lines!Spec
=============================================================================
