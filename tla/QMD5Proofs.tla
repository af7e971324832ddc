------------------------------ MODULE QMD5Proofs ------------------------------
(***************************************************************************)
(* Proofs about the streaming of MD5, for any size of blocks and words and *)
(* any message cut into any pieces.                                        *)
(***************************************************************************)
EXTENDS QMD5Props, SequenceTheorems, TLAPS

-------------------------------------------------------------------------------
(* Arithmetic.                                                             *)

\* Quotient and rest are unique.
LEMMA DivMod ==
  ASSUME NEW b \in Nat \ {0}, NEW q \in Int, NEW r \in 0..(b - 1), NEW x, x = b * q + r
  PROVE  x \div b = q /\ x % b = r
<1> DEFINE p == x \div b
           s == x % b
<1>1. x \in Int /\ p \in Int /\ s \in 0..(b - 1) /\ x = b * p + s
  OBVIOUS
<1> HIDE DEF p, s
<1>2. b * (p - q) = r - s
  BY <1>1
<1>3. CASE p - q >= 1
  <2>1. b * (p - q) >= b
    BY <1>1, <1>3
  <2>2. QED BY <1>1, <1>2, <2>1
<1>4. CASE q - p >= 1
  <2>1. b * (q - p) >= b
    BY <1>1, <1>4
  <2>2. b * (p - q) = -(b * (q - p))
    BY <1>1
  <2>3. QED BY <1>1, <1>2, <2>1, <2>2
<1>5. CASE p = q
  BY <1>1, <1>5 DEF p, s
<1>6. QED BY <1>1, <1>3, <1>4, <1>5

\* Every number is a multiple of b and a rest.
LEMMA Division ==
  ASSUME NEW b \in Nat \ {0}, NEW x \in Int
  PROVE  x \div b \in Int /\ x % b \in 0..(b - 1) /\ x = b * (x \div b) + (x % b)
OBVIOUS

LEMMA Distributes ==
  ASSUME NEW a \in Int, NEW b \in Int, NEW c \in Int
  PROVE  a * (b + c) = a * b + a * c /\ a * b = b * a /\ a * b \in Int
OBVIOUS

LEMMA Associates ==
  ASSUME NEW a \in Int, NEW b \in Int, NEW c \in Int
  PROVE  a * (b * c) = (a * b) * c
OBVIOUS

\* Products keep the order.
LEMMA Monotone ==
  ASSUME NEW a \in Nat, NEW b \in Int, NEW c \in Int, b <= c
  PROVE  a * b <= a * c
<1>1. c - b \in Nat
  OBVIOUS
<1>2. a * (c - b) \in Nat
  BY <1>1
<1>3. a * (b + (c - b)) = a * b + a * (c - b) /\ a * b \in Int
  BY <1>1, Distributes
<1>4. b + (c - b) = c
  OBVIOUS
<1>5. QED BY <1>2, <1>3, <1>4

LEMMA Rest ==
  ASSUME NEW b \in Nat \ {0}, NEW x \in Nat
  PROVE  \E q \in Nat, r \in 0..(b - 1) : x = b * q + r /\ r = x % b
<1>1. PICK q \in Int, r \in 0..(b - 1) : q = x \div b /\ r = x % b
  BY Division
<1>2. x = b * q + r
  BY <1>1, Division
<1>3. q >= 0
  <2>1. SUFFICES ASSUME q <= -1 PROVE FALSE
    OBVIOUS
  <2>2. b * q <= b * (-1)
    BY <2>1, Monotone
  <2>3. b * (-1) = -b /\ b * q \in Int
    BY Z3
  <2>4. QED BY <1>2, <2>2, <2>3
<1>4. q \in Nat /\ x = b * q + r /\ r = x % b
  BY <1>1, <1>2, <1>3
<1>5. QED BY <1>4

\* What is a multiple of b does not change the rest.
LEMMA ModAdd ==
  ASSUME NEW b \in Nat \ {0}, NEW x \in Int, NEW m \in Int
  PROVE  (x + b * m) % b = x % b /\ (x + b * m) \div b = x \div b + m
<1>1. PICK q \in Int, r \in 0..(b - 1) : x = b * q + r /\ r = x % b /\ q = x \div b
  BY Division
<1>2. b * (q + m) = b * q + b * m /\ b * q \in Int /\ b * m \in Int
  BY Distributes
<1>3. x + b * m = b * (q + m) + r /\ q + m \in Int
  BY <1>1, <1>2
<1>4. (x + b * m) \div b = q + m /\ (x + b * m) % b = r
  BY <1>3, DivMod
<1>5. QED BY <1>1, <1>4

-------------------------------------------------------------------------------
(* The two words of count.                                                 *)

\* The sizes: the length fits into a block, and a word counts whole blocks.
LEMMA Sizes ==
  /\ QMD5_BLOCK_LENGTH \in Nat \ {0} /\ BitsLen \in Nat \ {0}
  /\ BitsLen < QMD5_BLOCK_LENGTH
  /\ \E k \in Nat \ {0} : Word = 8 * (QMD5_BLOCK_LENGTH * k)
<1>1. /\ QMD5_BLOCK_LENGTH \in Nat \ {0} /\ BitsLen \in Nat \ {0}
      /\ BitsLen < QMD5_BLOCK_LENGTH
  BY QMD5Assumption DEF BitsLen
<1>2. Word \in Nat \ {0} /\ Word % (8 * QMD5_BLOCK_LENGTH) = 0
  BY QMD5Assumption, PowerAssumption
<1>3. PICK k \in Int : Word = (8 * QMD5_BLOCK_LENGTH) * k
  <2>1. PICK b \in Nat \ {0} : b = 8 * QMD5_BLOCK_LENGTH
    BY <1>1
  <2>2. Word = b * (Word \div b) + (Word % b) /\ Word \div b \in Int
    BY <1>2, Division
  <2>3. Word % b = 0
    BY <1>2, <2>1
  <2>4. b * (Word \div b) \in Int
    BY <2>2
  <2>5. Word = b * (Word \div b)
    BY <2>2, <2>3, <2>4
  <2>6. QED BY <2>1, <2>2, <2>5
<1>4. Word = 8 * (QMD5_BLOCK_LENGTH * k)
  BY <1>1, <1>3, Associates
<1>5. k >= 1
  <2>1. SUFFICES ASSUME k <= 0 PROVE FALSE
    BY <1>3
  <2>2. QMD5_BLOCK_LENGTH * k <= QMD5_BLOCK_LENGTH * 0
    BY <1>1, <2>1, Monotone
  <2>3. QMD5_BLOCK_LENGTH * k \in Int
    BY <1>1
  <2>4. QED BY <1>1, <1>2, <1>4, <2>2, <2>3
<1>6. QED BY <1>1, <1>4, <1>5

\* count is the number of bits of len bytes.
IsCount(count, len) ==
  /\ count \in [0..1 -> 0..(Word - 1)]
  /\ count[0] + Word * count[1] = (8 * len) % (Word * Word)

\* The bits of the message, up to what overflows the two words.
LEMMA BitsOf ==
  ASSUME NEW count, NEW len \in Nat, IsCount(count, len)
  PROVE  /\ count[0] \in 0..(Word - 1) /\ count[1] \in 0..(Word - 1)
         /\ \E q \in Int : 8 * len = count[0] + Word * (count[1] + Word * q)
<1>1. Word \in Nat \ {0}
  BY PowerAssumption
<1>2. count[0] \in 0..(Word - 1) /\ count[1] \in 0..(Word - 1)
  BY DEF IsCount
<1>3. PICK b \in Nat \ {0} : b = Word * Word
  BY <1>1
<1>4. PICK x \in Int : x = 8 * len
  OBVIOUS
<1>5. PICK q \in Int : q = x \div b
  BY Division
<1>6. x = b * q + (x % b) /\ b * q \in Int
  BY <1>5, Division
<1>7. x % b = count[0] + Word * count[1]
  BY <1>3, <1>4 DEF IsCount
<1>8. b * q = Word * (Word * q) /\ Word * q \in Int
  BY <1>1, <1>3, Associates
<1>9. Word * (count[1] + Word * q) = Word * count[1] + Word * (Word * q)
  BY <1>1, <1>2, <1>8, Distributes
<1>10. Word * count[1] \in Int
  BY <1>1, <1>2
<1>11. x = count[0] + Word * (count[1] + Word * q)
  BY <1>2, <1>6, <1>7, <1>8, <1>9, <1>10
<1>12. QED BY <1>2, <1>4, <1>11

\* The index of the next byte in the buffer.
LEMMA IdxIsRest ==
  ASSUME NEW count, NEW len \in Nat, IsCount(count, len)
  PROVE  Idx(count) = len % QMD5_BLOCK_LENGTH
<1>1. PICK b \in Nat \ {0} : b = QMD5_BLOCK_LENGTH
  BY Sizes
<1>2. PICK k \in Nat \ {0} : Word = 8 * (b * k)
  BY <1>1, Sizes
<1>3. PICK q \in Int : 8 * len = count[0] + Word * (count[1] + Word * q)
  BY BitsOf
<1>4. count[0] \in Int /\ count[1] \in Int /\ Word \in Int
  BY BitsOf, PowerAssumption
<1>5. PICK t \in Int : t = count[1] + Word * q
  BY <1>4
<1>6. PICK m \in Int : m = k * t
  OBVIOUS
<1>7. Word * t = 8 * (b * m)
  <2>1. PICK c \in Int : c = b * k
    OBVIOUS
  <2>2. Word * t = (8 * c) * t
    BY <1>2, <2>1
  <2>3. (8 * c) * t = 8 * (c * t)
    BY Associates
  <2>4. c * t = b * m
    BY <1>6, <2>1, Associates
  <2>5. QED BY <2>2, <2>3, <2>4
<1>8. count[0] = 8 * (len - b * m) + 0 /\ b * m \in Int
  <2>1. PICK y \in Int : y = b * m
    OBVIOUS
  <2>2. 8 * len = count[0] + Word * t
    BY <1>3, <1>5
  <2>3. 8 * len = count[0] + 8 * y
    BY <1>7, <2>1, <2>2
  <2>4. count[0] = 8 * (len - y) + 0
    BY <1>4, <2>3
  <2>5. QED BY <2>1, <2>4
<1>9. count[0] \div 8 = len - b * m
  <2>1. PICK z \in Int : z = len - b * m
    BY <1>8
  <2>2. count[0] = 8 * z + 0
    BY <1>8, <2>1
  <2>3. count[0] \div 8 = z
    BY <2>2, DivMod
  <2>4. QED BY <2>1, <2>3
<1>10. PICK n \in Int : n = -m
  OBVIOUS
<1>11. len - b * m = len + b * n
  BY <1>10
<1>12. (len + b * n) % b = len % b
  <2>1. len \in Int
    OBVIOUS
  <2>2. QED BY <2>1, ModAdd
<1>13. QED BY <1>1, <1>9, <1>11, <1>12 DEF Idx

\* The carry: adding the lower words wraps around exactly if the sum is less than
\* what was added.
LEMMA Carry ==
  ASSUME NEW w \in Nat \ {0}, NEW x \in 0..(w - 1), NEW y \in 0..(w - 1)
  PROVE  LET low == (x + y) % w
         IN  low \in 0..(w - 1) /\ x + y = low + w * (IF low < y THEN 1 ELSE 0)
<1>1. CASE x + y < w
  <2>1. PICK r \in 0..(w - 1) : r = x + y
    BY <1>1
  <2>2. x + y = w * 0 + r
    BY <2>1
  <2>3. (x + y) % w = r
    BY <2>2, DivMod
  <2>4. ~(r < y)
    BY <2>1
  <2>5. QED BY <2>2, <2>3, <2>4
<1>2. CASE x + y >= w
  <2>1. PICK r \in 0..(w - 1) : r = x + y - w
    BY <1>2
  <2>2. x + y = w * 1 + r
    BY <2>1
  <2>3. (x + y) % w = r
    BY <2>2, DivMod
  <2>4. r < y
    BY <2>1
  <2>5. QED BY <2>2, <2>3, <2>4
<1>3. QED BY <1>1, <1>2

\* The bits of n bytes, as QMD5Update splits them on the two words.
LEMMA BitsSplit ==
  ASSUME NEW n \in Nat
  PROVE  LET bits == (8 * n) % Word
             high == n \div (Word \div 8)
         IN  /\ bits \in 0..(Word - 1) /\ high \in Int
             /\ 8 * n = bits + Word * high
<1>1. PICK e \in Nat \ {0} : Word = 8 * e
  <2>1. PICK k \in Nat \ {0} : Word = 8 * (QMD5_BLOCK_LENGTH * k)
    BY Sizes
  <2>2. QMD5_BLOCK_LENGTH * k \in Nat
    BY Sizes
  <2>3. QMD5_BLOCK_LENGTH * k # 0
    BY <2>1, <2>2, PowerAssumption
  <2>4. QED BY <2>1, <2>2, <2>3
<1>2. Word \div 8 = e
  <2>1. Word = 8 * e + 0 /\ e \in Int
    BY <1>1
  <2>2. QED BY <2>1, DivMod
<1>3. PICK h \in Int : h = n \div e
  BY <1>1, Division
<1>4. n = e * h + (n % e) /\ n % e \in 0..(e - 1)
  BY <1>1, <1>3, Division
<1>5. PICK r \in 0..(Word - 1) : r = 8 * (n % e)
  BY <1>1, <1>4
<1>6. 8 * n = Word * h + r
  <2>1. PICK y \in Int : y = e * h
    BY <1>1
  <2>2. Word * h = 8 * y
    BY <1>1, <2>1, Associates
  <2>3. 8 * n = 8 * y + r
    BY <1>1, <1>4, <1>5, <2>1
  <2>4. QED BY <2>2, <2>3
<1>7. (8 * n) % Word = r
  <2>1. PICK x \in Int : x = 8 * n
    OBVIOUS
  <2>2. x = Word * h + r /\ Word \in Nat \ {0}
    BY <1>6, <2>1, PowerAssumption
  <2>3. x % Word = r
    BY <2>2, DivMod
  <2>4. QED BY <2>1, <2>3
<1>8. 8 * n = r + Word * h
  <2>1. PICK y \in Int : y = Word * h
    BY <1>1
  <2>2. QED BY <1>6, <2>1
<1>9. QED BY <1>2, <1>3, <1>7, <1>8

\* QMD5Update counts the bytes it is given, with the carry.
LEMMA CountedIsCount ==
  ASSUME NEW count, NEW len \in Nat, NEW n \in Nat, IsCount(count, len)
  PROVE  IsCount(Counted(count, n), len + n)
<1>1. PICK w \in Nat \ {0} : w = Word
  BY PowerAssumption
<1>2. PICK c0 \in 0..(w - 1), c1 \in 0..(w - 1), q \in Int :
         /\ c0 = count[0] /\ c1 = count[1]
         /\ 8 * len = c0 + w * (c1 + w * q)
  <2>1. /\ count[0] \in 0..(Word - 1) /\ count[1] \in 0..(Word - 1)
        /\ \E q \in Int : 8 * len = count[0] + Word * (count[1] + Word * q)
    BY BitsOf
  <2>2. QED BY <1>1, <2>1
<1>3. PICK bits \in 0..(w - 1), high \in Int :
         /\ bits = (8 * n) % Word /\ high = n \div (Word \div 8)
         /\ 8 * n = bits + w * high
  BY <1>1, BitsSplit
<1>4. PICK low \in 0..(w - 1), carry \in Int :
         /\ low = (count[0] + bits) % Word
         /\ carry = IF low < bits THEN 1 ELSE 0
         /\ c0 + bits = low + w * carry
  <2>1. PICK low \in 0..(w - 1) : low = (c0 + bits) % w
    BY <1>1, Carry
  <2>2. c0 + bits = low + w * (IF low < bits THEN 1 ELSE 0)
    BY <2>1, Carry
  <2>3. QED BY <1>1, <1>2, <2>1, <2>2
<1>5. PICK sum \in Int : sum = c1 + carry + high
  OBVIOUS
<1>6. PICK up \in 0..(w - 1), u \in Int : up = sum % w /\ sum = w * u + up
  <2>1. /\ sum \div w \in Int /\ sum % w \in 0..(w - 1)
        /\ sum = w * (sum \div w) + (sum % w)
    BY Division
  <2>2. QED BY <2>1
<1>7. Counted(count, n) = [i \in 0..1 |-> IF i = 0 THEN low ELSE up]
  BY <1>1, <1>2, <1>3, <1>4, <1>5, <1>6 DEF Counted
<1>8. 8 * (len + n) = (w * w) * (q + u) + (low + w * up)
  <2>1. PICK x \in Int, a \in Int, b \in Int, c \in Int, d \in Int :
           /\ x = w * q /\ a = w * c1 /\ b = w * x /\ c = w * carry /\ d = w * high
    OBVIOUS
  <2>2. 8 * len = c0 + a + b
    BY <1>2, <2>1, Distributes
  <2>3. 8 * len + 8 * n = low + (a + c + d) + b
    BY <1>3, <1>4, <2>1, <2>2
  <2>4. w * sum = a + c + d
    <3>1. w * (c1 + carry) = a + c
      BY <2>1, Distributes
    <3>2. w * ((c1 + carry) + high) = w * (c1 + carry) + d
      BY <2>1, Distributes
    <3>3. QED BY <1>5, <3>1, <3>2
  <2>5. PICK y \in Int, e \in Int, f \in Int : y = w * u /\ e = w * y /\ f = w * up
    OBVIOUS
  <2>6. w * sum = e + f
    BY <1>6, <2>5, Distributes
  <2>7. (w * w) * (q + u) = b + e
    <3>1. (w * w) * (q + u) = w * (w * (q + u))
      BY Associates
    <3>2. w * (q + u) = x + y
      BY <2>1, <2>5, Distributes
    <3>3. w * (x + y) = b + e
      BY <2>1, <2>5, Distributes
    <3>4. QED BY <3>1, <3>2, <3>3
  <2>8. QED BY <2>3, <2>4, <2>5, <2>6, <2>7
<1>9. low + w * up \in 0..(w * w - 1)
  <2>1. w * up \in Nat
    BY <1>1
  <2>2. w * up <= w * (w - 1)
    BY Monotone
  <2>3. w * (w - 1) = w * w - w
    BY Z3
  <2>4. w * w \in Int
    OBVIOUS
  <2>5. QED BY <2>1, <2>2, <2>3, <2>4
<1>10. (8 * (len + n)) % (w * w) = low + w * up
  <2>1. PICK b \in Nat \ {0} : b = w * w
    OBVIOUS
  <2>2. PICK r \in 0..(b - 1), m \in Int, z \in Int :
           r = low + w * up /\ m = q + u /\ z = 8 * (len + n)
    BY <1>9, <2>1
  <2>3. z = b * m + r
    BY <1>8, <2>1, <2>2
  <2>4. z % b = r
    BY <2>3, DivMod
  <2>5. QED BY <2>1, <2>2, <2>4
<1>11. QED
  <2>1. [i \in 0..1 |-> IF i = 0 THEN low ELSE up] \in [0..1 -> 0..(w - 1)]
    OBVIOUS
  <2>2. Counted(count, n)[0] = low /\ Counted(count, n)[1] = up
    BY <1>7
  <2>3. QED BY <1>1, <1>7, <1>10, <2>1, <2>2 DEF IsCount

-------------------------------------------------------------------------------
(* QMD5Update appends to the message.                                      *)

\* The least element of a set of numbers, where one is known to be.
LEMMA MinIs ==
  ASSUME NEW S \in SUBSET Int, NEW m \in S, \A x \in S : m <= x
  PROVE  Min(S) = m
<1>1. Min(S) \in S /\ \A x \in S : Min(S) <= x
  BY DEF Min
<1>2. Min(S) \in Int /\ m \in Int /\ Min(S) <= m /\ m <= Min(S)
  BY <1>1
<1>3. QED BY <1>2

\* The loop compresses whole blocks, and leaves less than one.
LEMMA LoopEndIs ==
  ASSUME NEW from \in 1..QMD5_BLOCK_LENGTH, NEW len \in Nat, from <= len
  PROVE  \E k \in Nat : /\ LoopEnd(from, len) = from + QMD5_BLOCK_LENGTH * k
                        /\ LoopEnd(from, len) \in from..len
                        /\ len - LoopEnd(from, len) < QMD5_BLOCK_LENGTH
<1>1. PICK b \in Nat \ {0} : b = QMD5_BLOCK_LENGTH
  BY Sizes
<1>2. PICK d \in Nat : d = len - from
  OBVIOUS
<1>3. PICK k \in Int : k = d \div b
  OBVIOUS
<1>4. d = b * k + (d % b) /\ d % b \in 0..(b - 1)
  BY <1>3, Division
<1>5. k \in 0..len
  <2>1. k >= 0
    <3>1. SUFFICES ASSUME k <= -1 PROVE FALSE
      OBVIOUS
    <3>2. b * k <= b * (-1)
      BY <3>1, Monotone
    <3>3. b * (-1) = -b /\ b * k \in Int
      BY Z3
    <3>4. QED BY <1>4, <3>2, <3>3
  <2>2. k <= b * k
    <3>1. k * 1 <= k * b
      BY <2>1, Monotone
    <3>2. QED BY <3>1
  <2>3. b * k <= d
    BY <1>4
  <2>4. b * k \in Int
    OBVIOUS
  <2>5. QED BY <1>2, <2>1, <2>2, <2>3, <2>4
<1>6. PICK e \in Int : e = from + b * k
  OBVIOUS
<1>7. e \in from..len /\ len - e < b
  <2>1. PICK y \in Int, r \in 0..(b - 1) : y = b * k /\ r = d % b
    BY <1>4
  <2>2. y >= 0
    BY <1>5, <2>1
  <2>3. QED BY <1>2, <1>4, <1>6, <2>1, <2>2
<1> DEFINE S == {i \in {from + QMD5_BLOCK_LENGTH * j : j \in 0..len} :
                   ~(i + (QMD5_BLOCK_LENGTH - 1) < len)}
<1>8. S \in SUBSET Int
  BY <1>1
<1>9. e \in S
  BY <1>1, <1>5, <1>6, <1>7
<1>10. ASSUME NEW x \in S PROVE e <= x
  <2>1. PICK j \in 0..len : x = from + b * j
    BY <1>1
  <2>2. x \in Int /\ x + (b - 1) >= len
    BY <1>1, <2>1
  <2>3. SUFFICES ASSUME x < e PROVE FALSE
    BY <2>2
  <2>4. j <= k - 1
    <3>1. SUFFICES ASSUME k <= j PROVE FALSE
      BY <1>5, <2>1
    <3>2. b * k <= b * j
      BY <3>1, <1>5, Monotone
    <3>3. b * k \in Int /\ b * j \in Int
      OBVIOUS
    <3>4. QED BY <1>6, <2>1, <2>3, <3>2, <3>3
  <2>5. b * j <= b * (k - 1)
    BY <2>4, Monotone
  <2>6. b * (k - 1) = b * k - b /\ b * k \in Int /\ b * j \in Int
    BY Z3
  <2>7. QED BY <1>6, <1>7, <2>1, <2>2, <2>5, <2>6
<1>11. Min(S) = e
  BY <1>8, <1>9, <1>10, MinIs
<1>12. LoopEnd(from, len) = e
  BY <1>11 DEF LoopEnd
<1>13. QED BY <1>1, <1>5, <1>6, <1>7, <1>12

\* The bytes that are stored.
Stored == Byte \ {Stale}

\* The bytes of a message behind the whole blocks, and those in them.
Behind(m) == Len(m) % QMD5_BLOCK_LENGTH
Whole(m) == Len(m) - Behind(m)

\* The new rest, by the number of blocks that were filled.
LEMMA NewWhole ==
  ASSUME NEW m \in Seq(Stored), NEW input \in Seq(Stored),
         NEW k \in Int, NEW rest \in 0..(QMD5_BLOCK_LENGTH - 1),
         Behind(m) + Len(input) = QMD5_BLOCK_LENGTH * k + rest
  PROVE  /\ Behind(m \o input) = rest
         /\ Whole(m \o input) = Whole(m) + QMD5_BLOCK_LENGTH * k
<1>1. PICK b \in Nat \ {0} : b = QMD5_BLOCK_LENGTH
  BY Sizes
<1>2. PICK len \in Nat, n \in Nat : len = Len(m) /\ n = Len(input)
  OBVIOUS
<1>3. Len(m \o input) = len + n
  BY <1>2, ConcatProperties
<1>4. PICK q \in Nat, idx \in 0..(b - 1) : len = b * q + idx /\ idx = len % b
  BY Rest
<1>5. PICK x \in Int, y \in Int : x = b * q /\ y = b * k
  OBVIOUS
<1>6. b * (q + k) = x + y
  BY <1>5, Distributes
<1>7. PICK z \in Int : z = q + k
  OBVIOUS
<1>8. len + n = b * z + rest
  <2>1. idx + n = y + rest /\ len = x + idx
    BY <1>1, <1>2, <1>4, <1>5 DEF Behind
  <2>2. len + n = x + y + rest
    BY <1>1, <2>1
  <2>3. QED BY <1>6, <1>7, <2>2
<1>9. (len + n) % b = rest
  <2>1. PICK t \in Int : t = len + n
    OBVIOUS
  <2>2. t = b * z + rest /\ rest \in 0..(b - 1)
    BY <1>1, <1>8, <2>1
  <2>3. t % b = rest
    BY <2>2, DivMod
  <2>4. QED BY <2>1, <2>3
<1>10. Whole(m) = x
  BY <1>1, <1>2, <1>4, <1>5 DEF Whole, Behind
<1>11. Whole(m \o input) = x + y
  BY <1>1, <1>3, <1>6, <1>7, <1>8, <1>9 DEF Whole, Behind
<1>12. QED BY <1>1, <1>3, <1>5, <1>9, <1>10, <1>11 DEF Behind

\* The whole blocks and the rest.
LEMMA WholeAndRest ==
  ASSUME NEW m \in Seq(Stored)
  PROVE  /\ Behind(m) \in 0..(QMD5_BLOCK_LENGTH - 1)
         /\ Whole(m) \in Nat
         /\ Len(m) = Whole(m) + Behind(m)
<1>1. PICK b \in Nat \ {0} : b = QMD5_BLOCK_LENGTH
  BY Sizes
<1>2. PICK len \in Nat : len = Len(m)
  OBVIOUS
<1>3. PICK q \in Nat, r \in 0..(b - 1) : len = b * q + r /\ r = len % b
  BY Rest
<1>4. PICK x \in Nat : x = b * q
  OBVIOUS
<1>5. Len(m) = x + r /\ Behind(m) = r
  BY <1>1, <1>2, <1>3, <1>4 DEF Behind
<1>6. QED BY <1>1, <1>5 DEF Whole, Behind

\* The parts of a concatenation.
LEMMA Concat ==
  ASSUME NEW S, NEW s \in Seq(S), NEW t \in Seq(S)
  PROVE  /\ s \o t \in Seq(S) /\ Len(s \o t) = Len(s) + Len(t)
         /\ \A p \in 1..Len(s) : (s \o t)[p] = s[p]
         /\ \A p \in 1..Len(t) : (s \o t)[Len(s) + p] = t[p]
<1>1. /\ s \o t \in Seq(S)
      /\ Len(s \o t) = Len(s) + Len(t)
      /\ \A p \in 1..(Len(s) + Len(t)) :
             (s \o t)[p] = IF p <= Len(s) THEN s[p] ELSE t[p - Len(s)]
    BY ConcatProperties
<1>2. Len(s) \in Nat /\ Len(t) \in Nat
  OBVIOUS
<1>3. ASSUME NEW p \in 1..Len(s) PROVE (s \o t)[p] = s[p]
  BY <1>1, <1>2
<1>4. ASSUME NEW p \in 1..Len(t) PROVE (s \o t)[Len(s) + p] = t[p]
  <2>1. PICK q \in 1..(Len(s) + Len(t)) :
           q = Len(s) + p /\ ~(q <= Len(s)) /\ p = q - Len(s)
    BY <1>2
  <2>2. (s \o t)[q] = t[q - Len(s)]
    BY <1>1, <2>1
  <2>3. QED BY <2>1, <2>2
<1>5. QED BY <1>1, <1>3, <1>4

\* The bytes behind the first i of them.
LEMMA Slice ==
  ASSUME NEW S, NEW s \in Seq(S), NEW i \in Nat, NEW j \in i..Len(s)
  PROVE  /\ SubSeq(s, i + 1, j) \in Seq(S) /\ Len(SubSeq(s, i + 1, j)) = j - i
         /\ \A p \in 1..(j - i) : SubSeq(s, i + 1, j)[p] = s[i + p]
OBVIOUS

\* s is the n elements of M behind the first at of them.
Part(s, n, M, at) ==
  /\ s \in Seq(Stored) /\ Len(s) = n
  /\ \A p \in 1..n : s[p] = M[at + p]

\* So are the bytes in the buffer below the index n.
Buffered(buffer, n, M, at) ==
  /\ buffer \in [1..QMD5_BLOCK_LENGTH -> Byte]
  /\ \A j \in 1..n : buffer[j] = M[at + j]

\* Adjacent parts together are a part.
LEMMA TwoParts ==
  ASSUME NEW M, NEW at \in Nat, NEW a \in Nat, NEW b \in Nat, NEW s, NEW t,
         Part(s, a, M, at), Part(t, b, M, at + a)
  PROVE  Part(s \o t, a + b, M, at)
<1>1. /\ s \in Seq(Stored) /\ Len(s) = a /\ \A p \in 1..a : s[p] = M[at + p]
      /\ t \in Seq(Stored) /\ Len(t) = b /\ \A p \in 1..b : t[p] = M[at + a + p]
  BY DEF Part
<1>2. /\ s \o t \in Seq(Stored) /\ Len(s \o t) = Len(s) + Len(t)
      /\ \A p \in 1..Len(s) : (s \o t)[p] = s[p]
      /\ \A p \in 1..Len(t) : (s \o t)[Len(s) + p] = t[p]
  <2>1. s \in Seq(Stored) /\ t \in Seq(Stored)
    BY <1>1
  <2>2. QED BY <2>1, Concat
<1>3. PICK w : /\ w = s \o t /\ w \in Seq(Stored) /\ Len(w) = a + b
               /\ \A p \in 1..a : w[p] = s[p]
               /\ \A p \in 1..b : w[a + p] = t[p]
  BY <1>1, <1>2
<1>4. ASSUME NEW p \in 1..(a + b) PROVE w[p] = M[at + p]
  <2>1. CASE p <= a
    <3>1. p \in 1..a
      BY <2>1
    <3>2. QED BY <1>1, <1>3, <3>1
  <2>2. CASE p > a
    <3>1. p - a \in 1..b /\ a + (p - a) = p /\ at + a + (p - a) = at + p
      BY <2>2
    <3>2. w[p] = t[p - a]
      BY <1>3, <3>1
    <3>3. QED BY <1>1, <3>1, <3>2
  <2>3. QED BY <2>1, <2>2
<1>5. QED BY <1>3, <1>4 DEF Part

\* A part of a part.
LEMMA PartOfPart ==
  ASSUME NEW m, NEW M, NEW a \in Nat, NEW c \in Nat, a <= c, NEW s,
         Part(m, c, M, 0), Part(s, a, m, 0)
  PROVE  Part(s, a, M, 0)
BY DEF Part

LEMMA SliceIsPart ==
  ASSUME NEW M, NEW at \in Nat, NEW n \in Nat, NEW s, Part(s, n, M, at),
         NEW i \in Nat, NEW j \in i..n
  PROVE  Part(SubSeq(s, i + 1, j), j - i, M, at + i)
<1>1. s \in Seq(Stored) /\ Len(s) = n /\ \A p \in 1..n : s[p] = M[at + p]
  BY DEF Part
<1>2. PICK t : /\ t = SubSeq(s, i + 1, j) /\ t \in Seq(Stored) /\ Len(t) = j - i
               /\ \A p \in 1..(j - i) : t[p] = s[i + p]
  <2>1. s \in Seq(Stored) /\ j \in i..Len(s)
    BY <1>1
  <2>2. /\ SubSeq(s, i + 1, j) \in Seq(Stored) /\ Len(SubSeq(s, i + 1, j)) = j - i
        /\ \A p \in 1..(j - i) : SubSeq(s, i + 1, j)[p] = s[i + p]
    BY <2>1, Slice
  <2>3. QED BY <2>2
<1>3. ASSUME NEW p \in 1..(j - i) PROVE t[p] = M[at + i + p]
  <2>1. PICK q \in 1..n : q = i + p /\ at + q = at + i + p
    OBVIOUS
  <2>2. QED BY <1>1, <1>2, <2>1
<1>4. QED BY <1>2, <1>3 DEF Part

LEMMA Appended ==
  ASSUME NEW m \in Seq(Stored), NEW input \in Seq(Stored)
  PROVE  /\ m \o input \in Seq(Stored)
         /\ Len(m \o input) = Len(m) + Len(input)
         /\ Part(m, Len(m), m \o input, 0)
         /\ Part(input, Len(input), m \o input, Len(m))
<1>1. PICK M : /\ M = m \o input /\ M \in Seq(Stored) /\ Len(M) = Len(m) + Len(input)
               /\ \A p \in 1..Len(m) : M[p] = m[p]
               /\ \A p \in 1..Len(input) : M[Len(m) + p] = input[p]
  <2>1. /\ m \o input \in Seq(Stored) /\ Len(m \o input) = Len(m) + Len(input)
        /\ \A p \in 1..Len(m) : (m \o input)[p] = m[p]
        /\ \A p \in 1..Len(input) : (m \o input)[Len(m) + p] = input[p]
    BY Concat
  <2>2. QED BY <2>1
<1>2. Part(m, Len(m), M, 0)
  BY <1>1 DEF Part
<1>3. Part(input, Len(input), M, Len(m))
  BY <1>1 DEF Part
<1>4. QED BY <1>1, <1>2, <1>3

\* memcpy continues in the buffer what starts there.
LEMMA CopiedIs ==
  ASSUME NEW M, NEW from \in Nat, NEW idx \in Nat, NEW n \in Nat,
         idx + n <= QMD5_BLOCK_LENGTH,
         NEW buffer, Buffered(buffer, idx, M, from),
         NEW bytes, Part(bytes, n, M, from + idx)
  PROVE  Buffered(Copied(buffer, idx, bytes), idx + n, M, from)
<1>1. PICK b \in Nat \ {0} : b = QMD5_BLOCK_LENGTH
  BY Sizes
<1>2. PICK new : new = Copied(buffer, idx, bytes)
  OBVIOUS
<1>3. /\ DOMAIN bytes = 1..n /\ \A p \in 1..n : bytes[p] \in Byte
      /\ \A p \in 1..n : bytes[p] = M[from + idx + p]
      /\ buffer \in [1..b -> Byte] /\ \A j \in 1..idx : buffer[j] = M[from + j]
  BY <1>1 DEF Part, Stored, Buffered
<1>4. new = [j \in 1..b |-> IF j - idx \in 1..n THEN bytes[j - idx] ELSE buffer[j]]
  BY <1>1, <1>2, <1>3 DEF Copied
<1>5. new \in [1..b -> Byte]
  BY <1>3, <1>4
<1>6. \A j \in 1..b : new[j] = IF j - idx \in 1..n THEN bytes[j - idx] ELSE buffer[j]
  BY <1>4
<1>7. ASSUME NEW j \in 1..(idx + n) PROVE new[j] = M[from + j]
  <2>1. j \in 1..b
    BY <1>1
  <2>2. CASE j <= idx
    <3>1. ~(j - idx \in 1..n) /\ j \in 1..idx
      BY <2>2
    <3>2. QED BY <1>3, <1>6, <2>1, <3>1
  <2>3. CASE j > idx
    <3>1. PICK p \in 1..n : p = j - idx
      BY <2>3
    <3>2. new[j] = bytes[p]
      BY <1>6, <2>1, <3>1
    <3>3. from + idx + p = from + j
      BY <3>1
    <3>4. QED BY <1>3, <3>1, <3>2, <3>3
  <2>4. QED BY <2>2, <2>3
<1>8. QED BY <1>1, <1>2, <1>5, <1>7 DEF Buffered

\* ctx has taken in m: whole blocks are compressed, the rest is in the buffer.
Holds(ctx, m) ==
  /\ m \in Seq(Stored)
  /\ IsCount(ctx.count, Len(m))
  /\ Part(ctx.state, Whole(m), m, 0)
  /\ Buffered(ctx.buffer, Behind(m), m, Whole(m))

\* The sizes that a message leaves behind, and the message with its input.
LEMMA Taken ==
  ASSUME NEW ctx, NEW m, NEW input \in Seq(Stored), Holds(ctx, m),
         NEW b, b = QMD5_BLOCK_LENGTH
  PROVE  \E whole \in Nat, idx \in 0..(b - 1), n \in Nat :
           /\ m \in Seq(Stored) /\ n = Len(input)
           /\ whole = Whole(m) /\ idx = Behind(m) /\ Idx(ctx.count) = idx
           /\ Part(m, whole + idx, m \o input, 0)
           /\ Part(input, n, m \o input, whole + idx)
           /\ m \o input \in Seq(Stored) /\ Len(m \o input) = whole + idx + n
           /\ IsCount(Counted(ctx.count, n), Len(m \o input))
<1>1. m \in Seq(Stored) /\ IsCount(ctx.count, Len(m))
  BY DEF Holds
<1>2. Len(m) \in Nat /\ Len(input) \in Nat
  BY <1>1
<1>3. Idx(ctx.count) = Behind(m)
  BY <1>1, <1>2, IdxIsRest DEF Behind
<1>4. Behind(m) \in 0..(b - 1) /\ Whole(m) \in Nat /\ Len(m) = Whole(m) + Behind(m)
  BY <1>1, WholeAndRest
<1>5. /\ m \o input \in Seq(Stored)
      /\ Len(m \o input) = Len(m) + Len(input)
      /\ Part(m, Len(m), m \o input, 0)
      /\ Part(input, Len(input), m \o input, Len(m))
  BY <1>1, Appended
<1>6. IsCount(Counted(ctx.count, Len(input)), Len(m) + Len(input))
  BY <1>1, <1>2, CountedIsCount
<1>7. QED BY <1>1, <1>2, <1>3, <1>4, <1>5, <1>6

\* What the context keeps is part of the longer message too.
LEMMA Kept ==
  ASSUME NEW ctx, NEW m, NEW M, NEW whole \in Nat, NEW idx \in Nat, Holds(ctx, m),
         whole = Whole(m), idx = Behind(m), Part(m, whole + idx, M, 0)
  PROVE  Part(ctx.state, whole, M, 0) /\ Buffered(ctx.buffer, idx, M, whole)
<1>1. Part(ctx.state, whole, m, 0) /\ Buffered(ctx.buffer, idx, m, whole)
  BY DEF Holds
<1>2. Part(ctx.state, whole, M, 0)
  BY <1>1, PartOfPart
<1>3. ASSUME NEW j \in 1..idx PROVE m[whole + j] = M[whole + j]
  <2>1. whole + j \in 1..(whole + idx) /\ 0 + (whole + j) = whole + j
    OBVIOUS
  <2>2. QED BY <2>1 DEF Part
<1>4. QED BY <1>1, <1>2, <1>3 DEF Buffered

\* QMD5Update appends its input: it does not fill the buffer up ...
LEMMA ShortUpdate ==
  ASSUME NEW ctx, NEW m, NEW input \in Seq(Stored), Holds(ctx, m),
         Len(input) < QMD5_BLOCK_LENGTH - Idx(ctx.count)
  PROVE  Holds(Updated(ctx, input), m \o input)
<1>1. PICK b \in Nat \ {0} : b = QMD5_BLOCK_LENGTH
  BY Sizes
<1>2. PICK whole \in Nat, idx \in 0..(b - 1), n \in Nat :
         /\ m \in Seq(Stored) /\ n = Len(input)
         /\ whole = Whole(m) /\ idx = Behind(m) /\ Idx(ctx.count) = idx
         /\ Part(m, whole + idx, m \o input, 0)
         /\ Part(input, n, m \o input, whole + idx)
         /\ m \o input \in Seq(Stored) /\ Len(m \o input) = whole + idx + n
         /\ IsCount(Counted(ctx.count, n), Len(m \o input))
  BY <1>1, Taken
<1>3. PICK M : M = m \o input
  OBVIOUS
<1>4. PICK new : new = Updated(ctx, input)
  OBVIOUS
<1>5. n < b - idx
  BY <1>1, <1>2
<1>6. /\ new.count = Counted(ctx.count, n)
      /\ new.state = ctx.state
      /\ new.buffer = Copied(ctx.buffer, idx, input)
  <2>1. ~(Len(input) >= QMD5_BLOCK_LENGTH - Idx(ctx.count))
    BY <1>1, <1>2, <1>5
  <2>2. QED BY <1>2, <1>4, <2>1 DEF Updated
<1>7. Part(ctx.state, whole, M, 0) /\ Buffered(ctx.buffer, idx, M, whole)
  <2>1. whole = Whole(m) /\ idx = Behind(m) /\ Part(m, whole + idx, M, 0) /\ idx \in Nat
    BY <1>2, <1>3
  <2>2. QED BY <2>1, Kept
<1>8. Buffered(new.buffer, idx + n, M, whole)
  <2>1. idx + n <= QMD5_BLOCK_LENGTH /\ idx \in Nat
    BY <1>1, <1>5
  <2>2. Part(input, n, M, whole + idx)
    BY <1>2, <1>3
  <2>3. Buffered(Copied(ctx.buffer, idx, input), idx + n, M, whole)
    BY <1>7, <2>1, <2>2, CopiedIs
  <2>4. QED BY <1>6, <2>3
<1>9. Behind(M) = idx + n /\ Whole(M) = whole
  <2>1. PICK rest \in 0..(QMD5_BLOCK_LENGTH - 1), k \in Int :
           rest = idx + n /\ k = 0 /\ QMD5_BLOCK_LENGTH * k = 0
    BY <1>1, <1>5
  <2>2. Behind(m) + Len(input) = QMD5_BLOCK_LENGTH * k + rest /\ m \in Seq(Stored)
    BY <1>1, <1>2, <2>1
  <2>3. /\ Behind(m \o input) = rest
        /\ Whole(m \o input) = Whole(m) + QMD5_BLOCK_LENGTH * k
    BY <2>2, NewWhole
  <2>4. QED BY <1>2, <1>3, <2>1, <2>3
<1>10. M \in Seq(Stored) /\ IsCount(new.count, Len(M))
  BY <1>2, <1>3, <1>6
<1>11. Holds(new, M)
  BY <1>1, <1>6, <1>7, <1>8, <1>9, <1>10 DEF Holds
<1>12. QED BY <1>3, <1>4, <1>11

\* A full buffer is a part.
LEMMA FullBuffer ==
  ASSUME NEW M \in Seq(Stored), NEW from \in Nat, NEW buffer,
         Buffered(buffer, QMD5_BLOCK_LENGTH, M, from),
         from + QMD5_BLOCK_LENGTH <= Len(M)
  PROVE  Part(buffer, QMD5_BLOCK_LENGTH, M, from)
<1>1. PICK b \in Nat \ {0} : b = QMD5_BLOCK_LENGTH
  BY Sizes
<1>2. buffer \in [1..b -> Byte] /\ \A j \in 1..b : buffer[j] = M[from + j]
  BY <1>1 DEF Buffered
<1>3. ASSUME NEW j \in 1..b PROVE buffer[j] \in Stored
  <2>1. from + j \in 1..Len(M)
    BY <1>1
  <2>2. M[from + j] \in Stored
    BY <2>1
  <2>3. QED BY <1>2, <2>2
<1>4. buffer \in Seq(Stored) /\ Len(buffer) = b
  BY <1>2, <1>3
<1>5. QED BY <1>1, <1>2, <1>4 DEF Part

\* ... or it does, and whole blocks of the input follow.
LEMMA LongUpdate ==
  ASSUME NEW ctx, NEW m, NEW input \in Seq(Stored), Holds(ctx, m),
         Len(input) >= QMD5_BLOCK_LENGTH - Idx(ctx.count)
  PROVE  Holds(Updated(ctx, input), m \o input)
<1>1. PICK b \in Nat \ {0} : b = QMD5_BLOCK_LENGTH
  BY Sizes
<1>2. PICK whole \in Nat, idx \in 0..(b - 1), n \in Nat :
         /\ m \in Seq(Stored) /\ n = Len(input)
         /\ whole = Whole(m) /\ idx = Behind(m) /\ Idx(ctx.count) = idx
         /\ Part(m, whole + idx, m \o input, 0)
         /\ Part(input, n, m \o input, whole + idx)
         /\ m \o input \in Seq(Stored) /\ Len(m \o input) = whole + idx + n
         /\ IsCount(Counted(ctx.count, n), Len(m \o input))
  BY <1>1, Taken
<1>3. PICK M : M = m \o input
  OBVIOUS
<1>4. PICK new : new = Updated(ctx, input)
  OBVIOUS
<1>5. PICK from \in Nat : from = b - idx /\ from \in 1..b /\ from <= n /\ idx + from = b
  BY <1>1, <1>2
<1>6. PICK k \in Nat, i \in from..n :
         i = LoopEnd(from, n) /\ i = from + QMD5_BLOCK_LENGTH * k /\ n - i < b
  <2>1. \E k \in Nat : /\ LoopEnd(from, n) = from + QMD5_BLOCK_LENGTH * k
                       /\ LoopEnd(from, n) \in from..n
                       /\ n - LoopEnd(from, n) < QMD5_BLOCK_LENGTH
    BY <1>1, <1>5, LoopEndIs
  <2>2. QED BY <1>1, <2>1
<1>7. PICK block, head, body, tail :
         /\ head = SubSeq(input, 1, from) /\ block = Copied(ctx.buffer, idx, head)
         /\ body = SubSeq(input, from + 1, i) /\ tail = SubSeq(input, i + 1, n)
  OBVIOUS
<1>8. /\ new.count = Counted(ctx.count, n)
      /\ new.state = ctx.state \o block \o body
      /\ new.buffer = Copied(block, 0, tail)
  <2>1. Len(input) >= QMD5_BLOCK_LENGTH - Idx(ctx.count)
    OBVIOUS
  <2>2. QMD5_BLOCK_LENGTH - Idx(ctx.count) = from
    BY <1>1, <1>2, <1>5
  <2>3. QED BY <1>2, <1>4, <1>6, <1>7, <2>1, <2>2 DEF Updated
<1>9. Part(ctx.state, whole, M, 0) /\ Buffered(ctx.buffer, idx, M, whole)
  <2>1. whole = Whole(m) /\ idx = Behind(m) /\ Part(m, whole + idx, M, 0) /\ idx \in Nat
    BY <1>2, <1>3
  <2>2. QED BY <2>1, Kept
<1>10. /\ Part(head, from, M, whole + idx)
       /\ Part(body, i - from, M, whole + b)
       /\ Part(tail, n - i, M, whole + idx + i)
  <2>1. Part(input, n, M, whole + idx) /\ whole + idx \in Nat
    BY <1>2, <1>3
  <2>2. 0 \in Nat /\ from \in 0..n /\ i \in Nat /\ n \in i..n
    BY <1>5
  <2>3. Part(SubSeq(input, 0 + 1, from), from - 0, M, whole + idx + 0)
    BY <2>1, <2>2, SliceIsPart
  <2>4. Part(SubSeq(input, from + 1, i), i - from, M, whole + idx + from)
    BY <2>1, <2>2, SliceIsPart
  <2>5. Part(SubSeq(input, i + 1, n), n - i, M, whole + idx + i)
    BY <2>1, <2>2, SliceIsPart
  <2>6. 0 + 1 = 1 /\ from - 0 = from /\ whole + idx + 0 = whole + idx
    OBVIOUS
  <2>7. whole + idx + from = whole + b
    BY <1>5
  <2>8. QED BY <1>7, <2>3, <2>4, <2>5, <2>6, <2>7
<1>11. Part(block, b, M, whole)
  <2>1. idx \in Nat /\ idx + from <= QMD5_BLOCK_LENGTH
    BY <1>1, <1>5
  <2>2. Buffered(Copied(ctx.buffer, idx, head), idx + from, M, whole)
    <3>1. Buffered(ctx.buffer, idx, M, whole) /\ Part(head, from, M, whole + idx)
      BY <1>9, <1>10
    <3>2. QED BY <2>1, <3>1, CopiedIs
  <2>3. Buffered(block, QMD5_BLOCK_LENGTH, M, whole)
    BY <1>1, <1>5, <1>7, <2>2
  <2>4. M \in Seq(Stored) /\ whole + QMD5_BLOCK_LENGTH <= Len(M)
    BY <1>1, <1>2, <1>3, <1>5
  <2>5. QED BY <1>1, <2>3, <2>4, FullBuffer
<1>12. Part(new.state, whole + idx + i, M, 0)
  <2>1. i - from \in Nat /\ whole + b \in Nat /\ 0 \in Nat /\ 0 + whole = whole
    OBVIOUS
  <2>2. Part(ctx.state \o block, whole + b, M, 0)
    BY <1>9, <1>11, <2>1, TwoParts
  <2>3. 0 + (whole + b) = whole + b
    OBVIOUS
  <2>4. Part(ctx.state \o block \o body, (whole + b) + (i - from), M, 0)
    BY <1>10, <2>1, <2>2, <2>3, TwoParts
  <2>5. (whole + b) + (i - from) = whole + idx + i
    BY <1>5
  <2>6. QED BY <1>8, <2>4, <2>5
<1>13. Buffered(new.buffer, n - i, M, whole + idx + i)
  <2>1. /\ whole + idx + i \in Nat /\ n - i \in Nat /\ 0 \in Nat
        /\ 0 + (n - i) <= QMD5_BLOCK_LENGTH
        /\ 0 + (n - i) = n - i /\ whole + idx + i + 0 = whole + idx + i
    BY <1>1, <1>6
  <2>2. block \in [1..QMD5_BLOCK_LENGTH -> Byte]
    BY <1>1, <1>11 DEF Part, Stored
  <2>3. Buffered(block, 0, M, whole + idx + i)
    BY <2>2 DEF Buffered
  <2>4. Part(tail, n - i, M, whole + idx + i + 0)
    BY <1>10, <2>1
  <2>5. Buffered(Copied(block, 0, tail), 0 + (n - i), M, whole + idx + i)
    BY <2>1, <2>3, <2>4, CopiedIs
  <2>6. QED BY <1>8, <2>1, <2>5
<1>14. Behind(M) = n - i /\ Whole(M) = whole + idx + i
  <2>1. PICK rest \in 0..(QMD5_BLOCK_LENGTH - 1), y \in Int, t \in Int :
           rest = n - i /\ y = QMD5_BLOCK_LENGTH * k /\ t = 1 + k
    BY <1>1, <1>6
  <2>2. QMD5_BLOCK_LENGTH * t = b + y
    <3>1. b * (1 + k) = b * 1 + b * k
      BY Distributes
    <3>2. b * 1 = b
      OBVIOUS
    <3>3. QED BY <1>1, <2>1, <3>1, <3>2
  <2>3. i = from + y
    BY <1>6, <2>1
  <2>4. Behind(m) + Len(input) = QMD5_BLOCK_LENGTH * t + rest /\ m \in Seq(Stored)
    <3>1. idx + n = (b + y) + rest
      BY <1>5, <2>1, <2>3
    <3>2. QED BY <1>2, <2>2, <3>1
  <2>5. /\ Behind(m \o input) = rest
        /\ Whole(m \o input) = Whole(m) + QMD5_BLOCK_LENGTH * t
    BY <2>4, NewWhole
  <2>6. whole + (b + y) = whole + idx + i
    BY <1>5, <2>3
  <2>7. QED BY <1>2, <1>3, <2>1, <2>2, <2>5, <2>6
<1>15. M \in Seq(Stored) /\ IsCount(new.count, Len(M))
  BY <1>2, <1>3, <1>8
<1>16. Holds(new, M)
  BY <1>12, <1>13, <1>14, <1>15 DEF Holds
<1>17. QED BY <1>3, <1>4, <1>16

LEMMA UpdatedHolds ==
  ASSUME NEW ctx, NEW m, NEW input \in Seq(Stored), Holds(ctx, m)
  PROVE  Holds(Updated(ctx, input), m \o input)
<1>1. Len(input) \in Int /\ QMD5_BLOCK_LENGTH - Idx(ctx.count) \in Int
  <2>1. PICK b \in Nat \ {0} : b = QMD5_BLOCK_LENGTH
    BY Sizes
  <2>2. Idx(ctx.count) \in Int
    <3>1. m \in Seq(Stored) /\ IsCount(ctx.count, Len(m))
      BY DEF Holds
    <3>2. Idx(ctx.count) = Behind(m)
      BY <3>1, IdxIsRest DEF Behind
    <3>3. QED BY <2>1, <3>1, <3>2, WholeAndRest
  <2>3. QED BY <2>1, <2>2
<1>2. QED BY <1>1, ShortUpdate, LongUpdate

-------------------------------------------------------------------------------
(* The padding.                                                            *)

\* What a number loses above V does not show in the bytes below.
LEMMA HighBits ==
  ASSUME NEW P \in Nat \ {0}, NEW V \in Nat \ {0}, V % (256 * P) = 0, NEW x \in Nat
  PROVE  ((x % V) \div P) % 256 = (x \div P) % 256
<1>1. PICK c \in Nat : V = (256 * P) * c
  <2>1. PICK y \in Nat \ {0} : y = 256 * P
    OBVIOUS
  <2>2. PICK c \in Nat, z \in 0..(y - 1) : V = y * c + z /\ z = V % y
    <3>1. V \in Nat
      OBVIOUS
    <3>2. QED BY <3>1, Rest
  <2>3. z = 0
    BY <2>1, <2>2
  <2>4. PICK u \in Int : u = y * c
    OBVIOUS
  <2>5. V = u
    <3>1. V = y * c + z
      BY <2>2
    <3>2. QED BY <2>3, <2>4, <3>1
  <2>6. QED BY <2>1, <2>4, <2>5
<1>2. PICK q \in Nat, r \in 0..(V - 1) : x = V * q + r /\ r = x % V
  BY Rest
<1>3. PICK d \in Int : d = c * q
  OBVIOUS
<1>4. V * q = P * (256 * d)
  <2>1. V * q = (256 * P) * d
    BY <1>1, <1>3, Associates
  <2>2. (256 * P) * d = (P * 256) * d
    OBVIOUS
  <2>3. (P * 256) * d = P * (256 * d)
    BY Associates
  <2>4. QED BY <2>1, <2>2, <2>3
<1>5. PICK e \in Int : e = 256 * d
  OBVIOUS
<1>6. x = r + P * e /\ r \in Int
  <2>1. PICK y \in Int : y = V * q
    OBVIOUS
  <2>2. x = y + r /\ y = P * e
    BY <1>2, <1>4, <1>5, <2>1
  <2>3. x = r + y
    BY <2>2
  <2>4. QED BY <2>2, <2>3
<1>7. (r + P * e) \div P = (r \div P) + e
  BY <1>6, ModAdd
<1>8. PICK s \in Int : s = r \div P
  BY <1>6
<1>9. (s + 256 * d) % 256 = s % 256
  BY ModAdd
<1>10. x \div P = s + 256 * d
  BY <1>5, <1>6, <1>7, <1>8
<1>11. QED BY <1>2, <1>8, <1>9, <1>10

\* The bytes of the padding are stored ones.
LEMMA PaddingBytes ==
  /\ Mark \in Stored /\ Zero \in Stored
  /\ \A x \in 0..255 : BitsByte(x) \in Stored
  /\ \A i \in 1..MaxLen : DataByte(i) \in Stored
<1>1. Mark # Stale /\ Zero # Stale
  <2>1. Mark.kind # Stale.kind /\ Zero.kind # Stale.kind
    BY DEF Mark, Zero, Stale
  <2>2. QED BY <2>1
<1>2. ASSUME NEW x \in 0..255 PROVE BitsByte(x) # Stale
  <2>1. BitsByte(x).kind # Stale.kind
    BY DEF BitsByte, Stale
  <2>2. QED BY <2>1
<1>3. ASSUME NEW i \in 1..MaxLen PROVE DataByte(i) # Stale
  <2>1. DataByte(i).kind # Stale.kind
    BY DEF DataByte, Stale
  <2>2. QED BY <2>1
<1>4. Mark \in Byte /\ Zero \in Byte
  BY DEF Byte
<1>5. \A x \in 0..255 : BitsByte(x) \in Byte
  BY DEF Byte
<1>6. \A i \in 1..MaxLen : DataByte(i) \in Byte
  BY DEF Byte
<1>7. QED BY <1>1, <1>2, <1>3, <1>4, <1>5, <1>6 DEF Stored

\* The length in bits, as bytes.
LengthBytes(len) == [j \in 1..BitsLen |-> BitsByte(((8 * len) \div 256 ^ (j - 1)) % 256)]

LEMMA EncodeIsLength ==
  ASSUME NEW count, NEW len \in Nat, IsCount(count, len)
  PROVE  /\ Encode(count) = LengthBytes(len)
         /\ LengthBytes(len) \in Seq(Stored) /\ Len(LengthBytes(len)) = BitsLen
<1>1. BitsLen \in Nat
  BY Sizes
<1>2. ASSUME NEW j \in 1..BitsLen
      PROVE  /\ ((count[0] + Word * count[1]) \div 256 ^ (j - 1)) % 256
                  = ((8 * len) \div 256 ^ (j - 1)) % 256
             /\ ((8 * len) \div 256 ^ (j - 1)) % 256 \in 0..255
  <2>1. PICK P \in Nat \ {0} : P = 256 ^ (j - 1)
    BY PowerAssumption
  <2>2. PICK V \in Nat \ {0} : V = Word * Word /\ V % (256 * P) = 0
    <3>1. Word \in Nat \ {0} /\ (Word * Word) % (256 * 256 ^ (j - 1)) = 0
      BY PowerAssumption
    <3>2. QED BY <2>1, <3>1
  <2>3. PICK x \in Nat : x = 8 * len
    OBVIOUS
  <2>4. ((x % V) \div P) % 256 = (x \div P) % 256
    BY <2>2, HighBits
  <2>5. x % V = count[0] + Word * count[1]
    BY <2>2, <2>3 DEF IsCount
  <2>6. (x \div P) % 256 \in 0..255
    <3>1. PICK y \in Int : y = x \div P
      OBVIOUS
    <3>2. QED BY <3>1
  <2>7. QED BY <2>1, <2>3, <2>4, <2>5, <2>6
<1>3. \A j \in 1..BitsLen : BitsByte(((8 * len) \div 256 ^ (j - 1)) % 256) \in Stored
  <2>1. \A j \in 1..BitsLen : ((8 * len) \div 256 ^ (j - 1)) % 256 \in 0..255
    BY <1>2
  <2>2. QED BY <2>1, PaddingBytes
<1>4. LengthBytes(len) \in Seq(Stored) /\ Len(LengthBytes(len)) = BitsLen
  <2>1. PICK n \in Nat : n = BitsLen
    BY <1>1
  <2>2. PICK f : f = LengthBytes(len)
    OBVIOUS
  <2>3. DOMAIN f = 1..n /\ f = [j \in 1..n |-> f[j]]
    BY <2>1, <2>2 DEF LengthBytes
  <2>4. \A j \in 1..n : f[j] \in Stored
    BY <1>3, <2>1, <2>2 DEF LengthBytes
  <2>5. f \in Seq(Stored) /\ Len(f) = n
    BY <2>3, <2>4
  <2>6. QED BY <2>1, <2>2, <2>5
<1>5. Encode(count) = LengthBytes(len)
  BY <1>2 DEF Encode, LengthBytes
<1>6. QED BY <1>4, <1>5

\* The padding fills the block up to the length, or the next one.
LEMMA PadLenIs ==
  ASSUME NEW b, b = QMD5_BLOCK_LENGTH, NEW idx \in 0..(b - 1)
  PROVE  /\ PadLen(idx) \in 1..b
         /\ \E k \in 0..1 : idx + PadLen(idx) = b * k + (b - BitsLen)
<1>1. b \in Nat \ {0} /\ BitsLen \in Nat \ {0} /\ BitsLen < b
  BY Sizes
<1>2. CASE idx < b - BitsLen
  <2>1. PadLen(idx) = b - BitsLen - idx
    BY <1>2 DEF PadLen
  <2>2. b * 0 = 0
    BY <1>1
  <2>3. idx + PadLen(idx) = b * 0 + (b - BitsLen) /\ PadLen(idx) \in 1..b
    BY <1>1, <1>2, <2>1, <2>2
  <2>4. QED BY <2>3
<1>3. CASE ~(idx < b - BitsLen)
  <2>1. PadLen(idx) = 2 * b - BitsLen - idx
    BY <1>3 DEF PadLen
  <2>2. b * 1 = b
    BY <1>1
  <2>3. idx + PadLen(idx) = b * 1 + (b - BitsLen) /\ PadLen(idx) \in 1..b
    BY <1>1, <1>3, <2>1, <2>2
  <2>4. QED BY <2>3
<1>4. QED BY <1>2, <1>3

\* These are as few zeros as make whole blocks.
LEMMA ZerosAre ==
  ASSUME NEW m \in Seq(Stored)
  PROVE  Min({k \in 0..(QMD5_BLOCK_LENGTH - 1) :
                (Len(m) + 1 + k + BitsLen) % QMD5_BLOCK_LENGTH = 0})
           = PadLen(Behind(m)) - 1
<1>1. PICK b \in Nat \ {0} : b = QMD5_BLOCK_LENGTH
  BY Sizes
<1>2. PICK len \in Nat, lb \in Nat : len = Len(m) /\ lb = BitsLen
  BY Sizes
<1>3. PICK q \in Nat, idx \in 0..(b - 1) : len = b * q + idx /\ idx = len % b
  BY Rest
<1>4. Behind(m) = idx
  BY <1>1, <1>2, <1>3 DEF Behind
<1>5. PICK p \in 1..b, k \in 0..1 : p = PadLen(idx) /\ idx + p = b * k + (b - lb)
  BY <1>1, <1>2, PadLenIs
<1>6. PICK n \in Int : n = q + k + 1
  OBVIOUS
<1>7. PICK x \in Int, y \in Int : x = b * q /\ y = b * k
  OBVIOUS
<1>8. b * n = x + y + b
  <2>1. b * (q + k) = x + y
    BY <1>7, Distributes
  <2>2. b * ((q + k) + 1) = b * (q + k) + b * 1
    BY Distributes
  <2>3. b * 1 = b
    OBVIOUS
  <2>4. QED BY <1>6, <2>1, <2>2, <2>3
<1>9. len = x + idx /\ idx + p = y + (b - lb)
  BY <1>3, <1>5, <1>7
<1> DEFINE S == {j \in 0..(b - 1) : (len + 1 + j + lb) % b = 0}
<1> HIDE DEF S
<1>10. p - 1 \in S
  <2>1. PICK t \in Int : t = len + 1 + (p - 1) + lb
    OBVIOUS
  <2>2. t = x + y + b
    BY <1>9, <2>1
  <2>3. t = b * n + 0
    BY <1>8, <2>2
  <2>4. t % b = 0
    <3>1. 0 \in 0..(b - 1)
      OBVIOUS
    <3>2. QED BY <2>3, <3>1, DivMod
  <2>5. p - 1 \in 0..(b - 1)
    OBVIOUS
  <2>6. QED BY <2>1, <2>4, <2>5 DEF S
<1>11. ASSUME NEW j \in S PROVE p - 1 <= j
  <2>1. j \in 0..(b - 1) /\ (len + 1 + j + lb) % b = 0
    BY DEF S
  <2>2. SUFFICES ASSUME j < p - 1 PROVE FALSE
    BY <2>1
  <2>3. PICK r \in 1..(b - 1), t \in Int, o \in Int :
           r = b - (p - 1 - j) /\ t = len + 1 + j + lb /\ o = n - 1
    BY <2>1, <2>2
  <2>4. b * o = x + y
    <3>1. b * (q + k) = x + y
      BY <1>7, Distributes
    <3>2. o = q + k
      BY <1>6, <2>3
    <3>3. QED BY <3>1, <3>2
  <2>5. t = b * o + r
    <3>1. t = (x + y) + r
      BY <1>9, <2>1, <2>3
    <3>2. QED BY <2>4, <3>1
  <2>6. t % b = r
    <3>1. r \in 0..(b - 1)
      OBVIOUS
    <3>2. QED BY <2>5, <3>1, DivMod
  <2>7. QED BY <2>1, <2>3, <2>6
<1>12. Min(S) = p - 1
  <2>1. S \in SUBSET Int
    BY DEF S
  <2>2. QED BY <1>10, <1>11, <2>1, MinIs
<1>13. QED BY <1>1, <1>2, <1>4, <1>5, <1>12 DEF S

\* The bytes of PADDING that are taken.
LEMMA PaddingIs ==
  ASSUME NEW p \in 1..QMD5_BLOCK_LENGTH
  PROVE  /\ SubSeq(PADDING, 1, p) \in Seq(Stored) /\ Len(SubSeq(PADDING, 1, p)) = p
         /\ SubSeq(PADDING, 1, p) = <<Mark>> \o [k \in 1..(p - 1) |-> Zero]
<1>1. PICK b \in Nat \ {0} : b = QMD5_BLOCK_LENGTH
  BY Sizes
<1>2. PADDING = [i \in 1..b |-> IF i = 1 THEN Mark ELSE Zero]
  BY <1>1 DEF PADDING
<1>3. /\ PADDING \in Seq(Stored) /\ Len(PADDING) = b
      /\ \A i \in 1..b : PADDING[i] = IF i = 1 THEN Mark ELSE Zero
  BY <1>2, PaddingBytes
<1>4. 0 \in Nat /\ p \in 0..Len(PADDING) /\ 0 + 1 = 1 /\ p - 0 = p /\ p \in 1..b
  BY <1>1, <1>3
<1>5. PICK s : /\ s = SubSeq(PADDING, 1, p) /\ s \in Seq(Stored) /\ Len(s) = p
               /\ \A i \in 1..p : s[i] = PADDING[i]
  <2>1. /\ SubSeq(PADDING, 0 + 1, p) \in Seq(Stored)
        /\ Len(SubSeq(PADDING, 0 + 1, p)) = p - 0
        /\ \A i \in 1..(p - 0) : SubSeq(PADDING, 0 + 1, p)[i] = PADDING[0 + i]
    BY <1>3, <1>4, Slice
  <2>2. \A i \in 1..p : 0 + i = i
    BY <1>4
  <2>3. /\ SubSeq(PADDING, 1, p) \in Seq(Stored) /\ Len(SubSeq(PADDING, 1, p)) = p
        /\ \A i \in 1..p : SubSeq(PADDING, 1, p)[i] = PADDING[i]
    BY <1>4, <2>1, <2>2
  <2>4. QED BY <2>3
<1>6. PICK z : /\ z = [k \in 1..(p - 1) |-> Zero] /\ z \in Seq(Stored) /\ Len(z) = p - 1
               /\ \A k \in 1..(p - 1) : z[k] = Zero
  <2>1. PICK n \in Nat : n = p - 1
    BY <1>4
  <2>2. /\ [k \in 1..n |-> Zero] \in Seq(Stored) /\ Len([k \in 1..n |-> Zero]) = n
        /\ \A k \in 1..n : [i \in 1..n |-> Zero][k] = Zero
    BY PaddingBytes
  <2>3. QED BY <2>1, <2>2
<1>7. <<Mark>> \in Seq(Stored) /\ Len(<<Mark>>) = 1 /\ <<Mark>>[1] = Mark
  BY PaddingBytes
<1>8. PICK t : /\ t = <<Mark>> \o z /\ t \in Seq(Stored) /\ Len(t) = p
               /\ t[1] = Mark /\ \A k \in 1..(p - 1) : t[1 + k] = Zero
  <2>1. /\ <<Mark>> \o z \in Seq(Stored) /\ Len(<<Mark>> \o z) = Len(<<Mark>>) + Len(z)
        /\ \A i \in 1..Len(<<Mark>>) : (<<Mark>> \o z)[i] = <<Mark>>[i]
        /\ \A i \in 1..Len(z) : (<<Mark>> \o z)[Len(<<Mark>>) + i] = z[i]
    BY <1>6, <1>7, Concat
  <2>2. 1 \in 1..1 /\ 1 + (p - 1) = p
    BY <1>4
  <2>3. /\ <<Mark>> \o z \in Seq(Stored) /\ Len(<<Mark>> \o z) = p
        /\ (<<Mark>> \o z)[1] = Mark
        /\ \A k \in 1..(p - 1) : (<<Mark>> \o z)[1 + k] = Zero
    BY <1>6, <1>7, <2>1, <2>2
  <2>4. QED BY <2>3
<1>9. ASSUME NEW i \in 1..p PROVE s[i] = t[i]
  <2>1. i \in 1..b
    BY <1>4
  <2>2. CASE i = 1
    BY <1>3, <1>5, <1>8, <2>1, <2>2
  <2>3. CASE i # 1
    <3>1. i - 1 \in 1..(p - 1) /\ 1 + (i - 1) = i
      BY <1>4, <2>3
    <3>2. t[i] = Zero
      BY <1>8, <3>1
    <3>3. s[i] = Zero
      BY <1>3, <1>5, <2>1, <2>3
    <3>4. QED BY <3>2, <3>3
  <2>4. QED BY <2>2, <2>3
<1>10. s = t
  BY <1>5, <1>8, <1>9, SeqEqual
<1>11. QED BY <1>5, <1>6, <1>8, <1>10

\* A part that is as long as the whole.
LEMMA WholePart ==
  ASSUME NEW M \in Seq(Stored), NEW s, Part(s, Len(M), M, 0)
  PROVE  s = M
<1>1. PICK n \in Nat : n = Len(M)
  OBVIOUS
<1>2. s \in Seq(Stored) /\ Len(s) = n /\ \A p \in 1..n : s[p] = M[0 + p]
  BY <1>1 DEF Part
<1>3. \A p \in 1..n : 0 + p = p
  OBVIOUS
<1>4. \A p \in 1..Len(s) : s[p] = M[p]
  BY <1>2, <1>3
<1>5. QED BY <1>1, <1>2, <1>4, SeqEqual

\* QMD5Pad and QMD5Final: what is compressed in the end is the padded message.
LEMMA PaddedIsPrescribed ==
  ASSUME NEW ctx, NEW m, Holds(ctx, m)
  PROVE  /\ Padded(ctx).state = Prescribed(m)
         /\ Prescribed(m) \in Seq(Stored)
         /\ Len(Prescribed(m)) % QMD5_BLOCK_LENGTH = 0
<1>1. PICK b \in Nat \ {0}, lb \in Nat \ {0} :
         b = QMD5_BLOCK_LENGTH /\ lb = BitsLen /\ lb < b
  BY Sizes
<1>2. m \in Seq(Stored) /\ IsCount(ctx.count, Len(m)) /\ Len(m) \in Nat
  BY DEF Holds
<1>3. PICK idx \in 0..(b - 1) : idx = Behind(m) /\ idx = Idx(ctx.count)
  <2>1. Behind(m) \in 0..(b - 1)
    BY <1>1, <1>2, WholeAndRest
  <2>2. Idx(ctx.count) = Behind(m)
    BY <1>2, IdxIsRest DEF Behind
  <2>3. QED BY <2>1, <2>2
<1>4. PICK p \in 1..b, k \in 0..1 : p = PadLen(idx) /\ idx + p = b * k + (b - lb)
  BY <1>1, PadLenIs
<1>5. PICK pads \in Seq(Stored), zeros \in Seq(Stored) :
         /\ pads = SubSeq(PADDING, 1, p) /\ Len(pads) = p
         /\ zeros = [j \in 1..(p - 1) |-> Zero] /\ pads = <<Mark>> \o zeros
  <2>1. /\ SubSeq(PADDING, 1, p) \in Seq(Stored) /\ Len(SubSeq(PADDING, 1, p)) = p
        /\ SubSeq(PADDING, 1, p) = <<Mark>> \o [j \in 1..(p - 1) |-> Zero]
    BY <1>1, PaddingIs
  <2>2. [j \in 1..(p - 1) |-> Zero] \in Seq(Stored)
    <3>1. PICK n \in Nat : n = p - 1
      OBVIOUS
    <3>2. [j \in 1..n |-> Zero] \in Seq(Stored)
      BY PaddingBytes
    <3>3. QED BY <3>1, <3>2
  <2>3. QED BY <2>1, <2>2
<1>6. PICK bits \in Seq(Stored) :
         bits = Encode(ctx.count) /\ bits = LengthBytes(Len(m)) /\ Len(bits) = lb
  BY <1>1, <1>2, EncodeIsLength
<1>7. PICK c1, c2, m1, m2 :
         /\ c1 = Updated(ctx, pads) /\ c2 = Updated(c1, bits)
         /\ m1 = m \o pads /\ m2 = m1 \o bits
  OBVIOUS
<1>8. Holds(c1, m1)
  BY <1>7, UpdatedHolds
<1>9. Holds(c2, m2) /\ m1 \in Seq(Stored) /\ m2 \in Seq(Stored)
  <2>1. Holds(c2, m2)
    BY <1>7, <1>8, UpdatedHolds
  <2>2. QED BY <1>8, <2>1 DEF Holds
<1>10. Padded(ctx) = c2
  BY <1>3, <1>4, <1>5, <1>6, <1>7 DEF Padded
<1>11. Behind(m2) = 0
  <2>1. PICK rest \in 0..(QMD5_BLOCK_LENGTH - 1) : rest = b - lb
    BY <1>1
  <2>2. Behind(m) + Len(pads) = QMD5_BLOCK_LENGTH * k + rest /\ k \in Int
    BY <1>1, <1>3, <1>4, <1>5, <2>1
  <2>3. Behind(m \o pads) = rest
    BY <1>2, <2>2, NewWhole
  <2>4. QMD5_BLOCK_LENGTH * 1 = b
    BY <1>1
  <2>5. Behind(m1) + Len(bits) = QMD5_BLOCK_LENGTH * 1 + 0
    BY <1>1, <1>6, <1>7, <2>1, <2>3, <2>4
  <2>6. 0 \in 0..(QMD5_BLOCK_LENGTH - 1) /\ 1 \in Int
    BY <1>1
  <2>7. Behind(m1 \o bits) = 0
    BY <1>9, <2>5, <2>6, NewWhole
  <2>8. QED BY <1>7, <2>7
<1>12. c2.state = m2
  <2>1. Whole(m2) = Len(m2)
    <3>1. Len(m2) \in Nat
      BY <1>9
    <3>2. QED BY <1>11, <3>1 DEF Whole
  <2>2. Part(c2.state, Len(m2), m2, 0)
    BY <1>9, <2>1 DEF Holds
  <2>3. QED BY <1>9, <2>2, WholePart
<1>13. Prescribed(m) = m \o <<Mark>> \o zeros \o bits
  <2> DEFINE S == {j \in 0..(QMD5_BLOCK_LENGTH - 1) :
                     (Len(m) + 1 + j + BitsLen) % QMD5_BLOCK_LENGTH = 0}
  <2>1. Min(S) = p - 1
    BY <1>2, <1>3, <1>4, ZerosAre
  <2>2. Prescribed(m) =
          m \o <<Mark>> \o [j \in 1..Min(S) |-> Zero] \o LengthBytes(Len(m))
    BY DEF Prescribed, LengthBytes
  <2>3. QED BY <1>5, <1>6, <2>1, <2>2
<1>14. m \o <<Mark>> \o zeros = m1
  <2>1. <<Mark>> \in Seq(Stored)
    BY PaddingBytes
  <2>2. (m \o <<Mark>>) \o zeros = m \o (<<Mark>> \o zeros)
    BY <1>2, <2>1, ConcatAssociative
  <2>3. QED BY <1>5, <1>7, <2>2
<1>15. Prescribed(m) = m2
  BY <1>7, <1>13, <1>14
<1>16. QED BY <1>9, <1>10, <1>11, <1>12, <1>15 DEF Behind

-------------------------------------------------------------------------------
(* The invariant.                                                          *)

\* Whole blocks, of bytes that were stored.
Blocks(s) == s \in Seq(Stored) /\ Len(s) % QMD5_BLOCK_LENGTH = 0

\* An open context has taken in the message; what QMD5Final returned is the padded
\* message, until QMD5Init.
MInv ==
  /\ open \in BOOLEAN /\ inputSize \in 0..MaxLen
  /\ context.count \in [0..1 -> 0..(Word - 1)]
  /\ context.buffer \in [1..QMD5_BLOCK_LENGTH -> Byte]
  /\ Blocks(context.state) /\ Blocks(digest)
  /\ open => digest = << >> /\ Holds(context, Message)
  /\ DigestIsOfPaddedMessage

LEMMA EmptyBlocks == Blocks(<< >>)
<1>1. << >> \in Seq(Stored) /\ Len(<< >>) = 0
  OBVIOUS
<1>2. PICK b \in Nat \ {0} : b = QMD5_BLOCK_LENGTH
  BY Sizes
<1>3. 0 = b * 0 + 0 /\ 0 \in 0..(b - 1)
  BY <1>2
<1>4. 0 % b = 0
  BY <1>3, DivMod
<1>5. QED BY <1>1, <1>2, <1>4 DEF Blocks

\* The types that follow.
LEMMA HoldsTypes ==
  ASSUME NEW ctx, NEW m, Holds(ctx, m)
  PROVE  /\ ctx.count \in [0..1 -> 0..(Word - 1)]
         /\ ctx.buffer \in [1..QMD5_BLOCK_LENGTH -> Byte]
         /\ Blocks(ctx.state)
<1>1. /\ m \in Seq(Stored) /\ IsCount(ctx.count, Len(m))
      /\ Part(ctx.state, Whole(m), m, 0) /\ Buffered(ctx.buffer, Behind(m), m, Whole(m))
  BY DEF Holds
<1>2. ctx.count \in [0..1 -> 0..(Word - 1)]
  BY <1>1 DEF IsCount
<1>3. ctx.buffer \in [1..QMD5_BLOCK_LENGTH -> Byte]
  BY <1>1 DEF Buffered
<1>4. PICK b \in Nat \ {0}, len \in Nat : b = QMD5_BLOCK_LENGTH /\ len = Len(m)
  BY <1>1, Sizes
<1>5. PICK q \in Nat, r \in 0..(b - 1) : len = b * q + r /\ r = len % b
  BY Rest
<1>6. Whole(m) = b * q + 0
  <2>1. PICK x \in Int : x = b * q
    OBVIOUS
  <2>2. len - r = x
    BY <1>5, <2>1
  <2>3. Whole(m) = len - r
    BY <1>4, <1>5 DEF Whole, Behind
  <2>4. QED BY <2>1, <2>2, <2>3
<1>7. Whole(m) % b = 0
  <2>1. 0 \in 0..(b - 1) /\ q \in Int
    OBVIOUS
  <2>2. QED BY <1>6, <2>1, DivMod
<1>8. ctx.state \in Seq(Stored) /\ Len(ctx.state) = Whole(m)
  BY <1>1 DEF Part
<1>9. QED BY <1>2, <1>3, <1>4, <1>7, <1>8 DEF Blocks

LEMMA MessageIs ==
  ASSUME NEW n \in 0..MaxLen
  PROVE  /\ [i \in 1..n |-> DataByte(i)] \in Seq(Stored)
         /\ Len([i \in 1..n |-> DataByte(i)]) = n
<1>1. n \in Nat /\ \A i \in 1..n : DataByte(i) \in Stored
  BY QMD5Assumption, PaddingBytes
<1>2. QED BY <1>1

\* QMD5Init: an empty message, whatever the buffer holds.
LEMMA InitHolds ==
  ASSUME NEW ctx, NEW m \in Seq(Stored), Len(m) = 0,
         ctx.count = NoCount, ctx.state = << >>,
         ctx.buffer \in [1..QMD5_BLOCK_LENGTH -> Byte]
  PROVE  Holds(ctx, m)
<1>1. PICK b \in Nat \ {0}, w \in Nat \ {0} : b = QMD5_BLOCK_LENGTH /\ w = Word
  BY Sizes, PowerAssumption
<1>2. Behind(m) = 0 /\ Whole(m) = 0
  <2>1. 0 = b * 0 + 0 /\ 0 \in 0..(b - 1)
    BY <1>1
  <2>2. 0 % b = 0
    BY <2>1, DivMod
  <2>3. QED BY <1>1, <2>2 DEF Behind, Whole
<1>3. IsCount(ctx.count, 0)
  <2>1. PICK v \in Nat \ {0} : v = w * w
    OBVIOUS
  <2>2. 0 = v * 0 + 0 /\ 0 \in 0..(v - 1)
    BY <2>1
  <2>3. 0 % v = 0
    BY <2>2, DivMod
  <2>4. NoCount \in [0..1 -> 0..(w - 1)] /\ NoCount[0] = 0 /\ NoCount[1] = 0
    BY DEF NoCount
  <2>5. NoCount[0] + w * NoCount[1] = 0 /\ 8 * 0 = 0
    BY <2>4
  <2>6. QED BY <1>1, <2>1, <2>3, <2>4, <2>5 DEF IsCount
<1>4. Part(ctx.state, 0, m, 0)
  BY DEF Part
<1>5. Buffered(ctx.buffer, 0, m, 0)
  BY DEF Buffered
<1>6. QED BY <1>2, <1>3, <1>4, <1>5 DEF Holds

LEMMA InitMInv == Init => MInv
<1> SUFFICES ASSUME Init PROVE MInv
  OBVIOUS
<1>1. context = Zeroized /\ open = FALSE /\ inputSize = 0 /\ digest = << >>
  BY DEF Init
<1>2. /\ context.count = NoCount /\ context.state = << >>
      /\ context.buffer = [j \in 1..QMD5_BLOCK_LENGTH |-> Zero]
  BY <1>1 DEF Zeroized
<1>3. context.count \in [0..1 -> 0..(Word - 1)]
  BY <1>2, PowerAssumption DEF NoCount
<1>4. context.buffer \in [1..QMD5_BLOCK_LENGTH -> Byte]
  BY <1>2 DEF Byte
<1>5. inputSize \in 0..MaxLen
  BY <1>1, QMD5Assumption
<1>6. QED
  BY <1>1, <1>2, <1>3, <1>4, <1>5, EmptyBlocks DEF MInv, DigestIsOfPaddedMessage

LEMMA NextMInv == MInv /\ [Next]_vars => MInv'
<1> SUFFICES ASSUME MInv, [Next]_vars PROVE MInv'
  OBVIOUS
<1>1. CASE QMD5Init
  <2>1. /\ context'.count = NoCount /\ context'.state = << >>
        /\ context'.buffer = [j \in 1..QMD5_BLOCK_LENGTH |-> Stale]
        /\ open' = TRUE /\ inputSize' = 0 /\ digest' = << >>
    BY <1>1 DEF QMD5Init
  <2>2. context'.buffer \in [1..QMD5_BLOCK_LENGTH -> Byte]
    BY <2>1 DEF Byte
  <2>3. 0 \in 0..MaxLen
    BY QMD5Assumption
  <2>4. Message' \in Seq(Stored) /\ Len(Message') = 0
    BY <2>1, <2>3, MessageIs DEF Message
  <2>5. Holds(context', Message')
    BY <2>1, <2>2, <2>4, InitHolds
  <2>6. Holds(context, Message)'
    BY <2>5 DEF Holds, IsCount, Part, Buffered, Behind, Whole
  <2>7. /\ context'.count \in [0..1 -> 0..(Word - 1)]
        /\ Blocks(context'.state)
    BY <2>5, HoldsTypes
  <2>8. Blocks(digest')
    BY <2>1, EmptyBlocks
  <2>9. DigestIsOfPaddedMessage'
    BY <2>1 DEF DigestIsOfPaddedMessage
  <2>10. QED BY <2>1, <2>2, <2>3, <2>6, <2>7, <2>8, <2>9 DEF MInv, Blocks
<1>2. CASE QMD5Final
  <2>1. /\ open /\ open' = FALSE /\ inputSize' = inputSize
        /\ digest' = Padded(context).state /\ context' = Zeroized
    BY <1>2 DEF QMD5Final
  <2>2. Holds(context, Message)
    BY <2>1 DEF MInv
  <2>3. /\ digest' = Prescribed(Message) /\ Prescribed(Message) \in Seq(Stored)
        /\ Len(Prescribed(Message)) % QMD5_BLOCK_LENGTH = 0
    BY <2>1, <2>2, PaddedIsPrescribed
  <2>4. Message' = Message
    BY <2>1 DEF Message
  <2>5. Prescribed(Message)' = Prescribed(Message)
    BY <2>4 DEF Prescribed
  <2>6. DigestIsOfPaddedMessage'
    BY <2>3, <2>5 DEF DigestIsOfPaddedMessage
  <2>7. Blocks(digest')
    BY <2>3 DEF Blocks
  <2>8. /\ context'.count = NoCount /\ context'.state = << >>
        /\ context'.buffer = [j \in 1..QMD5_BLOCK_LENGTH |-> Zero]
    BY <2>1 DEF Zeroized
  <2>9. context'.count \in [0..1 -> 0..(Word - 1)]
    BY <2>8, PowerAssumption DEF NoCount
  <2>10. context'.buffer \in [1..QMD5_BLOCK_LENGTH -> Byte]
    BY <2>8 DEF Byte
  <2>11. Blocks(context'.state)
    BY <2>8, EmptyBlocks
  <2>12. inputSize' \in 0..MaxLen
    BY <2>1 DEF MInv
  <2>13. QED BY <2>1, <2>6, <2>7, <2>9, <2>10, <2>11, <2>12 DEF MInv, Blocks
<1>3. ASSUME NEW len \in 0..MaxLen, QMD5Update(len) PROVE MInv'
  <2> DEFINE input == [i \in 1..len |-> DataByte(inputSize + i)]
  <2>1. /\ open /\ open' = open /\ digest' = digest /\ inputSize + len <= MaxLen
        /\ context' = Updated(context, input) /\ inputSize' = inputSize + len
    BY <1>3 DEF QMD5Update
  <2>2. inputSize \in 0..MaxLen /\ digest = << >> /\ Holds(context, Message)
    BY <2>1 DEF MInv
  <2>3. PICK n \in Nat, l \in Nat : n = inputSize /\ l = len /\ n + l \in 0..MaxLen
    BY <2>1, <2>2, QMD5Assumption
  <2>4. /\ input \in Seq(Stored) /\ Len(input) = l
        /\ \A i \in 1..l : input[i] = DataByte(n + i)
    <3>1. \A i \in 1..l : DataByte(n + i) \in Stored
      <4>1. ASSUME NEW i \in 1..l PROVE DataByte(n + i) \in Stored
        <5>1. n + i \in 1..MaxLen
          BY <2>3, QMD5Assumption
        <5>2. QED BY <5>1, PaddingBytes
      <4>2. QED BY <4>1
    <3>2. input = [i \in 1..l |-> DataByte(n + i)]
      BY <2>3
    <3>3. QED BY <3>1, <3>2
  <2> HIDE DEF input
  <2>5. Message' = Message \o input
    <3>1. /\ Message \in Seq(Stored) /\ Len(Message) = n
          /\ \A i \in 1..n : Message[i] = DataByte(i)
      BY <2>2, <2>3, MessageIs DEF Message
    <3>2. /\ Message' \in Seq(Stored) /\ Len(Message') = n + l
          /\ \A i \in 1..(n + l) : Message'[i] = DataByte(i)
      BY <2>1, <2>3, MessageIs DEF Message
    <3>3. PICK M : M = Message' /\ M \in Seq(Stored) /\ Len(M) = n + l
                   /\ \A i \in 1..(n + l) : M[i] = DataByte(i)
      BY <3>2
    <3>4. PICK N : /\ N = Message \o input /\ N \in Seq(Stored) /\ Len(N) = n + l
                   /\ \A i \in 1..n : N[i] = Message[i]
                   /\ \A i \in 1..l : N[n + i] = input[i]
      <4>1. /\ Message \o input \in Seq(Stored)
            /\ Len(Message \o input) = Len(Message) + Len(input)
            /\ \A i \in 1..Len(Message) : (Message \o input)[i] = Message[i]
            /\ \A i \in 1..Len(input) :
                 (Message \o input)[Len(Message) + i] = input[i]
        <5>1. Message \in Seq(Stored) /\ input \in Seq(Stored)
          BY <2>4, <3>1
        <5>2. QED BY <5>1, Concat
      <4>2. QED BY <2>4, <3>1, <4>1
    <3>5. ASSUME NEW i \in 1..(n + l) PROVE M[i] = N[i]
      <4>1. CASE i <= n
        <5>1. i \in 1..n
          BY <4>1
        <5>2. QED BY <3>1, <3>3, <3>4, <5>1
      <4>2. CASE i > n
        <5>1. i - n \in 1..l /\ n + (i - n) = i
          BY <4>2
        <5>2. N[i] = DataByte(i)
          BY <2>4, <3>4, <5>1
        <5>3. QED BY <3>3, <5>2
      <4>3. QED BY <4>1, <4>2
    <3>6. M = N
      BY <3>3, <3>4, <3>5, SeqEqual
    <3>7. QED BY <3>3, <3>4, <3>6
  <2>6. Holds(context', Message')
    BY <2>1, <2>2, <2>4, <2>5, UpdatedHolds
  <2>7. Holds(context, Message)'
    BY <2>6 DEF Holds, IsCount, Part, Buffered, Behind, Whole
  <2>8. /\ context'.count \in [0..1 -> 0..(Word - 1)]
        /\ context'.buffer \in [1..QMD5_BLOCK_LENGTH -> Byte]
        /\ Blocks(context'.state)
    BY <2>6, HoldsTypes
  <2>9. inputSize' \in 0..MaxLen
    BY <2>1, <2>3
  <2>10. DigestIsOfPaddedMessage'
    BY <2>1, <2>2 DEF DigestIsOfPaddedMessage
  <2>11. Blocks(digest')
    BY <2>1 DEF MInv, Blocks
  <2>12. QED BY <2>1, <2>2, <2>7, <2>8, <2>9, <2>10, <2>11 DEF MInv, Blocks
<1>4. CASE UNCHANGED vars
  BY <1>4 DEF vars, MInv, Blocks, Holds, IsCount, Part, Buffered, Behind, Whole,
              Message, DigestIsOfPaddedMessage, Prescribed
<1>5. QED BY <1>1, <1>2, <1>3, <1>4 DEF Next

\* MInv holds in every reachable state.
THEOREM MD5Invariance == Spec => []MInv
<1>1. QED BY InitMInv, NextMInv, PTL DEF Spec

-------------------------------------------------------------------------------
(* The theorems.                                                           *)

\* Types of the variables: whole blocks are compressed, and none of them holds a
\* byte that nobody stored in the buffer.
THEOREM MD5Types == Spec => []TypeOK
<1>1. MInv => TypeOK
  <2> SUFFICES ASSUME MInv PROVE TypeOK
    OBVIOUS
  <2>1. /\ context.count \in [0..1 -> 0..(Word - 1)]
        /\ context.buffer \in [1..QMD5_BLOCK_LENGTH -> Byte]
        /\ open \in BOOLEAN /\ inputSize \in 0..MaxLen
        /\ Blocks(context.state) /\ Blocks(digest)
    BY DEF MInv
  <2>2. ASSUME NEW s, Blocks(s)
        PROVE  Len(s) % QMD5_BLOCK_LENGTH = 0 /\ Range(s) \subseteq Byte \ {Stale}
    <3>1. Len(s) % QMD5_BLOCK_LENGTH = 0 /\ s \in Seq(Stored)
      BY <2>2 DEF Blocks
    <3>2. Range(s) \subseteq Stored
      BY <3>1 DEF Range
    <3>3. QED BY <3>1, <3>2 DEF Stored
  <2>3. QED BY <2>1, <2>2 DEF TypeOK
<1>2. QED BY <1>1, MD5Invariance, PTL

\* However the message is cut into pieces, what was compressed and what is in the
\* buffer below the index that count gives are the message, and the two words of
\* count are its length in bits: for blocks and words of any size, pieces of any
\* length, and carries into the upper word wherever they fall (QMD5Update).
THEOREM MD5Pieces == Spec => []PiecesDoNotMatter
<1>1. MInv => PiecesDoNotMatter
  <2> SUFFICES ASSUME MInv, open PROVE
         /\ context.state \o SubSeq(context.buffer, 1, Idx(context.count)) = Message
         /\ context.count[0] + Word * context.count[1]
              = (8 * inputSize) % (Word * Word)
    BY DEF PiecesDoNotMatter
  <2>1. Holds(context, Message) /\ inputSize \in 0..MaxLen
    BY DEF MInv
  <2>2. Message \in Seq(Stored) /\ Len(Message) = inputSize
    BY <2>1, MessageIs DEF Message
  <2>3. /\ IsCount(context.count, Len(Message)) /\ Len(Message) \in Nat
        /\ Part(context.state, Whole(Message), Message, 0)
        /\ Buffered(context.buffer, Behind(Message), Message, Whole(Message))
    BY <2>1, <2>2 DEF Holds
  <2>4. PICK b \in Nat \ {0} : b = QMD5_BLOCK_LENGTH
    BY Sizes
  <2>5. PICK M \in Seq(Stored), whole \in Nat, idx \in 0..(b - 1) :
           /\ M = Message /\ b = QMD5_BLOCK_LENGTH /\ Len(M) = whole + idx
           /\ whole = Whole(Message) /\ idx = Behind(Message)
    <3>1. /\ Behind(Message) \in 0..(b - 1) /\ Whole(Message) \in Nat
          /\ Len(Message) = Whole(Message) + Behind(Message)
      BY <2>2, <2>4, WholeAndRest
    <3>2. QED BY <2>2, <2>4, <3>1
  <2>6. Idx(context.count) = idx
    BY <2>3, <2>5, IdxIsRest DEF Behind
  <2>7. Part(SubSeq(context.buffer, 1, idx), idx, M, whole)
    <3>1. /\ context.buffer \in [1..b -> Byte]
          /\ \A j \in 1..idx : context.buffer[j] = M[whole + j]
      BY <2>3, <2>5 DEF Buffered
    <3>2. context.buffer \in Seq(Byte) /\ Len(context.buffer) = b
      BY <3>1
    <3>3. 0 \in Nat /\ idx \in 0..Len(context.buffer) /\ 0 + 1 = 1 /\ idx - 0 = idx
      BY <3>2
    <3>4. /\ SubSeq(context.buffer, 0 + 1, idx) \in Seq(Byte)
          /\ Len(SubSeq(context.buffer, 0 + 1, idx)) = idx - 0
          /\ \A j \in 1..(idx - 0) :
               SubSeq(context.buffer, 0 + 1, idx)[j] = context.buffer[0 + j]
      BY <3>2, <3>3, Slice
    <3>5. PICK s : /\ s = SubSeq(context.buffer, 1, idx)
                   /\ s \in Seq(Byte) /\ Len(s) = idx
                   /\ \A j \in 1..idx : s[j] = context.buffer[0 + j]
      BY <3>3, <3>4
    <3>6. \A j \in 1..idx : s[j] = M[whole + j] /\ M[whole + j] \in Stored
      <4>1. ASSUME NEW j \in 1..idx PROVE s[j] = M[whole + j] /\ M[whole + j] \in Stored
        <5>1. 0 + j = j /\ whole + j \in 1..Len(M)
          BY <2>5
        <5>2. QED BY <3>1, <3>5, <5>1
      <4>2. QED BY <4>1
    <3>7. s \in Seq(Stored)
      BY <3>5, <3>6
    <3>8. QED BY <3>5, <3>6, <3>7 DEF Part
  <2>8. context.state \o SubSeq(context.buffer, 1, idx) = M
    <3>1. /\ Part(context.state, whole, M, 0)
          /\ 0 + whole = whole /\ idx \in Nat /\ 0 \in Nat
      BY <2>3, <2>5
    <3>2. Part(context.state \o SubSeq(context.buffer, 1, idx), whole + idx, M, 0)
      BY <2>7, <3>1, TwoParts
    <3>3. QED BY <2>5, <3>2, WholePart
  <2>9. QED BY <2>2, <2>3, <2>5, <2>6, <2>8 DEF IsCount
<1>2. QED BY <1>1, MD5Invariance, PTL

\* The digest compresses the padded message, whatever its length: padding that
\* needs a block of its own, lengths that carry into the upper word or overflow it,
\* and bytes left in the buffer by another message (QMD5Pad, QMD5Final).
THEOREM MD5Digest == Spec => []DigestIsOfPaddedMessage
<1>1. MInv => DigestIsOfPaddedMessage
  BY DEF MInv
<1>2. QED BY <1>1, MD5Invariance, PTL
===============================================================================
