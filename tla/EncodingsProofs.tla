-------------------------- MODULE EncodingsProofs --------------------------
(***************************************************************************)
(* base64url_encode, the padding of SHA-256 and the way of forms through   *)
(* URLs are what Encodings holds them against, for every input: induction  *)
(* over their bytes, in place of TLC's bounds.                             *)
(***************************************************************************)
EXTENDS Encodings, SequenceTheorems, FiniteSetTheorems, FunctionTheorems, WellFoundedInduction, TLAPS

\* Every set of natural numbers has a least element.
LEMMA LeastElement ==
    ASSUME NEW U, U \subseteq Nat, U # {}
    PROVE  \E n \in U : \A m \in U : n <= m
<1> DEFINE R == OpToRel(<, Nat)
<1>1. IsWellFoundedOn(R, Nat)
  BY NatLessThanWellFounded
<1>2. \A x, y \in Nat : <<x, y>> \in R <=> x < y
  BY DEF OpToRel
<1> HIDE DEF R
<1>3. PICK n \in U : \A m \in U : ~ (<<m, n>> \in R)
  BY <1>1, WFMin
<1>4. ASSUME NEW m \in U PROVE n <= m
  <2>1. n \in Nat /\ m \in Nat
    OBVIOUS
  <2>2. ~ (m < n)
    BY <1>2, <1>3, <2>1
  <2> QED BY <2>1, <2>2
<1> QED BY <1>4

\* Induction over Nat, stated of a set.
LEMMA Induction ==
    ASSUME NEW T, 0 \in T, \A n \in Nat : n \in T => n + 1 \in T
    PROVE  Nat \subseteq T
<1> DEFINE U == Nat \ T
<1> SUFFICES ASSUME U # {} PROVE FALSE
  OBVIOUS
<1>1. PICK n \in U : \A m \in U : n <= m
  <2> HIDE DEF U
  <2>1. U \subseteq Nat
    BY DEF U
  <2> QED BY <2>1, LeastElement
<1>2. n - 1 \in Nat /\ n - 1 \notin U
  BY <1>1
<1> QED BY <1>2

\* Induction up to a bound.
LEMMA UpTo ==
    ASSUME NEW N \in Nat, NEW T, 0 \in T, \A n \in 1..N : n - 1 \in T => n \in T
    PROVE  0..N \subseteq T
<1> DEFINE U == {n \in Nat : n <= N => n \in T}
<1>1. 0 \in U
  OBVIOUS
<1>2. ASSUME NEW n \in Nat, n \in U PROVE n + 1 \in U
  <2> SUFFICES ASSUME n + 1 <= N PROVE n + 1 \in T
    OBVIOUS
  <2>1. n \in T
    BY <1>2
  <2>2. n + 1 \in 1..N /\ (n + 1) - 1 = n
    OBVIOUS
  <2> QED BY <2>1, <2>2
<1> HIDE DEF U
<1>3. Nat \subseteq U
  BY <1>1, <1>2, Induction
<1> QED BY <1>3 DEF U

\* A bounded one has a greatest.
LEMMA GreatestElement ==
    ASSUME NEW n \in Nat, NEW s \in SUBSET (1..n), s # {}
    PROVE  Max(s) \in s /\ \A y \in s : y <= Max(s)
<1> DEFINE U == {n - x : x \in s}
<1>1. PICK u \in U : \A v \in U : u <= v
  <2>1. \A x \in s : x \in 1..n
    OBVIOUS
  <2>2. \A x \in 1..n : n - x \in Nat
    OBVIOUS
  <2>3. U \subseteq Nat /\ U # {}
    BY <2>1, <2>2
  <2> HIDE DEF U
  <2> QED BY <2>3, LeastElement
<1>2. PICK x \in s : u = n - x
  OBVIOUS
<1>3. ASSUME NEW y \in s PROVE x >= y
  <2>1. n - x <= n - y
    BY <1>1, <1>2
  <2>2. x \in 1..n /\ y \in 1..n
    BY <1>2
  <2> QED BY <2>1, <2>2
<1> QED BY <1>2, <1>3 DEF Max

LEMMA MaxOfTop ==
    ASSUME NEW n \in Nat, NEW s \in SUBSET (1..n), n \in s
    PROVE  Max(s) = n
<1>1. Max(s) \in 1..n /\ n <= Max(s)
  BY GreatestElement
<1> QED BY <1>1

-----------------------------------------------------------------------------

(***************************************************************************)
(* A fold over a sequence is a recursive function on the sets of its       *)
(* positions: there is one when base and steps have their types.           *)
(***************************************************************************)
IsFold(iter, X, base, step, seq) ==
    /\ iter \in [SUBSET DOMAIN seq -> X]
    /\ \A s \in SUBSET DOMAIN seq :
          iter[s] = IF s = {} THEN base ELSE step[<<iter[s \ {Max(s)}], seq[Max(s)]>>]

LEMMA FoldExists ==
    ASSUME NEW X, NEW base \in X, NEW E, NEW step \in [X \X E -> X], NEW seq \in Seq(E)
    PROVE  \E iter : IsFold(iter, X, base, step, seq)
<1> DEFINE Good(n, iter) == \A s \in SUBSET (1..n) :
              iter[s] = IF s = {} THEN base ELSE step[<<iter[s \ {Max(s)}], seq[Max(s)]>>]
           Exists(n) == \E iter \in [SUBSET (1..n) -> X] : Good(n, iter)
           T == {n \in Nat : n <= Len(seq) => Exists(n)}
<1>1. 0 \in T
  <2>1. SUBSET (1..0) = {{}}
    OBVIOUS
  <2>2. [s \in {{}} |-> base] \in [SUBSET (1..0) -> X] /\ Good(0, [s \in {{}} |-> base])
    BY <2>1
  <2> QED BY <2>2
<1>2. \A n \in Nat : n \in T => n + 1 \in T
  <2> SUFFICES ASSUME NEW n \in Nat, n + 1 <= Len(seq), Exists(n)
               PROVE  Exists(n + 1)
    <3> HIDE DEF Exists
    <3> QED OBVIOUS
  <2>1. PICK h \in [SUBSET (1..n) -> X] : Good(n, h)
    OBVIOUS
  <2> DEFINE iter == [s \in SUBSET (1..(n + 1)) |->
                         IF n + 1 \in s THEN step[<<h[s \ {n + 1}], seq[n + 1]>>] ELSE h[s]]
  <2>2. \A s \in SUBSET (1..(n + 1)) : s \ {n + 1} \in SUBSET (1..n)
    OBVIOUS
  <2>3. \A s \in SUBSET (1..(n + 1)) : n + 1 \notin s => s \in SUBSET (1..n)
    OBVIOUS
  <2>4. seq[n + 1] \in E
    OBVIOUS
  <2>5. iter \in [SUBSET (1..(n + 1)) -> X]
    BY <2>1, <2>2, <2>3, <2>4
  <2>6. \A s \in SUBSET (1..n) : iter[s] = h[s]
    BY <2>1
  <2>7. Good(n + 1, iter)
    <3> SUFFICES ASSUME NEW s \in SUBSET (1..(n + 1))
                 PROVE  iter[s] = IF s = {} THEN base ELSE step[<<iter[s \ {Max(s)}], seq[Max(s)]>>]
      OBVIOUS
    <3>1. CASE n + 1 \in s
      <4>1. Max(s) = n + 1
        BY <3>1, MaxOfTop
      <4>2. iter[s] = step[<<h[s \ {n + 1}], seq[n + 1]>>]
        BY <3>1
      <4>3. iter[s \ {n + 1}] = h[s \ {n + 1}]
        BY <2>2, <2>6
      <4> HIDE DEF iter
      <4> QED BY <3>1, <4>1, <4>2, <4>3
    <3>2. CASE n + 1 \notin s
      <4>1. s \in SUBSET (1..n) /\ s \ {Max(s)} \in SUBSET (1..n)
        BY <2>3, <3>2
      <4>2. iter[s] = h[s] /\ iter[s \ {Max(s)}] = h[s \ {Max(s)}]
        BY <2>6, <4>1
      <4> HIDE DEF iter
      <4> QED BY <2>1, <4>1, <4>2
    <3> QED BY <3>1, <3>2
  <2> HIDE DEF iter
  <2> QED BY <2>5, <2>7
<1>3. Len(seq) \in T
  <2> HIDE DEF T
  <2> QED BY <1>1, <1>2, Induction
<1>4. Exists(Len(seq))
  <2> HIDE DEF Exists
  <2> QED BY <1>3
<1>5. DOMAIN seq = 1..Len(seq)
  OBVIOUS
<1>6. \E iter \in [SUBSET DOMAIN seq -> X] : \A s \in SUBSET DOMAIN seq :
              iter[s] = IF s = {} THEN base ELSE step[<<iter[s \ {Max(s)}], seq[Max(s)]>>]
  BY <1>4, <1>5
<1> QED BY <1>6 DEF IsFold

\* What a fold has made of the first n elements.
Steps(g, X, base, step, seq) ==
    /\ g \in [0..Len(seq) -> X]
    /\ g[0] = base
    /\ \A n \in 1..Len(seq) : g[n] = step[<<g[n - 1], seq[n]>>]

FoldsBy(fold, X, base, step, seq) ==
    /\ fold[{}] = base
    /\ \A s \in SUBSET DOMAIN seq :
          s # {} /\ fold[s \ {Max(s)}] \in X =>
              fold[s] = step[<<fold[s \ {Max(s)}], seq[Max(s)]>>]

\* There are such steps, and the fold is the last.
Folded(fold, X, base, step, seq) ==
    \E g : Steps(g, X, base, step, seq) /\ g[Len(seq)] = fold[DOMAIN seq]

LEMMA UpToIs ==
    ASSUME NEW L \in Nat, NEW n \in 1..L
    PROVE  1..n \in SUBSET (1..L) /\ 1..n # {} /\ Max(1..n) = n /\ (1..n) \ {n} = 1..(n - 1)
<1>1. n \in Nat /\ n \in 1..n /\ 1..n \in SUBSET (1..n)
  OBVIOUS
<1>2. Max(1..n) = n
  BY <1>1, MaxOfTop
<1>3. 1..n \in SUBSET (1..L)
  OBVIOUS
<1>4. (1..n) \ {n} = 1..(n - 1)
  OBVIOUS
<1> QED BY <1>1, <1>2, <1>3, <1>4

LEMMA FoldSteps ==
    ASSUME NEW X, NEW base \in X, NEW E, NEW step \in [X \X E -> X], NEW seq \in Seq(E), NEW fold,
           FoldsBy(fold, X, base, step, seq)
    PROVE  Folded(fold, X, base, step, seq)
<1>1. PICK L \in Nat : L = Len(seq) /\ DOMAIN seq = 1..L /\ \A n \in 1..L : seq[n] \in E
  OBVIOUS
<1> DEFINE g == [n \in 0..L |-> fold[1..n]]
<1>2. ASSUME NEW n \in 1..L
      PROVE  1..n \in SUBSET DOMAIN seq /\ 1..n # {} /\ Max(1..n) = n /\ (1..n) \ {n} = 1..(n - 1)
  BY <1>1, UpToIs, Zenon
<1>3. ASSUME NEW n \in 1..L, g[n - 1] \in X
      PROVE  g[n] = step[<<g[n - 1], seq[n]>>] /\ g[n] \in X
  <2>1. g[n] = fold[1..n] /\ g[n - 1] = fold[1..(n - 1)]
    OBVIOUS
  <2> HIDE DEF g
  <2>2. fold[1..n] = step[<<fold[(1..n) \ {Max(1..n)}], seq[Max(1..n)]>>]
    BY <1>2, <1>3, <2>1 DEF FoldsBy
  <2>3. g[n] = step[<<g[n - 1], seq[n]>>]
    BY <1>2, <2>1, <2>2
  <2> QED BY <1>1, <1>3, <2>3
<1>4. g[0] = base
  <2>1. 1..0 = {} /\ 0 \in 0..L
    OBVIOUS
  <2> QED BY <2>1 DEF FoldsBy
<1>5. g[L] = fold[DOMAIN seq]
  BY <1>1
<1>6. \A n \in 0..L : g[n] \in X
  <2> DEFINE T == {n \in 0..L : g[n] \in X}
  <2> HIDE DEF g
  <2>1. 0 \in T
    BY <1>1, <1>4
  <2>2. \A n \in 1..L : n - 1 \in T => n \in T
    <3> SUFFICES ASSUME NEW n \in 1..L, g[n - 1] \in X PROVE n \in 0..L /\ g[n] \in X
      OBVIOUS
    <3>1. g[n] \in X
      BY <1>3
    <3>2. n \in 0..L
      OBVIOUS
    <3> QED BY <3>1, <3>2
  <2>3. 0..L \subseteq T
    <3> HIDE DEF T
    <3> QED BY <2>1, <2>2, UpTo
  <2> QED BY <2>3
<1>7. g \in [0..L -> X]
  BY <1>6
<1> HIDE DEF g
<1>8. \A n \in 1..L : n - 1 \in 0..L
  OBVIOUS
<1>9. Steps(g, X, base, step, seq)
  BY <1>1, <1>3, <1>4, <1>6, <1>7, <1>8 DEF Steps
<1> QED BY <1>1, <1>5, <1>9 DEF Folded

-----------------------------------------------------------------------------

Bytes == 0..255
Bits == [buffer : Nat, count : {0, 2, 4}, encoded : Seq(0..63)]

\* A byte is shifted in, and what does not fit is lost.
LEMMA ShiftedIn == \A buffer \in Nat, byte \in Bytes : (buffer * 256 + byte) % BufferSize \in Nat
<1> SUFFICES ASSUME NEW buffer \in Nat, NEW byte \in Bytes
             PROVE  (buffer * 256 + byte) % BufferSize \in Nat
  OBVIOUS
<1>1. buffer * 256 + byte \in Nat
  BY DEF Bytes
<1> QED BY <1>1, PkceAssumption

LEMMA FeedEach ==
    ASSUME NEW bits \in Bits, NEW byte \in Bytes,
           NEW B \in Nat, B = (bits.buffer * 256 + byte) % BufferSize
    PROVE  /\ bits.count = 0 => Feed(bits, byte) =
                [buffer |-> B, count |-> 2, encoded |-> Append(bits.encoded, (B \div 4) % 64)]
           /\ bits.count = 2 => Feed(bits, byte) =
                [buffer |-> B, count |-> 4, encoded |-> Append(bits.encoded, (B \div 16) % 64)]
           /\ bits.count = 4 => Feed(bits, byte) =
                [buffer |-> B, count |-> 0,
                 encoded |-> Append(Append(bits.encoded, (B \div 64) % 64), B % 64)]
<1> DEFINE full(c) == [buffer |-> B, count |-> c, encoded |-> bits.encoded]
<1>3. Feed(bits, byte) = LET once == Take6(full(bits.count + 8))
                         IN  IF once.count >= 6 THEN Take6(once) ELSE once
  BY DEF Feed
<1>4. ASSUME bits.count = 0
      PROVE  Feed(bits, byte) =
                [buffer |-> B, count |-> 2, encoded |-> Append(bits.encoded, (B \div 4) % 64)]
  <2>1. Take6(full(8)) = [buffer |-> B, count |-> 2, encoded |-> Append(bits.encoded, (B \div 4) % 64)]
    BY DEF Take6
  <2> QED BY <1>3, <1>4, <2>1
<1>5. ASSUME bits.count = 2
      PROVE  Feed(bits, byte) =
                [buffer |-> B, count |-> 4, encoded |-> Append(bits.encoded, (B \div 16) % 64)]
  <2>1. Take6(full(10)) = [buffer |-> B, count |-> 4, encoded |-> Append(bits.encoded, (B \div 16) % 64)]
    BY DEF Take6
  <2> QED BY <1>3, <1>5, <2>1
<1>6. ASSUME bits.count = 4
      PROVE  Feed(bits, byte) =
                [buffer |-> B, count |-> 0,
                 encoded |-> Append(Append(bits.encoded, (B \div 64) % 64), B % 64)]
  <2> DEFINE once == [buffer |-> B, count |-> 6, encoded |-> Append(bits.encoded, (B \div 64) % 64)]
  <2>1. Take6(full(12)) = once
    BY DEF Take6
  <2>2. B \div 1 = B
    OBVIOUS
  <2>3. Take6(once) = [buffer |-> B, count |-> 0,
                       encoded |-> Append(Append(bits.encoded, (B \div 64) % 64), B % 64)]
    BY <2>2 DEF Take6
  <2> QED BY <1>3, <1>6, <2>1, <2>3
<1> QED BY <1>4, <1>5, <1>6

LEMMA FeedType ==
    ASSUME NEW bits \in Bits, NEW byte \in Bytes
    PROVE  Feed(bits, byte) \in Bits
<1>0. PICK B \in Nat : B = (bits.buffer * 256 + byte) % BufferSize
  BY ShiftedIn DEF Bits
<1>1. bits.count \in {0, 2, 4} /\ bits.encoded \in Seq(0..63)
  BY DEF Bits
<1>2. /\ bits.count = 0 => Feed(bits, byte) =
           [buffer |-> B, count |-> 2, encoded |-> Append(bits.encoded, (B \div 4) % 64)]
      /\ bits.count = 2 => Feed(bits, byte) =
           [buffer |-> B, count |-> 4, encoded |-> Append(bits.encoded, (B \div 16) % 64)]
      /\ bits.count = 4 => Feed(bits, byte) =
           [buffer |-> B, count |-> 0,
            encoded |-> Append(Append(bits.encoded, (B \div 64) % 64), B % 64)]
  BY <1>0, FeedEach
<1>3. (B \div 4) % 64 \in 0..63 /\ (B \div 16) % 64 \in 0..63 /\ (B \div 64) % 64 \in 0..63 /\ B % 64 \in 0..63
  OBVIOUS
<1>4. ASSUME NEW x \in 0..63, NEW y \in 0..63
      PROVE  /\ Append(bits.encoded, x) \in Seq(0..63)
             /\ Append(Append(bits.encoded, x), y) \in Seq(0..63)
  BY <1>1, AppendProperties
<1>5. \A c \in {0, 2, 4}, e \in Seq(0..63) : [buffer |-> B, count |-> c, encoded |-> e] \in Bits
  BY DEF Bits
<1> QED BY <1>1, <1>2, <1>3, <1>4, <1>5, ZenonT(30)

\* The fold over the bytes, a byte at a time.
FeedStep == [x \in Bits \X Bytes |-> Feed(x[1], x[2])]

LEMMA FoldFeed ==
    ASSUME NEW seq \in Seq(Bytes)
    PROVE  \E g \in [0..Len(seq) -> Bits] :
              /\ g[0] = Empty
              /\ \A n \in 1..Len(seq) : g[n] = Feed(g[n - 1], seq[n])
              /\ FoldLeft(Feed, Empty, seq) = g[Len(seq)]
<1> DEFINE Rec(iter) == iter = [s \in SUBSET DOMAIN seq |-> IF s = {} THEN Empty
                                  ELSE LET x == Max(s) IN Feed(iter[s \ {x}], seq[x])]
           fold == CHOOSE iter : Rec(iter)
<1>1. FoldLeft(Feed, Empty, seq) = fold[DOMAIN seq]
  BY DEF FoldLeft, MapThenFoldSet
<1>2. FeedStep \in [Bits \X Bytes -> Bits] /\ Empty \in Bits
  BY FeedType DEF FeedStep, Empty, Bits
<1>3. PICK iter : IsFold(iter, Bits, Empty, FeedStep, seq)
  BY <1>2, FoldExists
<1>4. ASSUME NEW s \in SUBSET DOMAIN seq, s # {}
      PROVE  Max(s) \in DOMAIN seq /\ seq[Max(s)] \in Bytes
  <2>1. Len(seq) \in Nat /\ s \in SUBSET (1..Len(seq))
    OBVIOUS
  <2>2. Max(s) \in s
    BY <1>4, <2>1, GreatestElement
  <2> QED BY <2>2
<1>5. \A bits \in Bits, byte \in Bytes : FeedStep[<<bits, byte>>] = Feed(bits, byte)
  BY DEF FeedStep
<1>6. Rec(iter)
  <2>1. ASSUME NEW s \in SUBSET DOMAIN seq, s # {}
        PROVE  FeedStep[<<iter[s \ {Max(s)}], seq[Max(s)]>>] = Feed(iter[s \ {Max(s)}], seq[Max(s)])
    <3>1. iter[s \ {Max(s)}] \in Bits
      BY <1>3 DEF IsFold
    <3> QED BY <1>4, <1>5, <2>1, <3>1
  <2> QED BY <1>3, <2>1 DEF IsFold
<1>7. Rec(fold)
  BY <1>6
<1> HIDE DEF fold
<1>8. FoldsBy(fold, Bits, Empty, FeedStep, seq)
  <2>1. fold[{}] = Empty
    BY <1>7
  <2>2. ASSUME NEW s \in SUBSET DOMAIN seq, s # {}, fold[s \ {Max(s)}] \in Bits
        PROVE  fold[s] = FeedStep[<<fold[s \ {Max(s)}], seq[Max(s)]>>]
    <3>1. fold[s] = Feed(fold[s \ {Max(s)}], seq[Max(s)])
      BY <1>7, <2>2
    <3> QED BY <1>4, <1>5, <2>2, <3>1
  <2> QED BY <2>1, <2>2 DEF FoldsBy
<1>9. Folded(fold, Bits, Empty, FeedStep, seq)
  BY <1>2, <1>8, FoldSteps
<1>10. PICK g : Steps(g, Bits, Empty, FeedStep, seq) /\ g[Len(seq)] = fold[DOMAIN seq]
  BY <1>9 DEF Folded
<1>11. g \in [0..Len(seq) -> Bits] /\ g[0] = Empty
  BY <1>10 DEF Steps
<1>12. ASSUME NEW n \in 1..Len(seq) PROVE g[n] = Feed(g[n - 1], seq[n])
  <2>1. g[n] = FeedStep[<<g[n - 1], seq[n]>>]
    BY <1>10 DEF Steps
  <2>2. g[n - 1] \in Bits /\ seq[n] \in Bytes
    <3>1. n - 1 \in 0..Len(seq)
      OBVIOUS
    <3> QED BY <1>11, <3>1
  <2> QED BY <1>5, <2>1, <2>2
<1> QED BY <1>1, <1>10, <1>11, <1>12

-----------------------------------------------------------------------------

\* The n-th byte of the input, and zero past its end.
ByteAt(n) == IF n \in 1..Len(input) THEN input[n] ELSE 0

\* The six bits that the i-th character stands for.
Sextet(i) ==
    32 * Bit(6 * i - 6) + 16 * Bit(6 * i - 5) + 8 * Bit(6 * i - 4)
        + 4 * Bit(6 * i - 3) + 2 * Bit(6 * i - 2) + Bit(6 * i - 1)

LEMMA ByteAtType ==
    ASSUME input \in Seq(Bytes), NEW n \in Nat
    PROVE  ByteAt(n) \in Bytes
<1>1. n \in 1..Len(input) => input[n] \in Bytes
  OBVIOUS
<1>2. 0 \in Bytes
  BY DEF Bytes
<1> QED BY <1>1, <1>2 DEF ByteAt

\* Where a bit is, and what it is divided by.
LEMMA BitOfByte ==
    ASSUME input \in Seq(Bytes), NEW q \in Nat, NEW r \in 0..7, NEW p \in Nat \ {0}, 2^(7 - r) = p
    PROVE  Bit(8 * q + r) = (ByteAt(q + 1) \div p) % 2
<1>1. (8 * q + r) \div 8 = q /\ (8 * q + r) % 8 = r
  OBVIOUS
<1>2. 8 * q + r < 8 * Len(input) <=> q + 1 \in 1..Len(input)
  OBVIOUS
<1>3. (0 \div p) % 2 = 0
  <2>1. 0 \div p = 0
    OBVIOUS
  <2> QED BY <2>1
<1> QED BY <1>1, <1>2, <1>3 DEF Bit, ByteAt

LEMMA BitsOfByte ==
    ASSUME input \in Seq(Bytes), NEW q \in Nat
    PROVE  LET b == ByteAt(q + 1)
               n == 8 * q
           IN  /\ b \in 0..255
               /\ Bit(n) = (b \div 128) % 2 /\ Bit(n + 1) = (b \div 64) % 2
               /\ Bit(n + 2) = (b \div 32) % 2 /\ Bit(n + 3) = (b \div 16) % 2
               /\ Bit(n + 4) = (b \div 8) % 2 /\ Bit(n + 5) = (b \div 4) % 2
               /\ Bit(n + 6) = (b \div 2) % 2 /\ Bit(n + 7) = b % 2
<1> DEFINE b == ByteAt(q + 1)
           n == 8 * q
<1>1. b \in 0..255
  BY ByteAtType DEF Bytes
<1>2. \A c \in 0..255 : c \div 1 = c
  OBVIOUS
<1>3. /\ 2^(7 - 0) = 128 /\ 2^(7 - 1) = 64 /\ 2^(7 - 2) = 32 /\ 2^(7 - 3) = 16
      /\ 2^(7 - 4) = 8 /\ 2^(7 - 5) = 4 /\ 2^(7 - 6) = 2 /\ 2^(7 - 7) = 1
  OBVIOUS
<1>4. n + 0 = n
  OBVIOUS
<1> HIDE DEF b
<1>5. Bit(n + 0) = (b \div 128) % 2
  BY <1>3, BitOfByte DEF b
<1>6. Bit(n + 1) = (b \div 64) % 2
  BY <1>3, BitOfByte DEF b
<1>7. Bit(n + 2) = (b \div 32) % 2
  BY <1>3, BitOfByte DEF b
<1>8. Bit(n + 3) = (b \div 16) % 2
  BY <1>3, BitOfByte DEF b
<1>9. Bit(n + 4) = (b \div 8) % 2
  BY <1>3, BitOfByte DEF b
<1>10. Bit(n + 5) = (b \div 4) % 2
  BY <1>3, BitOfByte DEF b
<1>11. Bit(n + 6) = (b \div 2) % 2
  BY <1>3, BitOfByte DEF b
<1>12. Bit(n + 7) = (b \div 1) % 2
  BY <1>3, BitOfByte DEF b
<1> HIDE DEF n
<1> QED BY <1>1, <1>2, <1>4, <1>5, <1>6, <1>7, <1>8, <1>9, <1>10, <1>11, <1>12 DEF b, n

\* Four characters stand for three bytes.
LEMMA SextetsOfBytes ==
    ASSUME input \in Seq(Bytes), NEW j \in Nat
    PROVE  /\ Sextet(4 * j + 1) = ByteAt(3 * j + 1) \div 4
           /\ Sextet(4 * j + 2) = (ByteAt(3 * j + 1) % 4) * 16 + ByteAt(3 * j + 2) \div 16
           /\ Sextet(4 * j + 3) = (ByteAt(3 * j + 2) % 16) * 4 + ByteAt(3 * j + 3) \div 64
           /\ Sextet(4 * j + 4) = ByteAt(3 * j + 3) % 64
<1> DEFINE b(k) == ByteAt(3 * j + k)
<1>1. ASSUME NEW k \in 1..3, NEW n, n = 24 * j + 8 * (k - 1)
      PROVE  /\ b(k) \in 0..255
             /\ Bit(n) = (b(k) \div 128) % 2 /\ Bit(n + 1) = (b(k) \div 64) % 2
             /\ Bit(n + 2) = (b(k) \div 32) % 2 /\ Bit(n + 3) = (b(k) \div 16) % 2
             /\ Bit(n + 4) = (b(k) \div 8) % 2 /\ Bit(n + 5) = (b(k) \div 4) % 2
             /\ Bit(n + 6) = (b(k) \div 2) % 2 /\ Bit(n + 7) = b(k) % 2
  <2>1. PICK q \in Nat : q = 3 * j + k - 1
    OBVIOUS
  <2>2. n = 8 * q /\ q + 1 = 3 * j + k
    BY <1>1, <2>1
  <2>3. b(k) = ByteAt(q + 1)
    BY <2>2
  <2> HIDE DEF b
  <2> QED BY <2>2, <2>3, BitsOfByte, SMTT(30)
<1> HIDE DEF b
<1>2. \A c \in 0..255 :
         /\ 32 * ((c \div 128) % 2) + 16 * ((c \div 64) % 2) + 8 * ((c \div 32) % 2)
               + 4 * ((c \div 16) % 2) + 2 * ((c \div 8) % 2) + ((c \div 4) % 2) = c \div 4
         /\ 32 * ((c \div 2) % 2) + 16 * (c % 2) = (c % 4) * 16
         /\ 8 * ((c \div 128) % 2) + 4 * ((c \div 64) % 2) + 2 * ((c \div 32) % 2)
               + ((c \div 16) % 2) = c \div 16
         /\ 32 * ((c \div 8) % 2) + 16 * ((c \div 4) % 2) + 8 * ((c \div 2) % 2)
               + 4 * (c % 2) = (c % 16) * 4
         /\ 2 * ((c \div 128) % 2) + ((c \div 64) % 2) = c \div 64
         /\ 32 * ((c \div 32) % 2) + 16 * ((c \div 16) % 2) + 8 * ((c \div 8) % 2)
               + 4 * ((c \div 4) % 2) + 2 * ((c \div 2) % 2) + (c % 2) = c % 64
  OBVIOUS
<1>3. Sextet(4 * j + 1) = b(1) \div 4
  <2>1. PICK n \in Nat : n = 24 * j
    OBVIOUS
  <2>2. Sextet(4 * j + 1) = 32 * Bit(n) + 16 * Bit(n + 1) + 8 * Bit(n + 2)
                              + 4 * Bit(n + 3) + 2 * Bit(n + 4) + Bit(n + 5)
    <3>1. /\ 6 * (4 * j + 1) - 6 = n /\ 6 * (4 * j + 1) - 5 = n + 1 /\ 6 * (4 * j + 1) - 4 = n + 2
          /\ 6 * (4 * j + 1) - 3 = n + 3 /\ 6 * (4 * j + 1) - 2 = n + 4 /\ 6 * (4 * j + 1) - 1 = n + 5
      BY <2>1
    <3> QED BY <3>1 DEF Sextet
  <2>3. n = 24 * j + 8 * (1 - 1)
    BY <2>1
  <2>4. /\ b(1) \in 0..255
        /\ Bit(n) = (b(1) \div 128) % 2 /\ Bit(n + 1) = (b(1) \div 64) % 2
        /\ Bit(n + 2) = (b(1) \div 32) % 2 /\ Bit(n + 3) = (b(1) \div 16) % 2
        /\ Bit(n + 4) = (b(1) \div 8) % 2 /\ Bit(n + 5) = (b(1) \div 4) % 2
    BY <1>1, <2>3
  <2> QED BY <1>2, <2>2, <2>4
<1>4. Sextet(4 * j + 2) = (b(1) % 4) * 16 + b(2) \div 16
  <2>1. PICK m \in Nat, n \in Nat : m = 24 * j /\ n = 24 * j + 8
    <3>1. 24 * j \in Nat /\ 24 * j + 8 \in Nat
      OBVIOUS
    <3> QED BY <3>1
  <2>2. Sextet(4 * j + 2) = 32 * Bit(m + 6) + 16 * Bit(m + 7) + 8 * Bit(n)
                              + 4 * Bit(n + 1) + 2 * Bit(n + 2) + Bit(n + 3)
    <3>1. /\ 6 * (4 * j + 2) - 6 = m + 6 /\ 6 * (4 * j + 2) - 5 = m + 7 /\ 6 * (4 * j + 2) - 4 = n
          /\ 6 * (4 * j + 2) - 3 = n + 1 /\ 6 * (4 * j + 2) - 2 = n + 2 /\ 6 * (4 * j + 2) - 1 = n + 3
      BY <2>1
    <3> QED BY <3>1 DEF Sextet
  <2>3. m = 24 * j + 8 * (1 - 1) /\ n = 24 * j + 8 * (2 - 1)
    BY <2>1
  <2>4. /\ b(1) \in 0..255 /\ Bit(m + 6) = (b(1) \div 2) % 2
        /\ Bit(m + 7) = b(1) % 2
    BY <1>1, <2>3
  <2>5. /\ b(2) \in 0..255 /\ Bit(n) = (b(2) \div 128) % 2
        /\ Bit(n + 1) = (b(2) \div 64) % 2 /\ Bit(n + 2) = (b(2) \div 32) % 2
        /\ Bit(n + 3) = (b(2) \div 16) % 2
    BY <1>1, <2>3
  <2>6. PICK x \in 0..255, y \in 0..255 : b(1) = x /\ b(2) = y
    BY <2>4, <2>5
  <2>7. Sextet(4 * j + 2) = 32 * ((x \div 2) % 2) + 16 * (x % 2) + 8 * ((y \div 128) % 2)
                              + 4 * ((y \div 64) % 2) + 2 * ((y \div 32) % 2) + ((y \div 16) % 2)
    BY <2>2, <2>4, <2>5, <2>6
  <2>8. /\ 32 * ((x \div 2) % 2) + 16 * (x % 2) = (x % 4) * 16
        /\ 8 * ((y \div 128) % 2) + 4 * ((y \div 64) % 2) + 2 * ((y \div 32) % 2)
              + ((y \div 16) % 2) = y \div 16
    BY <1>2
  <2> QED BY <2>6, <2>7, <2>8
<1>5. Sextet(4 * j + 3) = (b(2) % 16) * 4 + b(3) \div 64
  <2>1. PICK m \in Nat, n \in Nat : m = 24 * j + 8 /\ n = 24 * j + 16
    <3>1. 24 * j + 8 \in Nat /\ 24 * j + 16 \in Nat
      OBVIOUS
    <3> QED BY <3>1
  <2>2. Sextet(4 * j + 3) = 32 * Bit(m + 4) + 16 * Bit(m + 5) + 8 * Bit(m + 6)
                              + 4 * Bit(m + 7) + 2 * Bit(n) + Bit(n + 1)
    <3>1. /\ 6 * (4 * j + 3) - 6 = m + 4 /\ 6 * (4 * j + 3) - 5 = m + 5 /\ 6 * (4 * j + 3) - 4 = m + 6
          /\ 6 * (4 * j + 3) - 3 = m + 7 /\ 6 * (4 * j + 3) - 2 = n /\ 6 * (4 * j + 3) - 1 = n + 1
      BY <2>1
    <3> QED BY <3>1 DEF Sextet
  <2>3. m = 24 * j + 8 * (2 - 1) /\ n = 24 * j + 8 * (3 - 1)
    BY <2>1
  <2>4. /\ b(2) \in 0..255 /\ Bit(m + 4) = (b(2) \div 8) % 2
        /\ Bit(m + 5) = (b(2) \div 4) % 2 /\ Bit(m + 6) = (b(2) \div 2) % 2
        /\ Bit(m + 7) = b(2) % 2
    BY <1>1, <2>3
  <2>5. /\ b(3) \in 0..255 /\ Bit(n) = (b(3) \div 128) % 2
        /\ Bit(n + 1) = (b(3) \div 64) % 2
    BY <1>1, <2>3
  <2>6. PICK x \in 0..255, y \in 0..255 : b(2) = x /\ b(3) = y
    BY <2>4, <2>5
  <2>7. Sextet(4 * j + 3) = 32 * ((x \div 8) % 2) + 16 * ((x \div 4) % 2) + 8 * ((x \div 2) % 2)
                              + 4 * (x % 2) + 2 * ((y \div 128) % 2) + ((y \div 64) % 2)
    BY <2>2, <2>4, <2>5, <2>6
  <2>8. /\ 32 * ((x \div 8) % 2) + 16 * ((x \div 4) % 2) + 8 * ((x \div 2) % 2)
              + 4 * (x % 2) = (x % 16) * 4
        /\ 2 * ((y \div 128) % 2) + ((y \div 64) % 2) = y \div 64
    BY <1>2
  <2>9. Sextet(4 * j + 3) = (x % 16) * 4 + y \div 64
    BY <2>7, <2>8
  <2> QED BY <2>6, <2>9
<1>6. Sextet(4 * j + 4) = b(3) % 64
  <2>1. PICK n \in Nat : n = 24 * j + 16
    OBVIOUS
  <2>2. Sextet(4 * j + 4) = 32 * Bit(n + 2) + 16 * Bit(n + 3) + 8 * Bit(n + 4)
                              + 4 * Bit(n + 5) + 2 * Bit(n + 6) + Bit(n + 7)
    <3>1. /\ 6 * (4 * j + 4) - 6 = n + 2 /\ 6 * (4 * j + 4) - 5 = n + 3 /\ 6 * (4 * j + 4) - 4 = n + 4
          /\ 6 * (4 * j + 4) - 3 = n + 5 /\ 6 * (4 * j + 4) - 2 = n + 6 /\ 6 * (4 * j + 4) - 1 = n + 7
      BY <2>1
    <3> QED BY <3>1 DEF Sextet
  <2>3. n = 24 * j + 8 * (3 - 1)
    BY <2>1
  <2>4. /\ b(3) \in 0..255 /\ Bit(n + 2) = (b(3) \div 32) % 2
        /\ Bit(n + 3) = (b(3) \div 16) % 2 /\ Bit(n + 4) = (b(3) \div 8) % 2
        /\ Bit(n + 5) = (b(3) \div 4) % 2 /\ Bit(n + 6) = (b(3) \div 2) % 2
        /\ Bit(n + 7) = b(3) % 2
    BY <1>1, <2>3
  <2> QED BY <1>2, <2>2, <2>4
<1> QED BY <1>3, <1>4, <1>5, <1>6 DEF b

-----------------------------------------------------------------------------

\* The first m characters say what the input's bits say.
Says(seq, m) == seq \in Seq(0..63) /\ Len(seq) = m /\ \A i \in 1..m : seq[i] = Sextet(i)

LEMMA SaysOneMore ==
    ASSUME NEW seq, NEW m \in Nat, Says(seq, m), NEW x \in 0..63, x = Sextet(m + 1)
    PROVE  Says(Append(seq, x), m + 1)
<1>1. seq \in Seq(0..63) /\ Len(seq) = m
  BY DEF Says
<1>2. /\ Append(seq, x) \in Seq(0..63) /\ Len(Append(seq, x)) = m + 1
      /\ \A i \in 1..m : Append(seq, x)[i] = seq[i]
      /\ Append(seq, x)[m + 1] = x
  BY <1>1, AppendProperties
<1>3. ASSUME NEW i \in 1..(m + 1) PROVE Append(seq, x)[i] = Sextet(i)
  <2>1. CASE i \in 1..m
    <3>1. seq[i] = Sextet(i)
      BY <2>1, Zenon DEF Says
    <3> QED BY <1>2, <2>1, <3>1, Zenon
  <2>2. CASE i = m + 1
    BY <1>2, <2>2, Zenon
  <2>3. i \in 1..m \/ i = m + 1
    OBVIOUS
  <2> QED BY <2>1, <2>2, <2>3, Zenon
<1> QED BY <1>2, <1>3, Zenon DEF Says

\* What g, the fold, has made of the first n bytes.
Fed(g, n) ==
    /\ g[n] \in Bits
    /\ g[n].count = 2 * (n % 3)
    /\ n > 0 => g[n].buffer % 256 = ByteAt(n)
    /\ Says(g[n].encoded, (8 * n) \div 6)

\* What can still be read of B, the buffer after a byte is shifted into it.
Readable(buffer, byte, B) ==
    /\ B % 256 = byte
    /\ (B \div 4) % 64 = byte \div 4
    /\ (B \div 16) % 64 = (buffer % 4) * 16 + byte \div 16
    /\ (B \div 64) % 64 = (buffer % 16) * 4 + byte \div 64
    /\ B % 64 = byte % 64

\* Of a buffer that overflows, the bits of its last byte and the four before it
\* are right.
LEMMA LastBits ==
    ASSUME NEW buffer \in Nat, NEW byte \in 0..255,
           NEW B \in Nat, B = (buffer * 256 + byte) % BufferSize
    PROVE  Readable(buffer, byte, B)
<1>1. buffer * 256 + byte \in Nat
  OBVIOUS
<1>2. BufferSize \in Nat /\ BufferSize > 0 /\ BufferSize % 4096 = 0
  <2>1. 2^12 = 4096
    OBVIOUS
  <2> QED BY <2>1, PkceAssumption
<1>3. PICK q \in Int : buffer * 256 + byte = q * BufferSize + B
  <2>1. \A x, M \in Nat : M > 0 => x = (x \div M) * M + (x % M) /\ x \div M \in Int
    OBVIOUS
  <2> QED BY <1>1, <1>2, <2>1
<1>4. PICK r \in Int : BufferSize = r * 4096
  BY <1>2
<1>6. PICK s \in Int : buffer * 256 + byte = s * 4096 + B
  <2>1. buffer * 256 + byte = (q * r) * 4096 + B
    BY <1>3, <1>4
  <2>2. q * r \in Int
    BY <1>3, <1>4
  <2> QED BY <2>1, <2>2
<1>7. B % 4096 = (buffer % 16) * 256 + byte
  BY <1>6
<1> QED BY <1>7, SMTT(30) DEF Readable

\* One more byte.
LEMMA FedStep ==
    ASSUME input \in Seq(Bytes), NEW g, NEW n \in Nat, n < Len(input), Fed(g, n),
           g[n + 1] = Feed(g[n], input[n + 1])
    PROVE  Fed(g, n + 1)
<1>1. PICK buffer \in Nat, encoded \in Seq(0..63), byte \in 0..255 :
         g[n].buffer = buffer /\ g[n].encoded = encoded /\ input[n + 1] = byte
  <2>1. g[n] \in Bits
    BY DEF Fed
  <2>2. g[n].buffer \in Nat /\ g[n].encoded \in Seq(0..63)
    BY <2>1 DEF Bits
  <2>3. input[n + 1] \in Bytes
    OBVIOUS
  <2> QED BY <2>2, <2>3 DEF Bytes
<1>2. /\ g[n] \in Bits /\ g[n].count = 2 * (n % 3)
      /\ n > 0 => buffer % 256 = ByteAt(n)
      /\ Says(encoded, (8 * n) \div 6)
  BY <1>1 DEF Fed
<1>3. byte \in Bytes /\ ByteAt(n + 1) = byte
  BY <1>1 DEF ByteAt, Bytes
<1>4. PICK B \in Nat : B = (buffer * 256 + byte) % BufferSize
  BY <1>3, ShiftedIn
<1>5. /\ B % 256 = byte
      /\ (B \div 4) % 64 = byte \div 4
      /\ (B \div 16) % 64 = (buffer % 4) * 16 + byte \div 16
      /\ (B \div 64) % 64 = (buffer % 16) * 4 + byte \div 64
      /\ B % 64 = byte % 64
  <2>1. Readable(buffer, byte, B)
    BY <1>4, LastBits
  <2> QED BY <2>1 DEF Readable
<1>6. /\ g[n].count = 0 => g[n + 1] =
           [buffer |-> B, count |-> 2, encoded |-> Append(encoded, (B \div 4) % 64)]
      /\ g[n].count = 2 => g[n + 1] =
           [buffer |-> B, count |-> 4, encoded |-> Append(encoded, (B \div 16) % 64)]
      /\ g[n].count = 4 => g[n + 1] =
           [buffer |-> B, count |-> 0,
            encoded |-> Append(Append(encoded, (B \div 64) % 64), B % 64)]
  <2>1. /\ g[n] \in Bits /\ byte \in Bytes /\ g[n + 1] = Feed(g[n], byte)
        /\ B = (g[n].buffer * 256 + byte) % BufferSize /\ encoded = g[n].encoded
    BY <1>1, <1>2, <1>3, <1>4
  <2> QED BY <1>4, <2>1, FeedEach, ZenonT(30)
<1>7. n > 0 => buffer % 4 = ByteAt(n) % 4 /\ buffer % 16 = ByteAt(n) % 16
  <2>1. buffer % 4 = (buffer % 256) % 4
    OBVIOUS
  <2>2. buffer % 16 = (buffer % 256) % 16
    OBVIOUS
  <2> QED BY <1>2, <2>1, <2>2
<1>8. g[n + 1] \in Bits
  BY <1>2, <1>3, <1>1, FeedType
<1>9. (B \div 4) % 64 \in 0..63 /\ (B \div 16) % 64 \in 0..63 /\ (B \div 64) % 64 \in 0..63
        /\ B % 64 \in 0..63
  OBVIOUS
<1>10. g[n + 1].buffer = B => g[n + 1].buffer % 256 = ByteAt(n + 1)
  BY <1>3, <1>5
<1>11. CASE n % 3 = 0
  <2>1. PICK j \in Nat : n = 3 * j
    BY <1>11
  <2>2. (8 * n) \div 6 = 4 * j /\ (8 * (n + 1)) \div 6 = 4 * j + 1 /\ (n + 1) % 3 = 1
    BY <2>1
  <2>3. Sextet(4 * j + 1) = byte \div 4
    BY <1>3, <2>1, SextetsOfBytes
  <2>4. g[n].count = 0
    BY <1>2, <1>11
  <2>5. g[n + 1] = [buffer |-> B, count |-> 2, encoded |-> Append(encoded, (B \div 4) % 64)]
    BY <1>6, <2>4
  <2>6. 4 * j \in Nat /\ Says(encoded, 4 * j)
    <3>1. 4 * j \in Nat
      BY <2>1
    <3> QED BY <1>2, <2>2, <3>1, Zenon
  <2>12. (B \div 4) % 64 = Sextet(4 * j + 1)
    BY <1>5, <2>3, Zenon
  <2>7. Says(Append(encoded, (B \div 4) % 64), 4 * j + 1)
    BY <1>9, <2>6, <2>12, SaysOneMore, Zenon
  <2>8. /\ g[n + 1].buffer = B /\ g[n + 1].count = 2
        /\ g[n + 1].encoded = Append(encoded, (B \div 4) % 64)
    BY <2>5
  <2>9. 2 = 2 * ((n + 1) % 3)
    BY <2>2
  <2> QED BY <1>8, <1>10, <2>2, <2>7, <2>8, <2>9, Zenon DEF Fed
<1>12. CASE n % 3 = 1
  <2>1. PICK j \in Nat : n = 3 * j + 1
    BY <1>12
  <2>2. (8 * n) \div 6 = 4 * j + 1 /\ (8 * (n + 1)) \div 6 = 4 * j + 2 /\ (n + 1) % 3 = 2
    BY <2>1
  <2>3. Sextet(4 * j + 2) = (ByteAt(n) % 4) * 16 + byte \div 16
    BY <1>3, <2>1, SextetsOfBytes
  <2>4. g[n].count = 2 /\ n > 0
    BY <1>2, <1>12
  <2>5. g[n + 1] = [buffer |-> B, count |-> 4, encoded |-> Append(encoded, (B \div 16) % 64)]
    BY <1>6, <2>4
  <2>6. (B \div 16) % 64 = Sextet(4 * j + 2)
    BY <1>5, <1>7, <2>3, <2>4
  <2>7. 4 * j + 1 \in Nat /\ Says(encoded, 4 * j + 1) /\ 4 * j + 1 + 1 = 4 * j + 2
    <3>1. 4 * j + 1 \in Nat /\ 4 * j + 1 + 1 = 4 * j + 2
      BY <2>1
    <3> QED BY <1>2, <2>2, <3>1, Zenon
  <2>8. Says(Append(encoded, (B \div 16) % 64), 4 * j + 2)
    BY <1>9, <2>6, <2>7, SaysOneMore, Zenon
  <2>9. /\ g[n + 1].buffer = B /\ g[n + 1].count = 4
        /\ g[n + 1].encoded = Append(encoded, (B \div 16) % 64)
    BY <2>5
  <2>10. 4 = 2 * ((n + 1) % 3)
    BY <2>2
  <2> QED BY <1>8, <1>10, <2>2, <2>8, <2>9, <2>10, Zenon DEF Fed
<1>13. CASE n % 3 = 2
  <2>1. PICK j \in Nat : n = 3 * j + 2
    BY <1>13
  <2>2. (8 * n) \div 6 = 4 * j + 2 /\ (8 * (n + 1)) \div 6 = 4 * j + 4 /\ (n + 1) % 3 = 0
    BY <2>1
  <2>3. /\ Sextet(4 * j + 3) = (ByteAt(n) % 16) * 4 + byte \div 64
        /\ Sextet(4 * j + 4) = byte % 64
    BY <1>3, <2>1, SextetsOfBytes
  <2>4. g[n].count = 4 /\ n > 0
    BY <1>2, <1>13
  <2>5. g[n + 1] = [buffer |-> B, count |-> 0,
                    encoded |-> Append(Append(encoded, (B \div 64) % 64), B % 64)]
    BY <1>6, <2>4
  <2>6. (B \div 64) % 64 = Sextet(4 * j + 3) /\ B % 64 = Sextet(4 * j + 4)
    <3>1. buffer % 16 = ByteAt(n) % 16
      BY <1>7, <2>4
    <3>2. (B \div 64) % 64 = (ByteAt(n) % 16) * 4 + byte \div 64
      BY <1>5, <3>1, ZenonT(30)
    <3>3. B % 64 = byte % 64
      BY <1>5
    <3> QED BY <2>3, <3>2, <3>3, ZenonT(30)
  <2>7. /\ 4 * j + 2 \in Nat /\ Says(encoded, 4 * j + 2) /\ 4 * j + 2 + 1 = 4 * j + 3
        /\ 4 * j + 3 \in Nat /\ 4 * j + 3 + 1 = 4 * j + 4
    <3>1. Says(encoded, 4 * j + 2)
      BY <1>2, <2>2
    <3> QED BY <3>1
  <2>8. Says(Append(encoded, (B \div 64) % 64), 4 * j + 3)
    BY <1>9, <2>6, <2>7, SaysOneMore, Zenon
  <2>9. Says(Append(Append(encoded, (B \div 64) % 64), B % 64), 4 * j + 4)
    BY <1>9, <2>6, <2>7, <2>8, SaysOneMore, Zenon
  <2>10. /\ g[n + 1].buffer = B /\ g[n + 1].count = 0
         /\ g[n + 1].encoded = Append(Append(encoded, (B \div 64) % 64), B % 64)
    BY <2>5
  <2>11. 0 = 2 * ((n + 1) % 3)
    BY <2>2
  <2> QED BY <1>8, <1>10, <2>2, <2>9, <2>10, <2>11, Zenon DEF Fed
<1> QED BY <1>11, <1>12, <1>13


\* All bytes.
LEMMA FedAll ==
    ASSUME input \in Seq(Bytes), NEW g \in [0..Len(input) -> Bits], g[0] = Empty,
           \A n \in 1..Len(input) : g[n] = Feed(g[n - 1], input[n])
    PROVE  Fed(g, Len(input))
<1> DEFINE T == {n \in 0..Len(input) : Fed(g, n)}
<1>1. Len(input) \in Nat
  OBVIOUS
<1>2. 0 \in T
  <2>1. 2 * (0 % 3) = 0 /\ (8 * 0) \div 6 = 0
    OBVIOUS
  <2>2. g[0].count = 0 /\ g[0].encoded = << >> /\ g[0] \in Bits
    BY <1>1 DEF Empty
  <2>3. Says(<< >>, 0)
    <3>1. << >> \in Seq(0..63) /\ Len(<< >>) = 0 /\ \A i \in 1..0 : FALSE
      OBVIOUS
    <3> QED BY <3>1, Zenon DEF Says
  <2>4. Fed(g, 0)
    BY <2>1, <2>2, <2>3, 0 > 0 <=> FALSE DEF Fed
  <2> QED BY <1>1, <2>4
<1>3. \A n \in 1..Len(input) : n - 1 \in T => n \in T
  <2> SUFFICES ASSUME NEW n \in 1..Len(input), Fed(g, n - 1)
               PROVE  Fed(g, n)
    BY DEF T
  <2>1. PICK m \in Nat : m = n - 1
    OBVIOUS
  <2>2. m < Len(input) /\ m + 1 = n /\ g[m + 1] = Feed(g[m], input[m + 1]) /\ Fed(g, m)
    BY <2>1
  <2>3. Fed(g, m + 1)
    BY <2>2, FedStep
  <2> QED BY <2>2, <2>3
<1>4. 0..Len(input) \subseteq T
  <2> HIDE DEF T
  <2> QED BY <1>1, <1>2, <1>3, UpTo
<1> QED BY <1>1, <1>4

\* base64url_encode is right on every input, also where its buffer overflows.
LEMMA EncodesEveryInput ==
    ASSUME input \in Seq(Bytes)
    PROVE  EncodesTheBits
<1> DEFINE bits == FoldLeft(Feed, Empty, input)
           result == base64url_encode(input)
           N == (8 * Len(input) + 5) \div 6
<1>1. PICK g \in [0..Len(input) -> Bits] :
         /\ g[0] = Empty
         /\ \A n \in 1..Len(input) : g[n] = Feed(g[n - 1], input[n])
         /\ bits = g[Len(input)]
  BY FoldFeed
<1>2. Fed(g, Len(input))
  BY <1>1, FedAll
<1>3. PICK n \in Nat : n = Len(input)
  OBVIOUS
<1>4. /\ bits \in Bits /\ bits.count = 2 * (n % 3)
      /\ n > 0 => bits.buffer % 256 = ByteAt(n)
      /\ Says(bits.encoded, (8 * n) \div 6)
  BY <1>1, <1>2, <1>3, Zenon DEF Fed
<1>5. result = IF bits.count > 0
               THEN Append(bits.encoded, (bits.buffer * 2^(6 - bits.count)) % 64)
               ELSE bits.encoded
  BY DEF base64url_encode
<1> HIDE DEF bits, result
<1>6. ByteAt(n + 1) = 0
  <2>1. n + 1 \notin 1..Len(input)
    BY <1>3
  <2> QED BY <2>1 DEF ByteAt
<1>7. PICK buffer \in Nat, byte \in 0..255 : bits.buffer = buffer /\ ByteAt(n) = byte
  BY <1>4, ByteAtType DEF Bits, Bytes
<1>8. n > 0 => (buffer * 16) % 64 = (byte % 4) * 16 /\ (buffer * 4) % 64 = (byte % 16) * 4
  <2>1. \A x \in Nat : (x * 16) % 64 = ((x % 256) % 4) * 16 /\ (x * 4) % 64 = ((x % 256) % 16) * 4
    OBVIOUS
  <2> QED BY <1>4, <1>7, <2>1, SMTT(30)
<1>9. Says(result, N)
  <2>1. CASE n % 3 = 0
    <3>1. PICK j \in Nat : n = 3 * j
      BY <2>1
    <3>2. (8 * n) \div 6 = 4 * j /\ (8 * n + 5) \div 6 = 4 * j
      BY <3>1
    <3>3. bits.count = 0
      BY <1>4, <2>1
    <3>4. ~ (0 > 0)
      OBVIOUS
    <3> QED BY <1>3, <1>4, <1>5, <3>2, <3>3, <3>4, Zenon
  <2>2. CASE n % 3 = 1
    <3>1. PICK j \in Nat : n = 3 * j + 1
      BY <2>2
    <3>2. (8 * n) \div 6 = 4 * j + 1 /\ (8 * n + 5) \div 6 = 4 * j + 2
      BY <3>1
    <3>3. bits.count = 2 /\ n > 0
      BY <1>4, <2>2
    <3>4. 2 > 0 /\ 2^(6 - 2) = 16
      OBVIOUS
    <3>5. result = Append(bits.encoded, (buffer * 16) % 64)
      BY <1>5, <1>7, <3>3, <3>4, Zenon
    <3>6. Sextet(4 * j + 2) = (ByteAt(n) % 4) * 16 + ByteAt(n + 1) \div 16
      <4>1. n = 3 * j + 1 /\ n + 1 = 3 * j + 2
        BY <3>1
      <4> QED BY <4>1, SextetsOfBytes
    <3>7. (buffer * 16) % 64 = Sextet(4 * j + 2)
      BY <1>6, <1>7, <1>8, <3>3, <3>6
    <3>8. (buffer * 16) % 64 \in 0..63 /\ 4 * j + 1 \in Nat /\ 4 * j + 1 + 1 = 4 * j + 2
      OBVIOUS
    <3>9. Says(bits.encoded, 4 * j + 1)
      BY <1>4, <3>2, Zenon
    <3>10. Says(result, 4 * j + 2)
      BY <3>5, <3>7, <3>8, <3>9, SaysOneMore, Zenon
    <3> QED BY <1>3, <3>2, <3>10, Zenon
  <2>3. CASE n % 3 = 2
    <3>1. PICK j \in Nat : n = 3 * j + 2
      BY <2>3
    <3>2. (8 * n) \div 6 = 4 * j + 2 /\ (8 * n + 5) \div 6 = 4 * j + 3
      BY <3>1
    <3>3. bits.count = 4 /\ n > 0
      BY <1>4, <2>3
    <3>4. 4 > 0 /\ 2^(6 - 4) = 4
      OBVIOUS
    <3>5. result = Append(bits.encoded, (buffer * 4) % 64)
      BY <1>5, <1>7, <3>3, <3>4, Zenon
    <3>6. Sextet(4 * j + 3) = (ByteAt(n) % 16) * 4 + ByteAt(n + 1) \div 64
      <4>1. n = 3 * j + 2 /\ n + 1 = 3 * j + 3
        BY <3>1
      <4> QED BY <4>1, SextetsOfBytes
    <3>7. (buffer * 4) % 64 = Sextet(4 * j + 3)
      BY <1>6, <1>7, <1>8, <3>3, <3>6
    <3>8. (buffer * 4) % 64 \in 0..63 /\ 4 * j + 2 \in Nat /\ 4 * j + 2 + 1 = 4 * j + 3
      OBVIOUS
    <3>9. Says(bits.encoded, 4 * j + 2)
      BY <1>4, <3>2, Zenon
    <3>10. Says(result, 4 * j + 3)
      BY <3>5, <3>7, <3>8, <3>9, SaysOneMore, Zenon
    <3> QED BY <1>3, <3>2, <3>10, Zenon
  <2> QED BY <2>1, <2>2, <2>3
<1>10. result = [i \in 1..N |-> Sextet(i)]
  <2> HIDE DEF N
  <2>1. result \in Seq(0..63) /\ Len(result) = N /\ \A i \in 1..N : result[i] = Sextet(i)
    BY <1>9, Zenon DEF Says
  <2>2. DOMAIN result = 1..N /\ result = [i \in DOMAIN result |-> result[i]]
    BY <2>1
  <2> QED BY <2>1, <2>2, Zenon
<1> QED BY <1>10, Zenon DEF EncodesTheBits, Sextet, result


-----------------------------------------------------------------------------

\* The inputs and sizes the specification reaches: any at all, and no others.
InputInv == input \in Seq(Bytes) /\ size \in Nat

LEMMA InputInvInductive == Spec => []InputInv
<1>1. Init => InputInv
  BY DEF Init, InputInv
<1>2. InputInv /\ [Next]_vars => InputInv'
  <2> SUFFICES ASSUME InputInv, [Next]_vars
               PROVE  InputInv'
    OBVIOUS
  <2>1. CASE AddByte
    <3>1. PICK byte \in InputBytes : input' = Append(input, byte)
      BY <2>1 DEF AddByte
    <3>2. byte \in Bytes
      BY BytesAssumption DEF Bytes
    <3>3. size' = size
      BY <2>1 DEF AddByte
    <3> QED BY <3>1, <3>2, <3>3 DEF InputInv
  <2>2. CASE Grow
    BY <2>2 DEF Grow, InputInv
  <2>3. CASE UNCHANGED <<input, size>>
    BY <2>3 DEF InputInv
  <2>4. [Next]_vars => AddByte \/ Grow \/ UNCHANGED <<input, size>>
    BY DEF Next, vars, AddField, AddToField, Store, Damage
  <2> QED BY <2>1, <2>2, <2>3, <2>4
<1> QED BY <1>1, <1>2, PTL DEF Spec

(***************************************************************************)
(* base64url_encode is RFC 4648's encoding without padding on every input  *)
(* of any length, for every size of the buffer that is a multiple of the   *)
(* 12 bits in use: whatever the buffer loses when it overflows, no         *)
(* character still to be written was made of it.                           *)
(***************************************************************************)
THEOREM SpecEncodesTheBits == Spec => []EncodesTheBits
<1>1. InputInv => EncodesTheBits
  BY EncodesEveryInput DEF InputInv
<1> QED BY <1>1, InputInvInductive, PTL

\* The message grows to the next size that is 56 modulo 64.
LEMMA GrownTo ==
    \A n \in Nat : PaddedSize(n) = n + 1 + ((119 - (n % 64)) % 64) + 8
<1> DEFINE Recursive(grow) == grow = [n \in Nat |-> IF n % 64 = 56 THEN n ELSE grow[n + 1]]
           G == CHOOSE grow : Recursive(grow)
           Grown == [n \in Nat |-> n + ((120 - (n % 64)) % 64)]
<1>1. ASSUME NEW n \in Nat
      PROVE  /\ n % 64 = 56 => n + ((120 - (n % 64)) % 64) = n
             /\ n % 64 # 56 => (n + 1) + ((120 - ((n + 1) % 64)) % 64) = n + ((120 - (n % 64)) % 64)
  <2>1. PICK q \in Nat, r \in 0..63 : n = 64 * q + r /\ n % 64 = r
    OBVIOUS
  <2>2. (n + 1) % 64 = IF r = 63 THEN 0 ELSE r + 1
    BY <2>1
  <2>3. r = 56 => (120 - r) % 64 = 0
    OBVIOUS
  <2>4. r # 56 => (120 - (IF r = 63 THEN 0 ELSE r + 1)) % 64 = ((120 - r) % 64) - 1
    OBVIOUS
  <2> QED BY <2>1, <2>2, <2>3, <2>4
<1>2. Recursive(Grown)
  <2>1. \A n \in Nat : n + 1 \in Nat
    OBVIOUS
  <2>2. ASSUME NEW n \in Nat
        PROVE  Grown[n] = IF n % 64 = 56 THEN n ELSE Grown[n + 1]
    <3>1. /\ Grown[n] = n + ((120 - (n % 64)) % 64)
          /\ Grown[n + 1] = (n + 1) + ((120 - ((n + 1) % 64)) % 64)
      OBVIOUS
    <3> HIDE DEF Grown
    <3> QED BY <1>1, <3>1
  <2>3. Grown = [n \in Nat |-> Grown[n]]
    OBVIOUS
  <2> HIDE DEF Grown
  <2> QED BY <2>2, <2>3
<1>3. Recursive(G)
  <2> HIDE DEF Grown
  <2> QED BY <1>2
<1>4. \A n \in Nat : PaddedSize(n) = G[n + 1] + 8
  BY Zenon DEF PaddedSize
<1> HIDE DEF G
\* By induction on the distance d to the end.
<1> DEFINE T == {d \in Nat : \A n \in Nat : (120 - (n % 64)) % 64 = d => G[n] = n + d}
<1>5. Nat \subseteq T
  <2>1. 0 \in T
    <3> SUFFICES ASSUME NEW n \in Nat, (120 - (n % 64)) % 64 = 0
                 PROVE  G[n] = n + 0
      OBVIOUS
    <3>1. n % 64 = 56
      <4>1. \A r \in 0..63 : (120 - r) % 64 = 0 => r = 56
        OBVIOUS
      <4>2. n % 64 \in 0..63
        OBVIOUS
      <4> QED BY <4>1, <4>2
    <3> QED BY <1>3, <3>1
  <2>2. ASSUME NEW d \in Nat, d \in T PROVE d + 1 \in T
    <3> SUFFICES ASSUME NEW n \in Nat, (120 - (n % 64)) % 64 = d + 1
                 PROVE  G[n] = n + (d + 1)
      OBVIOUS
    <3>1. n % 64 # 56
      <4>1. n % 64 = 56 => (120 - (n % 64)) % 64 = 0
        OBVIOUS
      <4> QED BY <4>1
    <3>2. G[n] = G[n + 1] /\ n + 1 \in Nat
      BY <1>3, <3>1
    <3>3. (120 - ((n + 1) % 64)) % 64 = d
      BY <1>1, <3>1
    <3>4. G[n + 1] = (n + 1) + d
      BY <2>2, <3>2, <3>3
    <3> QED BY <3>2, <3>4
  <2> HIDE DEF T
  <2> QED BY <2>1, <2>2, Induction
<1>6. ASSUME NEW n \in Nat
      PROVE  G[n] = n + ((120 - (n % 64)) % 64)
  <2>1. (120 - (n % 64)) % 64 \in Nat
    OBVIOUS
  <2> QED BY <1>5, <2>1
<1>7. ASSUME NEW n \in Nat
      PROVE  (120 - ((n + 1) % 64)) % 64 = (119 - (n % 64)) % 64
  <2>1. (n + 1) % 64 = IF n % 64 = 63 THEN 0 ELSE (n % 64) + 1
    OBVIOUS
  <2>2. \A r \in 0..63 : (120 - (IF r = 63 THEN 0 ELSE r + 1)) % 64 = (119 - r) % 64
    OBVIOUS
  <2>3. n % 64 \in 0..63
    OBVIOUS
  <2> QED BY <2>1, <2>2, <2>3
<1>8. ASSUME NEW n \in Nat
      PROVE  PaddedSize(n) = n + 1 + ((119 - (n % 64)) % 64) + 8
  <2>1. n + 1 \in Nat
    OBVIOUS
  <2>2. G[n + 1] = (n + 1) + ((120 - ((n + 1) % 64)) % 64)
    BY <1>6, <2>1
  <2>3. PaddedSize(n) = G[n + 1] + 8
    BY <1>4
  <2> QED BY <1>7, <2>2, <2>3
<1> QED BY <1>8

(***************************************************************************)
(* Every message is padded to the least number of whole chunks that hold   *)
(* it, the 0x80 byte and its length, whatever its size.                    *)
(***************************************************************************)
THEOREM SpecPaddingFillsChunks == Spec => []PaddingFillsChunks
<1>1. InputInv => PaddingFillsChunks
  <2> SUFFICES ASSUME size \in Nat
               PROVE  PaddingFillsChunks
    BY DEF InputInv
  <2>1. PICK q \in Nat, r \in 0..63 : size = 64 * q + r /\ size % 64 = r
    OBVIOUS
  <2>2. PaddedSize(size) = size + 1 + ((119 - r) % 64) + 8
    BY <2>1, GrownTo
  <2>3. (119 - r) % 64 = IF r <= 55 THEN 55 - r ELSE 119 - r
    OBVIOUS
  <2> QED BY <2>1, <2>2, <2>3 DEF PaddingFillsChunks
<1> QED BY <1>1, InputInvInductive, PTL

-----------------------------------------------------------------------------

(***************************************************************************)
(* A function whose value at n is made of its value at a smaller number:   *)
(* there is one when base and steps have their types.                      *)
(***************************************************************************)
Recursive(f, N, X, base, prev, step) ==
    /\ f \in [0..N -> X]
    /\ f[0] = base
    /\ \A n \in 1..N : f[n] = step[<<n, f[prev[n]]>>]

LEMMA Recursion ==
    ASSUME NEW N \in Nat, NEW X, NEW base \in X,
           NEW prev \in [1..N -> Nat], \A n \in 1..N : prev[n] < n,
           NEW step \in [(1..N) \X X -> X]
    PROVE  \E f : Recursive(f, N, X, base, prev, step)
<1> DEFINE Good(k, f) == f[0] = base /\ \A n \in 1..k : f[n] = step[<<n, f[prev[n]]>>]
           Exists(k) == \E f \in [0..k -> X] : Good(k, f)
           T == {k \in 0..N : Exists(k)}
<1>1. 0 \in T
  <2>1. [k \in 0..0 |-> base] \in [0..0 -> X] /\ Good(0, [k \in 0..0 |-> base])
    OBVIOUS
  <2>2. Exists(0)
    BY <2>1
  <2> HIDE DEF Exists
  <2> QED BY <2>2
<1>2. \A k \in 1..N : k - 1 \in T => k \in T
  <2> SUFFICES ASSUME NEW k \in 1..N, Exists(k - 1)
               PROVE  Exists(k)
    <3> HIDE DEF Exists
    <3> QED OBVIOUS
  <2>1. PICK h \in [0..(k - 1) -> X] : Good(k - 1, h)
    OBVIOUS
  <2> DEFINE f == [n \in 0..k |-> IF n = k THEN step[<<k, h[prev[k]]>>] ELSE h[n]]
  <2>2. \A n \in 1..k : prev[n] \in 0..(n - 1)
    OBVIOUS
  <2>3. h[prev[k]] \in X
    BY <2>2
  <2>4. f \in [0..k -> X]
    BY <2>3
  <2>5. \A n \in 0..(k - 1) : f[n] = h[n]
    OBVIOUS
  <2>6. f[k] = step[<<k, h[prev[k]]>>]
    OBVIOUS
  <2> HIDE DEF f
  <2>7. f[0] = base
    BY <2>1, <2>5
  <2>8. ASSUME NEW n \in 1..k
        PROVE  f[n] = step[<<n, f[prev[n]]>>]
    <3>1. prev[n] \in 0..(k - 1) /\ f[prev[n]] = h[prev[n]]
      BY <2>2, <2>5
    <3>2. CASE n = k
      BY <2>6, <3>1, <3>2
    <3>3. CASE n # k
      <4>1. n \in 1..(k - 1)
        BY <3>3
      <4> QED BY <2>1, <2>5, <3>1, <4>1
    <3> QED BY <3>2, <3>3
  <2> QED BY <2>4, <2>7, <2>8
<1>3. 0..N \subseteq T
  <2> HIDE DEF T
  <2> QED BY <1>1, <1>2, UpTo
<1>4. Exists(N)
  <2> HIDE DEF Exists
  <2> QED BY <1>3
<1> QED BY <1>4 DEF Recursive

\* text is the first n of seqs in a row; p[i] is where the i-th of them ends.
IsFlat(text, seqs, n, p) ==
    /\ Len(text) = p[n]
    /\ \A i \in 1..n : \A k \in 1..Len(seqs[i]) : text[p[i - 1] + k] = seqs[i][k]

Ends(seqs, p) ==
    /\ p \in [0..Len(seqs) -> Nat]
    /\ p[0] = 0
    /\ \A i \in 1..Len(seqs) : p[i] = p[i - 1] + Len(seqs[i])

LEMMA EndsGrow ==
    ASSUME NEW X, NEW seqs \in Seq(Seq(X)), NEW p, Ends(seqs, p)
    PROVE  \A n \in 0..Len(seqs) : \A i \in 0..n : p[i] <= p[n]
<1> DEFINE T == {n \in 0..Len(seqs) : \A i \in 0..n : p[i] <= p[n]}
<1>1. Len(seqs) \in Nat
  OBVIOUS
<1>2. \A n \in 0..Len(seqs) : p[n] \in Nat
  BY DEF Ends
<1>3. 0 \in T
  BY <1>1, <1>2
<1>4. \A n \in 1..Len(seqs) : n - 1 \in T => n \in T
  <2> SUFFICES ASSUME NEW n \in 1..Len(seqs), \A i \in 0..(n - 1) : p[i] <= p[n - 1],
                      NEW i \in 0..n
               PROVE  p[i] <= p[n]
    OBVIOUS
  <2>1. seqs[n] \in Seq(X) /\ p[n] = p[n - 1] + Len(seqs[n])
    BY DEF Ends
  <2>2. Len(seqs[n]) \in Nat
    BY <2>1
  <2>3. p[n - 1] \in Nat /\ p[n - 1] <= p[n]
    BY <1>2, <2>1, <2>2
  <2>4. i = n \/ i \in 0..(n - 1)
    OBVIOUS
  <2>5. p[i] \in Nat /\ p[n] \in Nat
    BY <1>2
  <2> QED BY <2>3, <2>4, <2>5
<1>5. 0..Len(seqs) \subseteq T
  <2> HIDE DEF T
  <2> QED BY <1>1, <1>3, <1>4, UpTo
<1> QED BY <1>5

\* FlattenSeq puts the sequences in a row.
LEMMA Flatten ==
    ASSUME NEW X, NEW seqs \in Seq(Seq(X))
    PROVE  /\ FlattenSeq(seqs) \in Seq(X)
           /\ \E p : Ends(seqs, p) /\ IsFlat(FlattenSeq(seqs), seqs, Len(seqs), p)
<1>1. PICK L \in Nat : L = Len(seqs) /\ \A n \in 1..L : seqs[n] \in Seq(X)
  OBVIOUS
<1>2. \A n \in 1..L : n - 1 \in 0..L /\ n \in 0..L
  OBVIOUS
<1> DEFINE prev == [n \in 1..L |-> n - 1]
           step == [x \in (1..L) \X Seq(X) |-> x[2] \o seqs[x[1]]]
<1>3. PICK f \in [0..L -> Seq(X)] : f[0] = << >> /\ \A n \in 1..L : f[n] = f[n - 1] \o seqs[n]
  <2>1. prev \in [1..L -> Nat] /\ \A n \in 1..L : prev[n] < n
    BY <1>1
  <2>2. step \in [(1..L) \X Seq(X) -> Seq(X)]
    <3>1. \A x \in (1..L) \X Seq(X) : x[2] \o seqs[x[1]] \in Seq(X)
      <4>1. ASSUME NEW x \in (1..L) \X Seq(X) PROVE x[2] \o seqs[x[1]] \in Seq(X)
        <5>1. x[2] \in Seq(X) /\ seqs[x[1]] \in Seq(X)
          BY <1>1
        <5> QED BY <5>1, ConcatProperties
      <4> QED BY <4>1
    <3> QED BY <3>1
  <2>3. << >> \in Seq(X)
    OBVIOUS
  <2>4. PICK f : Recursive(f, L, Seq(X), << >>, prev, step)
    <3> HIDE DEF prev, step
    <3> QED BY <1>1, <2>1, <2>2, <2>3, Recursion
  <2>6. f \in [0..L -> Seq(X)]
    BY <2>4 DEF Recursive
  <2>7. f[0] = << >> /\ \A n \in 1..L : f[n] = step[<<n, f[prev[n]]>>]
    BY <2>4, Zenon DEF Recursive
  <2>5. ASSUME NEW n \in 1..L PROVE f[n] = f[n - 1] \o seqs[n]
    <3>1. f[n - 1] \in Seq(X) /\ prev[n] = n - 1
      BY <1>2, <2>6
    <3>2. step[<<n, f[n - 1]>>] = f[n - 1] \o seqs[n]
      BY <3>1
    <3> QED BY <2>7, <3>1, <3>2, Zenon
  <2> QED BY <2>5, <2>6, <2>7
<1> HIDE DEF prev, step
<1>4. FlattenSeq(seqs) = f[L]
  <2>1. CASE L = 0
    <3>1. seqs = << >>
      BY <1>1, <2>1, EmptySeq
    <3> QED BY <1>1, <1>3, <2>1, <3>1 DEF FlattenSeq
  <2>2. CASE L # 0
    <3> DEFINE Rec(g) == g = [i \in 1..L |-> IF i = 1 THEN seqs[i] ELSE g[i - 1] \o seqs[i]]
               flatten == CHOOSE g : Rec(g)
               h == [i \in 1..L |-> f[i]]
    <3>1. FlattenSeq(seqs) = flatten[L]
      BY <1>1, <2>2 DEF FlattenSeq
    <3>2. Rec(h)
      <4>1. ASSUME NEW i \in 1..L PROVE h[i] = IF i = 1 THEN seqs[i] ELSE h[i - 1] \o seqs[i]
        <5>1. CASE i = 1
          <6>1. << >> \o seqs[1] = seqs[1]
            BY <1>1, <5>1, ConcatEmptySeq
          <6>2. f[i] = f[i - 1] \o seqs[i]
            BY <1>3
          <6>3. i - 1 = 0 /\ h[i] = f[i]
            BY <5>1
          <6>4. f[i] = seqs[i]
            BY <1>3, <5>1, <6>1, <6>2, <6>3, Zenon
          <6> QED BY <5>1, <6>3, <6>4
        <5>2. CASE i # 1
          <6>1. i - 1 \in 1..L
            BY <1>1, <5>2
          <6>2. f[i] = f[i - 1] \o seqs[i]
            BY <1>3
          <6>3. h[i] = f[i] /\ h[i - 1] = f[i - 1]
            BY <6>1
          <6> HIDE DEF h
          <6> QED BY <5>2, <6>2, <6>3
        <5> QED BY <5>1, <5>2
      <4>2. h = [i \in 1..L |-> h[i]]
        OBVIOUS
      <4> HIDE DEF h
      <4> QED BY <4>1, <4>2
    <3>3. Rec(flatten)
      <4> HIDE DEF h
      <4> QED BY <3>2
    <3> HIDE DEF flatten
    <3> DEFINE T == {n \in 0..L : n > 0 => flatten[n] = f[n]}
    <3>4. 0 \in T
      BY <1>1
    <3>5. \A n \in 1..L : n - 1 \in T => n \in T
      <4> SUFFICES ASSUME NEW n \in 1..L, n - 1 > 0 => flatten[n - 1] = f[n - 1]
                   PROVE  flatten[n] = f[n]
        OBVIOUS
      <4>1. CASE n = 1
        <5>1. << >> \o seqs[1] = seqs[1]
          BY <1>1, <4>1, ConcatEmptySeq
        <5>2. f[n] = f[n - 1] \o seqs[n]
          BY <1>3
        <5>3. flatten[n] = seqs[n]
          BY <3>3, <4>1
        <5>4. n - 1 = 0
          BY <4>1
        <5> QED BY <1>3, <4>1, <5>1, <5>2, <5>3, <5>4, Zenon
      <4>2. CASE n # 1
        <5>1. n - 1 > 0
          BY <1>1, <4>2
        <5>2. flatten[n] = flatten[n - 1] \o seqs[n]
          BY <3>3, <4>2
        <5>3. f[n] = f[n - 1] \o seqs[n]
          BY <1>3
        <5> QED BY <5>1, <5>2, <5>3
      <4> QED BY <4>1, <4>2
    <3>6. 0..L \subseteq T
      <4> HIDE DEF T
      <4> QED BY <1>1, <3>4, <3>5, UpTo
    <3>7. flatten[L] = f[L]
      BY <1>1, <2>2, <3>6
    <3> QED BY <3>1, <3>7
  <2> QED BY <2>1, <2>2
<1> DEFINE p == [n \in 0..L |-> Len(f[n])]
<1>5. ASSUME NEW n \in 1..L
      PROVE  /\ f[n] \in Seq(X) /\ f[n - 1] \in Seq(X) /\ seqs[n] \in Seq(X)
             /\ p[n] = p[n - 1] + Len(seqs[n]) /\ p[n] = Len(f[n]) /\ p[n - 1] = Len(f[n - 1])
             /\ \A k \in 1..p[n - 1] : f[n][k] = f[n - 1][k]
             /\ \A k \in 1..Len(seqs[n]) : f[n][p[n - 1] + k] = seqs[n][k]
  <2>1. f[n] \in Seq(X) /\ f[n - 1] \in Seq(X) /\ seqs[n] \in Seq(X) /\ f[n] = f[n - 1] \o seqs[n]
    BY <1>2, <1>1, <1>3
  <2>2. p[n] = Len(f[n]) /\ p[n - 1] = Len(f[n - 1])
    BY <1>2
  <2>3. /\ Len(f[n - 1] \o seqs[n]) = Len(f[n - 1]) + Len(seqs[n])
        /\ \A i \in 1..Len(f[n - 1]) + Len(seqs[n]) : (f[n - 1] \o seqs[n])[i] =
               IF i <= Len(f[n - 1]) THEN f[n - 1][i] ELSE seqs[n][i - Len(f[n - 1])]
    BY <2>1, ConcatProperties
  <2>4. PICK a \in Nat, b \in Nat : a = Len(f[n - 1]) /\ b = Len(seqs[n])
    BY <2>1
  <2> HIDE DEF p
  <2>5. \A i \in 1..(a + b) : f[n][i] = IF i <= a THEN f[n - 1][i] ELSE seqs[n][i - a]
    BY <2>1, <2>3, <2>4
  <2>6. \A k \in 1..a : f[n][k] = f[n - 1][k]
    BY <2>5
  <2>7. \A k \in 1..b : a + k \in 1..(a + b) /\ ~ (a + k <= a) /\ (a + k) - a = k
    OBVIOUS
  <2>8. \A k \in 1..b : f[n][a + k] = seqs[n][k]
    BY <2>5, <2>7
  <2> QED BY <2>1, <2>2, <2>3, <2>4, <2>6, <2>8
<1>6. Ends(seqs, p)
  <2>1. \A n \in 0..L : f[n] \in Seq(X) /\ Len(f[n]) \in Nat
    BY <1>3
  <2>2. p \in [0..L -> Nat] /\ p[0] = 0
    BY <1>1, <1>3, <2>1
  <2> HIDE DEF p
  <2> QED BY <1>1, <1>5, <2>2 DEF Ends
<1> HIDE DEF p
<1>7. IsFlat(f[L], seqs, L, p)
  <2> DEFINE T == {n \in 0..L : IsFlat(f[n], seqs, n, p)}
  <2>1. 0 \in T
    <3>1. Len(f[0]) = p[0] /\ 1..0 = {}
      BY <1>3, <1>6 DEF Ends
    <3>2. IsFlat(f[0], seqs, 0, p)
      BY <3>1, Zenon DEF IsFlat
    <3> QED BY <1>1, <3>2
  <2>2. \A n \in 1..L : n - 1 \in T => n \in T
    <3> SUFFICES ASSUME NEW n \in 1..L, IsFlat(f[n - 1], seqs, n - 1, p)
                 PROVE  IsFlat(f[n], seqs, n, p)
      BY <1>2
    <3>1. ASSUME NEW i \in 1..n, NEW k \in 1..Len(seqs[i])
          PROVE  f[n][p[i - 1] + k] = seqs[i][k]
      <4>1. CASE i = n
        BY <1>5, <4>1
      <4>2. CASE i # n
        <5>1. i \in 1..(n - 1) /\ i \in 1..L
          BY <4>2
        <5>6. seqs[i] \in Seq(X)
          BY <1>1, <5>1
        <5>2. f[n - 1][p[i - 1] + k] = seqs[i][k]
          BY <5>1 DEF IsFlat
        <5>3. p[i] <= p[n - 1]
          <6>1. n - 1 \in 0..Len(seqs) /\ i \in 0..(n - 1)
            BY <1>1, <5>1
          <6> QED BY <1>6, <6>1, EndsGrow
        <5>4. p[i] = p[i - 1] + Len(seqs[i]) /\ p[i - 1] \in Nat /\ p[n - 1] \in Nat /\ Len(seqs[i]) \in Nat
          <6>1. i - 1 \in 0..Len(seqs) /\ n - 1 \in 0..Len(seqs) /\ i \in 1..Len(seqs)
            BY <1>1, <5>1
          <6>2. p[i - 1] \in Nat /\ p[n - 1] \in Nat
            BY <1>6, <6>1 DEF Ends
          <6>3. p[i] = p[i - 1] + Len(seqs[i])
            BY <1>6, <6>1, Zenon DEF Ends
          <6> QED BY <5>6, <6>2, <6>3
        <5>5. p[i - 1] + k \in 1..p[n - 1]
          <6>1. PICK a \in Nat, b \in Nat, c \in Nat : a = p[i - 1] /\ b = Len(seqs[i]) /\ c = p[n - 1]
            BY <5>4
          <6>2. a + b <= c /\ k \in 1..b
            BY <5>3, <5>4, <6>1
          <6>3. a + k \in 1..c
            BY <6>2
          <6> QED BY <6>1, <6>3
        <5> QED BY <1>5, <5>2, <5>5
      <4> QED BY <4>1, <4>2
    <3>2. Len(f[n]) = p[n]
      BY <1>5
    <3> QED BY <3>1, <3>2, Zenon DEF IsFlat
  <2>3. 0..L \subseteq T
    <3> HIDE DEF T
    <3> QED BY <1>1, <2>1, <2>2, UpTo
  <2> QED BY <1>1, <2>3
<1> QED BY <1>1, <1>3, <1>4, <1>6, <1>7

-----------------------------------------------------------------------------

\* What percent_encode writes, and what it writes for one byte.
Safe == {b \in Bytes : is_unreserved(b)} \cup {Percent}
Written(b) ==
    IF is_unreserved(b) THEN <<b>> ELSE <<Percent, HexDigit(b \div 16), HexDigit(b % 16)>>

LEMMA SafeBytes ==
    /\ Safe \subseteq Bytes
    /\ \A b \in Safe : b \notin {Space, Hash, Ampersand, Plus, Slash, Equals, Question}
BY DEF Safe, Bytes, is_unreserved, Space, Hash, Percent, Ampersand, Plus, Slash, Equals, Question

LEMMA TwoDigits == \A h \in 0..15 : \A l \in 0..15 : 16 * h + l \in Bytes
BY DEF Bytes

LEMMA EscapeBack ==
    ASSUME NEW b \in Bytes
    PROVE  LET high == HexDigit(b \div 16)
               low == HexDigit(b % 16)
           IN  /\ high \in Safe /\ low \in Safe /\ IsHex(high) /\ IsHex(low)
               /\ 16 * hex_value(high) + hex_value(low) = b
<1>1. PICK h \in 0..15, l \in 0..15 : b \div 16 = h /\ b % 16 = l /\ b = 16 * h + l
  <2>1. \A c \in 0..255 : c \div 16 \in 0..15 /\ c % 16 \in 0..15 /\ c = 16 * (c \div 16) + (c % 16)
    OBVIOUS
  <2> QED BY <2>1 DEF Bytes
<1>2. \A n \in 0..15 : HexDigit(n) \in Safe /\ IsHex(HexDigit(n)) /\ hex_value(HexDigit(n)) = n
  BY DEF HexDigit, Safe, Bytes, is_unreserved, IsHex, hex_value
<1> QED BY <1>1, <1>2

LEMMA WrittenSafe ==
    ASSUME NEW b \in Bytes
    PROVE  Written(b) \in Seq(Safe)
<1>1. CASE is_unreserved(b)
  <2>1. b \in Safe
    BY <1>1 DEF Safe
  <2> QED BY <1>1, <2>1 DEF Written
<1>2. CASE ~ is_unreserved(b)
  <2>1. HexDigit(b \div 16) \in Safe /\ HexDigit(b % 16) \in Safe /\ Percent \in Safe
    BY EscapeBack DEF Safe
  <2> QED BY <1>2, <2>1 DEF Written
<1> QED BY <1>1, <1>2

\* An encoded coded is what is written for its bytes, in a row.
LEMMA Encoded ==
    ASSUME NEW v \in Seq(Bytes), NEW pieces, pieces = [i \in DOMAIN v |-> Written(v[i])]
    PROVE  /\ percent_encode(v) \in Seq(Safe)
           /\ pieces \in Seq(Seq(Safe)) /\ Len(pieces) = Len(v)
           /\ \E p : Ends(pieces, p) /\ IsFlat(percent_encode(v), pieces, Len(v), p)
<1>1. DOMAIN v = 1..Len(v) /\ Len(v) \in Nat /\ \A i \in 1..Len(v) : v[i] \in Bytes
  OBVIOUS
<1>2. pieces \in [1..Len(v) -> Seq(Safe)]
  <2>1. \A i \in 1..Len(v) : Written(v[i]) \in Seq(Safe)
    BY <1>1, WrittenSafe
  <2> QED BY <1>1, <2>1
<1>3. pieces \in Seq(Seq(Safe)) /\ Len(pieces) = Len(v)
  BY <1>1, <1>2
<1>4. percent_encode(v) = FlattenSeq(pieces)
  BY Zenon DEF percent_encode, Written
<1> QED BY <1>3, <1>4, Flatten

-----------------------------------------------------------------------------

\* What decode_query_value makes of the coded from position i on.
DecodedFrom(coded, from, i) ==
    IF i > Len(coded) THEN << >>
    ELSE IF coded[i] = Plus THEN <<Space>> \o from[i + 1]
    ELSE IF EscapeAt(coded, i)
         THEN <<16 * hex_value(coded[i + 1]) + hex_value(coded[i + 2])>> \o from[i + 3]
         ELSE <<coded[i]>> \o from[i + 1]

LEMMA Decode ==
    ASSUME NEW coded \in Seq(Bytes)
    PROVE  \E from \in [1..(Len(coded) + 3) -> Seq(Bytes)] :
              /\ decode_query_value(coded) = from[1]
              /\ \A i \in 1..(Len(coded) + 3) : from[i] = DecodedFrom(coded, from, i)
<1>1. PICK L \in Nat : L = Len(coded) /\ \A i \in 1..L : coded[i] \in Bytes
  OBVIOUS
<1> DEFINE \* At n, the last n bytes: position L + 1 - n.
           Plain(n) == coded[L + 1 - n] = Plus \/ ~ EscapeAt(coded, L + 1 - n)
           prev == [n \in 1..L |-> IF Plain(n) THEN n - 1 ELSE n - 3]
           byte == [n \in 1..L |->
               IF coded[L + 1 - n] = Plus THEN Space
               ELSE IF EscapeAt(coded, L + 1 - n)
               THEN 16 * hex_value(coded[L + 1 - n + 1]) + hex_value(coded[L + 1 - n + 2])
               ELSE coded[L + 1 - n]]
           step == [x \in (1..L) \X Seq(Bytes) |-> <<byte[x[1]]>> \o x[2]]
<1>2. \A n \in 1..L : L + 1 - n \in 1..L /\ (EscapeAt(coded, L + 1 - n) => n >= 3)
  BY <1>1 DEF EscapeAt
<1>3. prev \in [1..L -> Nat] /\ \A n \in 1..L : prev[n] < n
  <2>1. \A n \in 1..L : ~ Plain(n) => n >= 3
    BY <1>2
  <2> HIDE DEF Plain
  <2> QED BY <2>1
<1>4. byte \in [1..L -> Bytes]
  <2>1. Space \in Bytes
    BY DEF Space, Bytes
  <2>2. \A b \in Bytes : IsHex(b) => hex_value(b) \in 0..15
    BY DEF Bytes, IsHex, hex_value
  <2>3. ASSUME NEW n \in 1..L, EscapeAt(coded, L + 1 - n)
        PROVE  16 * hex_value(coded[L + 1 - n + 1]) + hex_value(coded[L + 1 - n + 2]) \in Bytes
    <3>1. PICK i \in 1..L : i = L + 1 - n /\ i + 2 <= L /\ IsHex(coded[i + 1]) /\ IsHex(coded[i + 2])
      BY <1>1, <1>2, <2>3 DEF EscapeAt
    <3>2. coded[i + 1] \in Bytes /\ coded[i + 2] \in Bytes
      BY <1>1, <3>1
    <3>3. PICK h \in 0..15, l \in 0..15 : h = hex_value(coded[i + 1]) /\ l = hex_value(coded[i + 2])
      BY <2>2, <3>1, <3>2
    <3>4. 16 * h + l \in Bytes
      BY TwoDigits
    <3> QED BY <3>1, <3>3, <3>4
  <2>4. \A n \in 1..L : byte[n] \in Bytes
    BY <1>1, <1>2, <2>1, <2>3
  <2> QED BY <2>4
<1>5. step \in [(1..L) \X Seq(Bytes) -> Seq(Bytes)]
  <2>1. ASSUME NEW x \in (1..L) \X Seq(Bytes)
        PROVE  <<byte[x[1]]>> \o x[2] \in Seq(Bytes)
    <3> HIDE DEF byte
    <3>1. byte[x[1]] \in Bytes /\ x[2] \in Seq(Bytes)
      BY <1>4
    <3>2. <<byte[x[1]]>> \in Seq(Bytes)
      BY <3>1
    <3> QED BY <3>1, <3>2, ConcatProperties
  <2> QED BY <2>1
<1>6. PICK f : Recursive(f, L, Seq(Bytes), << >>, prev, step)
  <2>1. << >> \in Seq(Bytes)
    OBVIOUS
  <2> HIDE DEF prev, step
  <2> QED BY <1>3, <1>5, <2>1, Recursion
<1>7. f \in [0..L -> Seq(Bytes)] /\ f[0] = << >>
  BY <1>6 DEF Recursive
<1>8. ASSUME NEW n \in 1..L
      PROVE  /\ f[n] = <<byte[n]>> \o f[prev[n]]
             /\ prev[n] \in 0..L
  <2> HIDE DEF prev, byte
  <2>1. prev[n] \in 0..L
    BY <1>3
  <2>2. f[prev[n]] \in Seq(Bytes)
    BY <1>7, <2>1
  <2>3. step[<<n, f[prev[n]]>>] = <<byte[n]>> \o f[prev[n]]
    BY <2>2
  <2> HIDE DEF step
  <2>4. f[n] = step[<<n, f[prev[n]]>>]
    BY <1>6, Zenon DEF Recursive
  <2> QED BY <2>1, <2>3, <2>4
<1> DEFINE g == [i \in 1..(L + 3) |-> IF i > L THEN << >> ELSE f[L + 1 - i]]
<1>9. g \in [1..(L + 3) -> Seq(Bytes)]
  <2>1. \A i \in 1..(L + 3) : i > L \/ L + 1 - i \in 0..L
    OBVIOUS
  <2>2. \A n \in 0..L : f[n] \in Seq(Bytes)
    BY <1>7
  <2>3. << >> \in Seq(Bytes)
    OBVIOUS
  <2> QED BY <2>1, <2>2, <2>3
<1>10. \A n \in 0..L : g[L + 1 - n] = f[n]
  <2> SUFFICES ASSUME NEW n \in 0..L PROVE g[L + 1 - n] = f[n]
    OBVIOUS
  <2>1. L + 1 - n \in 1..(L + 3) /\ (n = 0 <=> L + 1 - n > L) /\ L + 1 - (L + 1 - n) = n
    OBVIOUS
  <2> QED BY <1>7, <2>1
<1>11. ASSUME NEW i \in 1..(L + 3)
       PROVE  g[i] = DecodedFrom(coded, g, i)
  <2>1. CASE i > L
    BY <1>1, <2>1 DEF DecodedFrom
  <2>2. CASE ~ (i > L)
    <3>1. PICK n \in 1..L : i = L + 1 - n
      <4>1. L + 1 - i \in 1..L /\ i = L + 1 - (L + 1 - i)
        BY <2>2
      <4> QED BY <4>1
    <3>2. g[i] = <<byte[n]>> \o f[prev[n]] /\ f[prev[n]] = g[L + 1 - prev[n]]
      <4> HIDE DEF g, prev, byte
      <4>1. n \in 0..L
        OBVIOUS
      <4>2. g[i] = f[n]
        BY <1>10, <3>1, <4>1
      <4> QED BY <1>8, <1>10, <4>2
    <3> HIDE DEF g
    <3>3. L + 1 - (n - 1) = i + 1 /\ L + 1 - (n - 3) = i + 3
      BY <3>1
    <3>4. CASE coded[i] = Plus
      <4>1. byte[n] = Space /\ prev[n] = n - 1
        BY <3>1, <3>4
      <4> HIDE DEF byte, prev
      <4> QED BY <1>1, <2>2, <3>2, <3>3, <3>4, <4>1 DEF DecodedFrom
    <3>5. CASE coded[i] # Plus /\ EscapeAt(coded, i)
      <4>1. byte[n] = 16 * hex_value(coded[i + 1]) + hex_value(coded[i + 2]) /\ prev[n] = n - 3
        BY <3>1, <3>5
      <4> HIDE DEF byte, prev
      <4> QED BY <1>1, <2>2, <3>2, <3>3, <3>5, <4>1 DEF DecodedFrom
    <3>6. CASE coded[i] # Plus /\ ~ EscapeAt(coded, i)
      <4>1. byte[n] = coded[i] /\ prev[n] = n - 1
        BY <3>1, <3>6
      <4> HIDE DEF byte, prev
      <4> QED BY <1>1, <2>2, <3>2, <3>3, <3>6, <4>1 DEF DecodedFrom
    <3> QED BY <3>4, <3>5, <3>6
  <2> QED BY <2>1, <2>2
<1> DEFINE Rec(h) == h = [i \in 1..(Len(coded) + 3) |-> DecodedFrom(coded, h, i)]
           from == CHOOSE h : Rec(h)
<1>12. decode_query_value(coded) = from[1]
  BY Zenon DEF decode_query_value, DecodedFrom
<1>13. Rec(g)
  <2> HIDE DEF g
  <2>1. g = [i \in 1..(L + 3) |-> g[i]]
    BY <1>9
  <2> QED BY <1>1, <1>11, <2>1
<1>14. Rec(from)
  <2> HIDE DEF g, Rec
  <2> QED BY <1>13
<1> HIDE DEF from
<1>15. from \in [1..(Len(coded) + 3) -> Seq(Bytes)]
  <2> DEFINE T == {n \in 0..L : \A m \in 0..n : from[L + 1 - m] = f[m]}
  <2>1. 0 \in T
    <3>1. L + 1 - 0 = L + 1 /\ L + 1 \in 1..(L + 3) /\ L + 1 > L
      OBVIOUS
    <3>2. from[L + 1] = << >>
      BY <1>1, <1>14, <3>1 DEF DecodedFrom
    <3> QED BY <1>7, <3>1, <3>2
  <2>2. \A n \in 1..L : n - 1 \in T => n \in T
    <3> SUFFICES ASSUME NEW n \in 1..L, \A m \in 0..(n - 1) : from[L + 1 - m] = f[m]
                 PROVE  from[L + 1 - n] = f[n]
      OBVIOUS
    <3>1. PICK i \in 1..L : i = L + 1 - n
      BY <1>2
    <3>2. from[i] = DecodedFrom(coded, from, i)
      BY <1>1, <1>14, <3>1
    <3>3. DecodedFrom(coded, from, i) = <<byte[n]>> \o from[L + 1 - prev[n]]
      <4>1. ~ (i > L) /\ L + 1 - (n - 1) = i + 1 /\ L + 1 - (n - 3) = i + 3
        BY <3>1
      <4>2. CASE coded[i] = Plus
        <5>1. byte[n] = Space /\ prev[n] = n - 1
          BY <3>1, <4>2
        <5> HIDE DEF byte, prev
        <5> QED BY <1>1, <4>1, <4>2, <5>1 DEF DecodedFrom
      <4>3. CASE coded[i] # Plus /\ EscapeAt(coded, i)
        <5>1. byte[n] = 16 * hex_value(coded[i + 1]) + hex_value(coded[i + 2]) /\ prev[n] = n - 3
          BY <3>1, <4>3
        <5> HIDE DEF byte, prev
        <5> QED BY <1>1, <4>1, <4>3, <5>1 DEF DecodedFrom
      <4>4. CASE coded[i] # Plus /\ ~ EscapeAt(coded, i)
        <5>1. byte[n] = coded[i] /\ prev[n] = n - 1
          BY <3>1, <4>4
        <5> HIDE DEF byte, prev
        <5> QED BY <1>1, <4>1, <4>4, <5>1 DEF DecodedFrom
      <4> QED BY <4>2, <4>3, <4>4
    <3> HIDE DEF byte, prev
    <3>4. prev[n] \in 0..(n - 1)
      BY <1>3
    <3> QED BY <1>8, <3>1, <3>2, <3>3, <3>4
  <2>3. 0..L \subseteq T
    <3> HIDE DEF T
    <3> QED BY <2>1, <2>2, UpTo
  <2>4. ASSUME NEW i \in 1..(L + 3)
        PROVE  from[i] \in Seq(Bytes)
    <3>1. CASE i > L
      BY <1>1, <1>14, <3>1 DEF DecodedFrom
    <3>2. CASE ~ (i > L)
      <4>1. PICK n \in 0..L : i = L + 1 - n
        <5>1. L + 1 - i \in 0..L /\ i = L + 1 - (L + 1 - i)
          BY <3>2
        <5> QED BY <5>1
      <4>2. from[i] = f[n]
        BY <2>3, <4>1
      <4> QED BY <1>7, <4>2
    <3> QED BY <3>1, <3>2
  <2> QED BY <1>1, <1>14, <2>4
<1> QED BY <1>12, <1>14, <1>15

-----------------------------------------------------------------------------

\* What is written for a byte stands in the text after q and ends at e.
WrittenAt(b, text, q, e) ==
    /\ e = q + Len(Written(b)) /\ e <= Len(text)
    /\ \A k \in 1..Len(Written(b)) : text[q + k] = Written(b)[k]

Continues(b, text, from, q, e) == DecodedFrom(text, from, q + 1) = <<b>> \o from[e + 1]

\* There the decoder reads the byte, and goes to its end.
LEMMA DecodeOne ==
    ASSUME NEW b \in Bytes, NEW text \in Seq(Safe), NEW q \in Nat, NEW e \in Nat,
           WrittenAt(b, text, q, e), NEW from
    PROVE  Continues(b, text, from, q, e)
<1>1. PICK L \in Nat : L = Len(text)
  OBVIOUS
<1>2. CASE is_unreserved(b)
  <2>1. Written(b) = <<b>>
    BY <1>2 DEF Written
  <2>2. Len(Written(b)) = 1 /\ Written(b)[1] = b
    BY <2>1
  <2>3. e = q + 1 /\ text[q + 1] = b /\ ~ (q + 1 > L)
    BY <1>1, <2>2 DEF WrittenAt
  <2>4. b # Plus /\ b # Percent
    BY <1>2 DEF Bytes, is_unreserved, Plus, Percent
  <2>5. ~ EscapeAt(text, q + 1)
    BY <2>3, <2>4 DEF EscapeAt
  <2> QED BY <1>1, <2>3, <2>4, <2>5, Zenon DEF DecodedFrom, Continues
<1>3. CASE ~ is_unreserved(b)
  <2> DEFINE high == HexDigit(b \div 16)
             low == HexDigit(b % 16)
  <2>1. Written(b) = <<Percent, high, low>>
    BY <1>3 DEF Written
  <2>2. /\ high \in Safe /\ low \in Safe /\ IsHex(high) /\ IsHex(low)
        /\ 16 * hex_value(high) + hex_value(low) = b
    BY EscapeBack
  <2> HIDE DEF high, low
  <2>3. /\ Len(Written(b)) = 3 /\ Written(b)[1] = Percent /\ Written(b)[2] = high
        /\ Written(b)[3] = low
    BY <2>1
  <2>4. e = q + 3 /\ text[q + 1] = Percent /\ text[q + 2] = high /\ text[q + 3] = low
    BY <2>3 DEF WrittenAt
  <2>5. /\ (q + 1) + 1 = q + 2 /\ (q + 1) + 2 = q + 3 /\ (q + 1) + 3 = q + 4
        /\ e + 1 = q + 4 /\ ~ (q + 1 > L) /\ q + 3 <= L
    BY <1>1, <2>4 DEF WrittenAt
  <2>6. EscapeAt(text, q + 1)
    BY <1>1, <2>2, <2>4, <2>5, Zenon DEF EscapeAt
  <2>7. Percent # Plus
    BY DEF Percent, Plus
  <2> QED BY <1>1, <2>2, <2>4, <2>5, <2>6, <2>7, Zenon DEF DecodedFrom, Continues
<1> QED BY <1>2, <1>3

\* decode_query_value inverts percent_encode.
LEMMA DecodeInverts ==
    ASSUME NEW v \in Seq(Bytes)
    PROVE  decode_query_value(percent_encode(v)) = v
<1>1. PICK n \in Nat : n = Len(v) /\ DOMAIN v = 1..n /\ \A i \in 1..n : v[i] \in Bytes
  OBVIOUS
<1> DEFINE pieces == [i \in DOMAIN v |-> Written(v[i])]
           text == percent_encode(v)
<1>2. text \in Seq(Safe) /\ Len(pieces) = n /\ pieces \in Seq(Seq(Safe))
  BY <1>1, Encoded
<1>3. PICK p : Ends(pieces, p) /\ IsFlat(text, pieces, n, p)
  BY <1>1, Encoded
<1>4. \A i \in 1..n : pieces[i] = Written(v[i])
  BY <1>1
<1> HIDE DEF pieces, text
<1>5. text \in Seq(Bytes)
  BY <1>2, SafeBytes
<1>6. p \in [0..n -> Nat] /\ p[0] = 0 /\ Len(text) = p[n]
  BY <1>2, <1>3 DEF Ends, IsFlat
<1>7. PICK from \in [1..(Len(text) + 3) -> Seq(Bytes)] :
         /\ decode_query_value(text) = from[1]
         /\ \A i \in 1..(Len(text) + 3) : from[i] = DecodedFrom(text, from, i)
  BY <1>5, Decode
<1>8. ASSUME NEW i \in 1..n
      PROVE  from[p[i - 1] + 1] = <<v[i]>> \o from[p[i] + 1]
  <2>1. i - 1 \in 0..n /\ i \in 0..n /\ n \in 0..n
    BY <1>1
  <2>2. PICK q \in Nat, e \in Nat, L \in Nat : q = p[i - 1] /\ e = p[i] /\ L = p[n]
    BY <1>6, <2>1
  <2>3. p[i] = p[i - 1] + Len(pieces[i])
    BY <1>2, <1>3, Zenon DEF Ends
  <2>4. p[i] <= p[n]
    BY <1>2, <1>3, <2>1, EndsGrow
  <2>5. \A k \in 1..Len(pieces[i]) : text[p[i - 1] + k] = pieces[i][k]
    BY <1>3, Zenon DEF IsFlat
  <2>6. /\ e = q + Len(Written(v[i])) /\ e <= Len(text)
        /\ \A k \in 1..Len(Written(v[i])) : text[q + k] = Written(v[i])[k]
    BY <1>4, <1>6, <2>2, <2>3, <2>4, <2>5
  <2>7. v[i] \in Bytes
    BY <1>1
  <2>10. WrittenAt(v[i], text, q, e)
    BY <2>6, Zenon DEF WrittenAt
  <2>8. DecodedFrom(text, from, q + 1) = <<v[i]>> \o from[e + 1]
    <3>1. Continues(v[i], text, from, q, e)
      BY <1>2, <2>7, <2>10, DecodeOne
    <3> QED BY <3>1 DEF Continues
  <2>9. Len(Written(v[i])) \in Nat /\ q + 1 \in 1..(Len(text) + 3)
    <3>1. Written(v[i]) \in Seq(Safe)
      BY <2>7, WrittenSafe
    <3>2. Len(Written(v[i])) \in Nat
      BY <3>1
    <3> QED BY <1>6, <2>2, <2>6, <3>2, SMTT(30)
  <2> QED BY <1>7, <2>2, <2>8, <2>9
<1> DEFINE At(i) == from[p[i] + 1] = SubSeq(v, i + 1, n)
           T == {d \in 0..n : At(n - d)}
<1>9. At(n)
  <2>1. n < n + 1 /\ n \in Int /\ n + 1 \in Int
    OBVIOUS
  <2>2. SubSeq(v, n + 1, n) = << >>
    BY <2>1, SubSeqEmpty
  <2>3. PICK L \in Nat : L = p[n]
    BY <1>6
  <2>4. L + 1 \in 1..(L + 3) /\ L + 1 > L
    OBVIOUS
  <2>5. from[L + 1] = << >>
    BY <1>6, <1>7, <2>3, <2>4 DEF DecodedFrom
  <2> QED BY <2>2, <2>3, <2>5
<1>10. ASSUME NEW i \in 1..n, At(i) PROVE At(i - 1)
  <2>1. SubSeq(v, i, n) = <<v[i]>> \o SubSeq(v, i + 1, n)
    <3>1. i \in 1..Len(v) /\ n \in i..Len(v)
      BY <1>1
    <3> QED BY <3>1, SubSeqRecursiveFirst
  <2>2. (i - 1) + 1 = i
    OBVIOUS
  <2> QED BY <1>8, <1>10, <2>1, <2>2
<1> HIDE DEF At
<1>11. 0..n \subseteq T
  <2>1. 0 \in T
    <3>1. n - 0 = n /\ 0 \in 0..n
      OBVIOUS
    <3> QED BY <1>9, <3>1
  <2>2. \A d \in 1..n : d - 1 \in T => d \in T
    <3> SUFFICES ASSUME NEW d \in 1..n, At(n - (d - 1))
                 PROVE  At(n - d)
      OBVIOUS
    <3>1. PICK i \in 1..n : i = n - (d - 1) /\ i - 1 = n - d
      OBVIOUS
    <3> QED BY <1>10, <3>1
  <2> HIDE DEF T
  <2> QED BY <2>1, <2>2, UpTo
<1>12. from[p[0] + 1] = SubSeq(v, 1, n)
  <2>1. n \in 0..n /\ n - n = 0 /\ 0 + 1 = 1
    OBVIOUS
  <2>2. At(0)
    BY <1>11, <2>1
  <2> QED BY <2>1, <2>2 DEF At
<1>13. SubSeq(v, 1, n) = v
  BY <1>1, SubSeqFull
<1> QED BY <1>6, <1>7, <1>12, <1>13 DEF text

-----------------------------------------------------------------------------

\* Where c is first in a text, 0 if it is nowhere.
FirstAt(text, c) ==
    LET I == {i \in 1..Len(text) : text[i] = c} IN IF I # {} THEN Min(I) ELSE 0

LEMMA FirstAtNone ==
    ASSUME NEW text, NEW c, \A i \in 1..Len(text) : text[i] # c
    PROVE  FirstAt(text, c) = 0
BY DEF FirstAt

LEMMA FirstAtIs ==
    ASSUME NEW S, NEW text \in Seq(S), NEW c, NEW k \in 1..Len(text), text[k] = c,
           \A i \in 1..(k - 1) : text[i] # c
    PROVE  FirstAt(text, c) = k
<1> DEFINE I == {i \in 1..Len(text) : text[i] = c}
<1>1. Len(text) \in Nat
  OBVIOUS
<1>2. k \in I /\ \A i \in I : i \in Int /\ k <= i
  BY <1>1
<1>3. FirstAt(text, c) = Min(I)
  BY <1>2 DEF FirstAt
<1> HIDE DEF I
<1>4. Min(I) \in I /\ \A i \in I : Min(I) <= i
  BY <1>2 DEF Min
<1>5. Min(I) = k
  <2>1. Min(I) \in Int /\ k \in Int /\ Min(I) <= k /\ k <= Min(I)
    BY <1>2, <1>4
  <2> QED BY <2>1
<1> QED BY <1>3, <1>5

LEMMA FirstAtIn ==
    ASSUME NEW S, NEW text \in Seq(S), NEW c
    PROVE  FirstAt(text, c) \in 0..Len(text)
<1> DEFINE I == {i \in 1..Len(text) : text[i] = c}
<1>1. Len(text) \in Nat
  OBVIOUS
<1>2. CASE I = {}
  BY <1>1, <1>2 DEF FirstAt
<1>3. CASE I # {}
  <2>1. I \subseteq Nat
    BY <1>1
  <2>2. FirstAt(text, c) = Min(I)
    BY <1>3 DEF FirstAt
  <2>3. \A i \in I : i \in 1..Len(text)
    OBVIOUS
  <2> HIDE DEF I
  <2>4. PICK n \in I : \A i \in I : n <= i
    BY <1>3, <2>1, LeastElement
  <2>5. Min(I) \in I
    BY <2>4 DEF Min
  <2> QED BY <1>1, <2>2, <2>3, <2>5
<1> QED BY <1>2, <1>3

\* b stands in the text after position m: it is that part of the text.
Stands(b, text, m) == \A i \in 1..Len(b) : text[m + i] = b[i]

LEMMA Slice ==
    ASSUME NEW S, NEW b \in Seq(S), NEW text, NEW m \in Nat, NEW x \in Int, x = m + 1,
           NEW n \in Int, n = m + Len(b), Stands(b, text, m)
    PROVE  SubSeq(text, x, n) = b
<1>1. PICK B \in Nat : B = Len(b)
  OBVIOUS
<1>2. \A i \in x..n : text[i] \in S
  <2> SUFFICES ASSUME NEW i \in x..n PROVE text[i] \in S
    OBVIOUS
  <2>1. i - m \in 1..B /\ m + (i - m) = i
    BY <1>1
  <2>2. b[i - m] \in S
    BY <1>1, <2>1
  <2> QED BY <1>1, <2>1, <2>2 DEF Stands
<1>3. SubSeq(text, x, n) \in Seq(S)
  BY <1>2
<1>4. SubSeq(text, x, n) = [i \in 1..B |-> text[x + i - 1]]
  <2>1. SubSeq(text, x, n) = [i \in 1..(n - x + 1) |-> text[x + i - 1]]
    OBVIOUS
  <2>2. n - x + 1 = B
    BY <1>1
  <2> QED BY <2>1, <2>2, Zenon
<1>5. \A i \in 1..B : x + i - 1 = m + i
  OBVIOUS
<1>6. Len(SubSeq(text, x, n)) = B /\ \A i \in 1..B : SubSeq(text, x, n)[i] = b[i]
  BY <1>1, <1>4, <1>5 DEF Stands
<1> QED BY <1>1, <1>3, <1>6, SeqEqual

\* A text with a separator in it, taken apart.
LEMMA Split ==
    ASSUME NEW S, NEW a \in Seq(S), NEW c \in S, NEW b \in Seq(S),
           NEW text, text = a \o <<c>> \o b
    PROVE  /\ text \in Seq(S) /\ Len(text) = Len(a) + 1 + Len(b)
           /\ text[Len(a) + 1] = c
           /\ \A i \in 1..Len(a) : text[i] = a[i]
           /\ SubSeq(text, 1, Len(a)) = a
           /\ SubSeq(text, Len(a) + 2, Len(text)) = b
<1>1. PICK A \in Nat, B \in Nat : A = Len(a) /\ B = Len(b)
  OBVIOUS
<1>2. <<c>> \in Seq(S) /\ Len(<<c>>) = 1 /\ <<c>>[1] = c
  OBVIOUS
<1> DEFINE d == a \o <<c>>
<1>3. /\ d \in Seq(S) /\ Len(d) = A + 1
      /\ \A i \in 1..(A + 1) : d[i] = IF i <= A THEN a[i] ELSE <<c>>[i - A]
  BY <1>1, <1>2, ConcatProperties
<1> HIDE DEF d
<1>4. /\ text \in Seq(S) /\ Len(text) = A + 1 + B
      /\ \A i \in 1..(A + 1 + B) : text[i] = IF i <= A + 1 THEN d[i] ELSE b[i - (A + 1)]
  BY <1>1, <1>3, ConcatProperties DEF d
<1>5. /\ \A i \in 1..A : text[i] = a[i]
      /\ text[A + 1] = c
  <2>1. \A i \in 1..A : i \in 1..(A + 1) /\ i \in 1..(A + 1 + B) /\ i <= A /\ i <= A + 1
    OBVIOUS
  <2>2. \A i \in 1..A : text[i] = a[i]
    BY <1>3, <1>4, <2>1
  <2>3. A + 1 \in 1..(A + 1) /\ A + 1 \in 1..(A + 1 + B) /\ ~ (A + 1 <= A) /\ (A + 1) - A = 1
    OBVIOUS
  <2>4. text[A + 1] = c
    BY <1>2, <1>3, <1>4, <2>3
  <2> QED BY <2>2, <2>4
<1>6. \A i \in 1..B : text[A + 1 + i] = b[i]
  <2> SUFFICES ASSUME NEW i \in 1..B PROVE text[A + 1 + i] = b[i]
    OBVIOUS
  <2>1. A + 1 + i \in 1..(A + 1 + B) /\ ~ (A + 1 + i <= A + 1) /\ (A + 1 + i) - (A + 1) = i
    OBVIOUS
  <2> QED BY <1>4, <2>1
<1>7. SubSeq(text, 1, A) = a
  <2>1. 0 \in Nat /\ 1 \in Int /\ 1 = 0 + 1 /\ A \in Int /\ A = 0 + A /\ \A i \in 1..A : 0 + i = i
    OBVIOUS
  <2>2. A = 0 + Len(a) /\ \A i \in 1..Len(a) : text[0 + i] = a[i]
    BY <1>1, <1>5, <2>1
  <2>3. Stands(a, text, 0)
    BY <2>2, Zenon DEF Stands
  <2> QED BY <2>1, <2>2, <2>3, Slice
<1>8. SubSeq(text, A + 2, A + 1 + B) = b
  <2>1. PICK m \in Nat, x \in Int, n \in Int : m = A + 1 /\ x = A + 2 /\ n = A + 1 + B
    OBVIOUS
  <2>2. x = m + 1 /\ n = m + Len(b) /\ \A i \in 1..Len(b) : text[m + i] = b[i]
    BY <1>1, <1>6, <2>1
  <2>3. SubSeq(text, x, n) = b
    <3>1. Stands(b, text, m)
      BY <2>2, Zenon DEF Stands
    <3> QED BY <2>2, <3>1, Slice, ZenonT(30)
  <2> QED BY <2>1, <2>3
<1> QED BY <1>1, <1>4, <1>5, <1>7, <1>8

-----------------------------------------------------------------------------

Field == [name : Seq(Bytes), value : Seq(Bytes)]

\* The text of a field.
Piece(f) == percent_encode(f.name) \o <<Equals>> \o percent_encode(f.value)

LEMMA FieldOfIs ==
    \A piece : FieldOf(piece) =
        IF FirstAt(piece, Equals) = 0 THEN << >>
        ELSE <<[name |-> decode_query_value(Before(piece, FirstAt(piece, Equals))),
                value |-> decode_query_value(After(piece, FirstAt(piece, Equals)))]>>
BY DEF FieldOf, SelectInSeq, FirstAt

LEMMA DecodeType == \A coded \in Seq(Bytes) : decode_query_value(coded) \in Seq(Bytes)
<1> SUFFICES ASSUME NEW coded \in Seq(Bytes) PROVE decode_query_value(coded) \in Seq(Bytes)
  OBVIOUS
<1>1. PICK from \in [1..(Len(coded) + 3) -> Seq(Bytes)] : decode_query_value(coded) = from[1]
  BY Decode
<1>2. 1 \in 1..(Len(coded) + 3)
  OBVIOUS
<1> QED BY <1>1, <1>2

LEMMA PartType ==
    ASSUME NEW S, NEW text \in Seq(S), NEW k \in 0..Len(text)
    PROVE  Before(text, k) \in Seq(S) /\ After(text, k) \in Seq(S)
<1>1. Len(text) \in Nat /\ k \in Nat /\ << >> \in Seq(S)
  OBVIOUS
<1>2. k > 0 => SubSeq(text, 1, k - 1) \in Seq(S)
  <2>1. \A i \in 1..(k - 1) : text[i] \in S
    BY <1>1
  <2> QED BY <1>1, <2>1, SubSeqProperties
<1>3. SubSeq(text, k + 1, Len(text)) \in Seq(S)
  <2>1. \A i \in (k + 1)..Len(text) : text[i] \in S
    BY <1>1
  <2> QED BY <1>1, <2>1, SubSeqProperties
<1> QED BY <1>1, <1>2, <1>3 DEF Before, After

LEMMA FieldOfType == \A piece \in Seq(Bytes) : FieldOf(piece) \in Seq(Field)
<1> SUFFICES ASSUME NEW piece \in Seq(Bytes) PROVE FieldOf(piece) \in Seq(Field)
  OBVIOUS
<1>1. PICK k \in 0..Len(piece) : k = FirstAt(piece, Equals)
  BY FirstAtIn
<1>2. decode_query_value(Before(piece, k)) \in Seq(Bytes) /\ decode_query_value(After(piece, k)) \in Seq(Bytes)
  BY PartType, DecodeType
<1>3. FieldOf(piece) = IF k = 0 THEN << >> ELSE <<[name |-> decode_query_value(Before(piece, k)),
                                                   value |-> decode_query_value(After(piece, k))]>>
  BY <1>1, FieldOfIs
<1>4. PICK x \in Seq(Bytes), y \in Seq(Bytes) :
         FieldOf(piece) = IF k = 0 THEN << >> ELSE <<[name |-> x, value |-> y]>>
  BY <1>2, <1>3
<1>5. [name |-> x, value |-> y] \in Field
  BY DEF Field
<1> QED BY <1>4, <1>5

\* A field's text is its field's, and has no '&'.
LEMMA FieldOfPiece ==
    ASSUME NEW f \in Field
    PROVE  /\ FieldOf(Piece(f)) = <<f>>
           /\ Piece(f) \in Seq(Safe \cup {Equals}) /\ Len(Piece(f)) > 0
           /\ \A k \in 1..Len(Piece(f)) : Piece(f)[k] # Ampersand
<1> DEFINE a == percent_encode(f.name)
           b == percent_encode(f.value)
           S == Safe \cup {Equals}
           text == Piece(f)
<1>1. f.name \in Seq(Bytes) /\ f.value \in Seq(Bytes) /\ f = [name |-> f.name, value |-> f.value]
  BY DEF Field
<1>2. a \in Seq(Safe) /\ b \in Seq(Safe) /\ a \in Seq(S) /\ b \in Seq(S) /\ Equals \in S
  <2>1. a \in Seq(Safe) /\ b \in Seq(Safe)
    BY <1>1, Encoded
  <2>2. Safe \subseteq S /\ Equals \in S
    OBVIOUS
  <2> HIDE DEF a, b, S
  <2> QED BY <2>1, <2>2
<1>3. decode_query_value(a) = f.name /\ decode_query_value(b) = f.value
  BY <1>1, DecodeInverts
<1>4. text = a \o <<Equals>> \o b
  BY DEF Piece
<1> HIDE DEF a, b, text, S
<1>5. PICK A \in Nat, B \in Nat : A = Len(a) /\ B = Len(b)
  BY <1>2
<1>6. /\ text \in Seq(S) /\ Len(text) = A + 1 + B /\ text[A + 1] = Equals
      /\ \A i \in 1..A : text[i] = a[i]
      /\ SubSeq(text, 1, A) = a /\ SubSeq(text, A + 2, Len(text)) = b
  BY <1>2, <1>4, <1>5, Split
<1>7. FirstAt(text, Equals) = A + 1
  <2>1. A + 1 \in 1..Len(text) /\ (A + 1) - 1 = A
    BY <1>6
  <2>2. \A i \in 1..A : text[i] # Equals
    <3>1. \A i \in 1..A : a[i] \in Safe
      BY <1>2, <1>5
    <3> QED BY <1>6, <3>1, SafeBytes
  <2> QED BY <1>6, <2>1, <2>2, FirstAtIs
<1>8. Before(text, A + 1) = a /\ After(text, A + 1) = b
  <2>1. A + 1 # 0 /\ (A + 1) - 1 = A /\ (A + 1) + 1 = A + 2
    OBVIOUS
  <2> QED BY <1>6, <2>1 DEF Before, After
<1>9. FieldOf(text) = <<f>>
  <2>1. A + 1 # 0
    OBVIOUS
  <2>2. FieldOf(text) = <<[name |-> decode_query_value(Before(text, A + 1)),
                           value |-> decode_query_value(After(text, A + 1))]>>
    BY <1>7, <2>1, FieldOfIs, Zenon
  <2> QED BY <1>1, <1>3, <1>8, <2>2, Zenon
<1>10. Len(text) > 0 /\ \A k \in 1..Len(text) : text[k] # Ampersand
  <2>1. \A x \in S : x # Ampersand
    BY SafeBytes DEF S, Equals, Ampersand
  <2>2. \A k \in 1..Len(text) : text[k] \in S
    BY <1>6
  <2> QED BY <1>6, <2>1, <2>2
<1> QED BY <1>6, <1>9, <1>10 DEF text, S

-----------------------------------------------------------------------------

\* What QueryFields makes of the last n bytes.
Rest(query, n) == SubSeq(query, Len(query) - n + 1, Len(query))
LastFields(query, last, n) ==
    LET separator == FirstAt(Rest(query, n), Ampersand)
    IN  FieldOf(Before(Rest(query, n), separator)) \o last[IF separator = 0 THEN 0 ELSE n - separator]

LEMMA RestIs ==
    ASSUME NEW S, NEW query \in Seq(S), NEW n \in 0..Len(query)
    PROVE  /\ Rest(query, n) \in Seq(S) /\ Len(Rest(query, n)) = n
           /\ \A k \in 1..n : Rest(query, n)[k] = query[Len(query) - n + k]
<1>1. PICK L \in Nat : L = Len(query) /\ \A i \in 1..L : query[i] \in S
  OBVIOUS
<1>2. PICK x \in Int, y \in Int : x = L - n + 1 /\ y = L
  OBVIOUS
<1>3. Rest(query, n) = SubSeq(query, x, y)
  BY <1>1, <1>2 DEF Rest
<1>4. SubSeq(query, x, y) = [i \in 1..(y - x + 1) |-> query[x + i - 1]]
  OBVIOUS
<1>5. y - x + 1 = n /\ n \in Nat /\ \A i \in 1..n : x + i - 1 = L - n + i /\ L - n + i \in 1..L
  BY <1>1, <1>2
<1>6. SubSeq(query, x, y) = [i \in 1..n |-> query[x + i - 1]]
  BY <1>4, <1>5, Zenon
<1>7. \A i \in 1..n : query[x + i - 1] = query[L - n + i]
  BY <1>5
<1>8. SubSeq(query, x, y) \in Seq(S)
  <2>1. \A i \in x..y : query[i] \in S
    BY <1>1, <1>2
  <2> QED BY <2>1
<1>9. \A k \in 1..n : SubSeq(query, x, y)[k] = query[L - n + k]
  BY <1>6, <1>7
<1>10. Len(SubSeq(query, x, y)) = n
  BY <1>5, <1>6
<1> QED BY <1>1, <1>3, <1>8, <1>9, <1>10

LEMMA Query ==
    ASSUME NEW query \in Seq(Bytes)
    PROVE  \E last : /\ QueryFields(query) = last[Len(query)]
                     /\ last[0] = << >>
                     /\ \A n \in 1..Len(query) : last[n] = LastFields(query, last, n)
<1>1. PICK L \in Nat : L = Len(query)
  OBVIOUS
<1> DEFINE separator == [n \in 1..L |-> FirstAt(Rest(query, n), Ampersand)]
           prev == [n \in 1..L |-> IF separator[n] = 0 THEN 0 ELSE n - separator[n]]
           first == [n \in 1..L |-> FieldOf(Before(Rest(query, n), separator[n]))]
           step == [x \in (1..L) \X Seq(Field) |-> first[x[1]] \o x[2]]
<1>2. ASSUME NEW n \in 1..L PROVE Rest(query, n) \in Seq(Bytes) /\ Len(Rest(query, n)) = n
  <2>1. n \in 0..Len(query)
    BY <1>1
  <2> QED BY <2>1, RestIs
<1>3. \A n \in 1..L : separator[n] \in 0..n
  BY <1>2, FirstAtIn
<1>4. first \in [1..L -> Seq(Field)]
  <2> SUFFICES ASSUME NEW n \in 1..L PROVE FieldOf(Before(Rest(query, n), separator[n])) \in Seq(Field)
    OBVIOUS
  <2>1. separator[n] \in 0..Len(Rest(query, n))
    BY <1>2, <1>3
  <2> HIDE DEF separator
  <2>2. Before(Rest(query, n), separator[n]) \in Seq(Bytes)
    BY <1>2, <2>1, PartType
  <2> QED BY <2>2, FieldOfType
<1>5. prev \in [1..L -> Nat] /\ \A n \in 1..L : prev[n] < n
  <2> HIDE DEF separator
  <2> QED BY <1>3
<1>6. step \in [(1..L) \X Seq(Field) -> Seq(Field)]
  <2> HIDE DEF first
  <2>1. ASSUME NEW x \in (1..L) \X Seq(Field)
        PROVE  first[x[1]] \o x[2] \in Seq(Field)
    <3>1. first[x[1]] \in Seq(Field) /\ x[2] \in Seq(Field)
      BY <1>4
    <3> QED BY <3>1, ConcatProperties
  <2> QED BY <2>1
<1>7. PICK f : Recursive(f, L, Seq(Field), << >>, prev, step)
  <2>1. << >> \in Seq(Field)
    OBVIOUS
  <2> HIDE DEF prev, step
  <2> QED BY <1>5, <1>6, <2>1, Recursion
<1>8. f \in [0..L -> Seq(Field)] /\ f[0] = << >>
  BY <1>7 DEF Recursive
<1>9. ASSUME NEW n \in 1..L
      PROVE  f[n] = LastFields(query, f, n)
  <2>1. f[n] = step[<<n, f[prev[n]]>>]
    <3> HIDE DEF step, prev
    <3> QED BY <1>7, Zenon DEF Recursive
  <2>2. prev[n] \in 0..L
    <3> HIDE DEF prev
    <3> QED BY <1>5
  <2>3. f[prev[n]] \in Seq(Field)
    <3> HIDE DEF prev
    <3> QED BY <1>8, <2>2
  <2>4. step[<<n, f[prev[n]]>>] = first[n] \o f[prev[n]]
    <3> HIDE DEF first, prev
    <3> QED BY <2>3
  <2>5. /\ first[n] = FieldOf(Before(Rest(query, n), FirstAt(Rest(query, n), Ampersand)))
        /\ prev[n] = IF FirstAt(Rest(query, n), Ampersand) = 0 THEN 0
                     ELSE n - FirstAt(Rest(query, n), Ampersand)
    OBVIOUS
  <2> HIDE DEF first, prev, step
  <2> QED BY <2>1, <2>4, <2>5, Zenon DEF LastFields
<1> DEFINE Rec(h) == h = [n \in 0..Len(query) |-> IF n = 0 THEN << >> ELSE LastFields(query, h, n)]
           last == CHOOSE h : Rec(h)
<1>10. QueryFields(query) = last[Len(query)]
  BY DEF QueryFields, LastFields, Rest, SelectInSeq, FirstAt
<1>11. Rec(f)
  <2>1. f = [n \in 0..L |-> f[n]]
    BY <1>8
  <2>2. \A n \in 0..L : f[n] = IF n = 0 THEN << >> ELSE LastFields(query, f, n)
    BY <1>8, <1>9
  <2> QED BY <1>1, <2>1, <2>2
<1>12. Rec(last)
  <2> HIDE DEF Rec
  <2> QED BY <1>11
<1> HIDE DEF last
<1>13. last[0] = << >> /\ \A n \in 1..Len(query) : last[n] = LastFields(query, last, n)
  BY <1>1, <1>12
<1> QED BY <1>10, <1>13

-----------------------------------------------------------------------------

\* What form_encode writes, and what it writes for the i-th field.
QueryBytes == Safe \cup {Ampersand, Equals}
Chunk(f, i) == IF i = 1 THEN Piece(f) ELSE <<Ampersand>> \o Piece(f)

\* The text of a field stands in a query after q and ends at e.
PieceAt(f, text, q, e) ==
    /\ e = q + Len(Piece(f)) /\ e <= Len(text)
    /\ Stands(Piece(f), text, q)
    /\ e = Len(text) \/ text[e + 1] = Ampersand

\* The fields' texts stand in a row, with one byte between them.
InRow(fields, text, q, e) ==
    /\ q \in [1..Len(fields) -> Nat] /\ e \in [1..Len(fields) -> Nat]
    /\ \A i \in 1..Len(fields) : PieceAt(fields[i], text, q[i], e[i])
    /\ IF fields = << >> THEN Len(text) = 0 ELSE q[1] = 0 /\ e[Len(fields)] = Len(text)
    /\ \A i \in 1..(Len(fields) - 1) : q[i + 1] = e[i] + 1 /\ e[i] < Len(text)

LEMMA ChunkIs ==
    ASSUME NEW f \in Field, NEW i
    PROVE  /\ ((IF i = 1 THEN << >> ELSE <<Ampersand>>) \o percent_encode(f.name) \o <<Equals>>
                 \o percent_encode(f.value)) = Chunk(f, i)
           /\ Chunk(f, i) \in Seq(QueryBytes)
<1> DEFINE a == percent_encode(f.name)
           b == percent_encode(f.value)
<1>1. a \in Seq(QueryBytes) /\ b \in Seq(QueryBytes)
  <2>1. f.name \in Seq(Bytes) /\ f.value \in Seq(Bytes)
    BY DEF Field
  <2>2. a \in Seq(Safe) /\ b \in Seq(Safe)
    BY <2>1, Encoded
  <2> HIDE DEF a, b
  <2> QED BY <2>2 DEF QueryBytes
<1>2. <<Ampersand>> \in Seq(QueryBytes) /\ <<Equals>> \in Seq(QueryBytes)
  BY DEF QueryBytes
<1>3. Piece(f) = a \o <<Equals>> \o b
  BY DEF Piece
<1> HIDE DEF a, b
<1>4. a \o <<Equals>> \in Seq(QueryBytes)
  BY <1>1, <1>2, ConcatProperties
<1>5. Piece(f) \in Seq(QueryBytes)
  BY <1>1, <1>3, <1>4, ConcatProperties
<1>6. << >> \o a = a
  BY <1>1, ConcatEmptySeq
<1>7. <<Ampersand>> \o Piece(f) = (<<Ampersand>> \o (a \o <<Equals>>)) \o b
  BY <1>1, <1>2, <1>3, <1>4, ConcatAssociative
<1>8. <<Ampersand>> \o (a \o <<Equals>>) = (<<Ampersand>> \o a) \o <<Equals>>
  BY <1>1, <1>2, ConcatAssociative
<1>9. <<Ampersand>> \o Piece(f) \in Seq(QueryBytes)
  BY <1>2, <1>5, ConcatProperties
<1>10. ((IF i = 1 THEN << >> ELSE <<Ampersand>>) \o a \o <<Equals>> \o b) = Chunk(f, i)
  <2>1. CASE i = 1
    BY <1>3, <1>6, <2>1, Zenon DEF Chunk
  <2>2. CASE i # 1
    BY <1>7, <1>8, <2>2, Zenon DEF Chunk
  <2> QED BY <2>1, <2>2
<1>11. Chunk(f, i) \in Seq(QueryBytes)
  BY <1>5, <1>9 DEF Chunk
<1> QED BY <1>10, <1>11 DEF a, b

\* Where a field's text is within its chunk.
LEMMA InChunk ==
    ASSUME NEW f \in Field, NEW i \in Nat \ {0}, NEW skip, skip = IF i = 1 THEN 0 ELSE 1
    PROVE  /\ Len(Chunk(f, i)) = skip + Len(Piece(f)) /\ Len(Piece(f)) \in Nat \ {0}
           /\ Stands(Piece(f), Chunk(f, i), skip)
           /\ i # 1 => Chunk(f, i)[1] = Ampersand
<1>1. Piece(f) \in Seq(Safe \cup {Equals}) /\ Len(Piece(f)) > 0
  BY FieldOfPiece
<1>2. PICK P \in Nat : P = Len(Piece(f)) /\ P # 0
  BY <1>1
<1>3. CASE i = 1
  <2>1. Chunk(f, i) = Piece(f) /\ skip = 0
    BY <1>3 DEF Chunk
  <2>2. \A k \in 1..P : skip + k = k
    BY <2>1
  <2> QED BY <1>2, <1>3, <2>1, <2>2 DEF Stands
<1>4. CASE i # 1
  <2>1. Chunk(f, i) = <<Ampersand>> \o Piece(f) /\ skip = 1
    BY <1>4 DEF Chunk
  <2>2. Piece(f) \in Seq(QueryBytes) /\ <<Ampersand>> \in Seq(QueryBytes)
    BY <1>1 DEF QueryBytes
  <2>3. Len(<<Ampersand>>) = 1 /\ <<Ampersand>>[1] = Ampersand
    OBVIOUS
  <2>4. /\ Len(Chunk(f, i)) = 1 + P
        /\ \A k \in 1..(1 + P) : Chunk(f, i)[k] = IF k <= 1 THEN <<Ampersand>>[k] ELSE Piece(f)[k - 1]
    BY <1>2, <2>1, <2>2, <2>3, ConcatProperties
  <2>5. \A k \in 1..P : 1 + k \in 1..(1 + P) /\ ~ (1 + k <= 1) /\ (1 + k) - 1 = k
    OBVIOUS
  <2>6. \A k \in 1..P : Chunk(f, i)[1 + k] = Piece(f)[k]
    BY <2>4, <2>5
  <2>7. Chunk(f, i)[1] = Ampersand
    BY <2>3, <2>4
  <2> QED BY <1>2, <2>1, <2>4, <2>6, <2>7 DEF Stands
<1> QED BY <1>3, <1>4

LEMMA FormEncoded ==
    ASSUME NEW fields \in Seq(Field)
    PROVE  /\ form_encode(fields) \in Seq(QueryBytes)
           /\ \E q, e : InRow(fields, form_encode(fields), q, e)
<1>1. PICK m \in Nat : m = Len(fields) /\ DOMAIN fields = 1..m /\ \A i \in 1..m : fields[i] \in Field
  OBVIOUS
<1> DEFINE chunks == [i \in 1..m |-> Chunk(fields[i], i)]
           text == form_encode(fields)
<1>2. text = FlattenSeq(chunks)
  <2>1. [i \in DOMAIN fields |->
           (IF i = 1 THEN << >> ELSE <<Ampersand>>) \o percent_encode(fields[i].name) \o <<Equals>>
             \o percent_encode(fields[i].value)] = chunks
    <3>1. ASSUME NEW i \in 1..m
          PROVE  ((IF i = 1 THEN << >> ELSE <<Ampersand>>) \o percent_encode(fields[i].name) \o <<Equals>>
                   \o percent_encode(fields[i].value)) = Chunk(fields[i], i)
      BY <1>1, ChunkIs
    <3> QED BY <1>1, <3>1, Zenon
  <2> HIDE DEF chunks
  <2> QED BY <2>1, Zenon DEF form_encode
<1>3. chunks \in [1..m -> Seq(QueryBytes)]
  BY <1>1, ChunkIs
<1>4. chunks \in Seq(Seq(QueryBytes)) /\ Len(chunks) = m
  BY <1>3
<1>5. \A i \in 1..m : chunks[i] = Chunk(fields[i], i)
  OBVIOUS
<1> HIDE DEF chunks, text
<1>6. text \in Seq(QueryBytes)
  BY <1>2, <1>4, Flatten
<1>7. PICK p : Ends(chunks, p) /\ IsFlat(text, chunks, m, p)
  BY <1>2, <1>4, Flatten
<1>8. p \in [0..m -> Nat] /\ p[0] = 0 /\ Len(text) = p[m]
  BY <1>4, <1>7 DEF Ends, IsFlat
<1>9. ASSUME NEW i \in 1..m
      PROVE  /\ i \in 0..m /\ i - 1 \in 0..m /\ p[i] \in Nat /\ p[i - 1] \in Nat
             /\ p[i] = p[i - 1] + Len(Chunk(fields[i], i)) /\ p[i] <= p[m]
             /\ \A k \in 1..Len(Chunk(fields[i], i)) : text[p[i - 1] + k] = Chunk(fields[i], i)[k]
  <2>1. i \in 0..m /\ i - 1 \in 0..m /\ m \in 0..m
    OBVIOUS
  <2>2. p[i] = p[i - 1] + Len(chunks[i])
    BY <1>4, <1>7, Zenon DEF Ends
  <2>3. p[i] <= p[m]
    BY <1>4, <1>7, <2>1, EndsGrow
  <2>4. \A k \in 1..Len(chunks[i]) : text[p[i - 1] + k] = chunks[i][k]
    BY <1>7, Zenon DEF IsFlat
  <2> QED BY <1>5, <1>8, <2>1, <2>2, <2>3, <2>4
<1> DEFINE q == [i \in 1..m |-> IF i = 1 THEN 0 ELSE p[i - 1] + 1]
           e == [i \in 1..m |-> p[i]]
<1>10. q \in [1..m -> Nat] /\ e \in [1..m -> Nat]
  BY <1>9
<1>11. ASSUME NEW i \in 1..(m - 1)
       PROVE  q[i + 1] = e[i] + 1 /\ e[i] < Len(text) /\ text[e[i] + 1] = Ampersand
  <2>1. i \in 1..m /\ i + 1 \in 1..m /\ (i + 1) - 1 = i /\ i + 1 # 1 /\ i + 1 \in Nat \ {0}
    OBVIOUS
  <2>2. PICK c \in Nat : c = Len(Chunk(fields[i + 1], i + 1)) /\ c > 0
    <3>1. fields[i + 1] \in Field
      BY <1>1, <2>1
    <3>2. Len(Chunk(fields[i + 1], i + 1)) = 1 + Len(Piece(fields[i + 1])) /\ Len(Piece(fields[i + 1])) \in Nat
      BY <2>1, <3>1, InChunk
    <3> QED BY <3>2
  <2>3. Chunk(fields[i + 1], i + 1)[1] = Ampersand
    BY <1>1, <2>1, InChunk
  <2>4. p[i + 1] = p[i] + c /\ p[i + 1] <= p[m] /\ p[i + 1] \in Nat /\ p[i] \in Nat
    BY <1>9, <2>1, <2>2
  <2>5. text[p[i] + 1] = Ampersand
    <3>1. \A k \in 1..c : text[p[(i + 1) - 1] + k] = Chunk(fields[i + 1], i + 1)[k]
      BY <1>9, <2>1, <2>2
    <3>2. 1 \in 1..c
      BY <2>2
    <3> QED BY <2>1, <2>3, <3>1, <3>2
  <2>6. p[m] \in Nat
    BY <1>8
  <2>7. q[i + 1] = p[i] + 1 /\ e[i] = p[i]
    BY <2>1
  <2>8. p[i] < p[m]
    BY <2>2, <2>4, <2>6
  <2> HIDE DEF q, e
  <2> QED BY <1>8, <2>5, <2>7, <2>8
<1>12. ASSUME NEW i \in 1..m PROVE PieceAt(fields[i], text, q[i], e[i])
  <2>1. PICK skip \in Nat : skip = IF i = 1 THEN 0 ELSE 1
    OBVIOUS
  <2>2. fields[i] \in Field /\ i \in Nat \ {0}
    BY <1>1
  <2>3. /\ Len(Chunk(fields[i], i)) = skip + Len(Piece(fields[i])) /\ Len(Piece(fields[i])) \in Nat \ {0}
        /\ Stands(Piece(fields[i]), Chunk(fields[i], i), skip)
    BY <2>1, <2>2, InChunk
  <2>4. PICK P \in Nat, a \in Nat : P = Len(Piece(fields[i])) /\ a = p[i - 1]
    BY <1>9, <2>3
  <2>5. q[i] = a + skip /\ e[i] = a + (skip + P)
    <3>1. i = 1 => a = 0
      BY <1>8, <2>4
    <3> QED BY <1>9, <2>1, <2>3, <2>4, <3>1
  <2>6. e[i] = q[i] + P /\ e[i] <= Len(text)
    <3>1. e[i] = p[i] /\ p[i] <= p[m] /\ a + (skip + P) = (a + skip) + P
      BY <1>9, <2>4
    <3> QED BY <1>8, <2>5, <3>1
  <2>7. ASSUME NEW k \in 1..P PROVE text[q[i] + k] = Piece(fields[i])[k]
    <3>1. skip + k \in 1..(skip + P) /\ (a + skip) + k = a + (skip + k)
      OBVIOUS
    <3>2. text[a + (skip + k)] = Chunk(fields[i], i)[skip + k]
      BY <1>9, <2>3, <2>4, <3>1
    <3>3. Chunk(fields[i], i)[skip + k] = Piece(fields[i])[k]
      BY <2>3, <2>4 DEF Stands
    <3> QED BY <2>5, <3>1, <3>2, <3>3
  <2>8. e[i] = Len(text) \/ text[e[i] + 1] = Ampersand
    <3>1. i = m \/ i \in 1..(m - 1)
      OBVIOUS
    <3>2. i = m => e[i] = p[m]
      OBVIOUS
    <3> HIDE DEF e, q
    <3> QED BY <1>8, <1>11, <3>1, <3>2
  <2> HIDE DEF e, q
  <2> QED BY <2>4, <2>6, <2>7, <2>8 DEF PieceAt, Stands
<1>13. IF fields = << >> THEN Len(text) = 0 ELSE q[1] = 0 /\ e[m] = Len(text)
  <2>1. fields = << >> => m = 0
    BY <1>1
  <2>2. fields # << >> => m # 0
    BY <1>1, EmptySeq
  <2>3. m # 0 => q[1] = 0 /\ e[m] = p[m]
    OBVIOUS
  <2> HIDE DEF q, e
  <2> QED BY <1>8, <2>1, <2>2, <2>3
<1>14. InRow(fields, text, q, e)
  <2> HIDE DEF q, e
  <2> QED BY <1>1, <1>10, <1>11, <1>12, <1>13, Zenon DEF InRow
<1> QED BY <1>6, <1>14, Zenon DEF text

-----------------------------------------------------------------------------

QueryContinues(f, text, last, q, e) ==
    LastFields(text, last, Len(text) - q) =
        <<f>> \o last[IF e = Len(text) THEN 0 ELSE Len(text) - e - 1]

\* Where a field's text stands, the field is read and the rest left to read.
LEMMA QueryOne ==
    ASSUME NEW f \in Field, NEW text \in Seq(Bytes), NEW last, NEW q \in Nat, NEW e \in Nat,
           PieceAt(f, text, q, e)
    PROVE  QueryContinues(f, text, last, q, e)
<1>1. /\ FieldOf(Piece(f)) = <<f>>
      /\ Piece(f) \in Seq(Safe \cup {Equals}) /\ Len(Piece(f)) > 0
      /\ \A k \in 1..Len(Piece(f)) : Piece(f)[k] # Ampersand
  BY FieldOfPiece
<1>2. PICK P \in Nat, L \in Nat : P = Len(Piece(f)) /\ L = Len(text)
  BY <1>1
<1>3. e = q + P /\ e <= L
  BY <1>2, Zenon DEF PieceAt
<1>4. PICK n \in Nat : n = L - q /\ e = q + P /\ q + P <= L
  BY <1>3
<1> DEFINE rest == Rest(text, n)
<1>5. rest \in Seq(Bytes) /\ Len(rest) = n /\ \A k \in 1..n : rest[k] = text[L - n + k]
  <2>1. n \in 0..Len(text)
    BY <1>2, <1>4
  <2> QED BY <1>2, <2>1, RestIs
<1>6. e = q + P /\ e <= L /\ P <= n /\ \A k \in 1..P : k \in 1..n /\ L - n + k = q + k
  BY <1>4, <1>3
<1> HIDE DEF rest
<1>7. \A k \in 1..P : rest[k] = Piece(f)[k]
  BY <1>2, <1>5, <1>6 DEF PieceAt, Stands
<1>8. CASE e = L
  <2>1. n = P
    BY <1>4, <1>6, <1>8
  <2>2. rest = Piece(f)
    BY <1>1, <1>2, <1>5, <1>7, <2>1, SeqEqual
  <2>3. FirstAt(rest, Ampersand) = 0
    BY <1>1, <2>2, FirstAtNone
  <2>4. Before(rest, 0) = Piece(f)
    BY <2>2 DEF Before
  <2> QED BY <1>1, <1>2, <1>4, <1>8, <2>3, <2>4, Zenon DEF QueryContinues, LastFields, rest
<1>9. CASE e # L
  <2>1. P + 1 \in 1..Len(rest) /\ P + 1 # 0 /\ (P + 1) - 1 = P /\ L - n + (P + 1) = e + 1
        /\ n - (P + 1) = L - e - 1
    <3>1. P # n
      BY <1>4, <1>9
    <3>2. P + 1 \in 1..n /\ P + 1 # 0 /\ (P + 1) - 1 = P
      BY <1>6, <3>1
    <3>3. L - n + (P + 1) = e + 1 /\ n - (P + 1) = L - e - 1
      BY <1>4
    <3> QED BY <1>5, <3>2, <3>3
  <2>2. rest[P + 1] = Ampersand
    <3>1. text[e + 1] = Ampersand
      BY <1>2, <1>9 DEF PieceAt
    <3> QED BY <1>5, <2>1, <3>1, SMTT(30)
  <2>3. FirstAt(rest, Ampersand) = P + 1
    <3>1. \A k \in 1..((P + 1) - 1) : rest[k] # Ampersand
      BY <1>1, <1>2, <1>7, <2>1
    <3> QED BY <1>5, <2>1, <2>2, <3>1, FirstAtIs
  <2>4. SubSeq(rest, 1, P) = Piece(f)
    <3>1. 0 \in Nat /\ 1 \in Int /\ 1 = 0 + 1 /\ P \in Int /\ P = 0 + P /\ \A k \in 1..P : 0 + k = k
      OBVIOUS
    <3>2. Stands(Piece(f), rest, 0)
      BY <1>2, <1>7, <3>1 DEF Stands
    <3>3. P = 0 + Len(Piece(f))
      BY <1>2, <3>1
    <3> QED BY <1>1, <3>1, <3>2, <3>3, Slice
  <2>5. Before(rest, P + 1) = Piece(f)
    BY <2>1, <2>4, Zenon DEF Before
  <2> QED BY <1>1, <1>2, <1>4, <1>9, <2>1, <2>3, <2>5, Zenon DEF QueryContinues, LastFields, rest
<1> QED BY <1>8, <1>9

\* The fields of a form are read back from it.
LEMMA QueryInverts ==
    ASSUME NEW fields \in Seq(Field)
    PROVE  QueryFields(form_encode(fields)) = fields
<1>1. PICK m \in Nat : m = Len(fields) /\ \A i \in 1..m : fields[i] \in Field
  OBVIOUS
<1> DEFINE text == form_encode(fields)
<1>2. text \in Seq(Bytes)
  <2>1. QueryBytes \subseteq Bytes
    BY SafeBytes DEF QueryBytes, Ampersand, Equals, Bytes
  <2> QED BY <2>1, FormEncoded
<1>3. PICK q, e : InRow(fields, text, q, e)
  BY FormEncoded
<1> HIDE DEF text
<1>4. PICK L \in Nat : L = Len(text)
  BY <1>2
<1>5. PICK last : /\ QueryFields(text) = last[L] /\ last[0] = << >>
                  /\ \A n \in 1..L : last[n] = LastFields(text, last, n)
  BY <1>2, <1>4, Query
<1>6. /\ q \in [1..m -> Nat] /\ e \in [1..m -> Nat]
      /\ \A i \in 1..m : PieceAt(fields[i], text, q[i], e[i])
      /\ IF fields = << >> THEN L = 0 ELSE q[1] = 0 /\ e[m] = L
      /\ \A i \in 1..(m - 1) : q[i + 1] = e[i] + 1 /\ e[i] < L
  BY <1>1, <1>3, <1>4, Zenon DEF InRow
<1>7. CASE fields = << >>
  BY <1>5, <1>6, <1>7 DEF text
<1>8. CASE fields # << >>
  <2>1. m > 0
    BY <1>1, <1>8, EmptySeq
  <2>2. ASSUME NEW i \in 1..m
        PROVE  last[L - q[i]] = <<fields[i]>> \o last[IF e[i] = L THEN 0 ELSE L - e[i] - 1]
    <3>1. PICK a \in Nat, b \in Nat : a = q[i] /\ b = e[i] /\ PieceAt(fields[i], text, a, b)
      BY <1>6
    <3>2. fields[i] \in Field
      BY <1>1
    <3>3. QueryContinues(fields[i], text, last, a, b)
      BY <1>2, <3>1, <3>2, QueryOne
    <3>4. Len(Piece(fields[i])) \in Nat /\ Len(Piece(fields[i])) > 0
      BY <3>2, FieldOfPiece
    <3>5. L - a \in 1..L
      BY <1>4, <3>1, <3>4 DEF PieceAt
    <3> QED BY <1>4, <1>5, <3>1, <3>3, <3>5 DEF QueryContinues
  <2> DEFINE At(i) == last[L - q[i]] = SubSeq(fields, i, m)
             T == {d \in 0..(m - 1) : At(m - d)}
  <2>3. ASSUME NEW i \in 1..m PROVE SubSeq(fields, i, m) = <<fields[i]>> \o SubSeq(fields, i + 1, m)
    <3>1. i \in 1..Len(fields) /\ m \in i..Len(fields)
      BY <1>1
    <3> QED BY <3>1, SubSeqRecursiveFirst
  <2>4. At(m)
    <3>1. m \in 1..m /\ m < m + 1 /\ m \in Int /\ m + 1 \in Int
      BY <2>1
    <3>2. SubSeq(fields, m + 1, m) = << >>
      BY <3>1, SubSeqEmpty
    <3>3. last[L - q[m]] = <<fields[m]>> \o last[IF e[m] = L THEN 0 ELSE L - e[m] - 1]
      BY <2>2, <3>1
    <3>4. last[L - q[m]] = <<fields[m]>> \o << >>
      BY <1>5, <1>6, <1>8, <3>3, Zenon
    <3> QED BY <2>3, <3>1, <3>2, <3>4, Zenon
  <2>5. ASSUME NEW i \in 1..(m - 1), At(i + 1) PROVE At(i)
    <3>1. i \in 1..m
      OBVIOUS
    <3>2. PICK a \in Nat : a = e[i] /\ q[i + 1] = a + 1 /\ a < L
      BY <1>6, <3>1
    <3>3. L - q[i + 1] = L - e[i] - 1 /\ e[i] # L
      BY <3>2
    <3> QED BY <2>2, <2>3, <2>5, <3>1, <3>3, Zenon
  <2> HIDE DEF At
  <2>6. 0..(m - 1) \subseteq T
    <3>1. 0 \in T
      <4>1. m - 0 = m /\ 0 \in 0..(m - 1)
        BY <2>1
      <4> QED BY <2>4, <4>1
    <3>2. \A d \in 1..(m - 1) : d - 1 \in T => d \in T
      <4> SUFFICES ASSUME NEW d \in 1..(m - 1), At(m - (d - 1))
                   PROVE  At(m - d)
        OBVIOUS
      <4>1. PICK i \in 1..(m - 1) : i + 1 = m - (d - 1) /\ i = m - d
        OBVIOUS
      <4> QED BY <2>5, <4>1
    <3>3. m - 1 \in Nat
      BY <2>1
    <3> HIDE DEF T
    <3> QED BY <3>1, <3>2, <3>3, UpTo
  <2>7. At(1)
    <3>1. m - 1 \in 0..(m - 1) /\ m - (m - 1) = 1
      BY <2>1
    <3> QED BY <2>6, <3>1
  <2>8. last[L] = SubSeq(fields, 1, m)
    <3>1. L - 0 = L
      OBVIOUS
    <3> QED BY <1>6, <1>8, <2>7, <3>1 DEF At
  <2>9. SubSeq(fields, 1, m) = fields
    BY <1>1, SubSeqFull
  <2> QED BY <1>5, <2>8, <2>9 DEF text
<1> QED BY <1>7, <1>8

-----------------------------------------------------------------------------

LEMMA ParseIs ==
    ASSUME NEW target, NEW query, query = After(target, FirstAt(target, Question))
    PROVE  parse_query(target) = QueryFields(Before(query, FirstAt(query, Hash)))
BY DEF parse_query, SelectInSeq, FirstAt

\* What follows a query: nothing, or a fragment.
IsTail(tail) == tail = << >> \/ \E b \in Seq(Bytes) : tail = <<Hash>> \o b

\* The query of a URL is parsed into the fields it was made of.
LEMMA ParseInverts ==
    ASSUME NEW fields \in Seq(Field), NEW base \in Seq(Bytes),
           \A i \in 1..Len(base) : base[i] # Question, NEW tail, IsTail(tail)
    PROVE  parse_query(WithQuery(base, fields) \o tail) = fields
<1> DEFINE query == form_encode(fields)
           rest == query \o tail
           target == WithQuery(base, fields) \o tail
<1>1. query \in Seq(QueryBytes) /\ query \in Seq(Bytes) /\ QueryBytes \subseteq Bytes
  <2>1. QueryBytes \subseteq Bytes
    BY SafeBytes DEF QueryBytes, Ampersand, Equals, Bytes
  <2> QED BY <2>1, FormEncoded
<1>2. QueryFields(query) = fields
  BY QueryInverts
<1>3. Hash \in Bytes /\ Question \in Bytes /\ Hash \notin QueryBytes
  BY SafeBytes DEF Hash, Question, QueryBytes, Ampersand, Equals, Bytes
<1>4. WithQuery(base, fields) = base \o <<Question>> \o query
  BY DEF WithQuery
<1> HIDE DEF query, target
<1>5. tail \in Seq(Bytes)
  <2>1. ASSUME NEW b \in Seq(Bytes), tail = <<Hash>> \o b PROVE tail \in Seq(Bytes)
    <3>1. <<Hash>> \in Seq(Bytes)
      BY <1>3
    <3> QED BY <2>1, <3>1, ConcatProperties
  <2>2. << >> \in Seq(Bytes)
    OBVIOUS
  <2> QED BY <2>1, <2>2, Zenon DEF IsTail
<1>6. rest \in Seq(Bytes)
  BY <1>1, <1>5, ConcatProperties
<1>7. target = (base \o <<Question>>) \o rest
  <2>1. <<Question>> \in Seq(Bytes)
    BY <1>3
  <2>2. base \o <<Question>> \in Seq(Bytes)
    BY <2>1, ConcatProperties
  <2> QED BY <1>1, <1>4, <1>5, <2>2, ConcatAssociative DEF target
<1> HIDE DEF rest
<1>8. PICK B \in Nat, Q \in Nat : B = Len(base) /\ Q = Len(query)
  BY <1>1
<1>9. /\ target \in Seq(Bytes) /\ Len(target) = B + 1 + Len(rest) /\ target[B + 1] = Question
      /\ \A i \in 1..B : target[i] = base[i]
      /\ SubSeq(target, B + 2, Len(target)) = rest
  BY <1>3, <1>6, <1>7, <1>8, Split
<1>10. FirstAt(target, Question) = B + 1
  <2>1. B + 1 \in 1..Len(target) /\ (B + 1) - 1 = B
    BY <1>6, <1>9
  <2>2. \A i \in 1..B : target[i] # Question
    BY <1>8, <1>9
  <2> QED BY <1>9, <2>1, <2>2, FirstAtIs
<1>11. After(target, B + 1) = rest
  <2>1. B + 1 # 0 /\ (B + 1) + 1 = B + 2
    OBVIOUS
  <2> QED BY <1>9, <2>1 DEF After
<1>12. \A i \in 1..Q : query[i] # Hash
  <2>1. \A i \in 1..Q : query[i] \in QueryBytes
    BY <1>1, <1>8
  <2> QED BY <1>3, <2>1
<1>13. Before(rest, FirstAt(rest, Hash)) = query
  <2>1. CASE tail = << >>
    <3>1. rest = query
      BY <1>1, <2>1, ConcatEmptySeq DEF rest
    <3>2. FirstAt(rest, Hash) = 0
      BY <1>8, <1>12, <3>1, FirstAtNone
    <3> QED BY <3>1, <3>2 DEF Before
  <2>2. ASSUME NEW b \in Seq(Bytes), tail = <<Hash>> \o b PROVE Before(rest, FirstAt(rest, Hash)) = query
    <3>1. rest = query \o <<Hash>> \o b
      <4>1. <<Hash>> \in Seq(Bytes)
        BY <1>3
      <4> QED BY <1>1, <2>2, <4>1, ConcatAssociative, SMTT(30) DEF rest
    <3>2. /\ Len(rest) = Q + 1 + Len(b) /\ rest[Q + 1] = Hash
          /\ \A i \in 1..Q : rest[i] = query[i]
          /\ SubSeq(rest, 1, Q) = query
      BY <1>1, <1>3, <1>8, <3>1, Split
    <3>3. FirstAt(rest, Hash) = Q + 1
      <4>1. Q + 1 \in 1..Len(rest) /\ (Q + 1) - 1 = Q
        <5>1. Len(b) \in Nat
          OBVIOUS
        <5> QED BY <3>2, <5>1
      <4>2. \A i \in 1..Q : rest[i] # Hash
        BY <1>12, <3>2
      <4> QED BY <1>6, <3>2, <4>1, <4>2, FirstAtIs
    <3>4. Q + 1 # 0 /\ (Q + 1) - 1 = Q
      OBVIOUS
    <3> QED BY <3>2, <3>3, <3>4 DEF Before
  <2> QED BY <2>1, <2>2 DEF IsTail
<1>14. parse_query(target) = QueryFields(Before(rest, FirstAt(rest, Hash)))
  BY <1>10, <1>11, ParseIs
<1> QED BY <1>2, <1>13, <1>14 DEF target

LEMMA QueryParsed ==
    ASSUME NEW fields \in Seq(Field), NEW base \in Seq(Bytes),
           \A i \in 1..Len(base) : base[i] # Question
    PROVE  parse_query(WithQuery(base, fields)) = fields
<1>1. parse_query(WithQuery(base, fields) \o << >>) = fields
  BY ParseInverts DEF IsTail
<1>2. form_encode(fields) \in Seq(Bytes)
  <2>1. QueryBytes \subseteq Bytes
    BY SafeBytes DEF QueryBytes, Ampersand, Equals, Bytes
  <2> QED BY <2>1, FormEncoded
<1>3. <<Question>> \in Seq(Bytes)
  BY DEF Question, Bytes
<1>4. base \o <<Question>> \in Seq(Bytes)
  BY <1>3, ConcatProperties
<1>5. WithQuery(base, fields) \in Seq(Bytes)
  BY <1>2, <1>4, ConcatProperties DEF WithQuery
<1>6. WithQuery(base, fields) \o << >> = WithQuery(base, fields)
  BY <1>5, ConcatEmptySeq
<1> QED BY <1>1, <1>6, Zenon

(***************************************************************************)
(* A form is made of bytes.                                                *)
(***************************************************************************)
FormInv == form \in Seq(Field)

LEMMA FormInvInductive == Spec => []FormInv
<1>1. Init => FormInv
  BY DEF Init, FormInv
<1>2. FormInv /\ [Next]_vars => FormInv'
  <2> SUFFICES ASSUME FormInv, [Next]_vars
               PROVE  FormInv'
    OBVIOUS
  <2>1. CASE AddField
    <3>1. PICK name \in Names : form' = Append(form, [name |-> name, value |-> << >>])
      BY <2>1 DEF AddField
    <3>2. [name |-> name, value |-> << >>] \in Field
      <4>1. name \in Seq(Bytes) /\ << >> \in Seq(Bytes)
        BY BytesAssumption DEF Bytes
      <4> QED BY <4>1 DEF Field
    <3> QED BY <3>1, <3>2 DEF FormInv
  <2>2. CASE AddToField
    <3>1. PICK byte \in FormBytes : form' = [form EXCEPT ![Len(form)].value = Append(@, byte)]
      BY <2>2 DEF AddToField
    <3>2. byte \in Bytes
      BY BytesAssumption DEF Bytes
    <3>3. PICK n \in Nat : n = Len(form) /\ n \in 1..Len(form)
      <4>1. form # << >>
        BY <2>2 DEF AddToField
      <4> QED BY <4>1, EmptySeq DEF FormInv
    <3>4. PICK g \in Field : g = [form[n] EXCEPT !.value = Append(@, byte)]
      <4>1. form[n] \in Field
        BY <3>3 DEF FormInv
      <4>2. PICK x : x = Append(form[n].value, byte)
        OBVIOUS
      <4>3. x \in Seq(Bytes)
        BY <3>2, <4>1, <4>2 DEF Field
      <4>4. \A r \in Field : [r EXCEPT !.value = x] \in Field
        BY <4>3 DEF Field
      <4>5. [form[n] EXCEPT !.value = Append(@, byte)] = [form[n] EXCEPT !.value = x]
        BY <4>2, Zenon
      <4> QED BY <4>1, <4>4, <4>5
    <3>5. form' = [form EXCEPT ![n] = g]
      BY <3>1, <3>3, <3>4
    <3> QED BY <3>3, <3>5 DEF FormInv
  <2>3. CASE AddByte \/ Grow \/ Store \/ Damage \/ UNCHANGED vars
    BY <2>3 DEF AddByte, Grow, Store, Damage, vars, FormInv
  <2> QED BY <2>1, <2>2, <2>3 DEF Next
<1> QED BY <1>1, <1>2, PTL DEF Spec

LEMMA TargetIs ==
    /\ Target = WithQuery(<<Slash>>, form)
    /\ <<Slash>> \in Seq(Bytes) /\ \A i \in 1..Len(<<Slash>>) : <<Slash>>[i] # Question
<1>1. <<Slash, Question>> = <<Slash>> \o <<Question>>
  OBVIOUS
<1> QED BY <1>1 DEF Target, WithQuery, Slash, Question, Bytes

(***************************************************************************)
(* parse_query undoes form_encode, whatever bytes a form is made of.       *)
(***************************************************************************)
THEOREM SpecRoundTrip == Spec => []RoundTrip
<1>1. FormInv => RoundTrip
  BY TargetIs, QueryParsed, Zenon DEF FormInv, RoundTrip
<1> QED BY <1>1, FormInvInductive, PTL

(***************************************************************************)
(* The members of a callback are the form's, with and without a fragment.  *)
(***************************************************************************)
THEOREM SpecCallbackFaithful == Spec => []CallbackFaithful
<1>1. FormInv => CallbackFaithful
  <2> SUFFICES ASSUME FormInv,
                      NEW tail \in {<< >>, <<Hash>> \o Code \o <<Equals, Hash>>}
               PROVE  callback_from_target(Target \o tail) =
                          [code |-> LastValue(form, Code), state |-> LastValue(form, State),
                           error |-> LastValue(form, Error)]
    BY DEF CallbackFaithful
  <2>1. IsTail(tail)
    <3>1. <<Hash>> \in Seq(Bytes) /\ Code \in Seq(Bytes) /\ <<Equals, Hash>> \in Seq(Bytes)
      BY DEF Hash, Code, Equals, Bytes
    <3>2. Code \o <<Equals, Hash>> \in Seq(Bytes)
      BY <3>1, ConcatProperties
    <3>3. <<Hash>> \o Code \o <<Equals, Hash>> = <<Hash>> \o (Code \o <<Equals, Hash>>)
      BY <3>1, ConcatAssociative
    <3> QED BY <3>2, <3>3 DEF IsTail
  <2>2. parse_query(Target \o tail) = form
    BY <2>1, TargetIs, ParseInverts DEF FormInv
  <2> QED BY <2>2, Zenon DEF callback_from_target
<1> QED BY <1>1, FormInvInductive, PTL

-----------------------------------------------------------------------------

JoinStep == [x \in Seq(Bytes) \X Seq(Bytes) |-> Joined(x[1], x[2])]

LEMMA JoinedType == \A a, b \in Seq(Bytes) : Joined(a, b) \in Seq(Bytes)
<1> SUFFICES ASSUME NEW a \in Seq(Bytes), NEW b \in Seq(Bytes) PROVE Joined(a, b) \in Seq(Bytes)
  OBVIOUS
<1>1. <<Space>> \in Seq(Bytes)
  BY DEF Space, Bytes
<1>2. a \o <<Space>> \in Seq(Bytes)
  BY <1>1, ConcatProperties
<1>3. a \o <<Space>> \o b \in Seq(Bytes)
  BY <1>2, ConcatProperties
<1> QED BY <1>3 DEF Joined

\* The scopes are joined one at a time.
LEMMA Join ==
    ASSUME NEW scopes \in Seq(Seq(Bytes))
    PROVE  \E g : Steps(g, Seq(Bytes), << >>, JoinStep, scopes) /\ join_scopes(scopes) = g[Len(scopes)]
<1> DEFINE Rec(iter) == iter = [s \in SUBSET DOMAIN scopes |-> IF s = {} THEN << >>
                                  ELSE LET x == Max(s) IN Joined(iter[s \ {x}], scopes[x])]
           fold == CHOOSE iter : Rec(iter)
<1>1. join_scopes(scopes) = fold[DOMAIN scopes]
  BY DEF join_scopes, FoldLeft, MapThenFoldSet
<1>2. JoinStep \in [Seq(Bytes) \X Seq(Bytes) -> Seq(Bytes)] /\ << >> \in Seq(Bytes)
  BY JoinedType DEF JoinStep
<1>3. PICK iter : IsFold(iter, Seq(Bytes), << >>, JoinStep, scopes)
  BY <1>2, FoldExists
<1>4. ASSUME NEW s \in SUBSET DOMAIN scopes, s # {}
      PROVE  Max(s) \in DOMAIN scopes /\ scopes[Max(s)] \in Seq(Bytes)
  <2>1. Len(scopes) \in Nat /\ s \in SUBSET (1..Len(scopes))
    OBVIOUS
  <2>2. Max(s) \in s
    BY <1>4, <2>1, GreatestElement
  <2> QED BY <2>2
<1>5. \A a, b \in Seq(Bytes) : JoinStep[<<a, b>>] = Joined(a, b)
  BY DEF JoinStep
<1>6. Rec(iter)
  <2>1. ASSUME NEW s \in SUBSET DOMAIN scopes, s # {}
        PROVE  JoinStep[<<iter[s \ {Max(s)}], scopes[Max(s)]>>] = Joined(iter[s \ {Max(s)}], scopes[Max(s)])
    <3>1. iter[s \ {Max(s)}] \in Seq(Bytes)
      BY <1>3 DEF IsFold
    <3> QED BY <1>4, <1>5, <2>1, <3>1
  <2> QED BY <1>3, <2>1 DEF IsFold
<1>7. Rec(fold)
  BY <1>6
<1> HIDE DEF fold
<1>8. FoldsBy(fold, Seq(Bytes), << >>, JoinStep, scopes)
  <2>1. fold[{}] = << >>
    BY <1>7
  <2>2. ASSUME NEW s \in SUBSET DOMAIN scopes, s # {}, fold[s \ {Max(s)}] \in Seq(Bytes)
        PROVE  fold[s] = JoinStep[<<fold[s \ {Max(s)}], scopes[Max(s)]>>]
    <3>1. fold[s] = Joined(fold[s \ {Max(s)}], scopes[Max(s)])
      BY <1>7, <2>2
    <3> QED BY <1>4, <1>5, <2>2, <3>1
  <2> QED BY <2>1, <2>2 DEF FoldsBy
<1>9. Folded(fold, Seq(Bytes), << >>, JoinStep, scopes)
  BY <1>2, <1>8, FoldSteps
<1> QED BY <1>1, <1>9, Zenon DEF Folded

-----------------------------------------------------------------------------

\* What has been read of a text: never empty, for its last word is being read.
Words == {w \in Seq(Seq(Bytes)) : w # << >>}
ReadStep == [x \in Words \X Bytes |-> Read(x[1], x[2])]

LEMMA ReadIs ==
    ASSUME NEW w \in Seq(Seq(Bytes)), NEW last \in Seq(Bytes), NEW byte \in Bytes
    PROVE  /\ Append(w, last) \in Words
           /\ ~ IsSpace(byte) => Read(Append(w, last), byte) = Append(w, Append(last, byte))
           /\ IsSpace(byte) /\ last = << >> => Read(Append(w, last), byte) = Append(w, last)
           /\ IsSpace(byte) /\ last # << >> =>
                Read(Append(w, last), byte) = Append(Append(w, last), << >>)
<1> DEFINE words == Append(w, last)
           next == Append(w, Append(last, byte))
<1>1. PICK n \in Nat : n = Len(w) /\ \A i \in 1..n : w[i] \in Seq(Bytes)
  OBVIOUS
<1>2. Append(last, byte) \in Seq(Bytes)
  BY AppendProperties
<1>3. /\ words \in Seq(Seq(Bytes)) /\ Len(words) = n + 1 /\ words[n + 1] = last
      /\ \A i \in 1..n : words[i] = w[i]
  BY <1>1, AppendProperties
<1>4. /\ next \in Seq(Seq(Bytes)) /\ Len(next) = n + 1 /\ next[n + 1] = Append(last, byte)
      /\ \A i \in 1..n : next[i] = w[i]
  BY <1>1, <1>2, AppendProperties
<1> HIDE DEF words, next
<1>5. words # << >>
  BY <1>3, EmptySeq
<1>6. [words EXCEPT ![n + 1] = Append(last, byte)] = next
  <2>1. PICK x : x = Append(last, byte)
    OBVIOUS
  <2>2. x \in Seq(Bytes) /\ n + 1 \in 1..Len(words)
    BY <1>2, <1>3, <2>1
  <2> DEFINE other == [words EXCEPT ![n + 1] = x]
  <2>3. other \in Seq(Seq(Bytes)) /\ Len(other) = n + 1
    BY <1>3, <2>2
  <2>4. \A i \in 1..(n + 1) : other[i] = IF i = n + 1 THEN x ELSE words[i]
    BY <1>3
  <2> HIDE DEF other
  <2>5. \A i \in 1..(n + 1) : i = n + 1 \/ i \in 1..n
    OBVIOUS
  <2>6. \A i \in 1..(n + 1) : other[i] = next[i]
    BY <1>3, <1>4, <2>1, <2>4, <2>5
  <2>7. other = next
    BY <1>4, <2>3, <2>6, SeqEqual
  <2> QED BY <2>1, <2>7 DEF other
<1>7. Read(words, byte) = IF ~ IsSpace(byte) THEN [words EXCEPT ![n + 1] = Append(last, byte)]
                          ELSE IF last = << >> THEN words ELSE Append(words, << >>)
  BY <1>3, Zenon DEF Read
<1>8. words \in Words
  BY <1>3, <1>5 DEF Words
<1> QED BY <1>6, <1>7, <1>8 DEF words, next

LEMMA WordsLast == \A w \in Words : \E v \in Seq(Seq(Bytes)), x \in Seq(Bytes) : w = Append(v, x)
<1> SUFFICES ASSUME NEW w \in Words
             PROVE  \E v \in Seq(Seq(Bytes)), x \in Seq(Bytes) : w = Append(v, x)
  OBVIOUS
<1>1. PICK n \in Nat : w \in Seq(Seq(Bytes)) /\ n = Len(w) /\ n # 0
  BY EmptySeq DEF Words
<1>2. w = SubSeq(w, 1, n)
  BY <1>1, SubSeqFull
<1>3. n \in 1..Len(w) /\ 1 \in 1..Len(w)
  BY <1>1
<1>4. SubSeq(w, 1, n) = SubSeq(w, 1, n - 1) \o <<w[n]>>
  BY <1>1, <1>3, SubSeqRecursiveSecond
<1>5. SubSeq(w, 1, n - 1) \in Seq(Seq(Bytes)) /\ w[n] \in Seq(Bytes)
  <2>1. \A i \in 1..(n - 1) : w[i] \in Seq(Bytes)
    BY <1>1
  <2> QED BY <1>1, <1>3, <2>1
<1>6. SubSeq(w, 1, n - 1) \o <<w[n]>> = Append(SubSeq(w, 1, n - 1), w[n])
  BY <1>5, AppendIsConcat
<1> QED BY <1>2, <1>4, <1>5, <1>6, Zenon

LEMMA ReadStepIs ==
    /\ ReadStep \in [Words \X Bytes -> Words]
    /\ \A w \in Words, byte \in Bytes : ReadStep[<<w, byte>>] = Read(w, byte)
<1>1. ASSUME NEW w \in Words, NEW byte \in Bytes PROVE Read(w, byte) \in Words
  <2>1. PICK v \in Seq(Seq(Bytes)), x \in Seq(Bytes) : w = Append(v, x)
    BY WordsLast
  <2>2. Append(x, byte) \in Seq(Bytes) /\ << >> \in Seq(Bytes) /\ w \in Seq(Seq(Bytes))
    BY AppendProperties DEF Words
  <2>3. Append(v, Append(x, byte)) \in Words /\ Append(v, x) \in Words /\ Append(w, << >>) \in Words
    BY <2>2, ReadIs
  <2> QED BY <2>1, <2>3, ReadIs
<1> QED BY <1>1 DEF ReadStep

\* A text is read one byte at a time.
LEMMA Reading ==
    ASSUME NEW text \in Seq(Bytes)
    PROVE  \E g : /\ Steps(g, Words, << << >> >>, ReadStep, text)
                  /\ split_scopes(text) =
                       LET words == g[Len(text)]
                       IN  IF words[Len(words)] = << >> THEN SubSeq(words, 1, Len(words) - 1) ELSE words
<1> DEFINE Rec(iter) == iter = [s \in SUBSET DOMAIN text |-> IF s = {} THEN << << >> >>
                                  ELSE LET x == Max(s) IN Read(iter[s \ {x}], text[x])]
           fold == CHOOSE iter : Rec(iter)
<1>1. FoldLeft(Read, << << >> >>, text) = fold[DOMAIN text]
  BY DEF FoldLeft, MapThenFoldSet
<1>2. ReadStep \in [Words \X Bytes -> Words] /\ << << >> >> \in Words
  <2>1. << << >> >> \in Seq(Seq(Bytes)) /\ << << >> >> # << >>
    OBVIOUS
  <2> QED BY <2>1, ReadStepIs DEF Words
<1>3. PICK iter : IsFold(iter, Words, << << >> >>, ReadStep, text)
  BY <1>2, FoldExists
<1>4. ASSUME NEW s \in SUBSET DOMAIN text, s # {}
      PROVE  Max(s) \in DOMAIN text /\ text[Max(s)] \in Bytes
  <2>1. Len(text) \in Nat /\ s \in SUBSET (1..Len(text))
    OBVIOUS
  <2>2. Max(s) \in s
    BY <1>4, <2>1, GreatestElement
  <2> QED BY <2>2
<1>5. \A w \in Words, byte \in Bytes : ReadStep[<<w, byte>>] = Read(w, byte)
  BY ReadStepIs
<1>6. Rec(iter)
  <2>1. ASSUME NEW s \in SUBSET DOMAIN text, s # {}
        PROVE  ReadStep[<<iter[s \ {Max(s)}], text[Max(s)]>>] = Read(iter[s \ {Max(s)}], text[Max(s)])
    <3>1. iter[s \ {Max(s)}] \in Words
      BY <1>3 DEF IsFold
    <3> QED BY <1>4, <1>5, <2>1, <3>1
  <2> QED BY <1>3, <2>1 DEF IsFold
<1>7. Rec(fold)
  BY <1>6
<1> HIDE DEF fold
<1>8. FoldsBy(fold, Words, << << >> >>, ReadStep, text)
  <2>1. fold[{}] = << << >> >>
    BY <1>7
  <2>2. ASSUME NEW s \in SUBSET DOMAIN text, s # {}, fold[s \ {Max(s)}] \in Words
        PROVE  fold[s] = ReadStep[<<fold[s \ {Max(s)}], text[Max(s)]>>]
    <3>1. fold[s] = Read(fold[s \ {Max(s)}], text[Max(s)])
      BY <1>7, <2>2
    <3> QED BY <1>4, <1>5, <2>2, <3>1
  <2> QED BY <2>1, <2>2 DEF FoldsBy
<1>9. Folded(fold, Words, << << >> >>, ReadStep, text)
  BY <1>2, <1>8, FoldSteps
<1> QED BY <1>1, <1>9, Zenon DEF Folded, split_scopes

-----------------------------------------------------------------------------

Letters == {b \in Bytes : ~ IsSpace(b)}

\* What has been read after q letters are read one by one.
HasRead(g, q, words) == g[q] = words

\* A word is read from where it stands.
LEMMA ReadWord ==
    ASSUME NEW text \in Seq(Bytes), NEW g, Steps(g, Words, << << >> >>, ReadStep, text),
           NEW w \in Seq(Seq(Bytes)), NEW s \in Seq(Letters), NEW q \in Nat, NEW e \in Nat,
           e = q + Len(s), e <= Len(text), Stands(s, text, q),
           HasRead(g, q, Append(w, << >>))
    PROVE  HasRead(g, e, Append(w, s))
<1>1. PICK n \in Nat, L \in Nat : n = Len(s) /\ L = Len(text)
  OBVIOUS
<1>2. /\ \A k \in 1..n : s[k] \in Bytes /\ ~ IsSpace(s[k])
      /\ s \in Seq(Bytes)
  <2>1. \A k \in 1..n : s[k] \in Letters
    BY <1>1
  <2>2. Letters \subseteq Bytes /\ \A b \in Letters : ~ IsSpace(b)
    BY DEF Letters
  <2> QED BY <2>1, <2>2
<1> DEFINE At(k) == g[q + k] = Append(w, SubSeq(s, 1, k))
           T == {k \in 0..n : At(k)}
<1>3. At(0)
  <2>1. q + 0 = q /\ SubSeq(s, 1, 0) = << >>
    BY <1>2
  <2> QED BY <2>1 DEF HasRead
<1>4. ASSUME NEW k \in 1..n, At(k - 1)
      PROVE  At(k)
  <2>1. PICK x \in Nat : x = q + k /\ x \in 1..L /\ x - 1 = q + (k - 1)
    BY <1>1
  <2>2. text[x] = s[k] /\ s[k] \in Bytes /\ ~ IsSpace(s[k])
    BY <1>1, <1>2, <2>1 DEF Stands
  <2>3. SubSeq(s, 1, k - 1) \in Seq(Bytes)
    <3>1. \A i \in 1..(k - 1) : s[i] \in Bytes
      BY <1>2
    <3> QED BY <3>1
  <2>4. g[x] = ReadStep[<<g[x - 1], text[x]>>]
    BY <1>1, <2>1 DEF Steps
  <2>5. Append(w, SubSeq(s, 1, k - 1)) \in Words
    BY <2>2, <2>3, ReadIs
  <2>6. g[x] = Read(Append(w, SubSeq(s, 1, k - 1)), s[k])
    BY <1>4, <2>1, <2>2, <2>4, <2>5, ReadStepIs
  <2>7. g[x] = Append(w, Append(SubSeq(s, 1, k - 1), s[k]))
    BY <2>2, <2>3, <2>6, ReadIs
  <2>8. SubSeq(s, 1, k) = SubSeq(s, 1, k - 1) \o <<s[k]>>
    <3>1. 1 \in 1..Len(s) /\ k \in 1..Len(s)
      BY <1>1
    <3> QED BY <1>2, <3>1, SubSeqRecursiveSecond
  <2>9. SubSeq(s, 1, k - 1) \o <<s[k]>> = Append(SubSeq(s, 1, k - 1), s[k])
    BY <2>2, <2>3, AppendIsConcat
  <2> QED BY <2>1, <2>7, <2>8, <2>9
<1> HIDE DEF At
<1>5. At(n)
  <2>1. 0 \in T
    BY <1>3
  <2>2. \A k \in 1..n : k - 1 \in T => k \in T
    BY <1>4
  <2>3. n \in 0..n
    OBVIOUS
  <2>4. 0..n \subseteq T
    <3> HIDE DEF T
    <3> QED BY <2>1, <2>2, UpTo
  <2> QED BY <2>3, <2>4
<1>6. SubSeq(s, 1, n) = s
  BY <1>1, <1>2, SubSeqFull
<1> QED BY <1>1, <1>5, <1>6 DEF HasRead, At

\* A space ends a word that has been read.
LEMMA ReadSpace ==
    ASSUME NEW text \in Seq(Bytes), NEW g, Steps(g, Words, << << >> >>, ReadStep, text),
           NEW w \in Seq(Seq(Bytes)), NEW s \in Seq(Bytes), s # << >>, NEW q \in Nat,
           NEW e \in 1..Len(text), e = q + 1, text[e] = Space, HasRead(g, q, Append(w, s))
    PROVE  HasRead(g, e, Append(Append(w, s), << >>))
<1>1. e - 1 = q
  OBVIOUS
<1>2. g[e] = ReadStep[<<g[q], Space>>]
  BY <1>1 DEF Steps
<1>3. Space \in Bytes /\ IsSpace(Space)
  BY DEF Space, Bytes, IsSpace
<1>4. Append(w, s) \in Words
  BY <1>3, ReadIs
<1>5. g[e] = Read(Append(w, s), Space)
  BY <1>2, <1>3, <1>4, ReadStepIs DEF HasRead
<1>6. g[e] = Append(Append(w, s), << >>)
  BY <1>3, <1>5, ReadIs
<1> QED BY <1>6 DEF HasRead

-----------------------------------------------------------------------------

Prefix(a, b) == Len(a) <= Len(b) /\ \A k \in 1..Len(a) : b[k] = a[k]

\* Where a scope stands among those it is joined with.
JoinedAt(a, b, text, q) ==
    /\ Len(text) = q + Len(b) /\ Stands(b, text, q) /\ Prefix(a, text)
    /\ a # << >> => text[q] = Space

LEMMA JoinedIs ==
    ASSUME NEW a \in Seq(Bytes), NEW b \in Seq(Bytes), NEW q \in Nat,
           q = IF a = << >> THEN 0 ELSE Len(a) + 1
    PROVE  JoinedAt(a, b, Joined(a, b), q)
<1>1. PICK A \in Nat, B \in Nat : A = Len(a) /\ B = Len(b)
  OBVIOUS
<1>2. CASE a = << >>
  <2>1. A = 0 /\ q = 0 /\ Joined(a, b) = b
    BY <1>1, <1>2 DEF Joined
  <2>2. \A k \in 1..B : 0 + k = k
    OBVIOUS
  <2> QED BY <1>1, <1>2, <2>1, <2>2 DEF JoinedAt, Stands, Prefix
<1>3. CASE a # << >>
  <2>1. q = A + 1
    BY <1>1, <1>3
  <2>2. /\ Len(Joined(a, b)) = A + 1 + B /\ Joined(a, b)[A + 1] = Space
        /\ \A k \in 1..A : Joined(a, b)[k] = a[k]
        /\ SubSeq(Joined(a, b), A + 2, Len(Joined(a, b))) = b
    <3>1. PICK text, c : text = Joined(a, b) /\ c = Space /\ text = a \o <<c>> \o b
      BY <1>3, Zenon DEF Joined
    <3>2. c \in Bytes
      BY <3>1 DEF Space, Bytes
    <3>3. /\ Len(text) = Len(a) + 1 + Len(b) /\ text[Len(a) + 1] = c
          /\ \A k \in 1..Len(a) : text[k] = a[k]
          /\ SubSeq(text, Len(a) + 2, Len(text)) = b
      BY <3>1, <3>2, Split
    <3> QED BY <1>1, <3>1, <3>3, Zenon
  <2>3. \A k \in 1..B : Joined(a, b)[q + k] = b[k]
    <3> SUFFICES ASSUME NEW k \in 1..B PROVE Joined(a, b)[q + k] = b[k]
      OBVIOUS
    <3>1. PICK x \in Int, y \in Int : x = A + 2 /\ y = A + 1 + B /\ y - x + 1 = B /\ x + k - 1 = q + k
      BY <2>1
    <3>2. SubSeq(Joined(a, b), x, y) = [i \in 1..(y - x + 1) |-> Joined(a, b)[x + i - 1]]
      OBVIOUS
    <3>3. b = SubSeq(Joined(a, b), x, y)
      BY <2>2, <3>1
    <3>4. b = [i \in 1..B |-> Joined(a, b)[x + i - 1]]
      BY <3>1, <3>2, <3>3, Zenon
    <3>5. b[k] = Joined(a, b)[x + k - 1]
      BY <3>4, Zenon
    <3> QED BY <3>1, <3>5
  <2>4. Len(Joined(a, b)) = q + B /\ A <= Len(Joined(a, b))
    <3>1. PICK n : n = Len(Joined(a, b)) /\ n = A + 1 + B
      BY <2>2
    <3>2. n = q + B /\ A <= n
      BY <2>1, <3>1
    <3> QED BY <3>1, <3>2
  <2> QED BY <1>1, <2>1, <2>2, <2>3, <2>4 DEF JoinedAt, Stands, Prefix
<1> QED BY <1>2, <1>3

\* Scopes that are words are the words of what they are joined to.
LEMMA SplitInverts ==
    ASSUME NEW scopes \in Seq(Seq(Bytes)),
           \A i \in 1..Len(scopes) : scopes[i] \in Seq(Letters) /\ scopes[i] # << >>
    PROVE  split_scopes(join_scopes(scopes)) = scopes
<1>1. PICK m \in Nat : m = Len(scopes)
  OBVIOUS
<1>2. PICK J : Steps(J, Seq(Bytes), << >>, JoinStep, scopes) /\ join_scopes(scopes) = J[m]
  BY <1>1, Join
<1>3. J \in [0..m -> Seq(Bytes)] /\ J[0] = << >>
  BY <1>1, <1>2 DEF Steps
<1>4. PICK text \in Seq(Bytes) : text = J[m] /\ text = join_scopes(scopes)
  BY <1>2, <1>3
<1>5. PICK g : /\ Steps(g, Words, << << >> >>, ReadStep, text)
               /\ split_scopes(text) =
                    LET words == g[Len(text)]
                    IN  IF words[Len(words)] = << >> THEN SubSeq(words, 1, Len(words) - 1) ELSE words
  BY Reading
<1>6. CASE m = 0
  <2>1. text = << >> /\ Len(text) = 0
    <3>1. text = << >>
      BY <1>3, <1>4, <1>6, Zenon
    <3> QED BY <3>1
  <2>2. g[Len(text)] = << << >> >>
    BY <1>5, <2>1 DEF Steps
  <2>3. << << >> >>[Len(<< << >> >>)] = << >> /\ SubSeq(<< << >> >>, 1, Len(<< << >> >>) - 1) = << >>
    <3>1. Len(<< << >> >>) = 1 /\ 1 - 1 = 0 /\ 0 < 1 /\ 0 \in Int /\ 1 \in Int
      OBVIOUS
    <3>2. << << >> >> \in Seq(Seq(Bytes)) /\ << << >> >>[1] = << >>
      OBVIOUS
    <3>3. SubSeq(<< << >> >>, 1, 0) = << >>
      BY <3>1, <3>2, SubSeqEmpty
    <3> QED BY <3>1, <3>2, <3>3
  <2>4. scopes = << >>
    BY <1>1, <1>6, EmptySeq
  <2> QED BY <1>4, <1>5, <2>2, <2>3, <2>4
<1>7. CASE m # 0
  <2> DEFINE q == [n \in 1..m |-> IF n = 1 THEN 0 ELSE Len(J[n - 1]) + 1]
  <2>1. ASSUME NEW n \in 1..m
        PROVE  /\ J[n] \in Seq(Bytes) /\ J[n - 1] \in Seq(Bytes) /\ scopes[n] \in Seq(Bytes)
               /\ Len(J[n]) \in Nat /\ Len(J[n - 1]) \in Nat /\ Len(scopes[n]) \in Nat /\ Len(scopes[n]) # 0
               /\ J[n] = Joined(J[n - 1], scopes[n])
    <3>1. n \in 0..m /\ n - 1 \in 0..m
      OBVIOUS
    <3>2. J[n] \in Seq(Bytes) /\ J[n - 1] \in Seq(Bytes) /\ scopes[n] \in Seq(Bytes)
      <4>1. J[n] \in Seq(Bytes) /\ J[n - 1] \in Seq(Bytes)
        BY <1>3, <3>1
      <4>2. scopes[n] \in Seq(Bytes)
        BY <1>1
      <4> QED BY <4>1, <4>2
    <3>3. J[n] = JoinStep[<<J[n - 1], scopes[n]>>]
      BY <1>1, <1>2 DEF Steps
    <3>4. J[n] = Joined(J[n - 1], scopes[n])
      BY <3>2, <3>3 DEF JoinStep
    <3>5. Len(scopes[n]) # 0
      BY <1>1, <3>2, EmptySeq
    <3> QED BY <3>2, <3>4, <3>5
  <2>2. ASSUME NEW n \in 1..m PROVE Len(J[n]) > 0 /\ J[n] # << >>
    <3>1. PICK x \in Nat : x = IF J[n - 1] = << >> THEN 0 ELSE Len(J[n - 1]) + 1
      BY <2>1
    <3>2. JoinedAt(J[n - 1], scopes[n], J[n], x)
      BY <2>1, <3>1, JoinedIs
    <3>3. Len(J[n]) = x + Len(scopes[n])
      BY <3>2, Zenon DEF JoinedAt
    <3>4. Len(J[n]) > 0
      BY <2>1, <3>3
    <3> QED BY <3>4
  <2>3. ASSUME NEW n \in 1..m
        PROVE  q[n] \in Nat /\ JoinedAt(J[n - 1], scopes[n], J[n], q[n]) /\ (n # 1 => J[n - 1] # << >>)
    <3>1. n # 1 => n - 1 \in 1..m
      OBVIOUS
    <3>2. n = 1 => n - 1 = 0
      OBVIOUS
    <3>3. q[n] = (IF J[n - 1] = << >> THEN 0 ELSE Len(J[n - 1]) + 1) /\ (n # 1 => J[n - 1] # << >>)
      BY <1>3, <2>2, <3>1, <3>2
    <3>4. q[n] \in Nat
      BY <2>1, <3>3
    <3> HIDE DEF q
    <3> QED BY <2>1, <3>3, <3>4, JoinedIs
  <2>4. \A n \in 2..m : q[n] = Len(J[n - 1]) + 1
    OBVIOUS
  <2>5. q[1] = 0
    BY <1>7
  <2> HIDE DEF q
  <2> DEFINE Past(d) == Prefix(J[m - d], text)
             U == {d \in 0..m : Past(d)}
  <2>6. \A n \in 1..m : Prefix(J[n], text)
    <3>1. Past(0)
      <4>1. m - 0 = m
        OBVIOUS
      <4>2. Prefix(text, text)
        <5>1. Len(text) \in Nat
          OBVIOUS
        <5> QED BY <5>1 DEF Prefix
      <4> QED BY <1>4, <4>1, <4>2
    <3>2. ASSUME NEW d \in 1..m, Past(d - 1) PROVE Past(d)
      <4>1. PICK n \in 1..m : n = m - (d - 1) /\ n - 1 = m - d
        OBVIOUS
      <4>2. Prefix(J[n], text) /\ Prefix(J[n - 1], J[n])
        BY <2>3, <3>2, <4>1 DEF JoinedAt
      <4>3. Prefix(J[n - 1], text)
        <5>1. PICK x \in Nat, y \in Nat, z \in Nat : x = Len(J[n - 1]) /\ y = Len(J[n]) /\ z = Len(text)
          BY <2>1
        <5>2. x <= y /\ y <= z /\ \A k \in 1..x : k \in 1..y
          BY <4>2, <5>1 DEF Prefix
        <5>3. x <= z
          BY <5>2
        <5> QED BY <4>2, <5>1, <5>2, <5>3, Zenon DEF Prefix
      <4> QED BY <4>1, <4>3
    <3> HIDE DEF Past
    <3>3. 0 \in U
      BY <3>1
    <3>4. \A d \in 1..m : d - 1 \in U => d \in U
      BY <3>2
    <3>5. 0..m \subseteq U
      <4> HIDE DEF U
      <4> QED BY <3>3, <3>4, UpTo
    <3>6. ASSUME NEW n \in 1..m PROVE Prefix(J[n], text)
      <4>1. m - n \in 0..m /\ m - (m - n) = n
        OBVIOUS
      <4>2. Past(m - n)
        BY <3>5, <4>1
      <4> QED BY <4>1, <4>2 DEF Past
    <3> QED BY <3>6
  <2> HIDE DEF Past
  <2>7. ASSUME NEW n \in 1..m
        PROVE  Len(J[n]) = q[n] + Len(scopes[n]) /\ Len(J[n]) <= Len(text) /\ Stands(scopes[n], text, q[n])
    <3>1. PICK x \in Nat, b \in Nat, L \in Nat : x = q[n] /\ b = Len(scopes[n]) /\ L = Len(J[n])
      BY <2>1, <2>3
    <3>2. L = x + b /\ Stands(scopes[n], J[n], x) /\ Prefix(J[n], text)
      BY <2>3, <2>6, <3>1, Zenon DEF JoinedAt
    <3>3. \A k \in 1..b : x + k \in 1..L
      BY <3>2
    <3>4. \A k \in 1..b : text[x + k] = scopes[n][k]
      BY <3>1, <3>2, <3>3 DEF Stands, Prefix
    <3>5. Len(J[n]) <= Len(text)
      BY <3>2 DEF Prefix
    <3> QED BY <3>1, <3>2, <3>4, <3>5, Zenon DEF Stands
  <2>8. ASSUME NEW n \in 2..m PROVE q[n] \in 1..Len(text) /\ q[n] = Len(J[n - 1]) + 1 /\ text[q[n]] = Space
    <3>1. n \in 1..m /\ n # 1 /\ n - 1 \in 1..m
      OBVIOUS
    <3>2. PICK x \in Nat, b \in Nat, L \in Nat, z \in Nat :
             x = q[n] /\ b = Len(scopes[n]) /\ L = Len(J[n]) /\ z = Len(text)
      <4>1. q[n] \in Nat /\ Len(scopes[n]) \in Nat /\ Len(J[n]) \in Nat
        BY <2>1, <2>3, <3>1
      <4>2. Len(text) \in Nat
        OBVIOUS
      <4> QED BY <4>1, <4>2
    <3>3. L = x + b /\ L <= z /\ Prefix(J[n], text)
      BY <2>6, <2>7, <3>1, <3>2
    <3>4. Len(J[n - 1]) \in Nat
      BY <2>1, <3>1
    <3>5. x = Len(J[n - 1]) + 1
      BY <2>4, <3>2
    <3>6. x \in 1..L /\ x \in 1..z
      BY <3>3, <3>4, <3>5
    <3>7. J[n][x] = Space
      BY <2>3, <3>1, <3>2 DEF JoinedAt
    <3>8. text[x] = J[n][x]
      BY <3>2, <3>3, <3>6 DEF Prefix
    <3> QED BY <3>2, <3>5, <3>6, <3>7, <3>8
  <2> DEFINE read(n) == SubSeq(scopes, 1, n)
             At(n) == HasRead(g, Len(J[n]), read(n))
             T == {d \in 0..(m - 1) : At(d + 1)}
  <2>9. ASSUME NEW n \in 1..m PROVE read(n) = Append(read(n - 1), scopes[n]) /\ read(n - 1) \in Seq(Seq(Bytes))
    <3>1. n \in 1..Len(scopes) /\ 1 \in 1..Len(scopes)
      BY <1>1
    <3>2. read(n) = read(n - 1) \o <<scopes[n]>>
      BY <3>1, SubSeqRecursiveSecond
    <3>3. read(n - 1) \in Seq(Seq(Bytes))
      <4>1. \A i \in 1..(n - 1) : scopes[i] \in Seq(Bytes)
        BY <1>1
      <4> QED BY <1>1, <4>1
    <3>4. read(n - 1) \o <<scopes[n]>> = Append(read(n - 1), scopes[n])
      BY <2>1, <3>3, AppendIsConcat
    <3> QED BY <3>2, <3>3, <3>4, Zenon
  <2>10. ASSUME NEW n \in 1..m, HasRead(g, q[n], Append(read(n - 1), << >>))
         PROVE  At(n)
    <3>1. scopes[n] \in Seq(Letters)
      BY <1>1
    <3>2. HasRead(g, Len(J[n]), Append(read(n - 1), scopes[n]))
      <4> HIDE DEF read
      <4> QED BY <1>5, <2>1, <2>3, <2>7, <2>9, <2>10, <3>1, ReadWord
    <3> QED BY <2>9, <3>2
  <2>11. At(1)
    <3>1. 1 \in 1..m /\ 1 - 1 = 0
      BY <1>7
    <3>2. read(0) = << >>
      <4>1. 0 < 1 /\ 0 \in Int /\ 1 \in Int
        OBVIOUS
      <4> QED BY <4>1, SubSeqEmpty
    <3>3. g[0] = << << >> >> /\ Append(<< >>, << >>) = << << >> >>
      BY <1>5 DEF Steps
    <3>4. HasRead(g, q[1], Append(read(1 - 1), << >>))
      <4> HIDE DEF read
      <4> QED BY <2>5, <3>1, <3>2, <3>3 DEF HasRead
    <3> HIDE DEF read
    <3> QED BY <2>10, <3>1, <3>4
  <2>12. ASSUME NEW n \in 2..m, At(n - 1) PROVE At(n)
    <3>1. n \in 1..m /\ n - 1 \in 1..m
      OBVIOUS
    <3>2. read(n - 1) = Append(read((n - 1) - 1), scopes[n - 1]) /\ read((n - 1) - 1) \in Seq(Seq(Bytes))
      BY <2>9, <3>1
    <3>3. PICK w : w = read((n - 1) - 1)
      OBVIOUS
    <3> HIDE DEF read
    <3>4. scopes[n - 1] \in Seq(Bytes) /\ scopes[n - 1] # << >>
      BY <1>1, <2>1, <3>1
    <3>5. PICK x \in Nat : x = Len(J[n - 1])
      BY <2>1, <3>1
    <3>6. q[n] \in 1..Len(text) /\ q[n] = x + 1 /\ text[q[n]] = Space
      BY <2>8, <3>5
    <3>7. HasRead(g, x, Append(w, scopes[n - 1])) /\ w \in Seq(Seq(Bytes))
      BY <2>12, <3>2, <3>3, <3>5
    <3>8. HasRead(g, q[n], Append(Append(w, scopes[n - 1]), << >>))
      BY <1>5, <3>4, <3>6, <3>7, ReadSpace
    <3>9. HasRead(g, q[n], Append(read(n - 1), << >>))
      BY <3>2, <3>3, <3>8
    <3> HIDE DEF At
    <3> QED BY <2>10, <3>1, <3>9
  <2>13. At(m)
    <3> HIDE DEF At, read
    <3>1. 0 \in T
      <4>1. 0 + 1 = 1 /\ 0 \in 0..(m - 1)
        BY <1>7
      <4> QED BY <2>11, <4>1
    <3>2. \A d \in 1..(m - 1) : d - 1 \in T => d \in T
      <4> SUFFICES ASSUME NEW d \in 1..(m - 1), At((d - 1) + 1)
                   PROVE  At(d + 1)
        OBVIOUS
      <4>1. PICK n \in 2..m : n = d + 1 /\ n - 1 = (d - 1) + 1
        OBVIOUS
      <4> QED BY <2>12, <4>1
    <3>3. m - 1 \in Nat /\ m - 1 \in 0..(m - 1) /\ (m - 1) + 1 = m
      BY <1>7
    <3>4. 0..(m - 1) \subseteq T
      <4> HIDE DEF T
      <4> QED BY <3>1, <3>2, <3>3, UpTo
    <3> QED BY <3>3, <3>4
  <2>14. g[Len(text)] = scopes
    <3>1. read(m) = scopes
      BY <1>1, SubSeqFull
    <3> QED BY <1>4, <2>13, <3>1 DEF HasRead
  <2>15. scopes[Len(scopes)] # << >>
    <3>1. m \in 1..m
      BY <1>7
    <3> QED BY <1>1, <3>1
  <2> QED BY <1>4, <1>5, <2>14, <2>15, Zenon
<1> QED BY <1>6, <1>7

-----------------------------------------------------------------------------

LEMMA FieldType ==
    \A n \in 1..9, v \in Seq(Bytes) : Letter(n) \in Seq(Bytes) /\ [name |-> Letter(n), value |-> v] \in Field
<1> SUFFICES ASSUME NEW n \in 1..9, NEW v \in Seq(Bytes)
             PROVE  Letter(n) \in Seq(Bytes) /\ [name |-> Letter(n), value |-> v] \in Field
  OBVIOUS
<1>1. Letter(n) \in Seq(Bytes)
  <2>1. 96 + n \in Bytes
    BY DEF Bytes
  <2> QED BY <2>1 DEF Letter
<1> QED BY <1>1 DEF Field

\* What an authorization is requested with.
LEMMA AuthorizationFieldsType ==
    ASSUME NEW request,
           /\ request.client_id \in Seq(Bytes) /\ request.redirect_uri \in Seq(Bytes)
           /\ request.state \in Seq(Bytes) /\ request.code_challenge \in Seq(Bytes)
           /\ request.code_challenge_method \in Seq(Bytes) /\ request.scopes \in Seq(Seq(Bytes))
    PROVE  AuthorizationFields(request) \in Seq(Field)
<1>1. join_scopes(request.scopes) \in Seq(Bytes)
  <2>1. PICK scopes \in Seq(Seq(Bytes)) : scopes = request.scopes
    OBVIOUS
  <2>2. PICK g : Steps(g, Seq(Bytes), << >>, JoinStep, scopes) /\ join_scopes(scopes) = g[Len(scopes)]
    BY Join
  <2>3. g \in [0..Len(scopes) -> Seq(Bytes)]
    BY <2>2 DEF Steps
  <2>4. Len(scopes) \in 0..Len(scopes)
    OBVIOUS
  <2>5. g[Len(scopes)] \in Seq(Bytes)
    BY <2>3, <2>4
  <2> QED BY <2>1, <2>2, <2>5
<1> DEFINE f(n, v) == [name |-> Letter(n), value |-> v]
<1>2. /\ 1 \in 1..9 /\ 2 \in 1..9 /\ 3 \in 1..9 /\ 4 \in 1..9 /\ 5 \in 1..9
      /\ 6 \in 1..9 /\ 7 \in 1..9 /\ 8 \in 1..9 /\ 9 \in 1..9
  OBVIOUS
<1>3. /\ f(1, request.client_id) \in Field /\ f(2, request.redirect_uri) \in Field
      /\ f(3, Letter(3)) \in Field /\ f(4, join_scopes(request.scopes)) \in Field
      /\ f(5, request.state) \in Field /\ f(6, request.code_challenge) \in Field
      /\ f(7, request.code_challenge_method) \in Field /\ f(8, Letter(8)) \in Field
      /\ f(9, Letter(9)) \in Field
  BY <1>1, <1>2, FieldType
<1>4. AuthorizationFields(request) =
        << f(1, request.client_id), f(2, request.redirect_uri), f(3, Letter(3)),
           f(4, join_scopes(request.scopes)), f(5, request.state), f(6, request.code_challenge),
           f(7, request.code_challenge_method), f(8, Letter(8)), f(9, Letter(9)) >>
  BY DEF AuthorizationFields
<1> HIDE DEF f
<1> QED BY <1>3, <1>4

LEMMA SetToSeqType ==
    ASSUME NEW X, NEW S \in SUBSET X, IsFiniteSet(S)
    PROVE  SetToSeq(S) \in Seq(X)
<1>1. PICK n \in Nat : ExistsBijection(1..n, S)
  BY FS_NatBijection
<1>2. Cardinality(S) = n
  BY <1>1, FS_CountingElements
<1>3. PICK f \in Bijection(1..n, S) : TRUE
  BY <1>1 DEF ExistsBijection
<1>4. f \in [1..n -> S] /\ IsInjective(f)
  BY <1>3, Fun_BijectionProperties DEF IsInjective
<1>5. SetToSeq(S) \in [1..n -> S]
  BY <1>2, <1>4 DEF SetToSeq
<1>6. SetToSeq(S) \in [1..n -> X]
  BY <1>5
<1> QED BY <1>6

\* What events are requested with.
LEMMA EventsFieldsType ==
    ASSUME NEW request, request.time_min \in Seq(Bytes), request.time_max \in Seq(Bytes),
           request.page_token \in SUBSET Seq(Bytes), IsFiniteSet(request.page_token)
    PROVE  EventsFields(request) \in Seq(Field)
<1> DEFINE f(n, v) == [name |-> Letter(n), value |-> v]
           fixed == << f(1, Letter(1)), f(2, Letter(2)), f(3, Letter(3)) >>
           min == IF request.time_min = << >> THEN << >> ELSE << f(4, request.time_min) >>
           max == IF request.time_max = << >> THEN << >> ELSE << f(5, request.time_max) >>
           pages == {<< f(6, token) >> : token \in request.page_token}
<1>1. EventsFields(request) = fixed \o min \o max \o FlattenSeq(SetToSeq(pages))
  BY DEF EventsFields
<1>2. /\ 1 \in 1..9 /\ 2 \in 1..9 /\ 3 \in 1..9 /\ 4 \in 1..9 /\ 5 \in 1..9 /\ 6 \in 1..9
  OBVIOUS
<1>3. /\ f(1, Letter(1)) \in Field /\ f(2, Letter(2)) \in Field /\ f(3, Letter(3)) \in Field
      /\ f(4, request.time_min) \in Field /\ f(5, request.time_max) \in Field
      /\ \A token \in request.page_token : f(6, token) \in Field
  BY <1>2, FieldType
<1> HIDE DEF f
<1>4. fixed \in Seq(Field) /\ min \in Seq(Field) /\ max \in Seq(Field)
  BY <1>3
<1>5. pages \in SUBSET Seq(Field)
  <2>1. \A x \in Field : << x >> \in Seq(Field)
    OBVIOUS
  <2> QED BY <1>3, <2>1
<1>6. IsFiniteSet(pages)
  <2> DEFINE g == [token \in request.page_token |-> << f(6, token) >>]
  <2>1. g \in [request.page_token -> pages] /\ \A p \in pages : \E token \in request.page_token : g[token] = p
    OBVIOUS
  <2>2. g \in Surjection(request.page_token, pages)
    <3> HIDE DEF g, pages
    <3> QED BY <2>1 DEF Surjection
  <2> HIDE DEF g, pages
  <2> QED BY <2>2, FS_Surjection
<1> HIDE DEF fixed, min, max, pages
<1>7. FlattenSeq(SetToSeq(pages)) \in Seq(Field)
  <2>1. SetToSeq(pages) \in Seq(Seq(Field))
    BY <1>5, <1>6, SetToSeqType
  <2> QED BY <2>1, Flatten
<1>8. fixed \o min \in Seq(Field)
  BY <1>4, ConcatProperties
<1>9. fixed \o min \o max \in Seq(Field)
  BY <1>4, <1>8, ConcatProperties
<1>10. fixed \o min \o max \o FlattenSeq(SetToSeq(pages)) \in Seq(Field)
  BY <1>7, <1>9, ConcatProperties
<1> QED BY <1>1, <1>10

(***************************************************************************)
(* The URLs of the OAuth and Calendar clients are parsed into the request  *)
(* they were made of, and the scopes of a request are split as they were   *)
(* joined, whatever bytes the values of a request are made of.             *)
(***************************************************************************)
THEOREM SpecUrlsSayTheRequest == Spec => []UrlsSayTheRequest
<1>1. FormInv => UrlsSayTheRequest
  <2> SUFFICES ASSUME FormInv PROVE UrlsSayTheRequest
    OBVIOUS
  <2>1. PICK m \in Nat : /\ m = Len(form) /\ DOMAIN form = 1..m
                         /\ \A i \in 1..m : form[i] \in Field /\ form[i].value \in Seq(Bytes)
    <3>1. PICK m \in Nat : m = Len(form) /\ DOMAIN form = 1..m /\ \A i \in 1..m : form[i] \in Field
      BY DEF FormInv
    <3>2. \A f \in Field : f.value \in Seq(Bytes)
      BY DEF Field
    <3> QED BY <3>1, <3>2
  <2>2. \A n \in Nat : Value(n) \in Seq(Bytes)
    <3>1. << >> \in Seq(Bytes)
      OBVIOUS
    <3> QED BY <2>1, <3>1 DEF Value
  <2>3. parse_query(authorization_url(AuthorizationRequest)) = AuthorizationFields(AuthorizationRequest)
    <3>1. AuthorizationFields(AuthorizationRequest) \in Seq(Field)
      <4>1. PICK a \in Seq(Bytes), b \in Seq(Bytes) : a = Value(1) /\ b = Value(2)
        BY <2>2
      <4>2. PICK s \in Seq(Seq(Bytes)) : s = [i \in DOMAIN form |-> form[i].value]
        <5>1. [i \in DOMAIN form |-> form[i].value] = [i \in 1..m |-> form[i].value]
          BY <2>1, Zenon
        <5>2. [i \in 1..m |-> form[i].value] \in Seq(Seq(Bytes))
          BY <2>1
        <5> QED BY <5>1, <5>2
      <4>3. AuthorizationRequest = [client_id |-> a, redirect_uri |-> b, state |-> a, code_challenge |-> b,
                                    code_challenge_method |-> a, scopes |-> s]
        BY <4>1, <4>2, Zenon DEF AuthorizationRequest
      <4>4. PICK request : request = AuthorizationRequest
        OBVIOUS
      <4>5. /\ request.client_id \in Seq(Bytes) /\ request.redirect_uri \in Seq(Bytes)
            /\ request.state \in Seq(Bytes) /\ request.code_challenge \in Seq(Bytes)
            /\ request.code_challenge_method \in Seq(Bytes) /\ request.scopes \in Seq(Seq(Bytes))
        BY <4>3, <4>4
      <4> QED BY <4>4, <4>5, AuthorizationFieldsType
    <3>2. <<Slash>> \in Seq(Bytes) /\ \A i \in 1..Len(<<Slash>>) : <<Slash>>[i] # Question
      BY DEF Slash, Question, Bytes
    <3> QED BY <3>1, <3>2, QueryParsed, Zenon DEF authorization_url
  <2>4. parse_query(calendar_events_url(EventsRequest)) = EventsFields(EventsRequest)
    <3>1. PICK a \in Seq(Bytes), b \in Seq(Bytes) : a = Value(1) /\ b = Value(2)
      BY <2>2
    <3>2. PICK t : /\ t = {form[i].value : i \in DOMAIN form \cap {2}}
                   /\ t \in SUBSET Seq(Bytes) /\ IsFiniteSet(t)
      <4>1. {form[i].value : i \in DOMAIN form \cap {2}} \in SUBSET Seq(Bytes)
        BY <2>1
      <4>2. {form[i].value : i \in DOMAIN form \cap {2}} \in SUBSET {form[2].value}
        OBVIOUS
      <4>3. IsFiniteSet({form[2].value})
        BY FS_Singleton
      <4>4. IsFiniteSet({form[i].value : i \in DOMAIN form \cap {2}})
        BY <4>2, <4>3, FS_Subset
      <4> QED BY <4>1, <4>4
    <3>3. EventsRequest = [calendar_id |-> a, time_min |-> b, time_max |-> a, page_token |-> t]
      BY <3>1, <3>2, Zenon DEF EventsRequest
    <3>4. PICK request : request = EventsRequest
      OBVIOUS
    <3>5. /\ request.calendar_id = a /\ request.time_min \in Seq(Bytes) /\ request.time_max \in Seq(Bytes)
          /\ request.page_token \in SUBSET Seq(Bytes) /\ IsFiniteSet(request.page_token)
      BY <3>2, <3>3, <3>4
    <3>6. EventsFields(request) \in Seq(Field)
      BY <3>5, EventsFieldsType
    <3> DEFINE base == <<Slash>> \o percent_encode(a) \o <<Slash>>
    <3>7. base \in Seq(Safe \cup {Slash})
      <4>1. percent_encode(a) \in Seq(Safe)
        BY Encoded
      <4>2. percent_encode(a) \in Seq(Safe \cup {Slash}) /\ <<Slash>> \in Seq(Safe \cup {Slash})
        BY <4>1
      <4>3. <<Slash>> \o percent_encode(a) \in Seq(Safe \cup {Slash})
        BY <4>2, ConcatProperties
      <4> QED BY <4>2, <4>3, ConcatProperties
    <3>8. calendar_events_url(request) = WithQuery(base, EventsFields(request))
      BY <3>5, Zenon DEF calendar_events_url
    <3> HIDE DEF base
    <3>9. base \in Seq(Bytes) /\ \A i \in 1..Len(base) : base[i] # Question
      <4>1. \A x \in Safe \cup {Slash} : x \in Bytes /\ x # Question
        BY SafeBytes DEF Slash, Question, Bytes
      <4>2. \A i \in 1..Len(base) : base[i] \in Safe \cup {Slash}
        BY <3>7
      <4> QED BY <3>7, <4>1, <4>2
    <3>10. parse_query(WithQuery(base, EventsFields(request))) = EventsFields(request)
      BY <3>6, <3>9, QueryParsed
    <3> QED BY <3>4, <3>8, <3>10, Zenon
  <2> DEFINE IsWord(scope) == scope # << >> /\ \A i \in DOMAIN scope : ~ IsSpace(scope[i])
  <2>5. LET scopes == AuthorizationRequest.scopes
        IN  (\A i \in DOMAIN scopes : IsWord(scopes[i])) => split_scopes(join_scopes(scopes)) = scopes
    <3>1. PICK scopes \in Seq(Seq(Bytes)) : scopes = [i \in DOMAIN form |-> form[i].value]
      <4>1. [i \in DOMAIN form |-> form[i].value] = [i \in 1..m |-> form[i].value]
        BY <2>1, Zenon
      <4>2. [i \in 1..m |-> form[i].value] \in Seq(Seq(Bytes))
        BY <2>1
      <4> QED BY <4>1, <4>2
    <3>2. AuthorizationRequest.scopes = scopes
      BY <3>1 DEF AuthorizationRequest
    <3>3. ASSUME \A i \in DOMAIN scopes : IsWord(scopes[i])
          PROVE  split_scopes(join_scopes(scopes)) = scopes
      <4>1. ASSUME NEW i \in 1..Len(scopes) PROVE scopes[i] \in Seq(Letters) /\ scopes[i] # << >>
        <5>1. PICK s \in Seq(Bytes) : s = scopes[i]
          OBVIOUS
        <5>2. i \in DOMAIN scopes
          OBVIOUS
        <5>3. s # << >> /\ \A k \in DOMAIN s : ~ IsSpace(s[k])
          BY <3>3, <5>1, <5>2
        <5>4. \A k \in 1..Len(s) : s[k] \in Letters
          <6>1. DOMAIN s = 1..Len(s) /\ \A k \in 1..Len(s) : s[k] \in Bytes
            OBVIOUS
          <6> QED BY <5>3, <6>1 DEF Letters
        <5>5. s \in Seq(Letters)
          BY <5>4
        <5> QED BY <5>1, <5>3, <5>5
      <4> HIDE DEF IsWord
      <4> QED BY <4>1, SplitInverts
    <3> HIDE DEF IsWord
    <3> QED BY <3>2, <3>3, Zenon
  <2> QED BY <2>3, <2>4, <2>5, Zenon DEF UrlsSayTheRequest
<1> QED BY <1>1, FormInvInductive, PTL
=============================================================================
