---------------------------- MODULE AlgorithmProofs ----------------------------
(***************************************************************************)
(* The program's pure algorithms.                                          *)
(*                                                                         *)
(* Chunker: the chunks of a file are the file, in pieces of bounded size,  *)
(* the rolling hash is that of the bytes in its window, and two versions   *)
(* of a file that end alike are, after a cut at the same place, cut alike; *)
(* for any sizes, any table of words and any file.                         *)
(* Retention: a prune keeps what its policy asks for and nothing else, for *)
(* any calendar, any policies and any snapshots.                           *)
(* ReedSolomon: the tables are the field GF(256), and a reconstruction     *)
(* that does not refuse gives back what was encoded, for any number of     *)
(* shards, any data and any losses.  It refuses only when too few shards   *)
(* are left, or when those it takes are the same for two data words; so it *)
(* never refuses when only data shards are lost, or three shards at most.  *)
(***************************************************************************)
EXTENDS Chunker, Retention, ReedSolomon,
        SequenceTheorems, FiniteSetTheorems, WellFoundedInduction, TLAPS

ByteStrings == Seq(DOMAIN ByteWord)

SizeOf(i) == ckCuts[i] - (IF i = 1 THEN 0 ELSE ckCuts[i - 1])

\* What is read since the last cut is less than a largest chunk.
ChunkerInv ==
  /\ ckStep \in {"idle", "read", "end"}
  /\ ckData \in ByteStrings
  /\ ckPos \in 0 .. Len(ckData)
  /\ ckCuts \in Seq(Nat)
  /\ \A i \in DOMAIN ckCuts :
       /\ ckCuts[i] <= ckPos
       /\ SizeOf(i) \in 1 .. MaxSize
       /\ SizeOf(i) < MinSize => i = Len(ckCuts) /\ ckStep = "end"
  /\ ckStep = "end" => ChunkStart = Len(ckData)
  /\ ckStep # "end" => ckPos - ChunkStart < MaxSize

LEMMA SizesFollow == ChunkerInv => ChunkSizes
  BY DEF ChunkerInv, ChunkSizes, SizeOf

\* The last cut is at a byte that has been read.
LEMMA StartBounds ==
  ASSUME ChunkerInv
  PROVE  ChunkStart \in Nat /\ ChunkStart <= ckPos /\ ckPos \in Nat
<1>1. CASE ckCuts = <<>>
  BY <1>1 DEF ChunkerInv, ChunkStart, ByteStrings
<1>2. CASE ckCuts # <<>>
  <2>1. Len(ckCuts) \in DOMAIN ckCuts /\ ckCuts[Len(ckCuts)] \in Nat
    BY <1>2 DEF ChunkerInv
  <2> QED
    BY <1>2, <2>1 DEF ChunkerInv, ChunkStart, ByteStrings
<1> QED
  BY <1>1, <1>2

\* A further cut makes one more chunk, from the last cut to it, and leaves the
\* others as they are.
LEMMA CutSizes ==
  ASSUME ChunkerInv, NEW e \in Nat, ckCuts' = Append(ckCuts, e), NEW n, n = Len(ckCuts) + 1
  PROVE  /\ ckCuts' \in Seq(Nat) /\ Len(ckCuts') = n
         /\ \A i \in DOMAIN ckCuts : ckCuts'[i] = ckCuts[i] /\ SizeOf(i)' = SizeOf(i)
         /\ DOMAIN ckCuts' = DOMAIN ckCuts \cup {n}
         /\ ckCuts'[n] = e /\ SizeOf(n)' = e - ChunkStart
         /\ ChunkStart' = e
<1>1. ckCuts \in Seq(Nat) /\ Len(ckCuts) \in Nat /\ DOMAIN ckCuts = 1 .. Len(ckCuts)
  BY DEF ChunkerInv
<1>2. /\ ckCuts' \in Seq(Nat) /\ Len(ckCuts') = n
      /\ \A i \in 1 .. Len(ckCuts) : ckCuts'[i] = ckCuts[i]
      /\ ckCuts'[n] = e
  BY <1>1, AppendProperties
<1>3. DOMAIN ckCuts' = 1 .. n
  BY <1>2
<1>4. 1 .. n = 1 .. Len(ckCuts) \cup {n}
  BY <1>1
<1>5. \A i \in DOMAIN ckCuts : ckCuts'[i] = ckCuts[i] /\ SizeOf(i)' = SizeOf(i)
  BY <1>1, <1>2 DEF SizeOf
<1>6. SizeOf(n)' = e - ChunkStart
  <2>1. CASE ckCuts = <<>>
    <3>1. n = 1 /\ ChunkStart = 0
      BY <2>1 DEF ChunkStart
    <3>2. SizeOf(n)' = ckCuts'[n] - 0
      BY <3>1 DEF SizeOf
    <3> QED
      BY <1>2, <3>1, <3>2
  <2>2. CASE ckCuts # <<>>
    <3>1. Len(ckCuts) \in 1 .. Len(ckCuts)
      BY <1>1, <2>2, EmptySeq
    <3>2. n # 1 /\ n - 1 = Len(ckCuts)
      BY <1>1, <3>1
    <3>3. n # 1 /\ n - 1 = Len(ckCuts) /\ ckCuts'[n - 1] = ckCuts[Len(ckCuts)]
      BY <1>2, <3>1, <3>2
    <3>4. ChunkStart = ckCuts'[n - 1] /\ SizeOf(n)' = ckCuts'[n] - ckCuts'[n - 1]
      BY <2>2, <3>3 DEF SizeOf, ChunkStart
    <3> QED
      BY <1>2, <3>4
  <2> QED
    BY <2>1, <2>2
<1>7. ChunkStart' = e
  <2>1. ckCuts' # <<>>
    BY <1>1, <1>2
  <2> QED
    BY <1>2, <2>1 DEF ChunkStart
<1> QED
  BY <1>1, <1>2, <1>3, <1>4, <1>5, <1>6, <1>7

LEMMA InitChunker == ChunkerInit => ChunkerInv
  BY ChunkerAssumption DEF ChunkerInit, ChunkerInv, ChunkStart, ByteStrings

LEMMA StartInv ==
  ASSUME NEW file \in ByteStrings, StartChunking(file)
  PROVE  ChunkerInv'
  BY ChunkerAssumption DEF StartChunking, ChunkerInv, ChunkStart, ByteStrings

\* Reading a byte: a chunk that is not cut is smaller than the largest, or
\* smaller than the smallest, which is less.
LEMMA ReadInv ==
  ASSUME ChunkerInv, ReadByte
  PROVE  ChunkerInv'
<1>1. /\ ckStep = "read" /\ ckPos < Len(ckData) /\ ckPos' = ckPos + 1
      /\ UNCHANGED <<ckStep, ckData>>
  BY DEF ReadByte
<1>2. PICK hash : IF CutAfter(ckPos' - ChunkStart, hash)
                  THEN ckCuts' = Append(ckCuts, ckPos') ELSE UNCHANGED ckCuts
  BY DEF ReadByte
<1>3. /\ ChunkStart \in Nat /\ ChunkStart <= ckPos /\ ckPos \in Nat /\ Len(ckData) \in Nat
      /\ ckPos - ChunkStart < MaxSize
  BY <1>1, StartBounds DEF ChunkerInv, ByteStrings
<1>4. MinSize \in Nat \ {0} /\ MaxSize \in Nat /\ MinSize < MaxSize
  BY ChunkerAssumption
<1>5. CASE CutAfter(ckPos' - ChunkStart, hash)
  <2>1. ckCuts' = Append(ckCuts, ckPos') /\ ckPos' \in Nat
    BY <1>1, <1>2, <1>3, <1>5
  <2>2. ckPos' - ChunkStart >= MinSize /\ ckPos' - ChunkStart \in 1 .. MaxSize
    BY <1>1, <1>3, <1>4, <1>5 DEF CutAfter
  <2> QED
    BY <1>1, <1>3, <1>4, <2>1, <2>2, CutSizes DEF ChunkerInv
<1>6. CASE ~CutAfter(ckPos' - ChunkStart, hash)
  <2>1. ckCuts' = ckCuts /\ ChunkStart' = ChunkStart
    BY <1>2, <1>6 DEF ChunkStart
  <2>2. ckPos' - ChunkStart < MaxSize
    BY <1>1, <1>3, <1>4, <1>6 DEF CutAfter
  <2> QED
    BY <1>1, <1>3, <2>1, <2>2 DEF ChunkerInv, SizeOf
<1> QED
  BY <1>5, <1>6

LEMMA EndInv ==
  ASSUME ChunkerInv, EndFile
  PROVE  ChunkerInv'
<1>1. /\ ckStep = "read" /\ ckPos = Len(ckData) /\ ckStep' = "end"
      /\ UNCHANGED <<ckData, ckPos>>
  BY DEF EndFile
<1>2. /\ ChunkStart \in Nat /\ ChunkStart <= ckPos /\ ckPos \in Nat /\ Len(ckData) \in Nat
      /\ ckPos - ChunkStart < MaxSize /\ MaxSize \in Nat
  BY <1>1, StartBounds, ChunkerAssumption DEF ChunkerInv, ByteStrings
<1>3. CASE ChunkStart < Len(ckData)
  <2>1. ckCuts' = Append(ckCuts, Len(ckData))
    BY <1>3 DEF EndFile
  <2>2. Len(ckData) - ChunkStart \in 1 .. MaxSize
    BY <1>1, <1>2, <1>3
  <2> QED
    BY <1>1, <1>2, <2>1, <2>2, CutSizes DEF ChunkerInv
<1>4. CASE ~(ChunkStart < Len(ckData))
  <2>1. ckCuts' = ckCuts /\ ChunkStart' = ChunkStart /\ ChunkStart = Len(ckData)
    BY <1>1, <1>2, <1>4 DEF EndFile, ChunkStart
  <2> QED
    BY <1>1, <2>1 DEF ChunkerInv, SizeOf
<1> QED
  BY <1>3, <1>4

LEMMA NextChunker == ChunkerInv /\ [ChunkerNext]_chunkerVars => ChunkerInv'
<1> SUFFICES ASSUME ChunkerInv, [ChunkerNext]_chunkerVars PROVE ChunkerInv'
  OBVIOUS
<1>1. CASE StartFile
  BY <1>1, StartInv, ChunkerAssumption DEF StartFile, ByteStrings
<1>2. CASE NextVersion
  <2>1. ckData \in ByteStrings /\ ckData # <<>> /\ Tail(ckData) \in ByteStrings
    BY <1>2 DEF NextVersion, ChunkerInv, ByteStrings
  <2>2. \A x \in DOMAIN ByteWord : \A s \in ByteStrings : <<x>> \o s \in ByteStrings
    BY DEF ByteStrings
  <2> QED
    BY <1>2, <2>1, <2>2, StartInv DEF NextVersion
<1>3. CASE UNCHANGED chunkerVars
  BY <1>3 DEF chunkerVars, ChunkerInv, SizeOf, ChunkStart
<1> QED
  BY <1>1, <1>2, <1>3, ReadInv, EndInv DEF ChunkerNext

\* Whatever the file and the table: the chunks follow on one another, none is
\* larger than max_size, only the last is smaller than min_size, and together
\* they are the whole file.
THEOREM ChunksAlwaysSized == ChunkerSpec => []ChunkSizes
  BY InitChunker, NextChunker, SizesFollow, PTL DEF ChunkerSpec

-----------------------------------------------------------------------------
\* The rolling hash.  A word rotates by moving each bit to the next place, so a
\* bit of a rotated word is the bit one place below.

RotateOnce(v) == RotateLeft(v, 1)
Below(b) == IF b = 0 THEN WordBits - 1 ELSE b - 1

\* Rotations are by at most a whole turn.
LEMMA TurnOnce ==
  ASSUME NEW b \in Nat, NEW n \in Nat, b + n < 2 * WordBits
  PROVE  (b + n) % WordBits = IF b + n < WordBits THEN b + n ELSE b + n - WordBits
<1>1. WordBits \in Nat \ {0}
  BY ChunkerAssumption
<1>2. CASE b + n < WordBits
  BY <1>1, <1>2
<1>3. CASE b + n >= WordBits
  <2>1. (b + n) % WordBits = b + n - WordBits
    BY <1>1, <1>3
  <2> QED
    BY <1>1, <1>3, <2>1
<1> QED
  BY <1>1, <1>2, <1>3

LEMMA RotateBits ==
  ASSUME NEW v, v \subseteq Bits, NEW n \in 0 .. WordBits
  PROVE  /\ RotateLeft(v, n) \subseteq Bits
         /\ n \in {0, WordBits} => RotateLeft(v, n) = v
<1>1. WordBits \in Nat \ {0}
  BY ChunkerAssumption
<1>2. ASSUME NEW b \in v
      PROVE  /\ b \in Bits /\ b + n \in Nat /\ b + n < 2 * WordBits
             /\ (b + n) % WordBits = IF b + n < WordBits THEN b + n ELSE b + n - WordBits
  <2>1. b \in Nat /\ b < WordBits /\ n \in Nat /\ n <= WordBits /\ b \in Bits
    BY <1>1 DEF Bits
  <2>2. b + n \in Nat /\ b + n < 2 * WordBits
    BY <1>1, <2>1
  <2>3. (b + n) % WordBits = IF b + n < WordBits THEN b + n ELSE b + n - WordBits
    BY <2>1, <2>2, TurnOnce
  <2> QED
    BY <2>1, <2>2, <2>3
<1>3. RotateLeft(v, n) \subseteq Bits
  BY <1>1, <1>2 DEF RotateLeft, Bits
<1>4. ASSUME n \in {0, WordBits} PROVE RotateLeft(v, n) = v
  <2>1. \A b \in v : (b + n) % WordBits = b
    BY <1>1, <1>2, <1>4 DEF Bits
  <2> QED
    BY <2>1 DEF RotateLeft
<1> QED
  BY <1>3, <1>4

LEMMA RotateOnceBit ==
  ASSUME NEW v, v \subseteq Bits, NEW b \in Bits
  PROVE  Below(b) \in Bits /\ (b \in RotateOnce(v) <=> Below(b) \in v)
<1>1. WordBits \in Nat \ {0}
  BY ChunkerAssumption
<1>2. Below(b) \in Bits
  BY <1>1 DEF Below, Bits
<1>3. ASSUME NEW a \in Bits
      PROVE  (a + 1) % WordBits = b <=> a = Below(b)
  <2>1. a \in Nat /\ a < WordBits /\ b \in Nat /\ b < WordBits
    BY <1>1 DEF Bits
  <2>2. a + 1 \in Nat /\ a + 1 < 2 * WordBits
    BY <1>1, <2>1
  <2>3. (a + 1) % WordBits = IF a + 1 < WordBits THEN a + 1 ELSE a + 1 - WordBits
    BY <2>1, <2>2, TurnOnce
  <2> QED
    BY <1>1, <2>1, <2>3 DEF Below
<1> QED
  BY <1>2, <1>3 DEF RotateOnce, RotateLeft

\* One more place is one more turn.
LEMMA RotateOneMore ==
  ASSUME NEW v, v \subseteq Bits, NEW n \in 0 .. WordBits - 1
  PROVE  RotateOnce(RotateLeft(v, n)) = RotateLeft(v, n + 1)
<1>1. WordBits \in Nat \ {0}
  BY ChunkerAssumption
<1>2. ASSUME NEW b \in v
      PROVE  (((b + n) % WordBits) + 1) % WordBits = (b + (n + 1)) % WordBits
  <2>1. b \in Nat /\ b < WordBits /\ n \in Nat /\ n < WordBits
    BY <1>1 DEF Bits
  <2>2. /\ b + n \in Nat /\ b + n < 2 * WordBits
        /\ b + (n + 1) \in Nat /\ b + (n + 1) < 2 * WordBits
    BY <1>1, <2>1
  <2>3. /\ (b + n) % WordBits = IF b + n < WordBits THEN b + n ELSE b + n - WordBits
        /\ (b + (n + 1)) % WordBits =
             IF b + (n + 1) < WordBits THEN b + (n + 1) ELSE b + (n + 1) - WordBits
    BY <2>1, <2>2, TurnOnce
  <2> DEFINE m == (b + n) % WordBits
  <2>4. m \in Nat /\ m + 1 \in Nat /\ m + 1 < 2 * WordBits
    BY <1>1, <2>1, <2>2, <2>3
  <2>5. (m + 1) % WordBits = IF m + 1 < WordBits THEN m + 1 ELSE m + 1 - WordBits
    BY <2>4, TurnOnce
  <2> QED
    BY <1>1, <2>1, <2>3, <2>5
<1>3. RotateOnce(RotateLeft(v, n)) = {(((b + n) % WordBits) + 1) % WordBits : b \in v}
  BY DEF RotateOnce, RotateLeft
<1> QED
  BY <1>2, <1>3 DEF RotateLeft

LEMMA RotateXor ==
  ASSUME NEW v, v \subseteq Bits, NEW w, w \subseteq Bits
  PROVE  RotateOnce(BitXor(v, w)) = BitXor(RotateOnce(v), RotateOnce(w))
<1>1. BitXor(v, w) \subseteq Bits
  BY DEF BitXor
<1>2. 1 \in 0 .. WordBits
  BY ChunkerAssumption
<1>3. /\ RotateOnce(BitXor(v, w)) \subseteq Bits
      /\ RotateOnce(v) \subseteq Bits /\ RotateOnce(w) \subseteq Bits
  BY <1>1, <1>2, RotateBits DEF RotateOnce
<1>4. ASSUME NEW b \in Bits
      PROVE  /\ b \in RotateOnce(BitXor(v, w)) <=> Below(b) \in BitXor(v, w)
             /\ b \in RotateOnce(v) <=> Below(b) \in v
             /\ b \in RotateOnce(w) <=> Below(b) \in w
  BY <1>1, RotateOnceBit
<1> QED
  BY <1>3, <1>4 DEF BitXor

\* The exclusive or of the first n of a list of words.
XorOf(n, f) == {b \in Bits : Cardinality({i \in 0 .. n - 1 : b \in f[i]}) % 2 = 1}

\* The places below n whose word has the bit.
With(n, f, b) == {i \in 0 .. n - 1 : b \in f[i]}

LEMMA WithFinite ==
  ASSUME NEW n \in Nat, NEW f, NEW b
  PROVE  IsFiniteSet(With(n, f, b)) /\ Cardinality(With(n, f, b)) \in Nat
<1>1. IsFiniteSet(0 .. n - 1)
  BY FS_Interval
<1>2. With(n, f, b) \in SUBSET (0 .. n - 1)
  BY DEF With
<1> QED
  BY <1>1, <1>2, FS_Subset, FS_CardinalityType

LEMMA XorBit ==
  ASSUME NEW n, NEW f, NEW b \in Bits
  PROVE  b \in XorOf(n, f) <=> Cardinality(With(n, f, b)) % 2 = 1
  BY DEF XorOf, With

\* One word more changes the bits it has.
LEMMA XorMore ==
  ASSUME NEW n \in Nat, NEW f, f[n] \subseteq Bits
  PROVE  XorOf(n + 1, f) = BitXor(XorOf(n, f), f[n])
<1> SUFFICES ASSUME NEW b \in Bits
             PROVE  b \in XorOf(n + 1, f) <=> b \in BitXor(XorOf(n, f), f[n])
  BY DEF XorOf, BitXor
<1> DEFINE S == With(n, f, b)
           T == With(n + 1, f, b)
<1>1. IsFiniteSet(S) /\ Cardinality(S) \in Nat
  BY WithFinite
<1>2. n \notin S /\ 0 .. (n + 1) - 1 = (0 .. n - 1) \cup {n}
  BY DEF With
<1>3. CASE b \in f[n]
  <2>1. T = S \cup {n}
    BY <1>2, <1>3 DEF With
  <2>2. Cardinality(S \cup {n}) = Cardinality(S) + 1
    BY <1>1, <1>2, FS_AddElement, Zenon
  <2>3. Cardinality(T) = Cardinality(S) + 1
    BY <2>1, <2>2
  <2> HIDE DEF S, T
  <2>4. Cardinality(T) % 2 = 1 <=> ~(Cardinality(S) % 2 = 1)
    BY <1>1, <2>3
  <2> USE DEF S, T
  <2> QED
    BY <1>3, <2>4, XorBit DEF BitXor
<1>4. CASE b \notin f[n]
  <2>1. T = S
    BY <1>2, <1>4 DEF With
  <2>2. b \in XorOf(n + 1, f) <=> b \in XorOf(n, f)
    BY <2>1, XorBit
  <2> QED
    BY <1>4, <2>2 DEF BitXor
<1> QED
  BY <1>3, <1>4

\* A word that enters in front, while the others rotate.
LEMMA XorEnter ==
  ASSUME NEW n \in Nat, NEW f, \A i \in 0 .. n - 1 : f[i] \subseteq Bits,
         NEW g, g[0] \subseteq Bits, \A i \in 0 .. n - 1 : g[i + 1] = RotateOnce(f[i])
  PROVE  XorOf(n + 1, g) = BitXor(RotateOnce(XorOf(n, f)), g[0])
<1>1. RotateOnce(XorOf(n, f)) \subseteq Bits
  <2>1. XorOf(n, f) \subseteq Bits /\ 1 \in 0 .. WordBits
    BY ChunkerAssumption DEF XorOf
  <2> QED
    BY <2>1, RotateBits DEF RotateOnce
<1> SUFFICES ASSUME NEW b \in Bits
             PROVE  b \in XorOf(n + 1, g) <=> b \in BitXor(RotateOnce(XorOf(n, f)), g[0])
  BY <1>1 DEF XorOf, BitXor
<1> DEFINE a == Below(b)
           S == With(n, f, a)
           T == With(n + 1, g, b)
           later == {i + 1 : i \in S}
<1>2. a \in Bits /\ (b \in RotateOnce(XorOf(n, f)) <=> a \in XorOf(n, f))
  BY RotateOnceBit DEF XorOf
<1>3. \A i \in 0 .. n - 1 : b \in g[i + 1] <=> a \in f[i]
  BY RotateOnceBit
<1>4. IsFiniteSet(S) /\ Cardinality(S) \in Nat
  BY WithFinite
<1>5. IsFiniteSet(later) /\ Cardinality(later) = Cardinality(S)
  <2> DEFINE h == [i \in S |-> i + 1]
  <2>1. S \subseteq Nat
    BY DEF With
  <2> HIDE DEF S
  <2>2. h \in Bijection(S, later)
    BY <2>1 DEF Bijection, Injection, Surjection, IsInjective
  <2> QED
    BY <1>4, <2>2, FS_Bijection DEF ExistsBijection
<1>6. T \ {0} = later
  <2>1. ASSUME NEW j \in T \ {0} PROVE j \in later
    <3>1. j \in 1 .. n /\ b \in g[j]
      BY DEF With
    <3>2. j - 1 \in 0 .. n - 1 /\ j = (j - 1) + 1
      BY <3>1
    <3>3. a \in f[j - 1]
      BY <1>3, <3>1, <3>2
    <3> QED
      BY <3>2, <3>3 DEF With
  <2>2. ASSUME NEW i \in S PROVE i + 1 \in T \ {0}
    BY <1>3 DEF With
  <2> QED
    BY <2>1, <2>2
<1>7. 0 \notin later
  BY DEF With
<1>8. 0 \in T <=> b \in g[0]
  BY DEF With
<1>9. CASE b \in g[0]
  <2>1. T = later \cup {0}
    BY <1>6, <1>8, <1>9
  <2>2. Cardinality(later \cup {0}) = Cardinality(later) + 1
    BY <1>5, <1>7, FS_AddElement, Zenon
  <2>3. Cardinality(T) = Cardinality(S) + 1
    BY <1>5, <2>1, <2>2
  <2> HIDE DEF S, T, a
  <2>4. Cardinality(T) % 2 = 1 <=> ~(Cardinality(S) % 2 = 1)
    BY <1>4, <2>3
  <2> USE DEF S, T
  <2> QED
    BY <1>2, <1>9, <2>4, XorBit DEF BitXor
<1>10. CASE b \notin g[0]
  <2>1. T = later
    BY <1>6, <1>8, <1>10
  <2>2. Cardinality(T) = Cardinality(S)
    BY <1>5, <2>1
  <2> HIDE DEF a
  <2> QED
    BY <1>2, <1>10, <2>2, XorBit DEF BitXor
<1> QED
  BY <1>9, <1>10

-----------------------------------------------------------------------------
\* What the hash is, in terms of the bytes of the chunk so far.

\* How many bytes of a chunk of this length the window has.
Seen(length) == IF length < WordBits THEN length ELSE WordBits

\* The word of the byte of each age, counted from byte t of the file; and that
\* of a byte the window was filled with.
WordOf(data, t) == [i \in 0 .. t - 1 |-> RotateLeft(ByteWord[data[t - i]], i)]
FillWord == [i \in 0 .. WordBits |-> RotateLeft(ByteWord[ZeroByte], i)]

\* The hash after byte t of a chunk that begins after byte s.
HashOf(data, s, t) ==
  BitXor(XorOf(Seen(t - s), WordOf(data, t)), XorOf(Seen(t - s), FillWord))

\* A slot of the window holds the byte of this age.
AgeOf(slot, j) == IF j < slot THEN slot - 1 - j ELSE slot + WordBits - 1 - j

WindowOf(data, s, t, window, slot) ==
  \A j \in Bits :
    window[j] = IF AgeOf(slot, j) < t - s THEN data[t - AgeOf(slot, j)] ELSE ZeroByte

\* The inductive invariant behind HashOfWindow.
HashInv ==
  ckStep = "read" =>
    /\ ckSlot \in Bits
    /\ ckWindow \in [Bits -> DOMAIN ByteWord]
    /\ WindowOf(ckData, ChunkStart, ckPos, ckWindow, ckSlot)
    /\ ckHash = HashOf(ckData, ChunkStart, ckPos)

\* Nothing has been read of the chunk.
LEMMA FreshHash ==
  ASSUME NEW data \in ByteStrings, NEW s \in 0 .. Len(data)
  PROVE  /\ HashOf(data, s, s) = {}
         /\ WindowOf(data, s, s, [i \in Bits |-> ZeroByte], 0)
<1>1. WordBits \in Nat \ {0} /\ s \in Nat /\ s - s = 0
  BY ChunkerAssumption DEF ByteStrings
<1>2. Seen(s - s) = 0
  BY <1>1 DEF Seen
<1>3. \A f, b : Cardinality({i \in 0 .. 0 - 1 : b \in f[i]}) = 0
  <2>1. \A f, b : {i \in 0 .. 0 - 1 : b \in f[i]} = {}
    OBVIOUS
  <2> QED
    BY <2>1, FS_EmptySet
<1>4. \A f : XorOf(0, f) = {}
  BY <1>3 DEF XorOf
<1>5. HashOf(data, s, s) = {}
  BY <1>2, <1>4 DEF HashOf, BitXor
<1>6. \A j \in Bits : ~(AgeOf(0, j) < s - s)
  BY <1>1 DEF AgeOf, Bits
<1> QED
  BY <1>5, <1>6 DEF WindowOf

\* The window after one byte more.
LEMMA WindowMore ==
  ASSUME NEW data \in ByteStrings, NEW s \in Nat, NEW t \in Nat, s <= t, t < Len(data),
         NEW slot \in Bits, NEW window \in [Bits -> DOMAIN ByteWord],
         WindowOf(data, s, t, window, slot)
  PROVE  /\ (slot + 1) % WordBits \in Bits
         /\ WindowOf(data, s, t + 1, [window EXCEPT ![slot] = data[t + 1]],
                     (slot + 1) % WordBits)
         /\ window[slot] = IF WordBits <= t - s THEN data[t + 1 - WordBits] ELSE ZeroByte
<1>1. WordBits \in Nat \ {0} /\ slot \in Nat /\ slot < WordBits
  BY ChunkerAssumption DEF Bits
<1>2. (slot + 1) % WordBits = IF slot + 1 < WordBits THEN slot + 1 ELSE 0
  <2>1. slot + 1 < 2 * WordBits /\ 1 \in Nat
    BY <1>1
  <2>2. (slot + 1) % WordBits =
          IF slot + 1 < WordBits THEN slot + 1 ELSE slot + 1 - WordBits
    BY <1>1, <2>1, TurnOnce
  <2> QED
    BY <1>1, <2>2
<1> DEFINE next == (slot + 1) % WordBits
           w == [window EXCEPT ![slot] = data[t + 1]]
<1>3. next \in Bits
  BY <1>1, <1>2 DEF Bits
<1>4. ASSUME NEW j \in Bits
      PROVE  w[j] = IF AgeOf(next, j) < (t + 1) - s THEN data[(t + 1) - AgeOf(next, j)]
                                                    ELSE ZeroByte
  <2>1. j \in Nat /\ j < WordBits
    BY <1>1 DEF Bits
  <2>2. CASE j = slot
    <3>1. AgeOf(next, j) = 0
      BY <1>1, <1>2, <2>1, <2>2 DEF AgeOf
    <3>2. w[j] = data[t + 1] /\ 0 < (t + 1) - s /\ (t + 1) - 0 = t + 1
      BY <2>2
    <3> QED
      BY <3>1, <3>2
  <2>3. CASE j # slot
    <3> DEFINE a == AgeOf(slot, j)
    <3>1. AgeOf(next, j) = a + 1 /\ a \in Nat
      BY <1>1, <1>2, <2>1, <2>3 DEF AgeOf
    <3>2. w[j] = IF a < t - s THEN data[t - a] ELSE ZeroByte
      BY <2>3 DEF WindowOf
    <3>3. (t + 1) - (a + 1) = t - a /\ (a + 1 < (t + 1) - s <=> a < t - s)
      BY <3>1
    <3> QED
      BY <3>1, <3>2, <3>3
  <2> QED
    BY <2>2, <2>3
<1>5. AgeOf(slot, slot) = WordBits - 1
  BY <1>1 DEF AgeOf
<1>6. window[slot] = IF WordBits - 1 < t - s THEN data[t - (WordBits - 1)] ELSE ZeroByte
  BY <1>5 DEF WindowOf
<1>7. /\ t - (WordBits - 1) = t + 1 - WordBits
      /\ WordBits - 1 < t - s <=> WordBits <= t - s
  BY <1>1
<1>8. window[slot] = IF WordBits <= t - s THEN data[t + 1 - WordBits] ELSE ZeroByte
  BY <1>6, <1>7
<1> HIDE DEF next, w
<1>9. WindowOf(data, s, t + 1, w, next)
  BY <1>4 DEF WindowOf
<1> QED
  BY <1>3, <1>8, <1>9 DEF next, w

\* The hash after one byte more: the byte that leaves the window leaves the hash.
LEMMA HashMore ==
  ASSUME NEW data \in ByteStrings, NEW s \in Nat, NEW t \in Nat, s <= t, t < Len(data),
         NEW oldest, oldest = IF WordBits <= t - s THEN data[t + 1 - WordBits] ELSE ZeroByte,
         NEW h, h = HashOf(data, s, t)
  PROVE  BitXor(RotateOnce(BitXor(h, RotateLeft(ByteWord[oldest], WordBits - 1))),
                ByteWord[data[t + 1]])
           = HashOf(data, s, t + 1)
<1> DEFINE n == Seen(t - s)
           f == WordOf(data, t)
           g == WordOf(data, t + 1)
           z == FillWord
           D == XorOf(n, f)
           Z == XorOf(n, z)
           D1 == XorOf(n + 1, g)
           Z1 == XorOf(n + 1, z)
           leaves == ByteWord[oldest]
           enters == ByteWord[data[t + 1]]
           zero == ByteWord[ZeroByte]
<1>1. WordBits \in Nat \ {0} /\ Len(data) \in Nat
  BY ChunkerAssumption DEF ByteStrings
<1>2. n \in Nat /\ n <= t - s /\ n <= WordBits /\ n <= t
  BY <1>1 DEF Seen
<1>3. \A i \in 1 .. Len(data) : data[i] \in DOMAIN ByteWord /\ ByteWord[data[i]] \subseteq Bits
  BY ChunkerAssumption DEF ByteStrings
<1>4. zero \subseteq Bits /\ enters \subseteq Bits
  <2>1. t + 1 \in 1 .. Len(data)
    BY <1>1
  <2> QED
    BY <1>3, <2>1, ChunkerAssumption
<1>5. leaves \subseteq Bits
  <2>1. CASE WordBits <= t - s
    <3>1. t + 1 - WordBits \in 1 .. Len(data) /\ oldest = data[t + 1 - WordBits]
      BY <1>1, <2>1
    <3> QED
      BY <1>3, <3>1
  <2>2. CASE ~(WordBits <= t - s)
    BY <1>4, <2>2
  <2> QED
    BY <2>1, <2>2
<1>6. ASSUME NEW i \in 0 .. n - 1
      PROVE  /\ f[i] \subseteq Bits /\ z[i] \subseteq Bits
             /\ g[i + 1] = RotateOnce(f[i]) /\ z[i + 1] = RotateOnce(z[i])
  <2>1. /\ i \in 0 .. t - 1 /\ i + 1 \in 0 .. (t + 1) - 1 /\ i \in 0 .. WordBits - 1
        /\ i \in 0 .. WordBits /\ i + 1 \in 0 .. WordBits
        /\ t - i \in 1 .. Len(data) /\ (t + 1) - (i + 1) = t - i
    BY <1>1, <1>2
  <2>2. /\ f[i] = RotateLeft(ByteWord[data[t - i]], i)
        /\ g[i + 1] = RotateLeft(ByteWord[data[t - i]], i + 1)
        /\ z[i] = RotateLeft(zero, i) /\ z[i + 1] = RotateLeft(zero, i + 1)
    BY <2>1 DEF WordOf, FillWord
  <2>3. ByteWord[data[t - i]] \subseteq Bits
    BY <1>3, <2>1
  <2>4. f[i] \subseteq Bits /\ z[i] \subseteq Bits
    BY <1>4, <2>1, <2>2, <2>3, RotateBits
  <2>5. g[i + 1] = RotateOnce(f[i])
    BY <2>1, <2>2, <2>3, RotateOneMore
  <2>6. z[i + 1] = RotateOnce(z[i])
    BY <1>4, <2>1, <2>2, RotateOneMore
  <2> QED
    BY <2>4, <2>5, <2>6
<1>7. g[0] = enters /\ z[0] = zero
  <2>1. 0 \in 0 .. (t + 1) - 1 /\ (t + 1) - 0 = t + 1 /\ 0 \in 0 .. WordBits
    BY <1>1
  <2>2. g[0] = RotateLeft(enters, 0) /\ z[0] = RotateLeft(zero, 0)
    BY <2>1 DEF WordOf, FillWord
  <2> QED
    BY <1>4, <2>1, <2>2, RotateBits
<1> HIDE DEF n, f, g, z, leaves, enters, zero
<1>8. D1 = BitXor(RotateOnce(D), enters) /\ Z1 = BitXor(RotateOnce(Z), zero)
  <2>1. D1 = BitXor(RotateOnce(D), g[0])
    BY <1>2, <1>4, <1>6, <1>7, XorEnter
  <2>2. Z1 = BitXor(RotateOnce(Z), z[0])
    BY <1>2, <1>4, <1>6, <1>7, XorEnter
  <2> QED
    BY <1>7, <2>1, <2>2
<1>9. D \subseteq Bits /\ Z \subseteq Bits
  BY DEF XorOf
<1>10. RotateOnce(BitXor(h, RotateLeft(leaves, WordBits - 1)))
         = BitXor(BitXor(RotateOnce(D), RotateOnce(Z)), leaves)
  <2> DEFINE r == RotateLeft(leaves, WordBits - 1)
  <2>1. /\ WordBits - 1 \in 0 .. WordBits - 1 /\ WordBits - 1 \in 0 .. WordBits
        /\ WordBits \in 0 .. WordBits /\ WordBits - 1 + 1 = WordBits
    BY <1>1
  <2>2. r \subseteq Bits
    BY <1>5, <2>1, RotateBits
  <2>3. RotateOnce(r) = leaves
    <3>1. RotateOnce(r) = RotateLeft(leaves, WordBits - 1 + 1)
      BY <1>5, <2>1, RotateOneMore
    <3>2. RotateLeft(leaves, WordBits) = leaves
      BY <1>5, <2>1, RotateBits
    <3> QED
      BY <2>1, <3>1, <3>2
  <2>4. h = BitXor(D, Z)
    BY DEF HashOf, n, f, z
  <2>5. BitXor(D, Z) \subseteq Bits
    BY <1>9 DEF BitXor
  <2> HIDE DEF r, D, Z
  <2>6. RotateOnce(BitXor(BitXor(D, Z), r)) = BitXor(RotateOnce(BitXor(D, Z)), RotateOnce(r))
    BY <2>2, <2>5, RotateXor
  <2>7. RotateOnce(BitXor(D, Z)) = BitXor(RotateOnce(D), RotateOnce(Z))
    BY <1>9, RotateXor
  <2> QED
    BY <2>3, <2>4, <2>6, <2>7 DEF r
<1> DEFINE d == RotateOnce(D)
           y == RotateOnce(Z)
           after == BitXor(BitXor(BitXor(d, y), leaves), enters)
<1>11. CASE t - s < WordBits
  <2>1. n + 1 = Seen((t + 1) - s) /\ oldest = ZeroByte
    BY <1>1, <1>11 DEF Seen, n
  <2>2. leaves = zero
    BY <2>1 DEF leaves, zero
  <2>3. HashOf(data, s, t + 1) = BitXor(D1, Z1)
    BY <2>1 DEF HashOf, g, z
  <2> HIDE DEF D, Z, D1, Z1, d, y
  <2>4. after = BitXor(BitXor(d, enters), BitXor(y, zero))
    BY <2>2 DEF BitXor
  <2> QED
    BY <1>8, <1>10, <2>3, <2>4 DEF d, y, leaves, enters
<1>12. CASE ~(t - s < WordBits)
  <2>1. n = WordBits /\ Seen((t + 1) - s) = n /\ oldest = data[t + 1 - WordBits]
    BY <1>1, <1>12 DEF Seen, n
  <2>2. g[n] = leaves
    <3>1. n \in 0 .. (t + 1) - 1 /\ (t + 1) - n = t + 1 - WordBits /\ n \in 0 .. WordBits
      BY <1>1, <1>2, <2>1
    <3>2. g[n] = RotateLeft(leaves, n)
      BY <2>1, <3>1 DEF WordOf, g, leaves
    <3> QED
      BY <1>5, <2>1, <3>1, <3>2, RotateBits
  <2>3. z[n] = zero
    <3>1. n \in 0 .. WordBits
      BY <1>1, <2>1
    <3>2. z[n] = RotateLeft(zero, n)
      BY <3>1 DEF FillWord, z, zero
    <3> QED
      BY <1>4, <2>1, <3>1, <3>2, RotateBits
  <2> DEFINE D0 == XorOf(n, g)
             Z0 == XorOf(n, z)
  <2>4. D1 = BitXor(D0, leaves)
    BY <1>2, <1>5, <2>2, XorMore
  <2>5. Z1 = BitXor(Z0, zero)
    BY <1>2, <1>4, <2>3, XorMore
  <2>6. HashOf(data, s, t + 1) = BitXor(D0, Z0)
    BY <2>1 DEF HashOf, g, z
  <2> HIDE DEF D, Z, D1, Z1, d, y, D0, Z0
  <2>7. BitXor(D0, leaves) = BitXor(d, enters) /\ BitXor(Z0, zero) = BitXor(y, zero)
    BY <1>8, <2>4, <2>5 DEF d, y
  <2>8. BitXor(d, enters) = BitXor(BitXor(D0, leaves), {}) /\ y = Z0
    BY <2>7 DEF BitXor
  <2>9. after = BitXor(BitXor(BitXor(d, enters), leaves), y)
    BY DEF BitXor
  <2>10. BitXor(BitXor(D0, leaves), leaves) = D0
    BY DEF BitXor
  <2>11. after = BitXor(D0, Z0)
    BY <2>7, <2>8, <2>9, <2>10
  <2> QED
    BY <1>10, <2>6, <2>11 DEF d, y, leaves, enters
<1> QED
  BY <1>1, <1>11, <1>12

\* What a byte does to the hash of the chunk, and to the window.
LEMMA SlideMore ==
  ASSUME ChunkerInv, HashInv, ckStep = "read", ckPos < Len(ckData)
  PROVE  LET slot == (ckSlot + 1) % WordBits
             window == [ckWindow EXCEPT ![ckSlot] = ckData[ckPos + 1]]
         IN  /\ Slide(ckData[ckPos + 1]) = HashOf(ckData, ChunkStart, ckPos + 1)
             /\ slot \in Bits /\ window \in [Bits -> DOMAIN ByteWord]
             /\ WindowOf(ckData, ChunkStart, ckPos + 1, window, slot)
<1>1. /\ ckData \in ByteStrings /\ ckPos \in Nat /\ ChunkStart \in Nat /\ ChunkStart <= ckPos
      /\ ckSlot \in Bits /\ ckWindow \in [Bits -> DOMAIN ByteWord]
      /\ WindowOf(ckData, ChunkStart, ckPos, ckWindow, ckSlot)
      /\ ckHash = HashOf(ckData, ChunkStart, ckPos)
  BY StartBounds DEF ChunkerInv, HashInv
<1>2. ckData[ckPos + 1] \in DOMAIN ByteWord
  <2>1. ckPos + 1 \in 1 .. Len(ckData)
    BY <1>1
  <2> QED
    BY <1>1, <2>1 DEF ByteStrings
<1> DEFINE s == ChunkStart
           oldest == ckWindow[ckSlot]
<1> HIDE DEF s
<1>3. /\ (ckSlot + 1) % WordBits \in Bits
      /\ WindowOf(ckData, s, ckPos + 1, [ckWindow EXCEPT ![ckSlot] = ckData[ckPos + 1]],
                  (ckSlot + 1) % WordBits)
      /\ oldest = IF WordBits <= ckPos - s THEN ckData[ckPos + 1 - WordBits] ELSE ZeroByte
  BY <1>1, WindowMore DEF s
<1>4. [ckWindow EXCEPT ![ckSlot] = ckData[ckPos + 1]] \in [Bits -> DOMAIN ByteWord]
  BY <1>1, <1>2
<1>5. BitXor(RotateOnce(BitXor(ckHash, RotateLeft(ByteWord[oldest], WordBits - 1))),
             ByteWord[ckData[ckPos + 1]])
        = HashOf(ckData, s, ckPos + 1)
  BY <1>1, <1>3, HashMore DEF s
<1>6. Slide(ckData[ckPos + 1]) = HashOf(ckData, s, ckPos + 1)
  BY <1>5 DEF Slide, RotateOnce
<1> QED
  BY <1>3, <1>4, <1>6 DEF s

\* A chunk that begins begins with the window and the hash reset.
LEMMA ResetHash ==
  ASSUME ckData' \in ByteStrings, ckPos' \in 0 .. Len(ckData'), ChunkStart' = ckPos', Reset
  PROVE  HashInv'
<1>1. ckHash' = {} /\ ckWindow' = [i \in Bits |-> ZeroByte] /\ ckSlot' = 0
  BY DEF Reset
<1>2. 0 \in Bits /\ [i \in Bits |-> ZeroByte] \in [Bits -> DOMAIN ByteWord]
  BY ChunkerAssumption DEF Bits
<1>3. /\ HashOf(ckData', ckPos', ckPos') = {}
      /\ WindowOf(ckData', ckPos', ckPos', [i \in Bits |-> ZeroByte], 0)
  BY FreshHash
<1>4. /\ ckHash' = HashOf(ckData', ChunkStart', ckPos')
      /\ WindowOf(ckData', ChunkStart', ckPos', ckWindow', ckSlot')
  BY <1>1, <1>3
<1>5. ckSlot' \in Bits /\ ckWindow' \in [Bits -> DOMAIN ByteWord]
  BY <1>1, <1>2
<1>6. /\ HashOf(ckData, ChunkStart, ckPos)' = HashOf(ckData', ChunkStart', ckPos')
      /\ WindowOf(ckData, ChunkStart, ckPos, ckWindow, ckSlot)'
           <=> WindowOf(ckData', ChunkStart', ckPos', ckWindow', ckSlot')
      /\ Bits' = Bits /\ ByteWord' = ByteWord
  BY DEF HashOf, XorOf, WordOf, FillWord, Seen, BitXor, RotateLeft, WindowOf, AgeOf, Bits
<1> QED
  BY <1>4, <1>5, <1>6 DEF HashInv

LEMMA NextHash ==
  ChunkerInv /\ ChunkerInv' /\ HashInv /\ [ChunkerNext]_chunkerVars => HashInv'
<1> SUFFICES ASSUME ChunkerInv, ChunkerInv', HashInv, [ChunkerNext]_chunkerVars
             PROVE  HashInv'
  OBVIOUS
<1>1. ASSUME NEW file, StartChunking(file) PROVE HashInv'
  <2>1. ckPos' = 0 /\ ckCuts' = <<>> /\ Reset
    BY <1>1 DEF StartChunking
  <2>2. ckData' \in ByteStrings /\ ckPos' \in 0 .. Len(ckData') /\ ChunkStart' = ckPos'
    BY <2>1 DEF ChunkerInv, ChunkStart
  <2> QED
    BY <2>1, <2>2, ResetHash
<1>2. CASE StartFile \/ NextVersion
  BY <1>1, <1>2 DEF StartFile, NextVersion
<1>3. CASE ReadByte
  <2>1. /\ ckStep = "read" /\ ckPos < Len(ckData) /\ ckPos' = ckPos + 1
        /\ UNCHANGED <<ckStep, ckData>>
    BY <1>3 DEF ReadByte
  <2> DEFINE byte == ckData[ckPos + 1]
             hash == Slide(byte)
  <2>2. CASE CutAfter(ckPos' - ChunkStart, hash)
    <3>1. ckCuts' = Append(ckCuts, ckPos') /\ Reset /\ ckPos' \in Nat
      BY <1>3, <2>1, <2>2 DEF ReadByte, ChunkerInv
    <3>2. ChunkStart' = ckPos'
      BY <3>1, CutSizes
    <3> QED
      BY <2>1, <3>1, <3>2, ResetHash DEF ChunkerInv
  <2>3. CASE ~CutAfter(ckPos' - ChunkStart, hash)
    <3>1. /\ ckHash' = hash /\ ckWindow' = [ckWindow EXCEPT ![ckSlot] = byte]
          /\ ckSlot' = (ckSlot + 1) % WordBits /\ ChunkStart' = ChunkStart
      BY <1>3, <2>3 DEF ReadByte, ChunkStart
    <3>2. /\ ckHash' = HashOf(ckData, ChunkStart, ckPos + 1)
          /\ ckSlot' \in Bits /\ ckWindow' \in [Bits -> DOMAIN ByteWord]
          /\ WindowOf(ckData, ChunkStart, ckPos + 1, ckWindow', ckSlot')
      BY <2>1, <3>1, SlideMore
    <3>3. /\ ckHash' = HashOf(ckData', ChunkStart', ckPos')
          /\ WindowOf(ckData', ChunkStart', ckPos', ckWindow', ckSlot')
      BY <2>1, <3>1, <3>2
    <3>4. /\ HashOf(ckData, ChunkStart, ckPos)' = HashOf(ckData', ChunkStart', ckPos')
          /\ WindowOf(ckData, ChunkStart, ckPos, ckWindow, ckSlot)'
               <=> WindowOf(ckData', ChunkStart', ckPos', ckWindow', ckSlot')
          /\ Bits' = Bits /\ ByteWord' = ByteWord
      BY DEF HashOf, XorOf, WordOf, FillWord, Seen, BitXor, RotateLeft, WindowOf, AgeOf, Bits
    <3> QED
      BY <3>2, <3>3, <3>4 DEF HashInv
  <2> QED
    BY <2>2, <2>3
<1>4. CASE EndFile
  BY <1>4 DEF EndFile, HashInv
<1>5. CASE UNCHANGED chunkerVars
  <2>1. /\ UNCHANGED <<ckStep, ckData, ckPos, ckHash, ckWindow, ckSlot>>
        /\ ChunkStart' = ChunkStart
    BY <1>5 DEF chunkerVars, hashVars, ChunkStart
  <2> SUFFICES ASSUME ckStep = "read" PROVE HashInv'
    BY <2>1 DEF HashInv
  <2>2. /\ ckHash' = HashOf(ckData', ChunkStart', ckPos')
        /\ WindowOf(ckData', ChunkStart', ckPos', ckWindow', ckSlot')
    BY <2>1 DEF HashInv
  <2>3. /\ HashOf(ckData, ChunkStart, ckPos)' = HashOf(ckData', ChunkStart', ckPos')
        /\ WindowOf(ckData, ChunkStart, ckPos, ckWindow, ckSlot)'
             <=> WindowOf(ckData', ChunkStart', ckPos', ckWindow', ckSlot')
        /\ Bits' = Bits /\ ByteWord' = ByteWord
    BY DEF HashOf, XorOf, WordOf, FillWord, Seen, BitXor, RotateLeft, WindowOf, AgeOf, Bits
  <2> QED
    BY <2>1, <2>2, <2>3 DEF HashInv
<1> QED
  BY <1>2, <1>3, <1>4, <1>5 DEF ChunkerNext

LEMMA HashFollows == ChunkerInv /\ HashInv => HashOfWindow
<1> SUFFICES ASSUME ChunkerInv, HashInv, ckStep = "read" PROVE HashOfWindow
  BY DEF HashOfWindow
<1> DEFINE n == Seen(ckPos - ChunkStart)
<1>1. /\ ckPos \in Nat /\ ChunkStart \in Nat /\ ChunkStart <= ckPos /\ WordBits \in Nat \ {0}
      /\ ckHash = HashOf(ckData, ChunkStart, ckPos)
  BY StartBounds, ChunkerAssumption DEF HashInv
<1>2. n \in Nat /\ n <= ckPos /\ n <= WordBits
  BY <1>1 DEF Seen
<1>3. ASSUME NEW i \in 0 .. n - 1
      PROVE  /\ WordOf(ckData, ckPos)[i] = RotateLeft(ByteWord[ckData[ckPos - i]], i)
             /\ FillWord[i] = RotateLeft(ByteWord[ZeroByte], i)
  <2>1. i \in 0 .. ckPos - 1 /\ i \in 0 .. WordBits
    BY <1>1, <1>2
  <2> QED
    BY <2>1 DEF WordOf, FillWord
<1> HIDE DEF n
<1>4. XorOf(n, WordOf(ckData, ckPos))
        = XorAll(n, LAMBDA i : RotateLeft(ByteWord[ckData[ckPos - i]], i))
  BY <1>3 DEF XorOf, XorAll
<1>5. XorOf(n, FillWord) = XorAll(n, LAMBDA i : RotateLeft(ByteWord[ZeroByte], i))
  BY <1>3 DEF XorOf, XorAll
<1>6. ckHash = BitXor(XorAll(n, LAMBDA i : RotateLeft(ByteWord[ckData[ckPos - i]], i)),
                      XorAll(n, LAMBDA i : RotateLeft(ByteWord[ZeroByte], i)))
  BY <1>1, <1>4, <1>5 DEF HashOf, n
<1> QED
  BY <1>6 DEF HashOfWindow, n, Seen

LEMMA InitHash == ChunkerInit => HashInv
  BY DEF ChunkerInit, HashInv

\* Whatever the file and the table: the hash is that of the bytes in the window,
\* each rotated by its age, and of no other byte of the file.
THEOREM HashAlwaysOfWindow == ChunkerSpec => []HashOfWindow
  BY InitChunker, NextChunker, InitHash, NextHash, HashFollows, PTL DEF ChunkerSpec

-----------------------------------------------------------------------------
\* Where two versions of a file are cut.

CutSet(cuts) == {cuts[i] : i \in DOMAIN cuts}

\* Whether a chunk that begins after byte s is cut after byte t.
CutAt(data, s, t) == CutAfter(t - s, HashOf(data, s, t))

\* Up to byte n, and before the end of the file, each cut is decided by the cut
\* before it and the bytes between the two.
CutLaw(data, C, n) ==
  \A s \in C, u \in Nat :
    /\ s < u /\ u <= n /\ u < Len(data)
    /\ \A v \in C : v <= s \/ u <= v
    => (u \in C <=> CutAt(data, s, u))

\* The cuts of a file that has been chunked.
CutsOf(data, C) ==
  /\ C \subseteq 0 .. Len(data)
  /\ C # {} => Len(data) \in C
  /\ CutLaw(data, C, Len(data))

\* The two end alike, in so many bytes.
EndAlike(data, earlier, n) ==
  \A k \in 0 .. n - 1 : data[Len(data) - k] = earlier[Len(earlier) - k]

CommonEnd(data, earlier) ==
  IF Len(data) < Len(earlier) THEN Len(data) ELSE Len(earlier) - 1

\* The inductive invariant behind CutsMeetAgain.
CutsInv ==
  /\ \A c \in CutSet(ckCuts) : c \in Nat /\ c <= ChunkStart
  /\ ckCuts # <<>> => ChunkStart \in CutSet(ckCuts)
  /\ CutLaw(ckData, CutSet(ckCuts), ckPos)
  /\ ckStep = "idle" => ckEarlier = <<>>
  /\ ckStep = "end" => ckPos = Len(ckData)
  /\ ckEarlier # <<>> =>
       /\ ckEarlier[1] \in ByteStrings /\ ckEarlier[1] # <<>>
       /\ CutsOf(ckEarlier[1], CutSet(ckEarlier[2]))
       /\ EndAlike(ckData, ckEarlier[1], CommonEnd(ckData, ckEarlier[1]))

\* The least element of a set of numbers, and the greatest one below a number.
LEMMA LeastOf ==
  ASSUME NEW S, S \subseteq Nat, S # {}
  PROVE  \E x \in S : \A y \in S : x <= y
<1> DEFINE R == OpToRel(<, Nat)
<1>1. IsWellFoundedOn(R, Nat)
  BY NatLessThanWellFounded
<1>2. \A x \in Nat, y \in Nat : y < x => <<y, x>> \in R
  BY DEF OpToRel
<1> HIDE DEF R
<1>3. PICK x \in S : \A y \in S : ~(<<y, x>> \in R)
  BY <1>1, WFMin
<1>4. ASSUME NEW y \in S PROVE x <= y
  <2>1. x \in Nat /\ y \in Nat /\ ~(y < x)
    BY <1>2, <1>3
  <2> QED
    BY <2>1
<1> QED
  BY <1>4

LEMMA GreatestBelow ==
  ASSUME NEW S, S \subseteq Nat, NEW u \in Nat, NEW v \in S, v < u
  PROVE  \E p \in S : p < u /\ v <= p /\ \A w \in S : w <= p \/ u <= w
<1> DEFINE T == {u - w : w \in {x \in S : x < u}}
<1>1. T \subseteq Nat /\ u - v \in T
  BY SMT
<1>2. PICK d \in T : \A y \in T : d <= y
  BY <1>1, LeastOf
<1>3. PICK p \in S : p < u /\ d = u - p
  BY <1>2
<1>4. ASSUME NEW w \in S, w < u PROVE w <= p
  <2>1. u - w \in T /\ w \in Nat /\ p \in Nat
    BY <1>4
  <2>2. u - p <= u - w
    BY <1>2, <1>3, <2>1
  <2> QED
    BY <2>1, <2>2
<1>5. \A w \in S : w \in Nat
  OBVIOUS
<1> QED
  BY <1>3, <1>4, <1>5

\* The exclusive or depends on the words alone.
LEMMA XorAlike ==
  ASSUME NEW n, NEW f, NEW g, \A i \in 0 .. n - 1 : f[i] = g[i]
  PROVE  XorOf(n, f) = XorOf(n, g)
<1>1. \A b : {i \in 0 .. n - 1 : b \in f[i]} = {i \in 0 .. n - 1 : b \in g[i]}
  OBVIOUS
<1> QED
  BY <1>1 DEF XorOf

\* The same bytes since the last cut: the same decision.
LEMMA DecidedAlike ==
  ASSUME NEW d, NEW e, NEW s \in Nat, NEW t \in Nat, NEW s1 \in Nat, NEW t1 \in Nat,
         s < t, t - s = t1 - s1,
         \A i \in 0 .. (t - s) - 1 : d[t - i] = e[t1 - i]
  PROVE  CutAt(d, s, t) <=> CutAt(e, s1, t1)
<1> DEFINE n == Seen(t - s)
<1>1. n \in Nat /\ n <= t - s /\ n <= t /\ n <= t1 /\ Seen(t1 - s1) = n
  BY ChunkerAssumption DEF Seen
<1> HIDE DEF n
<1>2. ASSUME NEW i \in 0 .. n - 1 PROVE WordOf(d, t)[i] = WordOf(e, t1)[i]
  <2>1. i \in 0 .. t - 1 /\ i \in 0 .. t1 - 1 /\ i \in 0 .. (t - s) - 1
    BY <1>1
  <2>2. d[t - i] = e[t1 - i]
    BY <2>1
  <2> QED
    BY <2>1, <2>2 DEF WordOf
<1>3. XorOf(n, WordOf(d, t)) = XorOf(n, WordOf(e, t1))
  BY <1>2, XorAlike
<1>4. HashOf(d, s, t) = HashOf(e, s1, t1)
  BY <1>1, <1>3 DEF HashOf, n
<1> QED
  BY <1>4 DEF CutAt

\* After a cut that the two have in common they are cut alike: consider the
\* first place after it where only one of them were cut.
LEMMA CutAlike ==
  ASSUME NEW d \in ByteStrings, NEW C, CutsOf(d, C),
         NEW d1 \in ByteStrings, NEW C1, CutsOf(d1, C1),
         NEW e \in Nat, Len(d) - e \in C, Len(d1) - e \in C1, EndAlike(d, d1, e)
  PROVE  \A x \in 0 .. e - 1 : Len(d) - x \in C <=> Len(d1) - x \in C1
<1> DEFINE L == Len(d)
           M == Len(d1)
           Alike(x) == L - x \in C <=> M - x \in C1
           S == {e - x : x \in {y \in 0 .. e - 1 : ~Alike(y)}}
<1>1. /\ L \in Nat /\ M \in Nat /\ C \subseteq 0 .. L /\ C1 \subseteq 0 .. M
      /\ L \in C /\ M \in C1 /\ e <= L /\ e <= M
      /\ CutLaw(d, C, L) /\ CutLaw(d1, C1, M)
      /\ \A k \in 0 .. e - 1 : d[L - k] = d1[M - k]
  BY DEF CutsOf, ByteStrings, EndAlike
<1> HIDE DEF L, M
<1> SUFFICES ASSUME S # {} PROVE FALSE
  <2>1. ASSUME NEW x \in 0 .. e - 1, ~Alike(x) PROVE S # {}
    BY <2>1
  <2> QED
    BY <2>1 DEF L, M
<1>2. S \subseteq Nat
  BY SMT
<1> HIDE DEF Alike
<1>3. PICK j \in S : \A i \in S : j <= i
  BY <1>2, LeastOf
<1>4. PICK x \in 0 .. e - 1 : ~Alike(x) /\ j = e - x
  BY <1>3
<1>5. \A y \in x + 1 .. e : Alike(y)
  <2> SUFFICES ASSUME NEW y \in x + 1 .. e PROVE Alike(y)
    OBVIOUS
  <2>1. CASE y = e
    BY <2>1 DEF Alike, L, M
  <2>2. CASE y # e
    <3>1. y \in 0 .. e - 1 /\ ~(e - x <= e - y)
      BY <2>2
    <3>2. ~Alike(y) => e - y \in S
      BY <3>1
    <3> QED
      BY <1>3, <1>4, <3>1, <3>2
  <2> QED
    BY <2>1, <2>2
<1>6. x # 0
  BY <1>1, <1>4 DEF Alike
<1> DEFINE u == L - x
           u1 == M - x
<1>7. /\ x \in Nat /\ 0 < x /\ x < e
      /\ u \in Nat /\ u < L /\ u1 \in Nat /\ u1 < M
      /\ L - e \in Nat /\ L - e < u
  BY <1>1, <1>6
<1>8. C \subseteq Nat /\ C1 \subseteq Nat
  BY <1>1
<1>9. PICK p \in C : p < u /\ L - e <= p /\ \A w \in C : w <= p \/ u <= w
  <2>1. L - e \in C
    BY DEF L
  <2> QED
    BY <1>7, <1>8, <2>1, GreatestBelow
<1> DEFINE p1 == M - (L - p)
<1>10. /\ p \in Nat /\ p1 \in Nat /\ L - p \in x + 1 .. e /\ p1 < u1 /\ u - p = u1 - p1
       /\ L - (L - p) = p
  <2>1. /\ L \in Nat /\ M \in Nat /\ e \in Nat /\ x \in Nat /\ p \in Nat
        /\ p < L - x /\ L - e <= p /\ e <= L /\ e <= M /\ 0 < x /\ x < e
    BY <1>1, <1>7, <1>8, <1>9
  <2> QED
    BY <2>1
<1>11. p1 \in C1
  BY <1>5, <1>10 DEF Alike
<1>12. ASSUME NEW w \in C1, p1 < w, w < u1 PROVE FALSE
  <2>1. w \in Nat /\ M - w \in x + 1 .. e /\ M - (M - w) = w
    <3>1. /\ L \in Nat /\ M \in Nat /\ e \in Nat /\ x \in Nat /\ p \in Nat /\ w \in Nat
          /\ L - e <= p /\ e <= L /\ e <= M /\ M - (L - p) < w /\ w < M - x
      BY <1>1, <1>7, <1>8, <1>9, <1>12
    <3> DEFINE k == M - w
    <3>2. k \in Int /\ M - k = w /\ x < k /\ k < L - p /\ L - p <= e
      BY <3>1
    <3> HIDE DEF k
    <3>3. k \in x + 1 .. e
      BY <3>1, <3>2
    <3> QED
      BY <3>1, <3>2, <3>3 DEF k
  <2>2. L - (M - w) \in C
    BY <1>5, <2>1 DEF Alike
  <2>3. p < L - (M - w) /\ L - (M - w) < L - x
    <3>1. /\ L \in Nat /\ M \in Nat /\ x \in Nat /\ p \in Nat /\ w \in Nat
          /\ M - (L - p) < w /\ w < M - x
      BY <1>1, <1>7, <1>10, <1>12, <2>1
    <3> DEFINE k == M - w
    <3>2. k \in Int /\ x < k /\ k < L - p
      BY <3>1
    <3> HIDE DEF k
    <3>3. p < L - k /\ L - k < L - x
      BY <3>1, <3>2
    <3> QED
      BY <3>3 DEF k
  <2>4. L - (M - w) <= p \/ L - x <= L - (M - w)
    BY <1>9, <2>2
  <2>5. L \in Int /\ M - w \in Int /\ p \in Int /\ x \in Int
    BY <1>1, <1>7, <1>10, <2>1
  <2> QED
    BY <2>3, <2>4, <2>5
<1>13. \A w \in C1 : w <= p1 \/ u1 <= w
  <2>1. \A w \in C1 : w \in Nat
    BY <1>8
  <2>2. p1 \in Nat /\ u1 \in Nat
    BY <1>7, <1>10
  <2> HIDE DEF p1, u1
  <2> QED
    BY <1>12, <2>1, <2>2
<1>14. u \in C <=> CutAt(d, p, u)
  <2>1. CutLaw(d, C, L) /\ p \in C /\ u \in Nat /\ p < u /\ u <= L /\ u < Len(d)
    BY <1>1, <1>7, <1>9 DEF L
  <2> HIDE DEF u
  <2> QED
    BY <1>9, <2>1 DEF CutLaw
<1>15. u1 \in C1 <=> CutAt(d1, p1, u1)
  <2>1. M \in Nat /\ u1 <= M /\ u1 < Len(d1)
    BY <1>1, <1>7 DEF M
  <2> HIDE DEF u1, p1
  <2> QED
    BY <1>1, <1>7, <1>10, <1>11, <1>13, <2>1 DEF CutLaw
<1>16. CutAt(d, p, u) <=> CutAt(d1, p1, u1)
  <2>1. ASSUME NEW i \in 0 .. (u - p) - 1 PROVE d[u - i] = d1[u1 - i]
    <3>1. x + i \in 0 .. e - 1 /\ L - (x + i) = u - i /\ M - (x + i) = u1 - i
      BY <1>1, <1>7, <1>9, <1>10
    <3>2. d[L - (x + i)] = d1[M - (x + i)]
      BY <1>1, <3>1
    <3> QED
      BY <3>1, <3>2
  <2> QED
    <3> HIDE DEF u, u1, p1
    <3> QED
      BY <1>7, <1>9, <1>10, <2>1, DecidedAlike
<1> QED
  BY <1>4, <1>14, <1>15, <1>16 DEF Alike

\* A file that begins has no cuts yet.
LEMMA StartCuts ==
  ASSUME NEW file, StartChunking(file),
         ckEarlier' # <<>> =>
           /\ ckEarlier'[1] \in ByteStrings /\ ckEarlier'[1] # <<>>
           /\ CutsOf(ckEarlier'[1], CutSet(ckEarlier'[2]))
           /\ EndAlike(ckData', ckEarlier'[1], CommonEnd(ckData', ckEarlier'[1]))
  PROVE  CutsInv'
<1>1. ckStep' = "read" /\ ckCuts' = <<>>
  BY DEF StartChunking
<1>2. CutSet(ckCuts') = {}
  BY <1>1 DEF CutSet
<1>3. CutLaw(ckData', CutSet(ckCuts'), ckPos')
  BY <1>2 DEF CutLaw
<1> QED
  BY <1>1, <1>2, <1>3 DEF CutsInv, CutLaw, CutsOf, EndAlike, CommonEnd, CutSet, CutAt, CutAfter,
     HashOf, XorOf, WordOf, FillWord, Seen, BitXor, RotateLeft, Boundary, MaskBits, Bits, ByteStrings

\* What does not touch the earlier version keeps what is known of it.
LEMMA EarlierKept ==
  ASSUME CutsInv, UNCHANGED <<ckData, ckEarlier>>,
         \A c \in CutSet(ckCuts') : c \in Nat /\ c <= ChunkStart',
         ckCuts' # <<>> => ChunkStart' \in CutSet(ckCuts'),
         CutLaw(ckData', CutSet(ckCuts'), ckPos'),
         ckStep' = "idle" => ckStep = "idle", ckStep' = "end" => ckPos' = Len(ckData')
  PROVE  CutsInv'
<1>1. ckEarlier' # <<>> =>
        /\ ckEarlier'[1] \in ByteStrings /\ ckEarlier'[1] # <<>>
        /\ CutsOf(ckEarlier'[1], CutSet(ckEarlier'[2]))
        /\ EndAlike(ckData', ckEarlier'[1], CommonEnd(ckData', ckEarlier'[1]))
  BY DEF CutsInv
<1>2. /\ CutLaw(ckData, CutSet(ckCuts), ckPos)' <=> CutLaw(ckData', CutSet(ckCuts'), ckPos')
      /\ CutSet(ckCuts)' = CutSet(ckCuts')
      /\ CutsOf(ckEarlier[1], CutSet(ckEarlier[2]))'
           <=> CutsOf(ckEarlier'[1], CutSet(ckEarlier'[2]))
  BY DEF CutLaw, CutsOf, CutSet, CutAt, CutAfter, HashOf, XorOf, WordOf, FillWord, Seen, BitXor,
     RotateLeft, Boundary, MaskBits, Bits
<1>3. /\ EndAlike(ckData, ckEarlier[1], CommonEnd(ckData, ckEarlier[1]))'
           <=> EndAlike(ckData', ckEarlier'[1], CommonEnd(ckData', ckEarlier'[1]))
      /\ ByteStrings' = ByteStrings
  BY DEF EndAlike, CommonEnd, ByteStrings
<1>4. ckStep' = "idle" => ckEarlier' = <<>>
  BY DEF CutsInv
<1> QED
  BY <1>1, <1>2, <1>3, <1>4 DEF CutsInv

\* One cut more.
LEMMA CutMore ==
  ASSUME ChunkerInv, CutsInv, NEW t \in Nat, ckCuts' = Append(ckCuts, t), ckPos <= t
  PROVE  /\ CutSet(ckCuts') = CutSet(ckCuts) \cup {t}
         /\ ckCuts' # <<>> /\ ChunkStart' = t
         /\ \A c \in CutSet(ckCuts') : c \in Nat /\ c <= t
<1>1. /\ \A i \in DOMAIN ckCuts : ckCuts'[i] = ckCuts[i]
      /\ DOMAIN ckCuts' = DOMAIN ckCuts \cup {Len(ckCuts) + 1}
      /\ ckCuts'[Len(ckCuts) + 1] = t /\ ChunkStart' = t
  BY CutSizes
<1>2. ckCuts' # <<>>
  BY <1>1
<1>3. CutSet(ckCuts') = CutSet(ckCuts) \cup {t}
  BY <1>1 DEF CutSet
<1>4. ASSUME NEW c \in CutSet(ckCuts') PROVE c \in Nat /\ c <= t
  <2>1. ChunkStart \in Nat /\ ChunkStart <= ckPos /\ ckPos \in Nat
    BY StartBounds
  <2>2. c \in CutSet(ckCuts) => c \in Nat /\ c <= ChunkStart
    BY DEF CutsInv
  <2> QED
    BY <1>3, <2>1, <2>2
<1> QED
  BY <1>1, <1>2, <1>3, <1>4

LEMMA ReadCuts ==
  ASSUME ChunkerInv, HashInv, CutsInv, ReadByte
  PROVE  CutsInv'
<1> DEFINE t == ckPos + 1
           C == CutSet(ckCuts)
           hash == Slide(ckData[ckPos + 1])
<1>1. /\ ckStep = "read" /\ ckPos < Len(ckData) /\ ckPos' = t
      /\ UNCHANGED <<ckStep, ckData, ckEarlier>>
  BY DEF ReadByte
<1>2. /\ ChunkStart \in Nat /\ ChunkStart <= ckPos /\ ckPos \in Nat /\ t \in Nat
      /\ Len(ckData) \in Nat
  BY StartBounds DEF ChunkerInv, ByteStrings
<1>3. hash = HashOf(ckData, ChunkStart, t)
  BY <1>1, SlideMore
<1>4. \A c \in C : c \in Nat /\ c <= ChunkStart
  BY DEF CutsInv
<1>5. C # {} => ChunkStart \in C
  <2>1. ckCuts = <<>> => C = {}
    BY DEF CutSet
  <2> QED
    BY <2>1 DEF CutsInv
<1>6. CutLaw(ckData, C, ckPos)
  BY DEF CutsInv
<1> HIDE DEF hash, C
<1>7. ASSUME NEW B, B \in {C, C \cup {t}}, t \in B <=> CutAt(ckData, ChunkStart, t)
      PROVE  CutLaw(ckData, B, t)
  <2> SUFFICES ASSUME NEW s \in B, NEW u \in Nat,
                      s < u, u <= t, u < Len(ckData), \A v \in B : v <= s \/ u <= v
               PROVE  u \in B <=> CutAt(ckData, s, u)
    BY DEF CutLaw
  <2>1. s \in C /\ s \in Nat /\ s <= ChunkStart
    BY <1>2, <1>4, <1>7
  <2>2. \A v \in C : v <= s \/ u <= v
    BY <1>7
  <2>3. CASE u <= ckPos
    <3>1. u \in C <=> CutAt(ckData, s, u)
      BY <1>6, <2>1, <2>2, <2>3 DEF CutLaw
    <3>2. u # t
      BY <1>2, <2>3
    <3> QED
      BY <1>7, <3>1, <3>2
  <2>4. CASE ~(u <= ckPos)
    <3>1. u = t
      BY <1>2, <2>4
    <3>2. ChunkStart <= s
      BY <1>2, <1>5, <2>1, <2>2, <2>4
    <3>3. s = ChunkStart
      BY <1>2, <2>1, <3>2
    <3> QED
      BY <1>7, <3>1, <3>3
  <2> QED
    BY <2>3, <2>4
<1>8. t \notin C
  BY <1>2, <1>4
<1>9. CASE CutAfter(ckPos' - ChunkStart, hash)
  <2>1. ckCuts' = Append(ckCuts, t)
    BY <1>1, <1>9 DEF ReadByte, hash
  <2>2. /\ CutSet(ckCuts') = C \cup {t}
        /\ ckCuts' # <<>> /\ ChunkStart' = t
        /\ \A c \in CutSet(ckCuts') : c \in Nat /\ c <= t
    <3>1. ckPos <= t
      BY <1>2
    <3> QED
      BY <1>2, <2>1, <3>1, CutMore DEF C
  <2>3. CutAt(ckData, ChunkStart, t)
    BY <1>1, <1>3, <1>9 DEF CutAt
  <2>4. CutLaw(ckData, C \cup {t}, t)
    BY <1>7, <2>3
  <2> QED
    BY <1>1, <2>2, <2>4, EarlierKept
<1>10. CASE ~CutAfter(ckPos' - ChunkStart, hash)
  <2>1. UNCHANGED ckCuts
    BY <1>10 DEF ReadByte, hash
  <2>2. ChunkStart' = ChunkStart /\ CutSet(ckCuts') = C
    BY <2>1 DEF ChunkStart, C
  <2>3. ~CutAt(ckData, ChunkStart, t)
    BY <1>1, <1>3, <1>10 DEF CutAt
  <2>4. CutLaw(ckData, C, t)
    BY <1>7, <1>8, <2>3
  <2>5. ckCuts # <<>> => ChunkStart \in C
    BY DEF CutsInv, C
  <2> QED
    BY <1>1, <1>4, <2>1, <2>2, <2>4, <2>5, EarlierKept
<1> QED
  BY <1>9, <1>10

LEMMA EndCuts ==
  ASSUME ChunkerInv, CutsInv, EndFile
  PROVE  CutsInv'
<1> DEFINE C == CutSet(ckCuts)
           t == Len(ckData)
<1>1. /\ ckPos = Len(ckData) /\ ckStep' = "end" /\ UNCHANGED <<ckData, ckPos, ckEarlier>>
  BY DEF EndFile
<1>2. t \in Nat /\ ckPos <= t
  BY <1>1 DEF ChunkerInv, ByteStrings
<1>3. /\ \A c \in C : c \in Nat /\ c <= ChunkStart
      /\ ckCuts # <<>> => ChunkStart \in C
      /\ CutLaw(ckData, C, ckPos)
  BY DEF CutsInv
<1> HIDE DEF C
<1>4. CASE ChunkStart < Len(ckData)
  <2>1. ckCuts' = Append(ckCuts, t)
    BY <1>4 DEF EndFile
  <2>2. /\ CutSet(ckCuts') = C \cup {t}
        /\ ckCuts' # <<>> /\ ChunkStart' = t
        /\ \A c \in CutSet(ckCuts') : c \in Nat /\ c <= t
    BY <1>2, <2>1, CutMore DEF C
  <2>3. CutLaw(ckData, C \cup {t}, ckPos)
    <3> SUFFICES ASSUME NEW s \in C \cup {t}, NEW u \in Nat,
                        s < u, u <= ckPos, u < Len(ckData),
                        \A v \in C \cup {t} : v <= s \/ u <= v
                 PROVE  u \in C \cup {t} <=> CutAt(ckData, s, u)
      BY DEF CutLaw
    <3>1. s \in C /\ u # t
      BY <1>2
    <3>2. u \in C <=> CutAt(ckData, s, u)
      BY <1>3, <3>1 DEF CutLaw
    <3> QED
      BY <3>1, <3>2
  <2> QED
    BY <1>1, <2>2, <2>3, EarlierKept
<1>5. CASE ~(ChunkStart < Len(ckData))
  <2>1. UNCHANGED ckCuts
    BY <1>5 DEF EndFile
  <2>2. ChunkStart' = ChunkStart /\ CutSet(ckCuts') = C
    BY <2>1 DEF ChunkStart, C
  <2> QED
    BY <1>1, <1>3, <2>1, <2>2, EarlierKept
<1> QED
  BY <1>4, <1>5

\* What has been chunked to its end.
LEMMA CutToEnd ==
  ASSUME ChunkerInv, CutsInv, ckStep = "end"
  PROVE  CutsOf(ckData, CutSet(ckCuts))
<1>1. /\ ckPos = Len(ckData) /\ ChunkStart = Len(ckData) /\ Len(ckData) \in Nat
      /\ CutLaw(ckData, CutSet(ckCuts), ckPos)
      /\ \A c \in CutSet(ckCuts) : c \in Nat /\ c <= ChunkStart
      /\ ckCuts # <<>> => ChunkStart \in CutSet(ckCuts)
  BY DEF ChunkerInv, CutsInv, ByteStrings
<1>2. ckCuts = <<>> => CutSet(ckCuts) = {}
  BY DEF CutSet
<1> QED
  BY <1>1, <1>2 DEF CutsOf

\* The changes of a file in front leave its end alike.
LEMMA ChangedInFront ==
  ASSUME NEW d \in ByteStrings, d # <<>>, NEW b \in DOMAIN ByteWord,
         NEW e \in {Tail(d), <<b>> \o d, <<b>> \o Tail(d)}
  PROVE  EndAlike(e, d, CommonEnd(e, d))
<1>1. Len(d) \in Nat /\ 0 < Len(d) /\ d \in Seq(DOMAIN ByteWord)
  BY DEF ByteStrings
<1>2. /\ Tail(d) \in Seq(DOMAIN ByteWord) /\ Len(Tail(d)) = Len(d) - 1
      /\ \A i \in 1 .. Len(d) - 1 : Tail(d)[i] = d[i + 1]
  BY <1>1, HeadTailProperties
<1>3. \A s \in Seq(DOMAIN ByteWord) :
        /\ Len(<<b>> \o s) = Len(s) + 1
        /\ \A i \in 2 .. Len(s) + 1 : (<<b>> \o s)[i] = s[i - 1]
  <2> SUFFICES ASSUME NEW s \in Seq(DOMAIN ByteWord)
               PROVE  /\ Len(<<b>> \o s) = Len(s) + 1
                      /\ \A i \in 2 .. Len(s) + 1 : (<<b>> \o s)[i] = s[i - 1]
    OBVIOUS
  <2>1. <<b>> \in Seq(DOMAIN ByteWord) /\ Len(<<b>>) = 1 /\ Len(s) \in Nat
    OBVIOUS
  <2> QED
    BY <2>1, ConcatProperties
<1>4. CASE e = Tail(d)
  <2>1. ASSUME NEW k \in 0 .. CommonEnd(e, d) - 1
        PROVE  e[Len(e) - k] = d[Len(d) - k]
    <3>1. Len(e) - k \in 1 .. Len(d) - 1 /\ Len(e) - k + 1 = Len(d) - k
      BY <1>1, <1>2, <1>4 DEF CommonEnd
    <3> QED
      BY <1>2, <1>4, <3>1
  <2> QED
    BY <2>1 DEF EndAlike
<1>5. CASE e = <<b>> \o d
  <2>1. Len(e) = Len(d) + 1 /\ \A i \in 2 .. Len(d) + 1 : e[i] = d[i - 1]
    BY <1>1, <1>3, <1>5
  <2>2. ASSUME NEW k \in 0 .. CommonEnd(e, d) - 1
        PROVE  e[Len(e) - k] = d[Len(d) - k]
    <3>1. Len(e) - k \in 2 .. Len(d) + 1 /\ Len(e) - k - 1 = Len(d) - k
      BY <1>1, <2>1 DEF CommonEnd
    <3> QED
      BY <2>1, <3>1
  <2> QED
    BY <2>2 DEF EndAlike
<1>6. CASE e = <<b>> \o Tail(d)
  <2>1. Len(e) = Len(d) /\ \A i \in 2 .. Len(d) : e[i] = Tail(d)[i - 1]
    BY <1>1, <1>2, <1>3, <1>6
  <2>2. ASSUME NEW k \in 0 .. CommonEnd(e, d) - 1
        PROVE  e[Len(e) - k] = d[Len(d) - k]
    <3>1. /\ Len(e) - k \in 2 .. Len(d) /\ Len(e) - k - 1 \in 1 .. Len(d) - 1
          /\ Len(e) - k - 1 + 1 = Len(d) - k
      BY <1>1, <2>1 DEF CommonEnd
    <3> QED
      BY <1>2, <2>1, <3>1
  <2> QED
    BY <2>2 DEF EndAlike
<1> QED
  BY <1>4, <1>5, <1>6

LEMMA VersionCuts ==
  ASSUME ChunkerInv, CutsInv, NextVersion
  PROVE  CutsInv'
<1>1. /\ ckStep = "end" /\ ckData # <<>> /\ ckData \in ByteStrings
      /\ ckEarlier' = <<ckData, ckCuts>>
  BY DEF NextVersion, ChunkerInv
<1>2. PICK b \in DOMAIN ByteWord :
        \E e \in {Tail(ckData), <<b>> \o ckData, <<b>> \o Tail(ckData)} : StartChunking(e)
  BY ChunkerAssumption DEF NextVersion
<1> PICK e \in {Tail(ckData), <<b>> \o ckData, <<b>> \o Tail(ckData)} : StartChunking(e)
  BY <1>2
<1>3. ckData' = e
  BY DEF StartChunking
<1>4. EndAlike(e, ckData, CommonEnd(e, ckData))
  BY <1>1, ChangedInFront
<1>5. CutsOf(ckData, CutSet(ckCuts))
  BY <1>1, CutToEnd
<1> QED
  BY <1>1, <1>3, <1>4, <1>5, StartCuts

LEMMA NextCuts ==
  ChunkerInv /\ HashInv /\ CutsInv /\ [ChunkerNext]_chunkerVars => CutsInv'
<1> SUFFICES ASSUME ChunkerInv, HashInv, CutsInv, [ChunkerNext]_chunkerVars
             PROVE  CutsInv'
  OBVIOUS
<1>1. CASE StartFile
  <2>1. PICK file : StartChunking(file)
    BY <1>1 DEF StartFile
  <2>2. ckEarlier' = <<>>
    BY <1>1 DEF StartFile, CutsInv
  <2> QED
    BY <2>1, <2>2, StartCuts
<1>2. CASE UNCHANGED chunkerVars
  <2>1. UNCHANGED <<ckStep, ckData, ckPos, ckCuts, ckEarlier>> /\ ChunkStart' = ChunkStart
    BY <1>2 DEF chunkerVars, ChunkStart
  <2>2. /\ \A c \in CutSet(ckCuts) : c \in Nat /\ c <= ChunkStart
        /\ ckCuts # <<>> => ChunkStart \in CutSet(ckCuts)
        /\ CutLaw(ckData, CutSet(ckCuts), ckPos)
        /\ ckStep = "end" => ckPos = Len(ckData)
    BY DEF CutsInv
  <2> QED
    BY <2>1, <2>2, EarlierKept
<1> QED
  BY <1>1, <1>2, ReadCuts, EndCuts, VersionCuts DEF ChunkerNext

LEMMA InitCuts == ChunkerInit => CutsInv
<1> SUFFICES ASSUME ChunkerInit PROVE CutsInv
  OBVIOUS
<1>1. ckCuts = <<>> /\ ckStep = "idle" /\ ckEarlier = <<>>
  BY DEF ChunkerInit
<1>2. CutSet(ckCuts) = {}
  BY <1>1 DEF CutSet
<1> QED
  BY <1>1, <1>2 DEF CutsInv, CutLaw

LEMMA CutsFollow == ChunkerInv /\ CutsInv => CutsMeetAgain
<1> SUFFICES ASSUME ChunkerInv, CutsInv, ckStep = "end", ckEarlier # <<>>
             PROVE  CutsMeetAgain
  BY DEF CutsMeetAgain
<1> DEFINE d == ckEarlier[1]
           C == CutSet(ckCuts)
           B == CutSet(ckEarlier[2])
           now == FromEnd(ckData, ckCuts)
           before == FromEnd(d, ckEarlier[2])
           common == CommonEnd(ckData, d)
<1>1. /\ ckData \in ByteStrings /\ d \in ByteStrings /\ d # <<>>
      /\ CutsOf(ckData, C) /\ CutsOf(d, B) /\ EndAlike(ckData, d, common)
  BY CutToEnd DEF CutsInv, ChunkerInv
<1>2. Len(ckData) \in Nat /\ Len(d) \in Nat /\ C \subseteq 0 .. Len(ckData) /\ B \subseteq 0 .. Len(d)
  BY <1>1 DEF ByteStrings, CutsOf
<1>3. now = {Len(ckData) - c : c \in C} /\ before = {Len(d) - c : c \in B}
  BY DEF FromEnd, CutSet
<1> HIDE DEF d, C, B, now, before
<1>4. ASSUME NEW x PROVE /\ x \in now <=> x \in 0 .. Len(ckData) /\ Len(ckData) - x \in C
                         /\ x \in before <=> x \in 0 .. Len(d) /\ Len(d) - x \in B
  <2>1. \A c \in C : Len(ckData) - c \in 0 .. Len(ckData) /\ Len(ckData) - (Len(ckData) - c) = c
    BY <1>2
  <2>2. \A c \in B : Len(d) - c \in 0 .. Len(d) /\ Len(d) - (Len(d) - c) = c
    BY <1>2
  <2>3. ASSUME x \in 0 .. Len(ckData) PROVE Len(ckData) - (Len(ckData) - x) = x
    BY <1>2, <2>3
  <2>4. ASSUME x \in 0 .. Len(d) PROVE Len(d) - (Len(d) - x) = x
    BY <1>2, <2>4
  <2> QED
    BY <1>3, <2>1, <2>2, <2>3, <2>4
<1>5. ASSUME NEW e \in now \cap before, e <= common
      PROVE  {x \in now : x < e} = {x \in before : x < e}
  <2>1. /\ e \in Nat /\ e <= Len(ckData) /\ e <= Len(d)
        /\ Len(ckData) - e \in C /\ Len(d) - e \in B
    BY <1>2, <1>4
  <2>2. common \in Int /\ (\A k \in 0 .. e - 1 : k \in 0 .. common - 1)
    BY <1>2, <1>5, <2>1 DEF CommonEnd
  <2>3. EndAlike(ckData, d, e)
    BY <1>1, <2>2 DEF EndAlike
  <2>4. \A x \in 0 .. e - 1 : Len(ckData) - x \in C <=> Len(d) - x \in B
    BY <1>1, <2>1, <2>3, CutAlike
  <2>5. ASSUME NEW x, x < e PROVE x \in now <=> x \in before
    <3>1. \/ x \in now \/ x \in before
          => x \in 0 .. e - 1 /\ x \in 0 .. Len(ckData) /\ x \in 0 .. Len(d)
      BY <1>2, <1>4, <2>1, <2>5
    <3> QED
      BY <1>4, <2>4, <3>1
  <2> QED
    BY <2>5
<1> QED
  BY <1>5 DEF CutsMeetAgain, d, now, before, CommonEnd

\* Whatever the file, and whatever the table: two versions of it that end alike
\* and are both cut at one place of that end are cut alike from there on.
THEOREM CutsAlwaysMeetAgain == ChunkerSpec => []CutsMeetAgain
  BY InitChunker, NextChunker, InitHash, NextHash, InitCuts, NextCuts, CutsFollow, PTL
  DEF ChunkerSpec

-----------------------------------------------------------------------------
\* Retention.

\* The keys of the days, as the walk counts them.
DayKeys == [d \in RetentionDays |-> DayKey(d)]
WeekKeys == [d \in RetentionDays |-> WeekKey(d)]
MonthKeys == [d \in RetentionDays |-> MonthKey(d)]

\* The snapshots of a key the walk has been at, and those of i's that are newer.
Passed(K, k) == {j \in DOMAIN rtDays : rtAt < j /\ K[rtDays[j]] = k}
Newer(K, i) == {j \in DOMAIN rtDays : i < j /\ K[rtDays[j]] = K[rtDays[i]]}

\* A count is how many snapshots of its key have passed, and stops where no more
\* are kept.
Counts(counts, K, keep) ==
  \A d \in RetentionDays :
    LET passed == Cardinality(Passed(K, K[d]))
    IN  CountOf(counts, K[d]) = IF passed < keep THEN passed ELSE keep

AskedFor(i) ==
  \/ Cardinality(Newer(DayKeys, i)) < rtPolicy.keep_daily
  \/ Cardinality(Newer(WeekKeys, i)) < rtPolicy.keep_weekly
  \/ Cardinality(Newer(MonthKeys, i)) < rtPolicy.keep_monthly

Walking ==
  /\ rtPolicy \in Policies /\ rtPolicy # NoPolicy
  /\ rtDays # <<>> /\ rtAt \in 0 .. Len(rtDays)
  /\ Counts(daily_counts, DayKeys, rtPolicy.keep_daily)
  /\ Counts(weekly_counts, WeekKeys, rtPolicy.keep_weekly)
  /\ Counts(monthly_counts, MonthKeys, rtPolicy.keep_monthly)
  /\ rtKeep = {i \in DOMAIN rtDays : rtAt < i /\ AskedFor(i)}

RetentionInv ==
  /\ rtDays \in Seq(RetentionDays)
  /\ rtStep \in {"idle", "walk"}
  /\ rtStep = "walk" => Walking

LEMMA InitRetention == RetentionInit => RetentionInv
  BY DEF RetentionInit, RetentionInv

LEMMA SubsetOfDays ==
  ASSUME rtDays \in Seq(RetentionDays), NEW S \in SUBSET DOMAIN rtDays
  PROVE  IsFiniteSet(S) /\ Cardinality(S) \in Nat
<1>1. DOMAIN rtDays = 1 .. Len(rtDays) /\ Len(rtDays) \in Nat
  OBVIOUS
<1>2. IsFiniteSet(DOMAIN rtDays)
  BY <1>1, FS_Interval
<1> QED
  BY <1>2, FS_Subset, FS_CardinalityType

\* One turn of the loop counts its snapshot, under one key.
LEMMA CountedOnce ==
  ASSUME NEW K \in {DayKeys, WeekKeys, MonthKeys}, NEW counts, NEW after, NEW keep \in Nat,
         rtDays \in Seq(RetentionDays), rtAt \in 1 .. Len(rtDays),
         UNCHANGED rtDays, rtAt' = rtAt - 1,
         Counts(counts, K, keep), after = Counted(counts, K[rtDays[rtAt]], keep)
  PROVE  /\ \A d \in RetentionDays :
              LET passed == Cardinality(Passed(K, K[d])')
              IN  CountOf(after, K[d]) = IF passed < keep THEN passed ELSE keep
         /\ Under(counts, K[rtDays[rtAt]], keep) <=> Cardinality(Newer(K, rtAt)) < keep
<1> DEFINE e == rtDays[rtAt]
<1>1. e \in RetentionDays /\ rtAt \in DOMAIN rtDays
  OBVIOUS
<1>2. Newer(K, rtAt) = Passed(K, K[e])
  BY DEF Newer, Passed
<1>3. Under(counts, K[e], keep) <=> Cardinality(Newer(K, rtAt)) < keep
  <2>1. Cardinality(Passed(K, K[e])) \in Nat
    BY SubsetOfDays DEF Passed
  <2> QED
    BY <1>1, <1>2, <2>1 DEF Counts, Under
<1>4. ASSUME NEW d \in RetentionDays
      PROVE  LET passed == Cardinality(Passed(K, K[d])')
             IN  CountOf(after, K[d]) = IF passed < keep THEN passed ELSE keep
  <2>1. /\ IsFiniteSet(Passed(K, K[d])) /\ Cardinality(Passed(K, K[d])) \in Nat
        /\ CountOf(counts, K[d]) = IF Cardinality(Passed(K, K[d])) < keep
                                   THEN Cardinality(Passed(K, K[d])) ELSE keep
    BY SubsetOfDays DEF Passed, Counts
  <2>2. CASE K[d] = K[e]
    <3>1. Passed(K, K[d])' = Passed(K, K[d]) \cup {rtAt} /\ rtAt \notin Passed(K, K[d])
      BY <1>1, <2>2 DEF Passed
    <3>2. Cardinality(Passed(K, K[d])') = Cardinality(Passed(K, K[d])) + 1
      BY <2>1, <3>1, FS_AddElement
    <3>3. CountOf(after, K[d]) = IF CountOf(counts, K[d]) < keep THEN CountOf(counts, K[d]) + 1
                                 ELSE CountOf(counts, K[d])
      BY <2>2 DEF CountOf, Counted
    <3> QED
      BY <2>1, <3>2, <3>3
  <2>3. CASE K[d] # K[e]
    <3>1. Passed(K, K[d])' = Passed(K, K[d])
      BY <1>1, <2>3 DEF Passed
    <3>2. CountOf(after, K[d]) = CountOf(counts, K[d])
      BY <2>3 DEF CountOf, Counted
    <3> QED
      BY <2>1, <3>1, <3>2
  <2> QED
    BY <2>2, <2>3
<1> QED
  BY <1>3, <1>4

LEMMA WalkStep == ASSUME RetentionInv, WalkOne PROVE RetentionInv'
<1> USE DEF RetentionInv, Walking, WalkOne
<1>1. /\ rtDays \in Seq(RetentionDays) /\ rtAt \in 1 .. Len(rtDays) /\ rtAt \in DOMAIN rtDays
      /\ rtDays[rtAt] \in RetentionDays /\ Current = rtAt
      /\ UNCHANGED <<rtDays, rtPolicy, rtStep>> /\ rtAt' = rtAt - 1
      /\ rtPolicy.keep_daily \in Nat /\ rtPolicy.keep_weekly \in Nat /\ rtPolicy.keep_monthly \in Nat
  BY RetentionAssumption DEF Current
<1>2. /\ DayKeys[rtDays[rtAt]] = DayKey(rtDays[rtAt])
      /\ WeekKeys[rtDays[rtAt]] = WeekKey(rtDays[rtAt])
      /\ MonthKeys[rtDays[rtAt]] = MonthKey(rtDays[rtAt])
  BY <1>1 DEF DayKeys, WeekKeys, MonthKeys
<1>3. /\ Counts(daily_counts, DayKeys, rtPolicy.keep_daily)'
      /\ Under(daily_counts, DayKey(rtDays[rtAt]), rtPolicy.keep_daily)
           <=> Cardinality(Newer(DayKeys, rtAt)) < rtPolicy.keep_daily
  <2>1. daily_counts' = Counted(daily_counts, DayKeys[rtDays[rtAt]], rtPolicy.keep_daily)
    BY <1>1, <1>2
  <2>2. Counts(daily_counts, DayKeys, rtPolicy.keep_daily)
    OBVIOUS
  <2> HIDE DEF RetentionInv, Walking, WalkOne
  <2>3. /\ \A d \in RetentionDays :
              LET passed == Cardinality(Passed(DayKeys, DayKeys[d])')
              IN  CountOf(daily_counts', DayKeys[d]) =
                    IF passed < rtPolicy.keep_daily THEN passed ELSE rtPolicy.keep_daily
        /\ Under(daily_counts, DayKeys[rtDays[rtAt]], rtPolicy.keep_daily)
             <=> Cardinality(Newer(DayKeys, rtAt)) < rtPolicy.keep_daily
    BY <1>1, <2>1, <2>2, CountedOnce
  <2> QED
    BY <1>1, <1>2, <2>3 DEF Counts
<1>4. /\ Counts(weekly_counts, WeekKeys, rtPolicy.keep_weekly)'
      /\ Under(weekly_counts, WeekKey(rtDays[rtAt]), rtPolicy.keep_weekly)
           <=> Cardinality(Newer(WeekKeys, rtAt)) < rtPolicy.keep_weekly
  <2>1. weekly_counts' = Counted(weekly_counts, WeekKeys[rtDays[rtAt]], rtPolicy.keep_weekly)
    BY <1>1, <1>2
  <2>2. Counts(weekly_counts, WeekKeys, rtPolicy.keep_weekly)
    OBVIOUS
  <2> HIDE DEF RetentionInv, Walking, WalkOne
  <2>3. /\ \A d \in RetentionDays :
              LET passed == Cardinality(Passed(WeekKeys, WeekKeys[d])')
              IN  CountOf(weekly_counts', WeekKeys[d]) =
                    IF passed < rtPolicy.keep_weekly THEN passed ELSE rtPolicy.keep_weekly
        /\ Under(weekly_counts, WeekKeys[rtDays[rtAt]], rtPolicy.keep_weekly)
             <=> Cardinality(Newer(WeekKeys, rtAt)) < rtPolicy.keep_weekly
    BY <1>1, <2>1, <2>2, CountedOnce
  <2> QED
    BY <1>1, <1>2, <2>3 DEF Counts
<1>5. /\ Counts(monthly_counts, MonthKeys, rtPolicy.keep_monthly)'
      /\ Under(monthly_counts, MonthKey(rtDays[rtAt]), rtPolicy.keep_monthly)
           <=> Cardinality(Newer(MonthKeys, rtAt)) < rtPolicy.keep_monthly
  <2>1. monthly_counts' = Counted(monthly_counts, MonthKeys[rtDays[rtAt]], rtPolicy.keep_monthly)
    BY <1>1, <1>2
  <2>2. Counts(monthly_counts, MonthKeys, rtPolicy.keep_monthly)
    OBVIOUS
  <2> HIDE DEF RetentionInv, Walking, WalkOne
  <2>3. /\ \A d \in RetentionDays :
              LET passed == Cardinality(Passed(MonthKeys, MonthKeys[d])')
              IN  CountOf(monthly_counts', MonthKeys[d]) =
                    IF passed < rtPolicy.keep_monthly THEN passed ELSE rtPolicy.keep_monthly
        /\ Under(monthly_counts, MonthKeys[rtDays[rtAt]], rtPolicy.keep_monthly)
             <=> Cardinality(Newer(MonthKeys, rtAt)) < rtPolicy.keep_monthly
    BY <1>1, <2>1, <2>2, CountedOnce
  <2> QED
    BY <1>1, <1>2, <2>3 DEF Counts
<1>6. Keeps(rtDays[rtAt]) <=> AskedFor(rtAt)
  BY <1>3, <1>4, <1>5 DEF Keeps, AskedFor
<1>7. \A i : AskedFor(i)' <=> AskedFor(i)
  BY <1>1 DEF AskedFor, Newer
<1>8. rtKeep' = {i \in DOMAIN rtDays' : rtAt' < i /\ AskedFor(i)'}
  <2>1. rtKeep' = IF AskedFor(rtAt) THEN rtKeep \cup {rtAt} ELSE rtKeep
    BY <1>1, <1>6
  <2>2. \A i \in DOMAIN rtDays : rtAt' < i <=> rtAt < i \/ i = rtAt
    BY <1>1
  <2> QED
    BY <1>1, <1>7, <2>1, <2>2
<1> QED
  BY <1>1, <1>3, <1>4, <1>5, <1>8

LEMMA StartStep == ASSUME RetentionInv, StartPrune PROVE RetentionInv'
<1> USE DEF RetentionInv, StartPrune
<1>1. rtAt' \in 0 .. Len(rtDays') /\ rtDays' = rtDays /\ rtDays \in Seq(RetentionDays)
  OBVIOUS
<1>2. \A K, k : Passed(K, k)' = {}
  BY <1>1 DEF Passed
<1>3. ASSUME NEW K, NEW keep \in Nat
      PROVE  \A d \in RetentionDays :
               CountOf(NoCounts, K[d]) = IF 0 < keep THEN 0 ELSE keep
  BY DEF CountOf, NoCounts
<1>4. Cardinality({}) = 0
  BY FS_EmptySet
<1>5. /\ rtPolicy'.keep_daily \in Nat /\ rtPolicy'.keep_weekly \in Nat
      /\ rtPolicy'.keep_monthly \in Nat
  BY RetentionAssumption
<1>6. /\ Counts(daily_counts, DayKeys, rtPolicy.keep_daily)'
      /\ Counts(weekly_counts, WeekKeys, rtPolicy.keep_weekly)'
      /\ Counts(monthly_counts, MonthKeys, rtPolicy.keep_monthly)'
  BY <1>2, <1>3, <1>4, <1>5 DEF Counts
<1>7. rtKeep' = {i \in DOMAIN rtDays' : rtAt' < i /\ AskedFor(i)'}
  BY <1>1
<1> QED
  BY <1>1, <1>6, <1>7 DEF Walking

LEMMA DeleteStep == ASSUME RetentionInv, DeleteRest PROVE RetentionInv'
<1> USE DEF RetentionInv, DeleteRest
<1>1. rtKeep \subseteq DOMAIN rtDays /\ Cardinality(rtKeep) \in Nat
  BY SubsetOfDays DEF Walking
<1>2. PICK kept \in [1..Cardinality(rtKeep) -> rtKeep] :
        rtDays' = [n \in DOMAIN kept |-> rtDays[kept[n]]]
  OBVIOUS
<1>3. rtDays' = [n \in 1 .. Cardinality(rtKeep) |-> rtDays[kept[n]]]
      /\ \A n \in 1 .. Cardinality(rtKeep) : rtDays[kept[n]] \in RetentionDays
  <2>1. \A i \in rtKeep : rtDays[i] \in RetentionDays
    BY <1>1
  <2> QED
    BY <1>2, <2>1
<1>4. rtDays' \in Seq(RetentionDays)
  BY <1>1, <1>3
<1> QED
  BY <1>4

LEMMA NextRetention == RetentionInv /\ [RetentionNext]_retentionVars => RetentionInv'
<1> SUFFICES ASSUME RetentionInv, [RetentionNext]_retentionVars PROVE RetentionInv'
  OBVIOUS
<1>1. CASE TakeSnapshot
  BY <1>1 DEF TakeSnapshot, RetentionInv
<1>2. CASE UNCHANGED retentionVars
  <2>1. UNCHANGED <<rtDays, rtStep, rtPolicy, rtAt, daily_counts, weekly_counts, monthly_counts, rtKeep>>
    BY <1>2 DEF retentionVars, countsVars
  <2>2. \A K, k : Passed(K, k)' = Passed(K, k) /\ \A i : AskedFor(i)' = AskedFor(i)
    BY <2>1 DEF Passed, AskedFor, Newer
  <2> QED
    BY <2>1, <2>2 DEF RetentionInv, Walking, Counts
<1> QED
  BY <1>1, <1>2, WalkStep, StartStep, DeleteStep DEF RetentionNext

\* What a finished walk keeps is what the rules ask for.
LEMMA KeptAsked ==
  ASSUME RetentionInv, WalkDone
  PROVE  /\ rtDays \in Seq(RetentionDays) /\ rtDays # <<>>
         /\ rtKeep = {i \in DOMAIN rtDays : AskedFor(i)}
         /\ rtPolicy # NoPolicy
         /\ rtPolicy \in [keep_daily : Nat, keep_weekly : Nat, keep_monthly : Nat]
  BY RetentionAssumption DEF RetentionInv, WalkDone, Walking

\* A prune keeps the newest snapshots of every day, month and week, and the newest of all.
THEOREM AlwaysNewestOfPeriodsKept == RetentionSpec => []NewestOfPeriodsKept
<1>1. RetentionInv => NewestOfPeriodsKept
  <2> SUFFICES ASSUME RetentionInv, WalkDone PROVE NewestOfPeriodsKept
    BY DEF NewestOfPeriodsKept
  <2> USE KeptAsked
  <2>1. Len(rtDays) \in rtKeep
    <3>1. Len(rtDays) \in DOMAIN rtDays
      OBVIOUS
    <3>2. \A K : Newer(K, Len(rtDays)) = {}
      BY DEF Newer
    <3>3. Cardinality({}) = 0
      BY FS_EmptySet
    <3>4. rtPolicy.keep_daily > 0 \/ rtPolicy.keep_weekly > 0 \/ rtPolicy.keep_monthly > 0
      BY DEF NoPolicy
    <3> QED
      BY <3>1, <3>2, <3>3, <3>4 DEF AskedFor
  <2>2. ASSUME NEW d \in RetentionDays
        PROVE  NewestOf({i \in DOMAIN rtDays : rtDays[i] = d}, rtPolicy.keep_daily) \subseteq rtKeep
    <3> DEFINE S == {i \in DOMAIN rtDays : rtDays[i] = d}
    <3>1. ASSUME NEW i \in S PROVE Newer(DayKeys, i) = {j \in S : i < j}
      BY DEF Newer, DayKeys, DayKey
    <3> QED
      BY <3>1 DEF NewestOf, AskedFor
  <2>3. ASSUME NEW d \in RetentionDays
        PROVE  NewestOf({i \in DOMAIN rtDays : MonthKey(rtDays[i]) = MonthKey(d)},
                        rtPolicy.keep_monthly) \subseteq rtKeep
    <3> DEFINE S == {i \in DOMAIN rtDays : MonthKey(rtDays[i]) = MonthKey(d)}
    <3>1. ASSUME NEW i \in S PROVE Newer(MonthKeys, i) = {j \in S : i < j}
      BY DEF Newer, MonthKeys
    <3> QED
      BY <3>1 DEF NewestOf, AskedFor
  <2>4. ASSUME NEW d \in RetentionDays, ~KeyShared(WeekOf[d])
        PROVE  NewestOf({i \in DOMAIN rtDays : WeekOf[rtDays[i]] = WeekOf[d]},
                        rtPolicy.keep_weekly) \subseteq rtKeep
    <3> DEFINE S == {i \in DOMAIN rtDays : WeekOf[rtDays[i]] = WeekOf[d]}
    <3>1. ASSUME NEW i \in S, Cardinality({j \in S : i < j}) < rtPolicy.keep_weekly
          PROVE  AskedFor(i)
      <4>1. Newer(WeekKeys, i) \subseteq {j \in S : i < j}
        BY <2>4 DEF Newer, WeekKeys, WeekKey, KeyShared
      <4>2. IsFiniteSet({j \in S : i < j}) /\ Cardinality({j \in S : i < j}) \in Nat
        BY SubsetOfDays
      <4>3. /\ Cardinality(Newer(WeekKeys, i)) <= Cardinality({j \in S : i < j})
            /\ Cardinality(Newer(WeekKeys, i)) \in Nat
        BY <4>1, <4>2, FS_Subset, FS_CardinalityType
      <4> QED
        BY <3>1, <4>2, <4>3 DEF AskedFor
    <3> QED
      BY <3>1 DEF NewestOf
  <2> QED
    BY <2>1, <2>2, <2>3, <2>4 DEF NewestOfPeriodsKept
<1> QED
  BY <1>1, InitRetention, NextRetention, PTL DEF RetentionSpec

THEOREM AlwaysNothingElseKept == RetentionSpec => []NothingElseKept
<1>1. RetentionInv => NothingElseKept
  <2> SUFFICES ASSUME RetentionInv, WalkDone, NEW i \in rtKeep
               PROVE  \/ Cardinality({j \in DOMAIN rtDays : i < j /\ rtDays[j] = rtDays[i]})
                           < rtPolicy.keep_daily
                      \/ Cardinality({j \in DOMAIN rtDays :
                                        i < j /\ WeekKey(rtDays[j]) = WeekKey(rtDays[i])})
                           < rtPolicy.keep_weekly
                      \/ Cardinality({j \in DOMAIN rtDays :
                                        i < j /\ MonthKey(rtDays[j]) = MonthKey(rtDays[i])})
                           < rtPolicy.keep_monthly
    BY DEF NothingElseKept
  <2>1. /\ \A j \in DOMAIN rtDays : rtDays[j] \in RetentionDays
        /\ i \in DOMAIN rtDays /\ AskedFor(i)
    BY KeptAsked
  <2>2. {j \in DOMAIN rtDays : i < j /\ rtDays[j] = rtDays[i]} = Newer(DayKeys, i)
    BY <2>1 DEF Newer, DayKeys, DayKey
  <2>3. {j \in DOMAIN rtDays : i < j /\ WeekKey(rtDays[j]) = WeekKey(rtDays[i])}
          = Newer(WeekKeys, i)
    BY <2>1 DEF Newer, WeekKeys
  <2>4. {j \in DOMAIN rtDays : i < j /\ MonthKey(rtDays[j]) = MonthKey(rtDays[i])}
          = Newer(MonthKeys, i)
    BY <2>1 DEF Newer, MonthKeys
  <2> QED
    BY <2>1, <2>2, <2>3, <2>4 DEF AskedFor
<1> QED
  BY <1>1, InitRetention, NextRetention, PTL DEF RetentionSpec

-----------------------------------------------------------------------------
\* The field.

Nonzero == Byte \ {Zero}

\* Induction over the numbers, as a fact about sets: what contains 0 and with
\* every number the next contains all.
LEMMA AllNumbers ==
  ASSUME NEW S, 0 \in S, \A n \in Nat : n \in S => n + 1 \in S
  PROVE  \A n \in Nat : n \in S
<1> SUFFICES ASSUME NEW n \in Nat, n \notin S PROVE FALSE
  OBVIOUS
<1> DEFINE T == Nat \ S
<1>1. T # {} /\ T \subseteq Nat
  OBVIOUS
<1>2. PICK x \in T : \A y \in T : x <= y
  BY <1>1, LeastOf
<1>3. x \in Nat /\ x # 0
  OBVIOUS
<1>4. x - 1 \in Nat /\ ~(x <= x - 1) /\ (x - 1) + 1 = x
  BY <1>3
<1>5. x - 1 \in S
  BY <1>2, <1>4
<1> QED
  BY <1>4, <1>5

LEMMA FieldAdd ==
  ASSUME NEW a \in Byte, NEW b \in Byte
  PROVE  /\ GfAdd(a, b) \in Byte /\ GfAdd(a, Zero) = a /\ GfAdd(Zero, a) = a
         /\ GfAdd(a, a) = Zero /\ GfAdd(a, b) = GfAdd(b, a)
         /\ \A c \in Byte : GfAdd(GfAdd(a, b), c) = GfAdd(a, GfAdd(b, c))
  BY DEF GfAdd, Byte, Zero

\* Sums of four.
LEMMA AddCrosswise ==
  ASSUME NEW a, NEW b, NEW c, NEW d
  PROVE  GfAdd(GfAdd(a, b), GfAdd(c, d)) = GfAdd(GfAdd(a, c), GfAdd(b, d))
  BY DEF GfAdd

\* Logarithms are added modulo 255.
AddLogs(x, y) == (x + y) % 255

LEMMA LogSums ==
  ASSUME NEW x \in Nat, NEW y \in Nat, x < 255, y < 255
  PROVE  /\ AddLogs(x, y) \in Nat /\ AddLogs(x, y) < 255
         /\ x + y < 255 => AddLogs(x, y) = x + y
         /\ x + y >= 255 => AddLogs(x, y) = x + y - 255
  BY DEF AddLogs

LEMMA LogsAssociate ==
  ASSUME NEW x \in Nat, NEW y \in Nat, NEW z \in Nat, x < 255, y < 255, z < 255
  PROVE  AddLogs(AddLogs(x, y), z) = AddLogs(x, AddLogs(y, z))
<1> DEFINE u == AddLogs(x, y)
           v == AddLogs(y, z)
<1>1. /\ u \in Nat /\ u < 255
      /\ x + y < 255 => u = x + y
      /\ x + y >= 255 => u = x + y - 255
  BY LogSums
<1>2. /\ v \in Nat /\ v < 255
      /\ y + z < 255 => v = y + z
      /\ y + z >= 255 => v = y + z - 255
  BY LogSums
<1> HIDE DEF u, v
<1>3. /\ AddLogs(u, z) \in Nat /\ AddLogs(u, z) < 255
      /\ u + z < 255 => AddLogs(u, z) = u + z
      /\ u + z >= 255 => AddLogs(u, z) = u + z - 255
  BY <1>1, LogSums
<1>4. /\ AddLogs(x, v) \in Nat /\ AddLogs(x, v) < 255
      /\ x + v < 255 => AddLogs(x, v) = x + v
      /\ x + v >= 255 => AddLogs(x, v) = x + v - 255
  BY <1>2, LogSums
<1>5. AddLogs(u, z) = AddLogs(x, v)
  BY <1>1, <1>2, <1>3, <1>4
<1> QED
  BY <1>5 DEF u, v

LEMMA LogRange ==
  ASSUME NEW a \in Nonzero
  PROVE  LogTable[a] \in 0 .. 254 /\ LogTable[a] \in Nat /\ LogTable[a] < 255
<1>1. LogTable[a] \in 0 .. 254
  BY FieldAssumption DEF Nonzero
<1> QED
  BY <1>1

\* Two factors that are not 0 are multiplied by adding their logarithms.
LEMMA MulLogs ==
  ASSUME NEW a \in Nonzero, NEW b \in Nonzero
  PROVE  /\ GfMul(a, b) = ExpTable[AddLogs(LogTable[a], LogTable[b])]
         /\ GfMul(a, b) \in Nonzero
         /\ LogTable[GfMul(a, b)] = AddLogs(LogTable[a], LogTable[b])
<1> DEFINE i == AddLogs(LogTable[a], LogTable[b])
<1>1. i \in Nat /\ i < 255
  BY LogRange, LogSums
<1>2. i \in 0 .. 254
  BY <1>1
<1>3. GfMul(a, b) = ExpTable[i]
  BY DEF GfMul, Nonzero, AddLogs
<1> HIDE DEF i
<1>4. ExpTable[i] \in Nonzero /\ LogTable[ExpTable[i]] = i
  BY <1>2, FieldAssumption DEF Nonzero
<1> QED
  BY <1>1, <1>2, <1>3, <1>4 DEF i

LEMMA OneLog == One \in Nonzero /\ LogTable[One] = 0 /\ Zero \in Byte
<1>1. 0 \in 0 .. 254 /\ ExpTable[0] = One
  BY FieldAssumption
<1> QED
  BY <1>1, FieldAssumption DEF Nonzero, Byte, Zero

LEMMA MulSimple ==
  ASSUME NEW a \in Byte, NEW b \in Byte
  PROVE  /\ GfMul(a, b) \in Byte /\ GfMul(a, b) = GfMul(b, a)
         /\ GfMul(a, Zero) = Zero /\ GfMul(Zero, a) = Zero
         /\ GfMul(a, One) = a /\ GfMul(One, a) = a
<1>1. GfMul(a, Zero) = Zero /\ GfMul(Zero, a) = Zero
  BY DEF GfMul
<1>2. ASSUME NEW x \in Nonzero, NEW y \in Nonzero PROVE GfMul(x, y) = GfMul(y, x)
  <2>1. LogTable[x] + LogTable[y] = LogTable[y] + LogTable[x]
    BY LogRange
  <2> QED
    BY <2>1 DEF GfMul, Nonzero
<1>3. a # Zero => GfMul(a, One) = a
  <2> SUFFICES ASSUME a # Zero PROVE GfMul(a, One) = a
    OBVIOUS
  <2>1. a \in Nonzero /\ One \in Nonzero /\ LogTable[One] = 0
    BY OneLog DEF Nonzero
  <2>2. /\ LogTable[a] \in Nat /\ LogTable[a] < 255
        /\ GfMul(a, One) = ExpTable[AddLogs(LogTable[a], LogTable[One])]
    BY <2>1, MulLogs, LogRange
  <2>3. AddLogs(LogTable[a], LogTable[One]) = LogTable[a]
    BY <2>1, <2>2, LogSums
  <2> QED
    BY <2>2, <2>3, FieldAssumption DEF Nonzero
<1>4. a \in Nonzero /\ b \in Nonzero => GfMul(a, b) \in Nonzero
  BY MulLogs
<1>5. Zero \in Byte /\ One \in Nonzero
  BY OneLog
<1> QED
  BY <1>1, <1>2, <1>3, <1>4, <1>5 DEF Nonzero, GfMul

LEMMA MulAssociates ==
  ASSUME NEW a \in Byte, NEW b \in Byte, NEW c \in Byte
  PROVE  GfMul(GfMul(a, b), c) = GfMul(a, GfMul(b, c))
<1>1. CASE a = Zero \/ b = Zero \/ c = Zero
  BY <1>1, MulSimple, OneLog
<1>2. CASE a # Zero /\ b # Zero /\ c # Zero
  <2> DEFINE x == LogTable[a]
             y == LogTable[b]
             z == LogTable[c]
  <2>1. a \in Nonzero /\ b \in Nonzero /\ c \in Nonzero
    BY <1>2 DEF Nonzero
  <2>2. /\ GfMul(a, b) \in Nonzero /\ LogTable[GfMul(a, b)] = AddLogs(x, y)
        /\ GfMul(b, c) \in Nonzero /\ LogTable[GfMul(b, c)] = AddLogs(y, z)
        /\ x \in Nat /\ x < 255 /\ y \in Nat /\ y < 255 /\ z \in Nat /\ z < 255
    BY <2>1, MulLogs, LogRange
  <2>3. /\ GfMul(GfMul(a, b), c) = ExpTable[AddLogs(AddLogs(x, y), z)]
        /\ GfMul(a, GfMul(b, c)) = ExpTable[AddLogs(x, AddLogs(y, z))]
    BY <2>1, <2>2, MulLogs
  <2> HIDE DEF x, y, z
  <2>4. AddLogs(AddLogs(x, y), z) = AddLogs(x, AddLogs(y, z))
    BY <2>2, LogsAssociate
  <2> QED
    BY <2>3, <2>4
<1> QED
  BY <1>1, <1>2

LEMMA MulInverse ==
  ASSUME NEW a \in Nonzero
  PROVE  GfInv(a) \in Nonzero /\ GfMul(a, GfInv(a)) = One /\ GfMul(GfInv(a), a) = One
<1> DEFINE x == LogTable[a]
           i == (255 - x) % 255
<1>1. x \in Nat /\ x < 255
  BY LogRange
<1>2. i \in 0 .. 254 /\ AddLogs(x, i) = 0
  <2>1. i = IF x = 0 THEN 0 ELSE 255 - x
    BY <1>1
  <2> HIDE DEF i, x
  <2>2. i \in Nat /\ i < 255 /\ (x + i = 0 \/ x + i = 255)
    BY <1>1, <2>1
  <2>3. /\ x + i < 255 => AddLogs(x, i) = x + i
        /\ x + i >= 255 => AddLogs(x, i) = x + i - 255
    BY <1>1, <2>2, LogSums
  <2> QED
    BY <1>1, <2>2, <2>3
<1>3. GfInv(a) = ExpTable[i]
  BY DEF GfInv
<1> HIDE DEF i
<1> USE DEF Nonzero
<1>6. ExpTable[i] \in Nonzero /\ LogTable[ExpTable[i]] = i
  BY <1>2, FieldAssumption
<1> HIDE DEF Nonzero
<1>4. GfMul(a, GfInv(a)) = ExpTable[AddLogs(x, i)]
  BY <1>3, <1>6, MulLogs
<1>5. GfMul(a, GfInv(a)) = One
  BY <1>2, <1>4, FieldAssumption
<1> QED
  BY <1>3, <1>5, <1>6, MulSimple DEF Nonzero

\* Doubling.
LEMMA DoubleByte ==
  ASSUME NEW a \in Byte, NEW b \in Byte
  PROVE  /\ GfDouble(a) \in Byte /\ GfDouble(Zero) = Zero
         /\ GfDouble(GfAdd(a, b)) = GfAdd(GfDouble(a), GfDouble(b))
<1> DEFINE Twice(v) == {k + 1 : k \in v}
           Reduced(v) == {k \in 0 .. 7 : (k \in Twice(v) <=> ~(7 \in v /\ k \in GfPoly))}
<1>1. ASSUME NEW v \in Byte PROVE GfDouble(v) = Reduced(v)
  <2>1. \A k \in v : k \in 0 .. 7
    BY DEF Byte
  <2>2. Twice(v) \subseteq 1 .. 8 /\ (8 \in Twice(v) <=> 7 \in v)
    BY <2>1
  <2>3. GfPoly \subseteq 0 .. 8 /\ 8 \in GfPoly
    BY DEF GfPoly
  <2> HIDE DEF Twice
  <2>4. CASE 7 \in v
    <3>1. GfDouble(v) = GfAdd(Twice(v), GfPoly)
      BY <2>2, <2>4 DEF GfDouble, Twice
    <3> QED
      <4>1. ASSUME NEW k PROVE k \in GfAdd(Twice(v), GfPoly) <=> k \in Reduced(v)
        <5>1. k \in Twice(v) \cup GfPoly => k \in 0 .. 8
          <6>1. \A j \in 1 .. 8 : j \in 0 .. 8
            OBVIOUS
          <6> QED
            BY <2>2, <2>3, <6>1
        <5>2. 8 \in Twice(v) /\ 8 \in GfPoly /\ ~(8 \in 0 .. 7)
          BY <2>2, <2>3, <2>4
        <5>3. k \in 0 .. 8 <=> k \in 0 .. 7 \/ k = 8
          OBVIOUS
        <5> QED
          BY <2>4, <5>1, <5>2, <5>3 DEF GfAdd
      <4> QED
        BY <3>1, <4>1
  <2>5. CASE 7 \notin v
    BY <2>2, <2>5 DEF GfDouble, Twice
  <2> QED
    BY <2>4, <2>5
<1>2. \A k : k \in Twice(GfAdd(a, b)) <=> (k \in Twice(a) <=> k \notin Twice(b))
  <2>1. \A j, k : j \in Byte => TRUE
    OBVIOUS
  <2>2. \A k \in a \cup b : k \in Int
    BY DEF Byte
  <2> SUFFICES ASSUME NEW k PROVE k \in Twice(GfAdd(a, b)) <=> (k \in Twice(a) <=> k \notin Twice(b))
    OBVIOUS
  <2>3. \A j \in a \cup b : k = j + 1 => j = k - 1
    BY <2>2
  <2>4. /\ k \in Twice(a) <=> k - 1 \in a /\ k = (k - 1) + 1
        /\ k \in Twice(b) <=> k - 1 \in b /\ k = (k - 1) + 1
        /\ k \in Twice(GfAdd(a, b)) <=> k - 1 \in GfAdd(a, b) /\ k = (k - 1) + 1
    BY <2>3 DEF GfAdd
  <2> QED
    BY <2>2, <2>4 DEF GfAdd
<1>3. GfAdd(a, b) \in Byte /\ Zero \in Byte
  BY FieldAdd, OneLog
<1>4. 7 \in GfAdd(a, b) <=> (7 \in a <=> 7 \notin b)
  BY DEF GfAdd
<1>5. GfDouble(GfAdd(a, b)) = GfAdd(GfDouble(a), GfDouble(b))
  <2>1. /\ GfDouble(a) = Reduced(a) /\ GfDouble(b) = Reduced(b)
        /\ GfDouble(GfAdd(a, b)) = Reduced(GfAdd(a, b))
    BY <1>1, <1>3
  <2>2. Reduced(GfAdd(a, b)) = GfAdd(Reduced(a), Reduced(b))
    BY <1>2, <1>4 DEF GfAdd
  <2> QED
    BY <2>1, <2>2
<1>6. GfDouble(Zero) = Zero
  BY DEF GfDouble, Zero
<1> QED
  BY <1>1, <1>5, <1>6 DEF Byte

\* A factor that is doubled doubles the product.
LEMMA MulDouble ==
  ASSUME NEW i \in 0 .. 254, NEW b \in Byte
  PROVE  GfMul(ExpTable[AddLogs(i, 1)], b) = GfDouble(GfMul(ExpTable[i], b))
<1> DEFINE next == AddLogs(i, 1)
<1>1. i \in Nat /\ i < 255 /\ 1 \in Nat /\ 1 < 255
  OBVIOUS
<1>2. next \in 0 .. 254
  <2>1. next \in Nat /\ next < 255
    BY <1>1, LogSums
  <2> QED
    BY <2>1
<1>3. ASSUME NEW j \in 0 .. 254
      PROVE  /\ ExpTable[j] \in Nonzero /\ LogTable[ExpTable[j]] = j
             /\ ExpTable[AddLogs(j, 1)] = GfDouble(ExpTable[j])
  BY FieldAssumption DEF Nonzero, AddLogs
<1> HIDE DEF next
<1>4. CASE b = Zero
  BY <1>4, DoubleByte, OneLog DEF GfMul
<1>5. CASE b # Zero
  <2> DEFINE y == LogTable[b]
             j == AddLogs(i, y)
  <2>1. b \in Nonzero /\ y \in Nat /\ y < 255
    BY <1>5, LogRange DEF Nonzero
  <2>2. j \in 0 .. 254
    <3>1. j \in Nat /\ j < 255
      BY <1>1, <2>1, LogSums
    <3> QED
      BY <3>1
  <2>3. GfMul(ExpTable[i], b) = ExpTable[j]
    <3>1. ExpTable[i] \in Nonzero /\ LogTable[ExpTable[i]] = i
      BY <1>3
    <3>2. GfMul(ExpTable[i], b) = ExpTable[AddLogs(LogTable[ExpTable[i]], LogTable[b])]
      BY <2>1, <3>1, MulLogs
    <3> QED
      BY <3>1, <3>2
  <2>4. GfMul(ExpTable[next], b) = ExpTable[AddLogs(next, y)]
    <3>1. ExpTable[next] \in Nonzero /\ LogTable[ExpTable[next]] = next
      BY <1>2, <1>3
    <3>2. GfMul(ExpTable[next], b) = ExpTable[AddLogs(LogTable[ExpTable[next]], LogTable[b])]
      BY <2>1, <3>1, MulLogs
    <3> QED
      BY <3>1, <3>2
  <2>5. AddLogs(next, y) = AddLogs(j, 1)
    <3>1. /\ AddLogs(AddLogs(1, i), y) = AddLogs(1, AddLogs(i, y))
      BY <1>1, <2>1, LogsAssociate
    <3>2. j \in Nat /\ AddLogs(1, i) = AddLogs(i, 1) /\ AddLogs(1, j) = AddLogs(j, 1)
      BY <1>1, <2>2 DEF AddLogs
    <3> QED
      BY <3>1, <3>2 DEF next
  <2> HIDE DEF j
  <2>6. ExpTable[AddLogs(j, 1)] = GfDouble(ExpTable[j])
    BY <1>3, <2>2
  <2> QED
    BY <2>3, <2>4, <2>5, <2>6 DEF next, j
<1> QED
  BY <1>4, <1>5

LEMMA MulAdds ==
  ASSUME NEW c \in Byte, NEW a \in Byte, NEW b \in Byte
  PROVE  GfMul(c, GfAdd(a, b)) = GfAdd(GfMul(c, a), GfMul(c, b))
<1>1. GfAdd(a, b) \in Byte /\ GfAdd(Zero, Zero) = Zero
  BY FieldAdd, OneLog
<1> DEFINE Adds(x) == GfMul(x, GfAdd(a, b)) = GfAdd(GfMul(x, a), GfMul(x, b))
           S == {i \in Nat : i < 255 => Adds(ExpTable[i])}
<1>2. 0 \in S
  <2>1. ExpTable[0] = One
    BY FieldAssumption
  <2>2. Adds(One)
    BY <1>1, MulSimple
  <2> QED
    BY <2>1, <2>2
<1>3. ASSUME NEW i \in Nat, i \in S PROVE i + 1 \in S
  <2> SUFFICES ASSUME i + 1 < 255 PROVE Adds(ExpTable[i + 1])
    OBVIOUS
  <2>1. i \in 0 .. 254 /\ i < 255 /\ AddLogs(i, 1) = i + 1
    BY LogSums
  <2>2. Adds(ExpTable[i])
    BY <1>3, <2>1
  <2>3. ASSUME NEW x \in Byte PROVE GfMul(ExpTable[i + 1], x) = GfDouble(GfMul(ExpTable[i], x))
    BY <2>1, MulDouble
  <2>4. ExpTable[i] \in Byte
    BY <2>1, FieldAssumption
  <2>5. GfMul(ExpTable[i], a) \in Byte /\ GfMul(ExpTable[i], b) \in Byte
    BY <2>4, MulSimple
  <2>6. GfDouble(GfAdd(GfMul(ExpTable[i], a), GfMul(ExpTable[i], b)))
          = GfAdd(GfDouble(GfMul(ExpTable[i], a)), GfDouble(GfMul(ExpTable[i], b)))
    BY <2>5, DoubleByte
  <2> QED
    BY <1>1, <2>2, <2>3, <2>6
<1> HIDE DEF Adds
<1>4. \A i \in Nat : i \in S
  <2> HIDE DEF S
  <2> QED
    BY <1>2, <1>3, AllNumbers
<1>5. CASE c = Zero
  BY <1>1, <1>5 DEF GfMul
<1>6. CASE c # Zero
  <2>1. c \in Nonzero
    BY <1>6 DEF Nonzero
  <2>2. LogTable[c] \in Nat /\ LogTable[c] < 255 /\ ExpTable[LogTable[c]] = c
    BY <2>1, LogRange, FieldAssumption DEF Nonzero
  <2>3. Adds(ExpTable[LogTable[c]])
    BY <1>4, <2>2
  <2> QED
    BY <2>2, <2>3 DEF Adds
<1> QED
  BY <1>5, <1>6

-----------------------------------------------------------------------------
\* Sums of bytes.

Sum(n, f) == GfSum(0 .. n - 1, f)

LEMMA SumNone == ASSUME NEW f PROVE Sum(0, f) = Zero
<1>1. \A k : {i \in 0 .. 0 - 1 : k \in f[i]} = {}
  OBVIOUS
<1>2. Cardinality({}) % 2 = 0
  BY FS_EmptySet
<1> QED
  BY <1>1, <1>2 DEF Sum, GfSum, Zero

LEMMA SumMore ==
  ASSUME NEW n \in Nat, NEW f, f[n] \in Byte
  PROVE  Sum(n + 1, f) = GfAdd(Sum(n, f), f[n]) /\ Sum(n, f) \in Byte
<1>1. Sum(n, f) \in Byte
  BY DEF Sum, GfSum, Byte
<1>2. ASSUME NEW k \in 0 .. 7
      PROVE  k \in Sum(n + 1, f) <=> k \in GfAdd(Sum(n, f), f[n])
  <2> DEFINE S == With(n, f, k)
             T == With(n + 1, f, k)
  <2>1. IsFiniteSet(S) /\ Cardinality(S) \in Nat
    BY WithFinite
  <2>2. n \notin S /\ 0 .. (n + 1) - 1 = (0 .. n - 1) \cup {n}
    BY DEF With
  <2>3. /\ k \in Sum(n, f) <=> Cardinality(S) % 2 = 1
        /\ k \in Sum(n + 1, f) <=> Cardinality(T) % 2 = 1
    BY DEF Sum, GfSum, With
  <2>4. CASE k \in f[n]
    <3>1. T = S \cup {n}
      BY <2>2, <2>4 DEF With
    <3>2. Cardinality(S \cup {n}) = Cardinality(S) + 1
      BY <2>1, <2>2, FS_AddElement, Zenon
    <3>3. Cardinality(T) = Cardinality(S) + 1
      BY <3>1, <3>2
    <3> HIDE DEF S, T
    <3>4. Cardinality(T) % 2 = 1 <=> ~(Cardinality(S) % 2 = 1)
      BY <2>1, <3>3
    <3> QED
      BY <2>3, <2>4, <3>4 DEF GfAdd
  <2>5. CASE k \notin f[n]
    <3>1. T = S
      BY <2>2, <2>5 DEF With
    <3> QED
      BY <2>3, <2>5, <3>1 DEF GfAdd
  <2> QED
    BY <2>4, <2>5
<1>3. Sum(n + 1, f) \in Byte /\ GfAdd(Sum(n, f), f[n]) \in Byte
  BY <1>1, FieldAdd DEF Sum, GfSum, Byte
<1> QED
  BY <1>1, <1>2, <1>3 DEF Byte

LEMMA SumByte ==
  ASSUME NEW n, NEW f
  PROVE  Sum(n, f) \in Byte
  BY DEF Sum, GfSum, Byte

LEMMA SumAlike ==
  ASSUME NEW n, NEW f, NEW g, \A i \in 0 .. n - 1 : f[i] = g[i]
  PROVE  Sum(n, f) = Sum(n, g)
<1>1. \A k : {i \in 0 .. n - 1 : k \in f[i]} = {i \in 0 .. n - 1 : k \in g[i]}
  OBVIOUS
<1> QED
  BY <1>1 DEF Sum, GfSum

\* The sum of a family of sums.
LEMMA SumAdds ==
  ASSUME NEW n \in Nat, NEW f, NEW g, NEW h,
         \A i \in 0 .. n - 1 : f[i] \in Byte /\ g[i] \in Byte /\ h[i] = GfAdd(f[i], g[i])
  PROVE  Sum(n, h) = GfAdd(Sum(n, f), Sum(n, g))
<1> DEFINE S == {m \in Nat : m <= n => Sum(m, h) = GfAdd(Sum(m, f), Sum(m, g))}
<1>1. 0 \in S
  BY SumNone, FieldAdd, OneLog
<1>2. ASSUME NEW m \in Nat, m \in S PROVE m + 1 \in S
  <2> SUFFICES ASSUME m + 1 <= n PROVE Sum(m + 1, h) = GfAdd(Sum(m + 1, f), Sum(m + 1, g))
    OBVIOUS
  <2>1. /\ m \in 0 .. n - 1 /\ m <= n
        /\ f[m] \in Byte /\ g[m] \in Byte /\ h[m] = GfAdd(f[m], g[m])
    OBVIOUS
  <2>2. h[m] \in Byte /\ Sum(m, h) = GfAdd(Sum(m, f), Sum(m, g))
    BY <1>2, <2>1, FieldAdd
  <2>3. /\ Sum(m + 1, h) = GfAdd(Sum(m, h), h[m])
        /\ Sum(m + 1, f) = GfAdd(Sum(m, f), f[m])
        /\ Sum(m + 1, g) = GfAdd(Sum(m, g), g[m])
    BY <2>1, <2>2, SumMore
  <2> QED
    BY <2>1, <2>2, <2>3, AddCrosswise
<1>3. \A m \in Nat : m \in S
  <2> HIDE DEF S
  <2> QED
    BY <1>1, <1>2, AllNumbers
<1> QED
  BY <1>3

\* A multiple of a sum.
LEMMA SumTimes ==
  ASSUME NEW n \in Nat, NEW c \in Byte, NEW f, NEW h,
         \A i \in 0 .. n - 1 : f[i] \in Byte /\ h[i] = GfMul(c, f[i])
  PROVE  Sum(n, h) = GfMul(c, Sum(n, f))
<1> DEFINE S == {m \in Nat : m <= n => Sum(m, h) = GfMul(c, Sum(m, f))}
<1>1. 0 \in S
  BY SumNone, MulSimple
<1>2. ASSUME NEW m \in Nat, m \in S PROVE m + 1 \in S
  <2> SUFFICES ASSUME m + 1 <= n PROVE Sum(m + 1, h) = GfMul(c, Sum(m + 1, f))
    OBVIOUS
  <2>1. m \in 0 .. n - 1 /\ m <= n /\ f[m] \in Byte /\ h[m] = GfMul(c, f[m])
    OBVIOUS
  <2>2. h[m] \in Byte /\ Sum(m, h) = GfMul(c, Sum(m, f))
    BY <1>2, <2>1, MulSimple
  <2>3. /\ Sum(m + 1, h) = GfAdd(Sum(m, h), h[m])
        /\ Sum(m + 1, f) = GfAdd(Sum(m, f), f[m]) /\ Sum(m, f) \in Byte
    BY <2>1, <2>2, SumMore
  <2>4. GfMul(c, GfAdd(Sum(m, f), f[m])) = GfAdd(GfMul(c, Sum(m, f)), GfMul(c, f[m]))
    BY <2>1, <2>3, MulAdds
  <2> QED
    BY <2>1, <2>2, <2>3, <2>4
<1>3. \A m \in Nat : m \in S
  <2> HIDE DEF S
  <2> QED
    BY <1>1, <1>2, AllNumbers
<1> QED
  BY <1>3

\* A family with one byte that is not 0.
LEMMA SumOne ==
  ASSUME NEW n \in Nat, NEW r \in 0 .. n - 1, NEW f, f[r] \in Byte,
         \A i \in 0 .. n - 1 : i # r => f[i] = Zero
  PROVE  Sum(n, f) = f[r]
<1> DEFINE S == {m \in Nat : m <= n => Sum(m, f) = IF r < m THEN f[r] ELSE Zero}
<1>1. 0 \in S
  BY SumNone
<1>2. ASSUME NEW m \in Nat, m \in S PROVE m + 1 \in S
  <2> SUFFICES ASSUME m + 1 <= n
               PROVE  Sum(m + 1, f) = IF r < m + 1 THEN f[r] ELSE Zero
    OBVIOUS
  <2>1. m \in 0 .. n - 1 /\ m <= n /\ Sum(m, f) = IF r < m THEN f[r] ELSE Zero
    BY <1>2
  <2>2. f[m] \in Byte
    BY <2>1, OneLog
  <2>3. Sum(m + 1, f) = GfAdd(Sum(m, f), f[m])
    BY <2>2, SumMore
  <2>4. CASE r = m
    BY <2>1, <2>3, <2>4, FieldAdd
  <2>5. CASE r # m
    <3>1. f[m] = Zero /\ (r < m + 1 <=> r < m)
      BY <2>1, <2>5
    <3> QED
      BY <2>1, <2>3, <3>1, FieldAdd, OneLog
  <2> QED
    BY <2>4, <2>5
<1>3. \A m \in Nat : m \in S
  <2> HIDE DEF S
  <2> QED
    BY <1>1, <1>2, AllNumbers
<1> QED
  BY <1>3

-----------------------------------------------------------------------------
\* Products of a row of a matrix and a column of bytes.

Bytes == [DataPositions -> Byte]

LEMMA ProductIsSum ==
  ASSUME NEW a, NEW x, NEW f, \A d \in DataPositions : f[d] = GfMul(a[d], x[d])
  PROVE  Product(a, x) = Sum(DataShards, f) /\ Product(a, x) \in Byte
<1> DEFINE g == [d \in DataPositions |-> GfMul(a[d], x[d])]
<1>1. ASSUME NEW d \in DataPositions PROVE Table(g)[d] = f[d]
  BY DEF Table
<1>2. Product(a, x) = Sum(DataShards, Table(g))
  BY DEF Product, Sum, DataPositions
<1> HIDE DEF g
<1>3. Sum(DataShards, Table(g)) = Sum(DataShards, f)
  BY <1>1, SumAlike DEF DataPositions
<1> QED
  BY <1>2, <1>3, SumByte

LEMMA ProductAlike ==
  ASSUME NEW a, NEW b, NEW x, \A d \in DataPositions : a[d] = b[d]
  PROVE  Product(a, x) = Product(b, x)
<1> DEFINE f == [d \in DataPositions |-> GfMul(a[d], x[d])]
<1>1. Product(a, x) = Sum(DataShards, f)
  <2>1. \A d \in DataPositions : f[d] = GfMul(a[d], x[d])
    OBVIOUS
  <2> HIDE DEF f
  <2> QED
    BY <2>1, ProductIsSum
<1>2. Product(b, x) = Sum(DataShards, f)
  <2>1. \A d \in DataPositions : f[d] = GfMul(b[d], x[d])
    OBVIOUS
  <2> HIDE DEF f
  <2> QED
    BY <2>1, ProductIsSum
<1> QED
  BY <1>1, <1>2

\* A row that is multiplied by c has c times the product.
LEMMA ScaleProduct ==
  ASSUME NEW c \in Byte, NEW a, NEW h, NEW x \in Bytes,
         \A d \in DataPositions : a[d] \in Byte /\ h[d] = GfMul(a[d], c)
  PROVE  Product(h, x) = GfMul(c, Product(a, x))
<1> DEFINE f == [d \in DataPositions |-> GfMul(a[d], x[d])]
           g == [d \in DataPositions |-> GfMul(h[d], x[d])]
<1>1. /\ \A d \in DataPositions : f[d] = GfMul(a[d], x[d])
      /\ \A d \in DataPositions : g[d] = GfMul(h[d], x[d])
  OBVIOUS
<1> HIDE DEF f, g
<1>2. ASSUME NEW d \in DataPositions PROVE f[d] \in Byte /\ g[d] = GfMul(c, f[d])
  <2>1. a[d] \in Byte /\ x[d] \in Byte /\ h[d] = GfMul(a[d], c)
    BY DEF Bytes
  <2>2. h[d] = GfMul(c, a[d])
    BY <2>1, MulSimple
  <2>3. g[d] = GfMul(GfMul(c, a[d]), x[d]) /\ f[d] = GfMul(a[d], x[d])
    BY <1>1, <2>2
  <2>4. GfMul(GfMul(c, a[d]), x[d]) = GfMul(c, GfMul(a[d], x[d]))
    BY <2>1, MulAssociates
  <2>5. GfMul(a[d], x[d]) \in Byte
    BY <2>1, MulSimple
  <2> QED
    BY <2>3, <2>4, <2>5
<1>3. DataShards \in Nat
  BY ReedSolomonAssumption
<1>4. Sum(DataShards, g) = GfMul(c, Sum(DataShards, f))
  BY <1>2, <1>3, SumTimes DEF DataPositions
<1> QED
  BY <1>1, <1>4, ProductIsSum

\* A row to which c times another is added.
LEMMA AddProduct ==
  ASSUME NEW c \in Byte, NEW a, NEW b, NEW h, NEW x \in Bytes,
         \A d \in DataPositions :
           a[d] \in Byte /\ b[d] \in Byte /\ h[d] = GfAdd(a[d], GfMul(c, b[d]))
  PROVE  Product(h, x) = GfAdd(Product(a, x), GfMul(c, Product(b, x)))
<1> DEFINE f == [d \in DataPositions |-> GfMul(a[d], x[d])]
           g == [d \in DataPositions |-> GfMul(b[d], x[d])]
           s == [d \in DataPositions |-> GfMul(c, g[d])]
           t == [d \in DataPositions |-> GfMul(h[d], x[d])]
<1>1. /\ \A d \in DataPositions : f[d] = GfMul(a[d], x[d])
      /\ \A d \in DataPositions : g[d] = GfMul(b[d], x[d])
      /\ \A d \in DataPositions : s[d] = GfMul(c, g[d])
      /\ \A d \in DataPositions : t[d] = GfMul(h[d], x[d])
  OBVIOUS
<1> HIDE DEF f, g, s, t
<1>2. ASSUME NEW d \in DataPositions
      PROVE  f[d] \in Byte /\ g[d] \in Byte /\ s[d] \in Byte /\ t[d] = GfAdd(f[d], s[d])
  <2>1. a[d] \in Byte /\ b[d] \in Byte /\ x[d] \in Byte /\ h[d] = GfAdd(a[d], GfMul(c, b[d]))
    BY DEF Bytes
  <2>2. GfMul(c, b[d]) \in Byte /\ h[d] \in Byte
    BY <2>1, MulSimple, FieldAdd
  <2>3. t[d] = GfMul(x[d], GfAdd(a[d], GfMul(c, b[d])))
    BY <1>1, <2>1, <2>2, MulSimple
  <2>4. GfMul(x[d], GfAdd(a[d], GfMul(c, b[d])))
          = GfAdd(GfMul(x[d], a[d]), GfMul(x[d], GfMul(c, b[d])))
    BY <2>1, <2>2, MulAdds
  <2>5. GfMul(x[d], a[d]) = f[d] /\ GfMul(x[d], GfMul(c, b[d])) = GfMul(GfMul(c, b[d]), x[d])
    BY <1>1, <2>1, <2>2, MulSimple
  <2>6. GfMul(GfMul(c, b[d]), x[d]) = s[d]
    BY <1>1, <2>1, MulAssociates
  <2>7. f[d] \in Byte /\ g[d] \in Byte
    BY <1>1, <2>1, MulSimple
  <2>8. s[d] \in Byte
    BY <1>1, <2>7, MulSimple
  <2> QED
    BY <2>3, <2>4, <2>5, <2>6, <2>7, <2>8
<1>3. DataShards \in Nat
  BY ReedSolomonAssumption
<1>4. Sum(DataShards, s) = GfMul(c, Sum(DataShards, g))
  BY <1>1, <1>2, <1>3, SumTimes DEF DataPositions
<1>5. Sum(DataShards, t) = GfAdd(Sum(DataShards, f), Sum(DataShards, s))
  BY <1>2, <1>3, SumAdds DEF DataPositions
<1> QED
  BY <1>1, <1>4, <1>5, ProductIsSum

\* A row of the identity picks one byte.
LEMMA UnitProduct ==
  ASSUME NEW r \in DataPositions, NEW x \in Bytes, NEW h,
         \A d \in DataPositions : h[d] = IF d = r THEN One ELSE Zero
  PROVE  Product(h, x) = x[r]
<1> DEFINE f == [d \in DataPositions |-> IF d = r THEN x[r] ELSE Zero]
<1>1. /\ \A d \in DataPositions : f[d] = IF d = r THEN x[r] ELSE Zero
  OBVIOUS
<1> HIDE DEF f
<1>2. ASSUME NEW d \in DataPositions PROVE f[d] = GfMul(h[d], x[d])
  <2>1. x[d] \in Byte
    BY DEF Bytes
  <2> QED
    BY <1>1, <2>1, MulSimple
<1>3. DataShards \in Nat /\ f[r] = x[r] /\ f[r] \in Byte
  BY <1>1, ReedSolomonAssumption DEF Bytes
<1>4. Sum(DataShards, f) = f[r]
  BY <1>1, <1>3, SumOne DEF DataPositions
<1> QED
  BY <1>2, <1>3, <1>4, ProductIsSum

LEMMA PowerByte == ASSUME NEW i \in 0 .. 254 PROVE ExpTable[i] \in Byte
  BY FieldAssumption

LEMMA MatrixBytes ==
  ASSUME NEW i \in Positions, NEW j \in DataPositions
  PROVE  EncodingMatrix[i][j] \in Byte
<1>1. i \in Nat /\ j \in Nat /\ One \in Byte /\ Zero \in Byte
  BY OneLog, ReedSolomonAssumption DEF Positions, DataPositions, Total, Nonzero
<1> DEFINE p == i * j
<1>2. p \in Nat
  BY <1>1
<1>3. ExpTable[p % 255] \in Byte
  <2> HIDE DEF p
  <2>1. p % 255 \in 0 .. 254
    BY <1>2
  <2> QED
    BY <2>1, PowerByte
<1>4. Vandermonde(i, j) \in Byte
  BY <1>1, <1>3 DEF Vandermonde
<1> QED
  BY <1>1, <1>4 DEF EncodingMatrix

\* Every shard is the product of its row of the encoding matrix with the data.
LEMMA ShardIsProduct ==
  ASSUME NEW x \in Bytes, NEW i \in Positions
  PROVE  Encode(x)[i] = Product(EncodingMatrix[i], x) /\ Encode(x)[i] \in Byte
<1>1. Product(EncodingMatrix[i], x) \in Byte
  <2> DEFINE f == [d \in DataPositions |-> GfMul(EncodingMatrix[i][d], x[d])]
  <2>1. \A d \in DataPositions : f[d] = GfMul(EncodingMatrix[i][d], x[d])
    OBVIOUS
  <2> HIDE DEF f
  <2> QED
    BY <2>1, ProductIsSum
<1>2. CASE i < DataShards
  <2>1. i \in DataPositions
    BY <1>2, ReedSolomonAssumption DEF Positions, DataPositions, Total
  <2>2. \A d \in DataPositions : EncodingMatrix[i][d] = IF d = i THEN One ELSE Zero
    BY <1>2, ReedSolomonAssumption DEF EncodingMatrix, Positions, DataPositions, Total
  <2>3. Product(EncodingMatrix[i], x) = x[i]
    BY <2>1, <2>2, UnitProduct
  <2> QED
    BY <1>1, <1>2, <2>3 DEF Encode
<1>3. CASE ~(i < DataShards)
  BY <1>1, <1>3 DEF Encode, ParityShard
<1> QED
  BY <1>2, <1>3

-----------------------------------------------------------------------------
\* Elimination.  A matrix [A | B] stands for the equations A x = B y.

Matrix(m) == m \in [DataPositions -> [Columns -> Byte]]

RightPart(row) == [i \in DataPositions |-> row[DataShards + i]]

RowHolds(row, x, y) == Product(row, x) = Product(RightPart(row), y)

\* The columns before c are those of the identity.
Eliminated(m, c) ==
  \A r \in DataPositions : \A j \in DataPositions :
    j < c => m[r][j] = IF r = j THEN One ELSE Zero

LEMMA Places ==
  ASSUME NEW d \in DataPositions
  PROVE  /\ d \in Columns /\ DataShards + d \in Columns /\ DataShards \in Nat
         /\ d \in Nat /\ d < DataShards
  BY ReedSolomonAssumption DEF DataPositions, Columns

LEMMA RightPartAt ==
  ASSUME NEW row, NEW d \in DataPositions
  PROVE  RightPart(row)[d] = row[DataShards + d]
  BY DEF RightPart

\* A multiple of an equation.
LEMMA ScaleRow ==
  ASSUME NEW c \in Byte, NEW a \in [Columns -> Byte], NEW h,
         \A j \in Columns : h[j] = GfMul(a[j], c),
         NEW x \in Bytes, NEW y \in Bytes, RowHolds(a, x, y)
  PROVE  RowHolds(h, x, y)
<1>1. \A d \in DataPositions : a[d] \in Byte /\ h[d] = GfMul(a[d], c)
  BY Places
<1>2. \A d \in DataPositions :
        RightPart(a)[d] \in Byte /\ RightPart(h)[d] = GfMul(RightPart(a)[d], c)
  BY Places, RightPartAt
<1>3. Product(h, x) = GfMul(c, Product(a, x))
  BY <1>1, ScaleProduct
<1>4. Product(RightPart(h), y) = GfMul(c, Product(RightPart(a), y))
  BY <1>2, ScaleProduct
<1> QED
  BY <1>3, <1>4 DEF RowHolds

\* A multiple of an equation added to another.
LEMMA AddRow ==
  ASSUME NEW c \in Byte, NEW a \in [Columns -> Byte], NEW b \in [Columns -> Byte], NEW h,
         \A j \in Columns : h[j] = GfAdd(a[j], GfMul(c, b[j])),
         NEW x \in Bytes, NEW y \in Bytes, RowHolds(a, x, y), RowHolds(b, x, y)
  PROVE  RowHolds(h, x, y)
<1>1. \A d \in DataPositions :
        a[d] \in Byte /\ b[d] \in Byte /\ h[d] = GfAdd(a[d], GfMul(c, b[d]))
  BY Places
<1>2. \A d \in DataPositions :
        /\ RightPart(a)[d] \in Byte /\ RightPart(b)[d] \in Byte
        /\ RightPart(h)[d] = GfAdd(RightPart(a)[d], GfMul(c, RightPart(b)[d]))
  BY Places, RightPartAt
<1>3. Product(h, x) = GfAdd(Product(a, x), GfMul(c, Product(b, x)))
  BY <1>1, AddProduct
<1>4. Product(RightPart(h), y)
        = GfAdd(Product(RightPart(a), y), GfMul(c, Product(RightPart(b), y)))
  BY <1>2, AddProduct
<1> QED
  BY <1>3, <1>4 DEF RowHolds

\* What one column of the elimination keeps of a matrix.
Sound(m, c, x, y) ==
  Matrix(m) /\ Eliminated(m, c) /\ \A r \in DataPositions : RowHolds(m[r], x, y)

LEMMA SwapSound ==
  ASSUME NEW m, NEW c \in DataPositions, NEW s \in DataPositions, NEW x, NEW y,
         Sound(m, c, x, y), c <= s, m[s][c] # Zero
  PROVE  Sound(Swap(m, c, s), c, x, y) /\ Swap(m, c, s)[c][c] # Zero
<1> DEFINE w == Swap(m, c, s)
<1>1. /\ Matrix(m) /\ DOMAIN w = DataPositions
      /\ \A r \in DataPositions : w[r] = IF r = s THEN m[c] ELSE IF r = c THEN m[s] ELSE m[r]
  BY DEF Sound, Matrix, Swap
<1>2. w \in [DataPositions -> [Columns -> Byte]]
  <2>1. w = [r \in DataPositions |-> w[r]]
    BY DEF Swap, Sound, Matrix
  <2>2. \A r \in DataPositions : w[r] \in [Columns -> Byte]
    BY <1>1 DEF Matrix
  <2> HIDE DEF w
  <2> QED
    BY <2>1, <2>2
<1> HIDE DEF w
<1>3. \A r \in DataPositions : RowHolds(w[r], x, y)
  BY <1>1 DEF Sound
<1>4. ASSUME NEW r \in DataPositions, NEW j \in DataPositions, j < c
      PROVE  w[r][j] = IF r = j THEN One ELSE Zero
  <2>1. \A q \in DataPositions : m[q][j] = IF q = j THEN One ELSE Zero
    BY <1>4 DEF Sound, Eliminated
  <2>2. j # c /\ j # s
    BY <1>4, Places
  <2> QED
    BY <1>1, <2>1, <2>2
<1>5. w[c][c] # Zero
  BY <1>1
<1> QED
  BY <1>2, <1>3, <1>4, <1>5 DEF Sound, Eliminated, Matrix, w

LEMMA ScaleSound ==
  ASSUME NEW m, NEW c \in DataPositions, NEW x \in Bytes, NEW y \in Bytes,
         Sound(m, c, x, y), m[c][c] # Zero
  PROVE  Sound(Scale(m, c), c, x, y) /\ Scale(m, c)[c][c] = One
<1> DEFINE inv == GfInv(m[c][c])
           w == Scale(m, c)
<1>1. m[c] \in [Columns -> Byte] /\ m[c][c] \in Nonzero
  BY Places DEF Sound, Matrix, Nonzero
<1>2. inv \in Byte /\ GfMul(m[c][c], inv) = One
  BY <1>1, MulInverse DEF Nonzero
<1>3. w = [m EXCEPT ![c] = [j \in Columns |-> GfMul(m[c][j], inv)]]
  BY DEF Scale
<1> HIDE DEF w, inv
<1>4. /\ \A r \in DataPositions : r # c => w[r] = m[r]
      /\ w[c] = [j \in Columns |-> GfMul(m[c][j], inv)]
      /\ w = [r \in DataPositions |-> w[r]]
  BY <1>3 DEF Sound, Matrix
<1>5. \A j \in Columns : w[c][j] = GfMul(m[c][j], inv) /\ w[c][j] \in Byte
  BY <1>1, <1>2, <1>4, MulSimple
<1>6. w[c] \in [Columns -> Byte]
  BY <1>4, <1>5
<1>7. w \in [DataPositions -> [Columns -> Byte]]
  <2>1. \A r \in DataPositions : w[r] \in [Columns -> Byte]
    BY <1>4, <1>6 DEF Sound, Matrix
  <2> QED
    BY <1>4, <2>1
<1>8. ASSUME NEW r \in DataPositions PROVE RowHolds(w[r], x, y)
  <2>1. RowHolds(m[r], x, y) /\ RowHolds(m[c], x, y)
    BY DEF Sound
  <2>2. RowHolds(w[c], x, y)
    BY <1>1, <1>2, <1>5, <2>1, ScaleRow
  <2> QED
    BY <1>4, <2>1, <2>2
<1>9. ASSUME NEW r \in DataPositions, NEW j \in DataPositions, j < c
      PROVE  w[r][j] = IF r = j THEN One ELSE Zero
  <2>1. \A q \in DataPositions : m[q][j] = IF q = j THEN One ELSE Zero
    BY <1>9 DEF Sound, Eliminated
  <2>2. j # c /\ j \in Columns
    BY <1>9, Places
  <2>3. GfMul(Zero, inv) = Zero
    BY DEF GfMul
  <2>4. w[c][j] = Zero
    BY <1>5, <2>1, <2>2, <2>3
  <2> QED
    BY <1>4, <2>1, <2>2, <2>4
<1>10. w[c][c] = One
  BY <1>2, <1>5, Places
<1> QED
  BY <1>7, <1>8, <1>9, <1>10 DEF Sound, Eliminated, Matrix, w

LEMMA ClearSound ==
  ASSUME NEW m, NEW c \in DataPositions, NEW x \in Bytes, NEW y \in Bytes,
         Sound(m, c, x, y), m[c][c] = One
  PROVE  Sound(ClearColumn(m, c), c + 1, x, y)
<1> DEFINE w == ClearColumn(m, c)
           Kept(r) == r = c \/ m[r][c] = Zero
<1>1. /\ w = [r \in DataPositions |-> w[r]]
      /\ \A r \in DataPositions : Kept(r) => w[r] = m[r]
      /\ \A r \in DataPositions :
           ~Kept(r) => w[r] = [j \in Columns |-> GfAdd(m[r][j], GfMul(m[r][c], m[c][j]))]
  BY DEF ClearColumn
<1> HIDE DEF w
<1>2. ASSUME NEW r \in DataPositions, NEW j \in Columns
      PROVE  m[r][j] \in Byte /\ m[c][j] \in Byte /\ m[r][c] \in Byte
  BY Places DEF Sound, Matrix
<1>3. ASSUME NEW r \in DataPositions PROVE w[r] \in [Columns -> Byte]
  <2>1. CASE Kept(r)
    BY <1>1, <2>1 DEF Sound, Matrix
  <2>2. CASE ~Kept(r)
    <3>1. \A j \in Columns : GfAdd(m[r][j], GfMul(m[r][c], m[c][j])) \in Byte
      BY <1>2, MulSimple, FieldAdd
    <3> QED
      BY <1>1, <2>2, <3>1
  <2> QED
    BY <2>1, <2>2
<1>4. w \in [DataPositions -> [Columns -> Byte]]
  BY <1>1, <1>3
<1>5. ASSUME NEW r \in DataPositions PROVE RowHolds(w[r], x, y)
  <2>1. RowHolds(m[r], x, y) /\ RowHolds(m[c], x, y)
    BY DEF Sound
  <2>2. CASE ~Kept(r)
    <3>1. \A j \in Columns : w[r][j] = GfAdd(m[r][j], GfMul(m[r][c], m[c][j]))
      BY <1>1, <2>2
    <3>2. m[r][c] \in Byte /\ m[r] \in [Columns -> Byte] /\ m[c] \in [Columns -> Byte]
      BY <1>2, Places DEF Sound, Matrix
    <3> QED
      BY <2>1, <3>1, <3>2, AddRow
  <2> QED
    BY <1>1, <2>1, <2>2
<1>6. ASSUME NEW r \in DataPositions, NEW j \in DataPositions, j < c + 1
      PROVE  w[r][j] = IF r = j THEN One ELSE Zero
  <2>1. j \in Columns /\ (j < c \/ j = c)
    BY <1>6, Places
  <2>2. CASE j < c
    <3>1. /\ \A q \in DataPositions : m[q][j] = IF q = j THEN One ELSE Zero
          /\ c # j
      BY <2>2, Places DEF Sound, Eliminated
    <3>2. ~Kept(r) => w[r][j] = GfAdd(m[r][j], GfMul(m[r][c], Zero))
      BY <1>1, <2>1, <3>1
    <3>3. m[r][j] \in Byte /\ GfMul(m[r][c], Zero) = Zero
      BY <1>2, <2>1 DEF GfMul
    <3> QED
      BY <1>1, <3>1, <3>2, <3>3, FieldAdd
  <2>3. CASE j = c
    <3>1. CASE Kept(r)
      BY <1>1, <2>3, <3>1
    <3>2. CASE ~Kept(r)
      <4>1. w[r][c] = GfAdd(m[r][c], GfMul(m[r][c], One))
        BY <1>1, <2>1, <2>3, <3>2
      <4>2. w[r][c] = Zero
        BY <1>2, <2>1, <4>1, MulSimple, FieldAdd
      <4> QED
        BY <2>3, <3>2, <4>2
    <3> QED
      BY <3>1, <3>2
  <2> QED
    BY <2>1, <2>2, <2>3
<1> QED
  BY <1>4, <1>5, <1>6 DEF Sound, Eliminated, Matrix, w

\* The rows of the identity in front: the inverse gives the unknowns.
LEMMA Solved ==
  ASSUME NEW m, NEW x \in Bytes, NEW y, Sound(m, DataShards, x, y), NEW r \in DataPositions
  PROVE  Product(RightPart(m[r]), y) = x[r]
<1>1. \A d \in DataPositions : m[r][d] = IF d = r THEN One ELSE Zero
  BY Places DEF Sound, Eliminated
<1>2. Product(m[r], x) = x[r]
  BY <1>1, UnitProduct
<1> QED
  BY <1>2 DEF Sound, RowHolds

\* The n-th of the members of a set of numbers.
LEMMA MemberAt ==
  ASSUME NEW S, S \subseteq Nat, IsFiniteSet(S), NEW n \in Nat, n < Cardinality(S)
  PROVE  \E i \in S : Cardinality({h \in S : h < i}) = n
<1> DEFINE Lower(i) == {h \in S : h < i}
           T == {k \in Nat : k < Cardinality(S) => \E i \in S : Cardinality(Lower(i)) = k}
<1>0. \A h \in S : h \in Nat
  OBVIOUS
<1>1. 0 \in T
  <2> SUFFICES ASSUME 0 < Cardinality(S) PROVE \E i \in S : Cardinality(Lower(i)) = 0
    OBVIOUS
  <2>1. S # {}
    BY FS_EmptySet
  <2>2. PICK i \in S : \A h \in S : i <= h
    BY <2>1, LeastOf
  <2>3. Lower(i) = {}
    <3>1. \A h \in S : ~(h < i)
      BY <1>0, <2>2
    <3> QED
      BY <3>1
  <2> QED
    BY <2>3, FS_EmptySet
<1>2. ASSUME NEW k \in Nat, k \in T PROVE k + 1 \in T
  <2> SUFFICES ASSUME k + 1 < Cardinality(S) PROVE \E i \in S : Cardinality(Lower(i)) = k + 1
    OBVIOUS
  <2>1. Cardinality(S) \in Nat /\ k < Cardinality(S)
    BY FS_CardinalityType
  <2>2. PICK i \in S : Cardinality(Lower(i)) = k
    BY <1>2, <2>1
  <2>3. IsFiniteSet(Lower(i)) /\ i \notin Lower(i)
    BY FS_Subset
  <2> DEFINE B == Lower(i)
             Higher == {h \in S : i < h}
  <2>4. Cardinality(B \cup {i}) = k + 1
    <3>1. IsFiniteSet(B) /\ i \notin B /\ Cardinality(B) = k
      BY <2>2, <2>3
    <3> HIDE DEF B
    <3>2. Cardinality(B \cup {i}) = Cardinality(B) + 1
      BY <3>1, FS_AddElement, Zenon
    <3> QED
      BY <3>1, <3>2
  <2>5. S = B \cup {i} \cup Higher
    <3>1. \A h \in S : h < i \/ h = i \/ i < h
      BY <1>0
    <3> QED
      BY <3>1
  <2>6. Higher # {}
    BY <2>1, <2>4, <2>5
  <2>7. PICK j \in Higher : \A h \in Higher : j <= h
    BY <2>6, LeastOf
  <2>8. Lower(j) = B \cup {i}
    <3>1. j \in S /\ i < j /\ \A h \in S : i < h => j <= h
      BY <2>7
    <3>2. \A h \in S : h < j <=> h < i \/ h = i
      BY <1>0, <3>1
    <3> QED
      BY <3>2
  <2> QED
    BY <2>4, <2>7, <2>8
<1>3. \A k \in Nat : k \in T
  <2> HIDE DEF T
  <2> QED
    BY <1>1, <1>2, AllNumbers
<1> QED
  BY <1>3

-----------------------------------------------------------------------------
\* The bytes of the shards the reconstruction works with.
Known == [i \in DataPositions |-> rsShards[rsUsed[i]]]

ErasureTypes ==
  rsStep \in {"encoded", "invert", "recovered", "refused"} =>
    /\ rsData \in Bytes
    /\ DOMAIN rsShards \subseteq Positions
    /\ rsShards = [i \in DOMAIN rsShards |-> rsShards[i]]
    /\ \A i \in DOMAIN rsShards : rsShards[i] = Encode(rsData)[i]

ErasureRows ==
  rsStep = "invert" =>
    /\ rsUsed \in [DataPositions -> DOMAIN rsShards]
    /\ rsColumn \in Nat /\ rsColumn <= DataShards
    /\ Sound(rsAug, rsColumn, rsData, Known)

ErasureInv ==
  /\ rsStep \in {"idle", "look", "encoded", "invert", "recovered", "refused"}
  /\ rsStep \in {"idle", "encoded"} => rsColumn = 0
  /\ ErasureTypes
  /\ ErasureRows
  /\ RecoveredExact

LEMMA ErasureInit == ReedSolomonInit => ErasureInv
  BY DEF ReedSolomonInit, ErasureInv, ErasureTypes, ErasureRows, RecoveredExact

LEMMA LookUpErasure == ErasureInv /\ LookUp => ErasureInv'
  BY DEF ErasureInv, LookUp, ErasureTypes, ErasureRows, RecoveredExact

LEMMA EncodeErasure == ErasureInv /\ EncodeAndLose => ErasureInv'
<1> SUFFICES ASSUME ErasureInv, EncodeAndLose PROVE ErasureInv'
  OBVIOUS
<1>1. PICK lost \in ShardLosses : rsShards' = [i \in Positions \ lost |-> Encode(rsData')[i]]
  BY DEF EncodeAndLose
<1>2. rsData' \in Bytes /\ rsStep = "idle" /\ rsStep' = "encoded" /\ rsColumn' = rsColumn
  BY ReedSolomonAssumption DEF EncodeAndLose, Bytes
<1>3. /\ DOMAIN rsShards' \subseteq Positions
      /\ rsShards' = [i \in DOMAIN rsShards' |-> rsShards'[i]]
      /\ \A i \in DOMAIN rsShards' : rsShards'[i] = Encode(rsData')[i]
  BY <1>1
<1>4. ErasureTypes'
  <2>1. Encode(rsData)' = Encode(rsData')
    BY DEF Encode, ParityShard, Product, EncodingMatrix, Table, GfSum
  <2> QED
    BY <1>2, <1>3, <2>1 DEF ErasureTypes
<1>5. ErasureRows' /\ RecoveredExact'
  BY <1>2 DEF ErasureRows, RecoveredExact
<1> QED
  BY <1>2, <1>4, <1>5 DEF ErasureInv

\* A shard for each row is found when there are enough, and the matrix the
\* elimination starts with has the encoding's equations.
LEMMA UsedFound ==
  ASSUME ErasureInv, rsStep = "encoded", Cardinality(DOMAIN rsShards) >= DataShards
  PROVE  Used \in [DataPositions -> DOMAIN rsShards]
<1>1. DOMAIN rsShards \subseteq Positions
  BY DEF ErasureInv, ErasureTypes
<1> DEFINE S == DOMAIN rsShards
<1>2. IsFiniteSet(Positions) /\ \A i \in Positions : i \in Nat
  BY ReedSolomonAssumption, FS_Interval DEF Positions, Total
<1>3. S \subseteq Nat /\ IsFiniteSet(S)
  BY <1>1, <1>2, FS_Subset
<1>4. Cardinality(S) \in Nat
  BY <1>3, FS_CardinalityType
<1>5. ASSUME NEW r \in DataPositions
      PROVE  \E i \in S : Cardinality({h \in S : h < i}) = r
  <2>1. r \in Nat /\ r < Cardinality(S)
    BY <1>4, Places
  <2> HIDE DEF S
  <2> QED
    BY <1>3, <2>1, MemberAt
<1> QED
  BY <1>5 DEF Used

LEMMA FirstMatrix ==
  ASSUME NEW x \in Bytes, NEW used \in [DataPositions -> Positions], NEW y, NEW m,
         \A i \in DataPositions : y[i] = Encode(x)[used[i]], y \in Bytes,
         m = [r \in DataPositions |-> [j \in Columns |->
               IF j < DataShards THEN EncodingMatrix[used[r]][j]
               ELSE IF j = DataShards + r THEN One ELSE Zero]]
  PROVE  Sound(m, 0, x, y)
<1>1. ASSUME NEW r \in DataPositions, NEW j \in Columns PROVE m[r][j] \in Byte
  <2>1. j < DataShards => j \in DataPositions
    BY ReedSolomonAssumption DEF Columns, DataPositions
  <2>2. j < DataShards => EncodingMatrix[used[r]][j] \in Byte
    BY <2>1, MatrixBytes
  <2>3. One \in Byte /\ Zero \in Byte
    BY OneLog DEF Nonzero
  <2> QED
    BY <2>2, <2>3
<1>2. Matrix(m)
  <2>1. \A r \in DataPositions : m[r] = [j \in Columns |-> m[r][j]]
    OBVIOUS
  <2>2. \A r \in DataPositions : m[r] \in [Columns -> Byte]
    BY <1>1, <2>1
  <2>3. m = [r \in DataPositions |-> m[r]]
    OBVIOUS
  <2> QED
    BY <2>2, <2>3 DEF Matrix
<1>3. Eliminated(m, 0)
  BY Places DEF Eliminated
<1>4. ASSUME NEW r \in DataPositions PROVE RowHolds(m[r], x, y)
  <2>1. \A d \in DataPositions : m[r][d] = EncodingMatrix[used[r]][d]
    BY Places
  <2>2. Product(m[r], x) = Product(EncodingMatrix[used[r]], x)
    <3> DEFINE a == m[r]
               b == EncodingMatrix[used[r]]
    <3>1. \A d \in DataPositions : a[d] = b[d]
      BY <2>1
    <3> HIDE DEF a, b
    <3>2. Product(a, x) = Product(b, x)
      BY <3>1, ProductAlike
    <3> QED
      BY <3>2 DEF a, b
  <2>3. Product(EncodingMatrix[used[r]], x) = y[r]
    BY ShardIsProduct
  <2>4. ASSUME NEW d \in DataPositions
        PROVE  RightPart(m[r])[d] = IF d = r THEN One ELSE Zero
    <3>1. RightPart(m[r])[d] = m[r][DataShards + d]
      BY RightPartAt
    <3>2. /\ DataShards + d \in Columns /\ ~(DataShards + d < DataShards)
          /\ (DataShards + d = DataShards + r <=> d = r)
      BY Places
    <3> QED
      BY <3>1, <3>2
  <2>5. Product(RightPart(m[r]), y) = y[r]
    BY <2>4, UnitProduct
  <2> QED
    BY <2>2, <2>3, <2>5 DEF RowHolds
<1> QED
  BY <1>2, <1>3, <1>4 DEF Sound

LEMMA KnownBytes ==
  ASSUME ErasureInv, rsStep \in {"encoded", "invert"},
         NEW used \in [DataPositions -> DOMAIN rsShards]
  PROVE  [i \in DataPositions |-> rsShards[used[i]]] \in Bytes
<1>1. ASSUME NEW i \in DataPositions PROVE rsShards[used[i]] \in Byte
  <2>1. used[i] \in Positions /\ rsShards[used[i]] = Encode(rsData)[used[i]]
    BY DEF ErasureInv, ErasureTypes
  <2>2. rsData \in Bytes
    BY DEF ErasureInv, ErasureTypes
  <2> QED
    BY <2>1, <2>2, ShardIsProduct
<1> QED
  BY <1>1 DEF Bytes

LEMMA ReconstructErasure == ErasureInv /\ Reconstruct => ErasureInv'
<1> SUFFICES ASSUME ErasureInv, Reconstruct PROVE ErasureInv'
  OBVIOUS
<1>1. /\ rsStep = "encoded" /\ rsColumn = 0
      /\ rsData' = rsData /\ rsShards' = rsShards /\ rsColumn' = rsColumn
  BY DEF Reconstruct, ErasureInv
<1>2. /\ rsData \in Bytes /\ DOMAIN rsShards \subseteq Positions
      /\ rsShards = [i \in DOMAIN rsShards |-> rsShards[i]]
      /\ \A i \in DOMAIN rsShards : rsShards[i] = Encode(rsData)[i]
  BY <1>1 DEF ErasureInv, ErasureTypes
<1>0. /\ IsFiniteSet(DOMAIN rsShards) /\ Cardinality(DOMAIN rsShards) \in Nat
      /\ DataShards \in Nat
      /\ ~(Cardinality(DOMAIN rsShards) < DataShards /\ DOMAIN rsShards = Positions)
  <2> DEFINE last == Total - 1
  <2>1. 0 \in Int /\ last \in Int /\ ~(0 > last) /\ (last - 0) + 1 >= DataShards
        /\ DataShards \in Nat
    BY ReedSolomonAssumption DEF Total
  <2> HIDE DEF last
  <2>2. IsFiniteSet(0 .. last) /\ Cardinality(0 .. last) = (last - 0) + 1
    BY <2>1, FS_Interval
  <2>3. Positions = 0 .. last
    BY DEF Positions, last
  <2>4. IsFiniteSet(DOMAIN rsShards)
    BY <1>2, <2>2, <2>3, FS_Subset
  <2>5. Cardinality(DOMAIN rsShards) \in Nat
    BY <2>4, FS_CardinalityType
  <2> QED
    BY <2>1, <2>2, <2>3, <2>4, <2>5
<1>3. Encode(rsData)' = Encode(rsData)
  BY <1>1 DEF Encode, ParityShard, Product, EncodingMatrix, Table, GfSum
<1>4. ErasureTypes'
  BY <1>1, <1>2, <1>3 DEF ErasureTypes
<1>5. CASE Cardinality(DOMAIN rsShards) < DataShards
  <2>1. rsStep' = "refused"
    BY <1>0, <1>5 DEF Reconstruct
  <2> QED
    BY <1>4, <2>1 DEF ErasureInv, ErasureRows, RecoveredExact
<1>6. CASE ~(Cardinality(DOMAIN rsShards) < DataShards) /\ DOMAIN rsShards = Positions
  <2>1. rsStep' = "recovered"
    BY <1>6 DEF Reconstruct
  <2>2. rsShards = Encode(rsData)
    <3>1. Encode(rsData) = [i \in Positions |-> Encode(rsData)[i]]
      BY DEF Encode
    <3> QED
      BY <1>2, <1>6, <3>1
  <2> QED
    BY <1>1, <1>3, <1>4, <2>1, <2>2 DEF ErasureInv, ErasureRows, RecoveredExact
<1>7. CASE ~(Cardinality(DOMAIN rsShards) < DataShards) /\ DOMAIN rsShards # Positions
  <2>1. /\ rsStep' = "invert" /\ rsUsed' = Used
        /\ rsAug' = [r \in DataPositions |-> [j \in Columns |->
                 IF j < DataShards THEN EncodingMatrix[rsUsed'[r]][j]
                 ELSE IF j = DataShards + r THEN One ELSE Zero]]
    BY <1>7 DEF Reconstruct
  <2>2. Cardinality(DOMAIN rsShards) >= DataShards /\ DataShards \in Nat
    BY <1>0, <1>7
  <2>3. rsUsed' \in [DataPositions -> DOMAIN rsShards]
    BY <1>1, <2>1, <2>2, UsedFound
  <2> DEFINE y == [i \in DataPositions |-> rsShards[rsUsed'[i]]]
  <2>4. y \in Bytes
    BY <1>1, <2>3, KnownBytes
  <2>5. rsUsed' \in [DataPositions -> Positions]
    BY <1>2, <2>3
  <2>6. \A i \in DataPositions : y[i] = Encode(rsData)[rsUsed'[i]]
    BY <1>2, <2>3
  <2>7. Known' = y
    BY <1>1 DEF Known
  <2> HIDE DEF y
  <2>8. Sound(rsAug', 0, rsData, y)
    BY <1>2, <2>1, <2>4, <2>5, <2>6, FirstMatrix
  <2>9. Sound(rsAug, rsColumn, rsData, Known)' = Sound(rsAug', 0, rsData, y)
    BY <1>1, <2>7 DEF Sound, Matrix, Eliminated, RowHolds, Product, RightPart, Table, GfSum
  <2>10. ErasureRows'
    BY <1>1, <2>2, <2>3, <2>8, <2>9 DEF ErasureRows
  <2> QED
    BY <1>4, <2>1, <2>10 DEF ErasureInv, RecoveredExact
<1> QED
  BY <1>5, <1>6, <1>7

LEMMA EliminateErasure == ErasureInv /\ Eliminate => ErasureInv'
<1> SUFFICES ASSUME ErasureInv, Eliminate PROVE ErasureInv'
  OBVIOUS
<1> DEFINE pivots == PivotRows(rsAug, rsColumn)
           m == Swap(rsAug, rsColumn, FirstOf(pivots))
           w == Scale(m, rsColumn)
           c == rsColumn
<1>1. /\ rsStep = "invert" /\ rsColumn < DataShards
      /\ rsData' = rsData /\ rsShards' = rsShards /\ rsUsed' = rsUsed
  BY DEF Eliminate
<1>2. /\ rsData \in Bytes /\ rsUsed \in [DataPositions -> DOMAIN rsShards]
      /\ rsColumn \in Nat /\ Sound(rsAug, rsColumn, rsData, Known)
  BY <1>1 DEF ErasureInv, ErasureTypes, ErasureRows
<1>3. Known \in Bytes
  BY <1>1, <1>2, KnownBytes DEF Known
<1>4. Encode(rsData)' = Encode(rsData) /\ Known' = Known
  BY <1>1 DEF Encode, ParityShard, Product, EncodingMatrix, Table, GfSum, Known
<1>5. ErasureTypes'
  <2>1. ErasureTypes /\ rsStep' \in {"invert", "refused"}
    BY <1>1 DEF ErasureInv, Eliminate
  <2> QED
    BY <1>1, <1>4, <2>1 DEF ErasureTypes
<1>6. CASE pivots = {}
  <2>1. rsStep' = "refused"
    BY <1>6 DEF Eliminate
  <2> QED
    BY <1>5, <2>1 DEF ErasureInv, ErasureRows, RecoveredExact
<1>7. CASE pivots # {}
  <2>1. rsStep' = "invert" /\ rsAug' = ClearColumn(w, c) /\ rsColumn' = c + 1
    BY <1>1, <1>7 DEF Eliminate
  <2>2. c \in DataPositions /\ DataShards \in Nat
    BY <1>1, <1>2, ReedSolomonAssumption DEF DataPositions
  <2>3. pivots \subseteq Nat /\ \A r \in pivots : r \in DataPositions /\ c <= r /\ rsAug[r][c] # Zero
    <3>1. \A r \in c .. DataShards - 1 : r \in Nat /\ r \in DataPositions /\ c <= r
      BY <1>2, <2>2 DEF DataPositions
    <3> QED
      BY <3>1 DEF PivotRows
  <2>4. FirstOf(pivots) \in pivots
    <3> HIDE DEF pivots
    <3>1. PICK i \in pivots : \A j \in pivots : i <= j
      BY <1>7, <2>3, LeastOf
    <3> QED
      BY <3>1 DEF FirstOf
  <2>5. Sound(m, c, rsData, Known) /\ m[c][c] # Zero
    BY <1>2, <2>2, <2>3, <2>4, SwapSound
  <2> HIDE DEF m
  <2>6. Sound(w, c, rsData, Known) /\ w[c][c] = One
    BY <1>2, <1>3, <2>2, <2>5, ScaleSound
  <2> HIDE DEF w
  <2>7. Sound(rsAug', c + 1, rsData, Known)
    BY <1>2, <1>3, <2>1, <2>2, <2>6, ClearSound
  <2>8. Sound(rsAug, rsColumn, rsData, Known)' = Sound(rsAug', c + 1, rsData, Known)
    BY <1>1, <1>4, <2>1 DEF Sound, Matrix, Eliminated, RowHolds, Product, RightPart, Table, GfSum
  <2>9. rsColumn' \in Nat /\ rsColumn' <= DataShards
    BY <1>1, <1>2, <2>1, <2>2
  <2>10. ErasureRows'
    BY <1>1, <1>2, <2>7, <2>8, <2>9 DEF ErasureRows
  <2> QED
    BY <1>5, <2>1, <2>10 DEF ErasureInv, RecoveredExact
<1> QED
  BY <1>6, <1>7

LEMMA RecoverErasure == ErasureInv /\ Recover => ErasureInv'
<1> SUFFICES ASSUME ErasureInv, Recover PROVE ErasureInv'
  OBVIOUS
<1> DEFINE data == [j \in DataPositions |->
                      Product([i \in DataPositions |-> InverseEntry(j, i)], Known)]
<1>1. /\ rsStep = "invert" /\ rsColumn = DataShards /\ rsStep' = "recovered"
      /\ rsData' = rsData
      /\ rsShards' = [i \in Positions |-> IF i \in DOMAIN rsShards THEN rsShards[i]
                                          ELSE ParityShard(i, data)]
  BY DEF Recover, Known
<1>2. /\ rsData \in Bytes /\ rsUsed \in [DataPositions -> DOMAIN rsShards]
      /\ \A i \in DOMAIN rsShards : rsShards[i] = Encode(rsData)[i]
      /\ Sound(rsAug, DataShards, rsData, Known)
  BY <1>1 DEF ErasureInv, ErasureTypes, ErasureRows
<1>3. ASSUME NEW j \in DataPositions PROVE data[j] = rsData[j]
  <2>1. [i \in DataPositions |-> InverseEntry(j, i)] = RightPart(rsAug[j])
    BY DEF InverseEntry, RightPart
  <2>2. Product(RightPart(rsAug[j]), Known) = rsData[j]
    BY <1>2, Solved
  <2> QED
    BY <2>1, <2>2
<1>4. data = rsData
  <2>1. data = [j \in DataPositions |-> data[j]] /\ rsData = [j \in DataPositions |-> rsData[j]]
    BY <1>2 DEF Bytes
  <2> HIDE DEF data
  <2> QED
    BY <1>3, <2>1
<1> HIDE DEF data
<1>5. ASSUME NEW i \in Positions PROVE rsShards'[i] = Encode(rsData)[i]
  <2>1. ParityShard(i, data) = Encode(rsData)[i]
    BY <1>2, <1>4, ShardIsProduct DEF ParityShard
  <2> QED
    BY <1>1, <1>2, <2>1
<1>6. rsShards' = Encode(rsData)
  <2>1. rsShards' = [i \in Positions |-> rsShards'[i]]
    BY <1>1
  <2>2. Encode(rsData) = [i \in Positions |-> Encode(rsData)[i]]
    BY DEF Encode
  <2> QED
    BY <1>5, <2>1, <2>2
<1>7. Encode(rsData)' = Encode(rsData)
  BY <1>1 DEF Encode, ParityShard, Product, EncodingMatrix, Table, GfSum
<1>8. ErasureTypes' /\ RecoveredExact'
  <2>1. DOMAIN rsShards' = Positions /\ rsShards' = [i \in DOMAIN rsShards' |-> rsShards'[i]]
    BY <1>1
  <2> QED
    BY <1>1, <1>2, <1>6, <1>7, <2>1 DEF ErasureTypes, RecoveredExact
<1> QED
  BY <1>1, <1>8 DEF ErasureInv, ErasureRows

LEMMA ErasureAlways == ReedSolomonSpec => []ErasureInv
<1>1. ErasureInv /\ [ReedSolomonNext]_rsVars => ErasureInv'
  <2> SUFFICES ASSUME ErasureInv, [ReedSolomonNext]_rsVars PROVE ErasureInv'
    OBVIOUS
  <2>1. CASE LookUp
    BY <2>1, LookUpErasure
  <2>2. CASE EncodeAndLose
    BY <2>2, EncodeErasure
  <2>3. CASE Reconstruct
    BY <2>3, ReconstructErasure
  <2>4. CASE Eliminate
    BY <2>4, EliminateErasure
  <2>5. CASE Recover
    BY <2>5, RecoverErasure
  <2>6. CASE UNCHANGED rsVars
    <3>1. Encode(rsData)' = Encode(rsData) /\ Known' = Known
      BY <2>6 DEF rsVars, Encode, ParityShard, Product, EncodingMatrix, Table, GfSum, Known
    <3>2. Sound(rsAug, rsColumn, rsData, Known)' = Sound(rsAug, rsColumn, rsData, Known)
      BY <2>6, <3>1
         DEF rsVars, Sound, Matrix, Eliminated, RowHolds, Product, RightPart, Table, GfSum
    <3> QED
      BY <2>6, <3>1, <3>2 DEF rsVars, ErasureInv, ErasureTypes, ErasureRows, RecoveredExact
  <2> QED
    BY <2>1, <2>2, <2>3, <2>4, <2>5, <2>6 DEF ReedSolomonNext
<1> QED
  BY <1>1, ErasureInit, PTL DEF ReedSolomonSpec

\* The shards reconstruct hands back are those encode made, whatever was lost:
\* a reconstruction that does not refuse is exact (ReedSolomon::reconstruct,
\* whose caller repairs packs with it).
THEOREM RecoveredAlwaysExact == ReedSolomonSpec => []RecoveredExact
<1>1. ErasureInv => RecoveredExact
  BY DEF ErasureInv
<1> QED
  BY <1>1, ErasureAlways, PTL

-----------------------------------------------------------------------------
\* Refusals.  The elimination gives up only on rows that are not independent.

\* The unknowns x that every row of a matrix sends to 0.
Kernel(m, x) == \A r \in DataPositions : Product(m[r], x) = Zero

LEMMA SumZero ==
  ASSUME NEW n \in Nat, NEW f, \A i \in 0 .. n - 1 : f[i] = Zero
  PROVE  Sum(n, f) = Zero
<1>1. CASE n = 0
  BY <1>1, SumNone
<1>2. CASE n # 0
  <2>1. 0 \in 0 .. n - 1 /\ f[0] = Zero /\ f[0] \in Byte
    BY <1>2, OneLog
  <2> QED
    BY <2>1, SumOne
<1> QED
  BY <1>1, <1>2

\* No step of the elimination adds a vector to the kernel: each can be undone.
LEMMA SwapKernel ==
  ASSUME NEW m, Matrix(m), NEW c \in DataPositions, NEW s \in DataPositions, NEW x \in Bytes,
         Kernel(Swap(m, c, s), x)
  PROVE  Kernel(m, x)
<1> DEFINE w == Swap(m, c, s)
<1>1. \A r \in DataPositions : w[r] = IF r = s THEN m[c] ELSE IF r = c THEN m[s] ELSE m[r]
  BY DEF Matrix, Swap
<1>2. \A r \in DataPositions : Product(w[r], x) = Zero
  BY DEF Kernel
<1> HIDE DEF w
<1> QED
  BY <1>1, <1>2 DEF Kernel

LEMMA NoZeroDivisors ==
  ASSUME NEW a \in Nonzero, NEW b \in Byte, GfMul(a, b) = Zero
  PROVE  b = Zero
<1>1. b # Zero => b \in Nonzero
  BY DEF Nonzero
<1>2. b \in Nonzero => GfMul(a, b) \in Nonzero
  BY MulLogs
<1> QED
  BY <1>1, <1>2 DEF Nonzero

LEMMA ProductByte ==
  ASSUME NEW a, NEW x
  PROVE  Product(a, x) \in Byte
<1> DEFINE f == [d \in DataPositions |-> GfMul(a[d], x[d])]
<1>1. \A d \in DataPositions : f[d] = GfMul(a[d], x[d])
  OBVIOUS
<1> HIDE DEF f
<1> QED
  BY <1>1, ProductIsSum

LEMMA ScaleKernel ==
  ASSUME NEW m, Matrix(m), NEW c \in DataPositions, m[c][c] # Zero, NEW x \in Bytes,
         Kernel(Scale(m, c), x)
  PROVE  Kernel(m, x)
<1> DEFINE inv == GfInv(m[c][c])
           w == Scale(m, c)
<1>1. m[c] \in [Columns -> Byte] /\ m[c][c] \in Nonzero
  BY Places DEF Matrix, Nonzero
<1>2. inv \in Nonzero
  BY <1>1, MulInverse
<1>3. /\ \A r \in DataPositions : r # c => w[r] = m[r]
      /\ w[c] = [j \in Columns |-> GfMul(m[c][j], inv)]
  BY DEF Matrix, Scale
<1>4. \A r \in DataPositions : Product(w[r], x) = Zero
  BY DEF Kernel
<1> HIDE DEF w, inv
<1>5. \A d \in DataPositions : m[c][d] \in Byte /\ w[c][d] = GfMul(m[c][d], inv)
  BY <1>1, <1>3, Places
<1>6. Product(w[c], x) = GfMul(inv, Product(m[c], x))
  BY <1>2, <1>5, ScaleProduct DEF Nonzero
<1>7. Product(m[c], x) = Zero
  BY <1>2, <1>4, <1>6, ProductByte, NoZeroDivisors
<1> QED
  BY <1>3, <1>4, <1>7 DEF Kernel

LEMMA ClearKernel ==
  ASSUME NEW m, Matrix(m), NEW c \in DataPositions, NEW x \in Bytes,
         Kernel(ClearColumn(m, c), x)
  PROVE  Kernel(m, x)
<1> DEFINE w == ClearColumn(m, c)
           Kept(r) == r = c \/ m[r][c] = Zero
<1>1. /\ \A r \in DataPositions : Kept(r) => w[r] = m[r]
      /\ \A r \in DataPositions :
           ~Kept(r) => w[r] = [j \in Columns |-> GfAdd(m[r][j], GfMul(m[r][c], m[c][j]))]
  BY DEF ClearColumn
<1>2. \A r \in DataPositions : Product(w[r], x) = Zero
  BY DEF Kernel
<1> HIDE DEF w
<1>3. Product(m[c], x) = Zero
  BY <1>1, <1>2
<1>4. ASSUME NEW r \in DataPositions, ~Kept(r) PROVE Product(m[r], x) = Zero
  <2>1. /\ m[r][c] \in Byte
        /\ \A d \in DataPositions :
             m[r][d] \in Byte /\ m[c][d] \in Byte /\ w[r][d] = GfAdd(m[r][d], GfMul(m[r][c], m[c][d]))
    BY <1>1, <1>4, Places DEF Matrix
  <2>2. Product(w[r], x) = GfAdd(Product(m[r], x), GfMul(m[r][c], Product(m[c], x)))
    BY <2>1, AddProduct
  <2>3. GfMul(m[r][c], Zero) = Zero
    BY DEF GfMul
  <2> QED
    BY <1>2, <1>3, <2>2, <2>3, ProductByte, FieldAdd
<1> QED
  BY <1>1, <1>2, <1>4 DEF Kernel

\* A column without a pivot: it is a sum of the columns before it.
LEMMA StuckKernel ==
  ASSUME NEW m, Matrix(m), NEW c \in DataPositions, Eliminated(m, c), PivotRows(m, c) = {}
  PROVE  \E x \in Bytes : x[c] = One /\ Kernel(m, x)
<1> DEFINE x == [j \in DataPositions |->
                   IF j < c THEN m[j][c] ELSE IF j = c THEN One ELSE Zero]
<1>1. ASSUME NEW r \in DataPositions, NEW j \in DataPositions PROVE m[r][j] \in Byte
  BY Places DEF Matrix
<1>2. x \in Bytes /\ x[c] = One
  BY <1>1, OneLog, Places DEF Bytes, Nonzero
<1>3. \A j \in DataPositions : x[j] = IF j < c THEN m[j][c] ELSE IF j = c THEN One ELSE Zero
  OBVIOUS
<1> HIDE DEF x
<1>4. DataShards \in Nat /\ Zero \in Byte /\ One \in Byte
  BY OneLog, ReedSolomonAssumption DEF Nonzero
<1>5. ASSUME NEW r \in DataPositions PROVE Product(m[r], x) = Zero
  <2> DEFINE t == [j \in DataPositions |-> GfMul(m[r][j], x[j])]
  <2>1. \A j \in DataPositions : t[j] = GfMul(m[r][j], x[j])
    OBVIOUS
  <2> HIDE DEF t
  <2>2. Product(m[r], x) = Sum(DataShards, t)
    BY <2>1, ProductIsSum
  <2>3. ASSUME NEW j \in DataPositions, j # r, j # c PROVE t[j] = Zero
    <3>1. CASE j < c
      BY <1>1, <1>2, <2>1, <2>3, <3>1 DEF Eliminated, GfMul
    <3>2. CASE ~(j < c)
      BY <1>3, <2>1, <2>3, <3>2 DEF GfMul
    <3> QED
      BY <3>1, <3>2
  <2>4. CASE r < c
    <3> DEFINE f == [j \in DataPositions |-> IF j = r THEN m[r][c] ELSE Zero]
               g == [j \in DataPositions |-> IF j = c THEN m[r][c] ELSE Zero]
    <3>1. /\ \A j \in DataPositions : f[j] = IF j = r THEN m[r][c] ELSE Zero
          /\ \A j \in DataPositions : g[j] = IF j = c THEN m[r][c] ELSE Zero
      OBVIOUS
    <3> HIDE DEF f, g
    <3>2. t[r] = m[r][c] /\ t[c] = m[r][c] /\ r # c
      <4>1. m[r][r] = One /\ x[r] = m[r][c] /\ x[c] = One /\ r # c
        BY <1>3, <2>4, Places DEF Eliminated
      <4> QED
        BY <1>1, <2>1, <4>1, MulSimple
    <3>3. \A j \in DataPositions : f[j] \in Byte /\ g[j] \in Byte /\ t[j] = GfAdd(f[j], g[j])
      BY <1>1, <1>4, <2>3, <3>1, <3>2, FieldAdd
    <3>4. Sum(DataShards, t) = GfAdd(Sum(DataShards, f), Sum(DataShards, g))
      BY <1>4, <3>3, SumAdds DEF DataPositions
    <3>5. Sum(DataShards, f) = f[r]
      BY <1>4, <3>1, <3>3, SumOne DEF DataPositions
    <3>6. Sum(DataShards, g) = g[c]
      BY <1>4, <3>1, <3>3, SumOne DEF DataPositions
    <3> QED
      BY <1>1, <2>2, <3>1, <3>4, <3>5, <3>6, FieldAdd
  <2>5. CASE ~(r < c)
    <3>1. m[r][c] = Zero
      <4>1. r \in c .. DataShards - 1
        BY <2>5, Places DEF DataPositions
      <4> QED
        BY <4>1 DEF PivotRows
    <3>2. t[c] = Zero
      BY <2>1, <3>1 DEF GfMul
    <3>3. r # c => t[r] = Zero
      <4>1. r # c => x[r] = Zero
        BY <1>3, <2>5
      <4> QED
        BY <2>1, <4>1 DEF GfMul
    <3>4. \A j \in DataPositions : t[j] = Zero
      BY <2>3, <3>2, <3>3
    <3> QED
      BY <1>4, <2>2, <3>4, SumZero DEF DataPositions
  <2> QED
    BY <2>4, <2>5
<1> QED
  BY <1>2, <1>5 DEF Kernel

\* The rows of the encoding matrix that the reconstruction works with.
Rows(used) == [r \in DataPositions |-> EncodingMatrix[used[r]]]

KeepsKernel(m, used) == \A x \in Bytes : Kernel(m, x) => Kernel(Rows(used), x)

\* The elimination never adds to the kernel; when it refuses, the kernel of the
\* rows it started with is not just 0.
KernelInv ==
  /\ rsStep = "invert" => rsUsed = Used /\ KeepsKernel(rsAug, rsUsed)
  /\ rsStep = "refused" =>
       \/ Cardinality(DOMAIN rsShards) < DataShards
       \/ /\ rsUsed = Used /\ rsUsed \in [DataPositions -> DOMAIN rsShards]
          /\ \E x \in Bytes : (\E c \in DataPositions : x[c] = One) /\ Kernel(Rows(rsUsed), x)

LEMMA ReconstructKernel == ErasureInv /\ KernelInv /\ Reconstruct => KernelInv'
<1> SUFFICES ASSUME ErasureInv, KernelInv, Reconstruct PROVE KernelInv'
  OBVIOUS
<1>1. rsShards' = rsShards /\ Used' = Used
  BY DEF Reconstruct, Used
<1>2. \/ rsStep' = "recovered"
      \/ rsStep' = "refused" /\ Cardinality(DOMAIN rsShards) < DataShards
      \/ /\ rsStep' = "invert" /\ rsUsed' = Used
         /\ rsAug' = [r \in DataPositions |-> [j \in Columns |->
                 IF j < DataShards THEN EncodingMatrix[rsUsed'[r]][j]
                 ELSE IF j = DataShards + r THEN One ELSE Zero]]
  BY DEF Reconstruct
<1>3. CASE rsStep' = "recovered"
  BY <1>3 DEF KernelInv
<1>4. CASE rsStep' = "refused" /\ Cardinality(DOMAIN rsShards) < DataShards
  BY <1>1, <1>4 DEF KernelInv
<1>5. CASE /\ rsStep' = "invert" /\ rsUsed' = Used
           /\ rsAug' = [r \in DataPositions |-> [j \in Columns |->
                 IF j < DataShards THEN EncodingMatrix[rsUsed'[r]][j]
                 ELSE IF j = DataShards + r THEN One ELSE Zero]]
  <2> DEFINE m == rsAug'
  <2>1. ASSUME NEW x \in Bytes, NEW r \in DataPositions
        PROVE  Product(m[r], x) = Product(EncodingMatrix[rsUsed'[r]], x)
    <3> DEFINE a == m[r]
               b == EncodingMatrix[rsUsed'[r]]
    <3>1. \A d \in DataPositions : a[d] = b[d]
      BY <1>5, Places
    <3> HIDE DEF a, b
    <3>2. Product(a, x) = Product(b, x)
      BY <3>1, ProductAlike
    <3> QED
      BY <3>2 DEF a, b
  <2>2. KeepsKernel(m, rsUsed')
    BY <2>1 DEF KeepsKernel, Kernel, Rows
  <2>3. KeepsKernel(rsAug, rsUsed)' = KeepsKernel(m, rsUsed')
    BY DEF KeepsKernel, Kernel, Rows, Product, Table, GfSum, EncodingMatrix
  <2> QED
    BY <1>1, <1>5, <2>2, <2>3 DEF KernelInv
<1> QED
  BY <1>2, <1>3, <1>4, <1>5

LEMMA EliminateKernel == ErasureInv /\ KernelInv /\ Eliminate => KernelInv'
<1> SUFFICES ASSUME ErasureInv, KernelInv, Eliminate PROVE KernelInv'
  OBVIOUS
<1> DEFINE pivots == PivotRows(rsAug, rsColumn)
           c == rsColumn
           s == FirstOf(pivots)
           m == Swap(rsAug, c, s)
           w == Scale(m, c)
<1>1. /\ rsStep = "invert" /\ rsColumn < DataShards
      /\ rsData' = rsData /\ rsShards' = rsShards /\ rsUsed' = rsUsed /\ Used' = Used
  BY DEF Eliminate, Used
<1>2. /\ rsData \in Bytes /\ rsUsed \in [DataPositions -> DOMAIN rsShards]
      /\ rsColumn \in Nat /\ Sound(rsAug, rsColumn, rsData, Known) /\ Known \in Bytes
      /\ rsUsed = Used /\ KeepsKernel(rsAug, rsUsed)
  <2>1. rsUsed \in [DataPositions -> DOMAIN rsShards]
    BY <1>1 DEF ErasureInv, ErasureRows
  <2>2. Known \in Bytes
    BY <1>1, <2>1, KnownBytes DEF Known
  <2> QED
    BY <1>1, <2>1, <2>2 DEF ErasureInv, ErasureTypes, ErasureRows, KernelInv
<1>3. c \in DataPositions /\ DataShards \in Nat /\ Matrix(rsAug) /\ Eliminated(rsAug, c)
  BY <1>1, <1>2, ReedSolomonAssumption DEF DataPositions, Sound
<1>4. Rows(rsUsed)' = Rows(rsUsed)
  BY <1>1 DEF Rows, EncodingMatrix
<1>5. CASE pivots = {}
  <2>1. rsStep' = "refused"
    BY <1>5 DEF Eliminate
  <2>2. PICK x \in Bytes : x[c] = One /\ Kernel(rsAug, x)
    BY <1>3, <1>5, StuckKernel
  <2>3. Kernel(Rows(rsUsed), x) /\ x \in Bytes /\ x[c] = One
    BY <1>2, <2>2 DEF KeepsKernel
  <2>4. Kernel(Rows(rsUsed), x)' = Kernel(Rows(rsUsed), x)
    BY <1>4 DEF Kernel, Product, Table, GfSum
  <2>5. Bytes' = Bytes /\ DataPositions' = DataPositions
    OBVIOUS
  <2> QED
    BY <1>1, <1>2, <1>3, <2>1, <2>3, <2>4
       DEF KernelInv, Kernel, Rows, Product, Table, GfSum, EncodingMatrix
<1>6. CASE pivots # {}
  <2>1. rsStep' = "invert" /\ rsAug' = ClearColumn(w, c)
    BY <1>1, <1>6 DEF Eliminate
  <2>2. pivots \subseteq Nat /\ \A r \in pivots : r \in DataPositions /\ c <= r /\ rsAug[r][c] # Zero
    <3>1. \A r \in c .. DataShards - 1 : r \in Nat /\ r \in DataPositions /\ c <= r
      BY <1>2, <1>3 DEF DataPositions
    <3> QED
      BY <3>1 DEF PivotRows
  <2>3. s \in pivots
    <3> HIDE DEF pivots
    <3>1. PICK i \in pivots : \A j \in pivots : i <= j
      BY <1>6, <2>2, LeastOf
    <3> QED
      BY <3>1 DEF FirstOf
  <2>4. s \in DataPositions /\ c <= s /\ rsAug[s][c] # Zero
    BY <2>2, <2>3
  <2> HIDE DEF s
  <2>5. Sound(m, c, rsData, Known) /\ m[c][c] # Zero
    BY <1>2, <1>3, <2>4, SwapSound
  <2>6. \A x \in Bytes : Kernel(m, x) => Kernel(rsAug, x)
    BY <1>3, <2>4, SwapKernel
  <2> HIDE DEF m
  <2>7. Sound(w, c, rsData, Known)
    BY <1>2, <1>3, <2>5, ScaleSound
  <2>8. \A x \in Bytes : Kernel(w, x) => Kernel(m, x)
    BY <1>3, <2>5, ScaleKernel DEF Sound
  <2> HIDE DEF w
  <2> DEFINE v == ClearColumn(w, c)
  <2>9. \A x \in Bytes : Kernel(v, x) => Kernel(w, x)
    BY <1>3, <2>7, ClearKernel DEF Sound
  <2>10. KeepsKernel(v, rsUsed)
    BY <1>2, <2>6, <2>8, <2>9 DEF KeepsKernel
  <2>11. rsAug' = v
    BY <2>1
  <2> HIDE DEF v
  <2>12. KeepsKernel(rsAug, rsUsed)' = KeepsKernel(rsAug', rsUsed')
    BY DEF KeepsKernel, Kernel, Rows, Product, Table, GfSum, EncodingMatrix
  <2> QED
    BY <1>1, <1>2, <2>1, <2>10, <2>11, <2>12 DEF KernelInv
<1> QED
  BY <1>5, <1>6

LEMMA KernelAlways == ReedSolomonSpec => []KernelInv
<1>1. ReedSolomonInit => KernelInv
  BY DEF ReedSolomonInit, KernelInv
<1>2. ErasureInv /\ KernelInv /\ [ReedSolomonNext]_rsVars => KernelInv'
  <2> SUFFICES ASSUME ErasureInv, KernelInv, [ReedSolomonNext]_rsVars PROVE KernelInv'
    OBVIOUS
  <2>1. CASE LookUp
    BY <2>1 DEF LookUp, KernelInv
  <2>2. CASE EncodeAndLose
    BY <2>2 DEF EncodeAndLose, KernelInv
  <2>3. CASE Reconstruct
    BY <2>3, ReconstructKernel
  <2>4. CASE Eliminate
    BY <2>4, EliminateKernel
  <2>5. CASE Recover
    BY <2>5 DEF Recover, KernelInv
  <2>6. CASE UNCHANGED rsVars
    <3>1. KeepsKernel(rsAug, rsUsed)' = KeepsKernel(rsAug, rsUsed) /\ Used' = Used
      BY <2>6 DEF rsVars, KeepsKernel, Kernel, Rows, Product, Table, GfSum, EncodingMatrix, Used
    <3>2. \A x \in Bytes : Kernel(Rows(rsUsed), x)' = Kernel(Rows(rsUsed), x)
      BY <2>6 DEF rsVars, Kernel, Rows, Product, Table, GfSum, EncodingMatrix
    <3> QED
      BY <2>6, <3>1, <3>2 DEF rsVars, KernelInv
  <2> QED
    BY <2>1, <2>2, <2>3, <2>4, <2>5, <2>6 DEF ReedSolomonNext
<1> QED
  BY <1>1, <1>2, ErasureAlways, PTL DEF ReedSolomonSpec

\* Two data words whose used shards are the same.
RefusalAmbiguous ==
  rsStep = "refused" =>
    \/ Cardinality(DOMAIN rsShards) < DataShards
    \/ \E other \in Bytes :
         /\ other # rsData
         /\ \A r \in DataPositions :
              Used[r] \in DOMAIN rsShards /\ Encode(other)[Used[r]] = rsShards[Used[r]]

\* reconstruct gives up only when it has to: with fewer shards than data shards,
\* or when other data has the very same bytes in all the shards it works with.
\* No swap, scaling or clearing of the elimination loses a solvable case
\* (ReedSolomon::reconstruct, Matrix::invert).
THEOREM RefusesOnlyAmbiguous == ReedSolomonSpec => []RefusalAmbiguous
<1>1. ErasureInv /\ KernelInv => RefusalAmbiguous
  <2> SUFFICES ASSUME ErasureInv, KernelInv, rsStep = "refused",
                      ~(Cardinality(DOMAIN rsShards) < DataShards)
               PROVE  \E other \in Bytes :
                        /\ other # rsData
                        /\ \A r \in DataPositions :
                             /\ Used[r] \in DOMAIN rsShards
                             /\ Encode(other)[Used[r]] = rsShards[Used[r]]
    BY DEF RefusalAmbiguous
  <2>1. /\ rsUsed = Used /\ rsUsed \in [DataPositions -> DOMAIN rsShards]
        /\ \E x \in Bytes : (\E c \in DataPositions : x[c] = One) /\ Kernel(Rows(rsUsed), x)
    BY DEF KernelInv
  <2>2. PICK x \in Bytes : (\E c \in DataPositions : x[c] = One) /\ Kernel(Rows(rsUsed), x)
    BY <2>1
  <2>3. PICK c \in DataPositions : x[c] = One
    BY <2>2
  <2>4. /\ rsData \in Bytes /\ DOMAIN rsShards \subseteq Positions
        /\ \A i \in DOMAIN rsShards : rsShards[i] = Encode(rsData)[i]
    BY DEF ErasureInv, ErasureTypes
  <2> DEFINE other == [d \in DataPositions |-> GfAdd(rsData[d], x[d])]
  <2>5. \A d \in DataPositions : rsData[d] \in Byte /\ x[d] \in Byte
    BY <2>4 DEF Bytes
  <2>6. other \in Bytes /\ \A d \in DataPositions : other[d] = GfAdd(rsData[d], x[d])
    BY <2>5, FieldAdd DEF Bytes
  <2> HIDE DEF other
  <2>7. other # rsData
    <3>1. other[c] = GfAdd(rsData[c], One)
      BY <2>3, <2>6
    <3> QED
      BY <3>1 DEF GfAdd, One
  <2>8. ASSUME NEW r \in DataPositions PROVE Encode(other)[Used[r]] = rsShards[Used[r]]
    <3> DEFINE i == Used[r]
               row == EncodingMatrix[i]
               a == [d \in DataPositions |-> GfMul(row[d], rsData[d])]
               b == [d \in DataPositions |-> GfMul(row[d], x[d])]
               h == [d \in DataPositions |-> GfMul(row[d], other[d])]
    <3>1. i \in DOMAIN rsShards /\ i \in Positions
      BY <2>1, <2>4
    <3>2. Product(row, x) = Zero
      BY <2>1, <2>2 DEF Kernel, Rows
    <3> HIDE DEF i
    <3>3. \A d \in DataPositions : row[d] \in Byte
      BY <3>1, MatrixBytes
    <3> HIDE DEF row
    <3>4. /\ \A d \in DataPositions : a[d] = GfMul(row[d], rsData[d])
          /\ \A d \in DataPositions : b[d] = GfMul(row[d], x[d])
          /\ \A d \in DataPositions : h[d] = GfMul(row[d], other[d])
      OBVIOUS
    <3> HIDE DEF a, b, h
    <3>5. ASSUME NEW d \in DataPositions
          PROVE  a[d] \in Byte /\ b[d] \in Byte /\ h[d] = GfAdd(a[d], b[d])
      <4>1. row[d] \in Byte /\ rsData[d] \in Byte /\ x[d] \in Byte
        BY <2>5, <3>3
      <4>2. GfMul(row[d], GfAdd(rsData[d], x[d]))
              = GfAdd(GfMul(row[d], rsData[d]), GfMul(row[d], x[d]))
        BY <4>1, MulAdds
      <4> QED
        BY <2>6, <3>4, <4>1, <4>2, MulSimple
    <3>6. DataShards \in Nat
      BY ReedSolomonAssumption
    <3>7. Sum(DataShards, h) = GfAdd(Sum(DataShards, a), Sum(DataShards, b))
      BY <3>5, <3>6, SumAdds DEF DataPositions
    <3>8. /\ Product(row, rsData) = Sum(DataShards, a) /\ Product(row, x) = Sum(DataShards, b)
          /\ Product(row, other) = Sum(DataShards, h)
      BY <3>4, ProductIsSum
    <3>9. Product(row, other) = Product(row, rsData)
      BY <3>2, <3>7, <3>8, ProductByte, FieldAdd
    <3>10. Encode(other)[i] = Product(row, other) /\ Encode(rsData)[i] = Product(row, rsData)
      BY <2>4, <2>6, <3>1, ShardIsProduct DEF row
    <3> QED
      BY <2>4, <3>1, <3>9, <3>10 DEF i
  <2>9. \A r \in DataPositions : Used[r] \in DOMAIN rsShards
    BY <2>1
  <2> QED
    BY <2>6, <2>7, <2>8, <2>9
<1> QED
  BY <1>1, ErasureAlways, KernelAlways, PTL

-----------------------------------------------------------------------------
\* Vandermonde rows.  Each row is the one before, every entry multiplied by the
\* node of its column; nodes that differ make the rows independent.

Support(y) == {d \in DataPositions : y[d] # Zero}

LEMMA SupportFinite ==
  ASSUME NEW y
  PROVE  /\ IsFiniteSet(DataPositions) /\ IsFiniteSet(Support(y))
         /\ Cardinality(Support(y)) \in Nat
<1>1. 0 \in Int /\ DataShards - 1 \in Int
  BY ReedSolomonAssumption
<1>2. IsFiniteSet(DataPositions)
  BY <1>1, FS_Interval DEF DataPositions
<1>3. IsFiniteSet(Support(y))
  BY <1>2, FS_Subset DEF Support
<1> QED
  BY <1>2, <1>3, FS_CardinalityType

VandermondeRows(R, n, L) ==
  /\ \A d \in DataPositions : n[d] \in Byte
  /\ \A t \in Nat : \A d \in DataPositions :
       R[t][d] \in Byte /\ R[t + 1][d] = GfMul(n[d], R[t][d])
  /\ \A d \in L : R[0][d] # Zero
  /\ \A d, e \in L : d # e => n[d] # n[e]

\* The first k rows determine k unknowns.
Determined(R, L, k, y) ==
  /\ Support(y) \subseteq L
  /\ Cardinality(Support(y)) <= k
  /\ \A t \in 0 .. k - 1 : Product(R[t], y) = Zero
  => Support(y) = {}

LEMMA VandermondeKernel ==
  ASSUME NEW R, NEW n, NEW L, VandermondeRows(R, n, L)
  PROVE  \A k \in Nat : \A y \in Bytes : Determined(R, L, k, y)
<1> DEFINE S == {k \in Nat : \A y \in Bytes : Determined(R, L, k, y)}
<1> USE DEF VandermondeRows, Determined
<1>1. 0 \in S
  <2> SUFFICES ASSUME NEW y \in Bytes, Cardinality(Support(y)) <= 0 PROVE Support(y) = {}
    OBVIOUS
  <2>1. Cardinality(Support(y)) = 0 /\ IsFiniteSet(Support(y))
    BY SupportFinite
  <2> QED
    BY <2>1, FS_EmptySet
<1>2. ASSUME NEW k \in Nat, k \in S PROVE k + 1 \in S
  <2> SUFFICES ASSUME NEW y \in Bytes, Support(y) \subseteq L, Cardinality(Support(y)) <= k + 1,
                      \A t \in 0 .. k : Product(R[t], y) = Zero,
                      Support(y) # {}
               PROVE  FALSE
    <3>1. (k + 1) - 1 = k
      OBVIOUS
    <3> QED
      BY <3>1
  <2>1. PICK i \in DataPositions : y[i] # Zero
    BY DEF Support
  <2> DEFINE z == [d \in DataPositions |-> GfMul(GfAdd(n[d], n[i]), y[d])]
  <2>2. \A d \in DataPositions : y[d] \in Byte /\ n[d] \in Byte /\ GfAdd(n[d], n[i]) \in Byte
    BY FieldAdd DEF Bytes
  <2>3. z \in Bytes /\ \A d \in DataPositions : z[d] = GfMul(GfAdd(n[d], n[i]), y[d])
    BY <2>2, MulSimple DEF Bytes
  <2> HIDE DEF z
  <2>4. Support(z) \subseteq Support(y) \ {i}
    <3>1. ASSUME NEW d \in DataPositions, y[d] = Zero PROVE z[d] = Zero
      BY <2>3, <3>1 DEF GfMul
    <3>2. z[i] = Zero
      <4>1. GfAdd(n[i], n[i]) = Zero
        BY <2>2, FieldAdd
      <4> QED
        BY <2>3, <4>1 DEF GfMul
    <3> QED
      BY <3>1, <3>2 DEF Support
  <2>5. Cardinality(Support(z)) <= k
    <3> DEFINE A == Support(y)
    <3>1. IsFiniteSet(A) /\ i \in A /\ Cardinality(A) \in Nat /\ Cardinality(A) <= k + 1
      BY <2>1, SupportFinite DEF Support
    <3> HIDE DEF A
    <3>2. Cardinality(A \ {i}) = Cardinality(A) - 1 /\ IsFiniteSet(A \ {i})
      BY <3>1, FS_RemoveElement
    <3>3. Cardinality(Support(z)) <= Cardinality(A \ {i})
      <4>1. Support(z) \subseteq A \ {i}
        BY <2>4 DEF A
      <4> QED
        BY <3>2, <4>1, FS_Subset
    <3>4. Cardinality(Support(z)) \in Nat
      BY SupportFinite
    <3> QED
      BY <3>1, <3>2, <3>3, <3>4
  <2>6. ASSUME NEW t \in 0 .. k - 1 PROVE Product(R[t], z) = Zero
    <3> DEFINE v == n[i]
               q == [d \in DataPositions |-> GfMul(R[t][d], GfAdd(n[d], v))]
               f == [d \in DataPositions |-> GfMul(R[t][d], z[d])]
    <3>1. t \in Nat /\ t \in 0 .. k /\ t + 1 \in Nat /\ t + 1 \in 0 .. k
      OBVIOUS
    <3>2. v \in Byte /\ \A d \in DataPositions : z[d] = GfMul(GfAdd(n[d], v), y[d])
      BY <2>2, <2>3
    <3> HIDE DEF v
    <3>3. /\ \A d \in DataPositions : q[d] = GfMul(R[t][d], GfAdd(n[d], v))
          /\ \A d \in DataPositions : f[d] = GfMul(R[t][d], z[d])
      OBVIOUS
    <3> HIDE DEF q, f
    <3>4. ASSUME NEW d \in DataPositions
          PROVE  /\ R[t + 1][d] \in Byte /\ R[t][d] \in Byte
                 /\ q[d] = GfAdd(R[t + 1][d], GfMul(v, R[t][d]))
                 /\ f[d] = GfMul(q[d], y[d])
      <4>1. /\ R[t][d] \in Byte /\ y[d] \in Byte /\ n[d] \in Byte
            /\ R[t + 1][d] \in Byte /\ R[t + 1][d] = GfMul(n[d], R[t][d])
        BY <2>2, <3>1
      <4>2. q[d] = GfAdd(GfMul(R[t][d], n[d]), GfMul(R[t][d], v))
        BY <3>2, <3>3, <4>1, MulAdds
      <4>3. GfMul(R[t][d], n[d]) = GfMul(n[d], R[t][d]) /\ GfMul(R[t][d], v) = GfMul(v, R[t][d])
        BY <3>2, <4>1, MulSimple
      <4>4. GfAdd(n[d], v) \in Byte
        BY <3>2, <4>1, FieldAdd
      <4>5. f[d] = GfMul(GfMul(R[t][d], GfAdd(n[d], v)), y[d])
        BY <3>2, <3>3, <4>1, <4>4, MulAssociates
      <4> QED
        BY <3>3, <4>1, <4>2, <4>3, <4>5
    <3>5. Product(R[t], z) = Sum(DataShards, f) /\ Product(q, y) = Sum(DataShards, f)
      BY <3>3, <3>4, ProductIsSum
    <3>6. Product(q, y) = GfAdd(Product(R[t + 1], y), GfMul(v, Product(R[t], y)))
      BY <3>2, <3>4, AddProduct
    <3>7. Product(R[t + 1], y) = Zero /\ Product(R[t], y) = Zero
      BY <3>1
    <3>8. GfMul(v, Zero) = Zero /\ GfAdd(Zero, Zero) = Zero
      BY FieldAdd, OneLog DEF GfMul
    <3> QED
      BY <3>5, <3>6, <3>7, <3>8
  <2>7. Support(z) = {}
    <3>1. Determined(R, L, k, z)
      BY <1>2, <2>3
    <3>2. Support(z) \subseteq L
      BY <2>4
    <3> QED
      BY <2>5, <2>6, <3>1, <3>2
  \* The only unknown left is the i-th, and the first row sends it to 0.
  <2>8. ASSUME NEW d \in DataPositions, d # i PROVE y[d] = Zero
    <3> SUFFICES ASSUME y[d] # Zero PROVE FALSE
      OBVIOUS
    <3>1. d \in L /\ i \in L /\ n[d] # n[i]
      BY <2>1, <2>8 DEF Support
    <3>2. GfAdd(n[d], n[i]) # Zero
      BY <3>1 DEF GfAdd, Zero
    <3>3. GfAdd(n[d], n[i]) \in Nonzero
      BY <2>2, <3>2 DEF Nonzero
    <3>4. z[d] = Zero
      BY <2>7 DEF Support
    <3> QED
      BY <2>2, <2>3, <3>3, <3>4, NoZeroDivisors
  <2>9. Product(R[0], y) = GfMul(R[0][i], y[i])
    <3> DEFINE f == [d \in DataPositions |-> GfMul(R[0][d], y[d])]
    <3>1. \A d \in DataPositions : f[d] = GfMul(R[0][d], y[d])
      OBVIOUS
    <3> HIDE DEF f
    <3>2. f[i] \in Byte /\ \A d \in DataPositions : d # i => f[d] = Zero
      <4>1. R[0][i] \in Byte /\ y[i] \in Byte
        BY <2>2
      <4>2. f[i] \in Byte
        BY <3>1, <4>1, MulSimple
      <4> QED
        BY <2>8, <3>1, <4>2 DEF GfMul
    <3>3. DataShards \in Nat
      BY ReedSolomonAssumption
    <3>4. Sum(DataShards, f) = f[i]
      BY <3>2, <3>3, SumOne DEF DataPositions
    <3>5. Product(R[0], y) = Sum(DataShards, f)
      BY <3>1, ProductIsSum
    <3> QED
      BY <3>1, <3>4, <3>5
  <2>10. Product(R[0], y) = Zero /\ R[0][i] \in Byte /\ R[0][i] # Zero
    <3>1. 0 \in 0 .. k /\ 0 \in Nat /\ i \in L
      BY <2>1 DEF Support
    <3> QED
      BY <3>1
  <2>11. R[0][i] \in Nonzero
    BY <2>10 DEF Nonzero
  <2> QED
    BY <2>1, <2>2, <2>9, <2>10, <2>11, NoZeroDivisors
<1>3. \A k \in Nat : k \in S
  <2> HIDE DEF S
  <2> QED
    BY <1>1, <1>2, AllNumbers
<1> QED
  BY <1>3

-----------------------------------------------------------------------------
\* Parity rows.  A row i of the lower part has the i-th power of alpha^j in
\* column j, so equally spaced rows are Vandermonde rows.

LEMMA PowerProduct ==
  ASSUME NEW p \in Nat, NEW q \in Nat
  PROVE  /\ ExpTable[p % 255] \in Nonzero
         /\ GfMul(ExpTable[p % 255], ExpTable[q % 255]) = ExpTable[(p + q) % 255]
<1> DEFINE u == p % 255
           v == q % 255
<1>1. u \in 0 .. 254 /\ v \in 0 .. 254 /\ (u + v) % 255 = (p + q) % 255
  OBVIOUS
<1> HIDE DEF u, v
<1>2. /\ ExpTable[u] \in Nonzero /\ LogTable[ExpTable[u]] = u
      /\ ExpTable[v] \in Nonzero /\ LogTable[ExpTable[v]] = v
  BY <1>1, FieldAssumption DEF Nonzero
<1>3. GfMul(ExpTable[u], ExpTable[v]) = ExpTable[AddLogs(u, v)]
  <2>1. GfMul(ExpTable[u], ExpTable[v])
          = ExpTable[AddLogs(LogTable[ExpTable[u]], LogTable[ExpTable[v]])]
    BY <1>2, MulLogs
  <2> QED
    BY <1>2, <2>1
<1>4. AddLogs(u, v) = (p + q) % 255
  BY <1>1 DEF AddLogs
<1> QED
  BY <1>2, <1>3, <1>4 DEF u, v

LEMMA ParityEntry ==
  ASSUME NEW i \in Positions, DataShards <= i, NEW j \in DataPositions
  PROVE  i * j \in Nat /\ EncodingMatrix[i][j] = ExpTable[(i * j) % 255]
<1>1. i \in Nat /\ j \in Nat /\ i # 0
  BY ReedSolomonAssumption DEF Positions, DataPositions, Total
<1>2. i * j \in Nat /\ (j = 0 => i * j = 0)
  BY <1>1
<1>3. EncodingMatrix[i][j] = Vandermonde(i, j)
  BY DEF EncodingMatrix
<1> DEFINE p == i * j
<1>4. j = 0 => ExpTable[p % 255] = One
  <2> HIDE DEF p
  <2>1. 0 % 255 = 0 /\ ExpTable[0] = One
    BY FieldAssumption
  <2>2. j = 0 => p = 0
    BY <1>2 DEF p
  <2> QED
    BY <2>1, <2>2
<1> QED
  BY <1>1, <1>2, <1>3, <1>4 DEF Vandermonde

\* The nodes of rows one or two apart differ: 255 is odd.
LEMMA NodesDiffer ==
  ASSUME NEW g \in {1, 2}, NEW d \in DataPositions, NEW e \in DataPositions, d # e
  PROVE  ExpTable[(g * d) % 255] # ExpTable[(g * e) % 255]
<1>1. d \in Nat /\ e \in Nat /\ d < 255 /\ e < 255
  BY Places, ReedSolomonAssumption DEF Total
<1> DEFINE u == (g * d) % 255
           v == (g * e) % 255
<1>2. u \in 0 .. 254 /\ v \in 0 .. 254 /\ u # v
  <2>1. CASE g = 1
    <3>1. u = d /\ v = e
      BY <1>1, <2>1
    <3> QED
      BY <1>1, <3>1
  <2>2. CASE g = 2
    <3>1. /\ u = IF d < 128 THEN d + d ELSE d + d - 255
          /\ v = IF e < 128 THEN e + e ELSE e + e - 255
      BY <1>1, <2>2
    <3> QED
      BY <1>1, <3>1
  <2> QED
    BY <2>1, <2>2
<1> HIDE DEF u, v
<1>3. LogTable[ExpTable[u]] = u /\ LogTable[ExpTable[v]] = v
  BY <1>2, FieldAssumption
<1>4. ExpTable[u] # ExpTable[v]
  BY <1>2, <1>3
<1> QED
  BY <1>4 DEF u, v

\* Parity rows that are equally spaced, one or two apart, and no fewer than the
\* unknowns, determine them.
LEMMA ProgressionDetermines ==
  ASSUME NEW s \in Nat, NEW g \in {1, 2}, NEW k \in Nat, NEW x \in Bytes,
         Cardinality(Support(x)) <= k,
         \A t \in 0 .. k - 1 : /\ s + g * t \in Positions /\ DataShards <= s + g * t
                               /\ Product(EncodingMatrix[s + g * t], x) = Zero
  PROVE  Support(x) = {}
<1> DEFINE Power(t, d) == (s + g * t) * d
           R == [t \in Nat |-> [d \in DataPositions |-> ExpTable[Power(t, d) % 255]]]
           n == [d \in DataPositions |-> ExpTable[(g * d) % 255]]
<1>0. g \in Nat /\ \A d \in DataPositions : d \in Nat
  BY Places
<1>1. ASSUME NEW t \in Nat, NEW d \in DataPositions
      PROVE  /\ R[t][d] \in Nonzero /\ n[d] \in Byte
             /\ R[t + 1][d] = GfMul(n[d], R[t][d])
  <2> DEFINE p == g * d
             q == Power(t, d)
  <2>1. p \in Nat /\ q \in Nat
    BY <1>0
  <2>2. Power(t + 1, d) = p + q
    <3>1. g * t \in Nat /\ g * (t + 1) = g * t + g
      BY <1>0
    <3> DEFINE b == g * t
    <3>2. b \in Nat /\ d \in Nat /\ g \in Nat
      BY <1>0, <3>1
    <3> HIDE DEF b
    <3>3. (s + (b + g)) * d = g * d + (s + b) * d
      BY <3>2
    <3> QED
      BY <3>1, <3>3 DEF b
  <2>3. R[t][d] = ExpTable[q % 255] /\ n[d] = ExpTable[p % 255]
    OBVIOUS
  <2>4. R[t + 1][d] = ExpTable[(p + q) % 255]
    BY <2>2
  <2> HIDE DEF p, q, R, n
  <2> QED
    BY <2>1, <2>3, <2>4, PowerProduct DEF Nonzero
<1>2. ASSUME NEW d \in DataPositions, NEW e \in DataPositions, d # e PROVE n[d] # n[e]
  BY <1>2, NodesDiffer
<1>3. ASSUME NEW t \in 0 .. k - 1 PROVE Product(R[t], x) = Zero
  <2> DEFINE i == s + g * t
             a == R[t]
             b == EncodingMatrix[i]
  <2>1. i \in Positions /\ DataShards <= i /\ Product(b, x) = Zero
    OBVIOUS
  <2>2. ASSUME NEW d \in DataPositions PROVE a[d] = b[d]
    <3>1. b[d] = ExpTable[(i * d) % 255]
      <4> HIDE DEF i
      <4> QED
        BY <2>1, ParityEntry
    <3> QED
      BY <3>1
  <2> HIDE DEF a, b
  <2>3. Product(a, x) = Product(b, x)
    BY <2>2, ProductAlike
  <2> QED
    BY <2>1, <2>3 DEF a
<1>4. Support(x) \subseteq DataPositions
  BY DEF Support
<1> HIDE DEF R, n
<1>5. VandermondeRows(R, n, DataPositions)
  BY <1>1, <1>2 DEF VandermondeRows, Nonzero
<1>6. Determined(R, DataPositions, k, x)
  BY <1>5, VandermondeKernel
<1> QED
  BY <1>3, <1>4, <1>6 DEF Determined

-----------------------------------------------------------------------------
\* Recoverable losses.

\* How many members of a set come before i.
Place(S, i) == Cardinality({h \in S : h < i})

\* The place of a member of a set of numbers is its own.
LEMMA PlaceUnique ==
  ASSUME NEW S, S \subseteq Nat, IsFiniteSet(S), NEW i \in S, NEW j \in S,
         Place(S, i) = Place(S, j)
  PROVE  i = j
<1> DEFINE Lower(m) == {h \in S : h < m}
<1>0. \A h \in S : h \in Nat
  OBVIOUS
<1>1. ASSUME NEW m \in S, NEW n \in S, m < n PROVE Cardinality(Lower(m)) # Cardinality(Lower(n))
  <2> DEFINE A == Lower(m)
             B == Lower(n)
  <2>1. IsFiniteSet(A) /\ IsFiniteSet(B) /\ m \notin A /\ A \cup {m} \subseteq B
    <3>1. m \in Nat /\ n \in Nat /\ \A h \in S : h < m => h < n
      BY <1>0, <1>1
    <3>2. m \notin A /\ A \cup {m} \subseteq B
      <4>1. ~(m < m)
        BY <3>1
      <4>2. m \in B /\ A \subseteq B
        BY <1>1, <3>1
      <4> QED
        BY <4>1, <4>2
    <3>3. A \subseteq S /\ B \subseteq S
      OBVIOUS
    <3> HIDE DEF A, B
    <3> QED
      BY <3>2, <3>3, FS_Subset
  <2> HIDE DEF A, B
  <2>2. Cardinality(A \cup {m}) = Cardinality(A) + 1
    BY <2>1, FS_AddElement, Zenon
  <2>3. Cardinality(A \cup {m}) <= Cardinality(B)
    BY <2>1, FS_Subset
  <2>4. Cardinality(A) \in Nat /\ Cardinality(B) \in Nat
    BY <2>1, FS_CardinalityType
  <2>5. Cardinality(A) # Cardinality(B)
    BY <2>2, <2>3, <2>4
  <2> QED
    BY <2>5 DEF A, B
<1>2. i < j \/ i = j \/ j < i
  BY <1>0
<1> HIDE DEF Lower
<1>3. Cardinality(Lower(i)) = Cardinality(Lower(j))
  BY DEF Lower, Place
<1> QED
  BY <1>1, <1>2, <1>3

\* Numbers below i that are missing from a set lower the place of i.
LEMMA PlaceBelow ==
  ASSUME NEW S, S \subseteq Nat, NEW i \in Nat, NEW G, G \subseteq 0 .. i - 1, G \cap S = {}
  PROVE  /\ IsFiniteSet(G) /\ Cardinality(G) \in Nat
         /\ Place(S, i) \in Nat
         /\ Place(S, i) + Cardinality(G) <= i
<1> DEFINE A == {h \in S : h < i}
           I == 0 .. i - 1
<1>1. IsFiniteSet(I) /\ Cardinality(I) = i
  <2>1. 0 \in Int /\ i - 1 \in Int
    OBVIOUS
  <2>2. IsFiniteSet(I) /\ Cardinality(I) = IF 0 > i - 1 THEN 0 ELSE (i - 1) - 0 + 1
    BY <2>1, FS_Interval
  <2> QED
    BY <2>2
<1>2. A \subseteq I /\ G \subseteq I /\ A \cap G = {}
  <2>1. \A h \in S : h \in Nat
    OBVIOUS
  <2>2. \A h \in S : h < i => h \in I
    BY <2>1
  <2> QED
    BY <2>2
<1> HIDE DEF A, I
<1>3. /\ IsFiniteSet(A) /\ IsFiniteSet(G) /\ Cardinality(A) \in Nat /\ Cardinality(G) \in Nat
  BY <1>1, <1>2, FS_Subset, FS_CardinalityType
<1>4. Cardinality(A \cup G) = Cardinality(A) + Cardinality(G) - Cardinality(A \cap G)
  BY <1>3, FS_Union
<1>5. Cardinality(A \cap G) = 0
  BY <1>2, FS_EmptySet
<1>6. A \cup G \subseteq I /\ Cardinality(A \cup G) <= i
  <2>1. A \cup G \subseteq I
    BY <1>2
  <2> QED
    BY <1>1, <2>1, FS_Subset
<1> QED
  BY <1>3, <1>4, <1>5, <1>6 DEF A, Place

LostShards == Positions \ DOMAIN rsShards
LostData == DataPositions \ DOMAIN rsShards

\* A present parity shard that reconstruct works with: fewer than data_shards
\* present shards come before it.
UsedParity(i) ==
  /\ i \in DOMAIN rsShards /\ DataShards <= i
  /\ Place(DOMAIN rsShards, i) < DataShards

LEMMA PositionFacts ==
  ASSUME ErasureInv, rsStep = "refused"
  PROVE  /\ DOMAIN rsShards \subseteq Nat /\ IsFiniteSet(DOMAIN rsShards)
         /\ DOMAIN rsShards \subseteq Positions
         /\ IsFiniteSet(Positions) /\ Cardinality(Positions) = DataShards + ParityShards
         /\ DataShards \in Nat \ {0} /\ ParityShards \in Nat \ {0}
         /\ DataPositions \subseteq Positions
         /\ \A i : i \in Positions <=> i \in Nat /\ i < DataShards + ParityShards
         /\ \A i : i \in DataPositions <=> i \in Nat /\ i < DataShards
<1>1. DataShards \in Nat \ {0} /\ ParityShards \in Nat \ {0}
  BY ReedSolomonAssumption
<1> DEFINE last == DataShards + ParityShards - 1
<1>2. Positions = 0 .. last /\ last \in Int /\ 0 \in Int /\ ~(0 > last)
  BY <1>1 DEF Positions, Total
<1>3. \A i : i \in 0 .. last <=> i \in Nat /\ i < DataShards + ParityShards
  BY <1>1
<1>4. \A i : i \in DataPositions <=> i \in Nat /\ i < DataShards
  BY <1>1 DEF DataPositions
<1> HIDE DEF last
<1>5. IsFiniteSet(Positions) /\ Cardinality(Positions) = (last - 0) + 1
  BY <1>2, FS_Interval
<1>6. Cardinality(Positions) = DataShards + ParityShards
  BY <1>1, <1>5 DEF last
<1>7. DOMAIN rsShards \subseteq Positions
  BY DEF ErasureInv, ErasureTypes
<1>8. DataPositions \subseteq Positions
  BY <1>1, <1>2, <1>3, <1>4
<1>9. Positions \subseteq Nat
  BY <1>2, <1>3
<1>10. IsFiniteSet(DOMAIN rsShards) /\ DOMAIN rsShards \subseteq Nat
  BY <1>5, <1>7, <1>9, FS_Subset
<1> QED
  BY <1>1, <1>2, <1>3, <1>4, <1>5, <1>6, <1>7, <1>8, <1>10

\* Lost shards before i make it one of those that are used.
LEMMA UsedBehindLost ==
  ASSUME ErasureInv, rsStep = "refused", NEW i \in DOMAIN rsShards, DataShards <= i,
         NEW G, G \subseteq LostShards, \A h \in G : h < i, Cardinality(G) + DataShards > i
  PROVE  UsedParity(i)
<1>1. /\ DOMAIN rsShards \subseteq Nat /\ i \in Nat /\ DataShards \in Nat
      /\ \A h \in Positions : h \in Nat
  BY PositionFacts
<1>2. G \subseteq 0 .. i - 1 /\ G \cap DOMAIN rsShards = {}
  <2>1. \A h \in G : h \in Nat /\ h < i /\ h \notin DOMAIN rsShards
    BY <1>1 DEF LostShards
  <2> QED
    BY <1>1, <2>1
<1>3. /\ Cardinality(G) \in Nat /\ Place(DOMAIN rsShards, i) \in Nat
      /\ Place(DOMAIN rsShards, i) + Cardinality(G) <= i
  BY <1>1, <1>2, PlaceBelow
<1>4. Place(DOMAIN rsShards, i) < DataShards
  BY <1>1, <1>3
<1> QED
  BY <1>4 DEF UsedParity

\* What a refusal leaves: unknowns, not all 0, among the lost data shards only,
\* that no used parity row sees.
LEMMA RefusalKernel ==
  ASSUME ErasureInv, KernelInv, rsStep = "refused",
         ~(Cardinality(DOMAIN rsShards) < DataShards)
  PROVE  \E x \in Bytes :
           /\ Support(x) # {} /\ Support(x) \subseteq LostData
           /\ \A i : UsedParity(i) => Product(EncodingMatrix[i], x) = Zero
<1> DEFINE S == DOMAIN rsShards
<1>1. /\ rsUsed = Used /\ rsUsed \in [DataPositions -> S]
      /\ \E x \in Bytes : (\E c \in DataPositions : x[c] = One) /\ Kernel(Rows(rsUsed), x)
  BY DEF KernelInv
<1>2. PICK x \in Bytes : (\E c \in DataPositions : x[c] = One) /\ Kernel(Rows(rsUsed), x)
  BY <1>1
<1>3. /\ S \subseteq Nat /\ IsFiniteSet(S) /\ DataShards \in Nat /\ S \subseteq Positions
      /\ \A d \in DataPositions : d \in Nat /\ d < DataShards
  BY PositionFacts
<1>4. ASSUME NEW i \in S, Place(S, i) < DataShards
      PROVE  Product(EncodingMatrix[i], x) = Zero
  <2> DEFINE r == Place(S, i)
  <2>1. r \in DataPositions
    <3>1. r \in Nat
      <4>1. IsFiniteSet({h \in S : h < i})
        BY <1>3, FS_Subset
      <4> QED
        BY <4>1, FS_CardinalityType DEF Place
    <3> HIDE DEF r
    <3>2. r < DataShards
      BY <1>4 DEF r
    <3> QED
      BY <1>3, <3>1, <3>2 DEF DataPositions
  <2>2. Used[r] = i
    <3> DEFINE u == CHOOSE j \in S : Place(S, j) = r
    <3>1. u \in S /\ Place(S, u) = Place(S, i)
      OBVIOUS
    <3>2. Used[r] = u
      BY <2>1 DEF Used, Place
    <3> HIDE DEF u
    <3>3. u = i
      BY <1>3, <3>1, PlaceUnique
    <3> QED
      BY <3>2, <3>3
  <2> HIDE DEF r
  <2>3. Product(EncodingMatrix[rsUsed[r]], x) = Zero
    BY <1>2, <2>1 DEF Kernel, Rows
  <2> QED
    BY <1>1, <2>2, <2>3
<1>5. ASSUME NEW d \in DataPositions, d \in S PROVE x[d] = Zero
  <2>1. Place(S, d) < DataShards
    <3>1. {} \subseteq 0 .. d - 1 /\ {} \cap S = {} /\ d \in Nat /\ d < DataShards
      BY <1>3
    <3>2. Place(S, d) + Cardinality({}) <= d /\ Place(S, d) \in Nat
      BY <1>3, <3>1, PlaceBelow
    <3>3. Cardinality({}) = 0
      BY FS_EmptySet
    <3> QED
      BY <1>3, <3>1, <3>2, <3>3
  <2>2. Product(EncodingMatrix[d], x) = Zero
    BY <1>4, <1>5, <2>1
  <2>3. \A j \in DataPositions : EncodingMatrix[d][j] = IF j = d THEN One ELSE Zero
    BY <1>3, <1>5 DEF EncodingMatrix
  <2>4. Product(EncodingMatrix[d], x) = x[d]
    BY <2>3, UnitProduct
  <2> QED
    BY <2>2, <2>4
<1>6. Support(x) \subseteq LostData
  BY <1>5 DEF Support, LostData
<1>7. Support(x) # {}
  BY <1>2 DEF Support, One, Zero
<1>8. \A i : UsedParity(i) => Product(EncodingMatrix[i], x) = Zero
  BY <1>4 DEF UsedParity
<1> QED
  BY <1>6, <1>7, <1>8

\* Equally spaced used parity rows, one or two apart and as many as the lost
\* data shards: no refusal.
LEMMA ProgressionRecovers ==
  ASSUME ErasureInv, KernelInv, rsStep = "refused",
         ~(Cardinality(DOMAIN rsShards) < DataShards),
         NEW s \in Nat, NEW g \in {1, 2}, NEW k \in Nat, Cardinality(LostData) <= k,
         \A t \in 0 .. k - 1 : UsedParity(s + g * t)
  PROVE  FALSE
<1>1. PICK x \in Bytes :
        /\ Support(x) # {} /\ Support(x) \subseteq LostData
        /\ \A i : UsedParity(i) => Product(EncodingMatrix[i], x) = Zero
  BY RefusalKernel
<1>2. Cardinality(Support(x)) <= k
  <2>1. IsFiniteSet(LostData)
    BY SupportFinite, FS_Subset DEF LostData
  <2>2. Cardinality(Support(x)) <= Cardinality(LostData)
    BY <1>1, <2>1, FS_Subset
  <2>3. Cardinality(Support(x)) \in Nat /\ Cardinality(LostData) \in Nat
    BY <2>1, SupportFinite, FS_CardinalityType
  <2> QED
    BY <2>2, <2>3
<1>3. \A t \in 0 .. k - 1 : /\ s + g * t \in Positions /\ DataShards <= s + g * t
                            /\ Product(EncodingMatrix[s + g * t], x) = Zero
  BY <1>1, PositionFacts DEF UsedParity
<1>4. Support(x) = {}
  BY <1>2, <1>3, ProgressionDetermines
<1> QED
  BY <1>1, <1>4

LEMMA LossCounts ==
  ASSUME ErasureInv, rsStep = "refused"
  PROVE  /\ IsFiniteSet(LostShards) /\ IsFiniteSet(LostData)
         /\ Cardinality(LostShards) \in Nat /\ Cardinality(LostData) \in Nat
         /\ Cardinality(LostData) <= Cardinality(LostShards)
         /\ LostData = LostShards \cap DataPositions
         /\ Cardinality(LostShards) <= ParityShards
              => ~(Cardinality(DOMAIN rsShards) < DataShards)
<1>1. /\ DOMAIN rsShards \subseteq Positions
      /\ IsFiniteSet(Positions) /\ Cardinality(Positions) = DataShards + ParityShards
      /\ DataShards \in Nat /\ ParityShards \in Nat /\ DataPositions \subseteq Positions
  BY PositionFacts
<1>2. LostData = LostShards \cap DataPositions /\ LostData \subseteq LostShards
  BY <1>1 DEF LostData, LostShards
<1> DEFINE S == DOMAIN rsShards
<1>3. S \cup LostShards = Positions /\ S \cap LostShards = {}
  BY <1>1 DEF LostShards
<1> HIDE DEF S
<1>4. /\ IsFiniteSet(LostShards) /\ IsFiniteSet(LostData) /\ IsFiniteSet(S)
      /\ Cardinality(LostData) <= Cardinality(LostShards)
  <2>1. IsFiniteSet(LostShards) /\ IsFiniteSet(S)
    <3>1. S \subseteq Positions /\ LostShards \subseteq Positions
      BY <1>3
    <3> QED
      BY <1>1, <3>1, FS_Subset
  <2> QED
    BY <1>2, <2>1, FS_Subset
<1>5. /\ Cardinality(LostShards) \in Nat /\ Cardinality(LostData) \in Nat
      /\ Cardinality(S) \in Nat
  BY <1>4, FS_CardinalityType
<1>6. Cardinality(Positions) = Cardinality(S) + Cardinality(LostShards)
  <2>1. Cardinality(S \cup LostShards)
          = Cardinality(S) + Cardinality(LostShards) - Cardinality(S \cap LostShards)
    BY <1>4, FS_Union
  <2>2. Cardinality(S \cap LostShards) = 0
    BY <1>3, FS_EmptySet
  <2> QED
    BY <1>3, <1>5, <2>1, <2>2
<1>7. Cardinality(LostShards) <= ParityShards => ~(Cardinality(S) < DataShards)
  BY <1>1, <1>5, <1>6
<1> QED
  BY <1>2, <1>4, <1>5, <1>7 DEF S

\* Only data shards are lost.
DataLossRecoverable ==
  rsStep = "refused" =>
    Cardinality(LostShards) > ParityShards \/ ~(LostShards \subseteq DataPositions)

LEMMA DataLossSafe == ErasureInv /\ KernelInv => DataLossRecoverable
<1> SUFFICES ASSUME ErasureInv, KernelInv, rsStep = "refused",
                    Cardinality(LostShards) <= ParityShards, LostShards \subseteq DataPositions
             PROVE  FALSE
  <2>1. rsStep = "refused" /\ ErasureInv =>
          Cardinality(LostShards) \in Nat /\ ParityShards \in Nat
    BY LossCounts, ReedSolomonAssumption
  <2> QED
    BY <2>1 DEF DataLossRecoverable
<1> DEFINE k == Cardinality(LostData)
<1>1. /\ k \in Nat /\ LostData = LostShards /\ k <= ParityShards
      /\ ~(Cardinality(DOMAIN rsShards) < DataShards)
  BY LossCounts
<1>2. /\ DataShards \in Nat /\ ParityShards \in Nat
      /\ \A i : i \in Positions <=> i \in Nat /\ i < DataShards + ParityShards
      /\ \A i : i \in DataPositions <=> i \in Nat /\ i < DataShards
  BY PositionFacts
<1>3. ASSUME NEW t \in 0 .. k - 1 PROVE UsedParity(DataShards + 1 * t)
  <2> HIDE DEF k
  <2> DEFINE i == DataShards + t
  <2>1. /\ i \in Nat /\ DataShards <= i /\ i < DataShards + ParityShards
        /\ k + DataShards > i /\ DataShards + 1 * t = i
    BY <1>1, <1>2
  <2> HIDE DEF i
  <2>2. i \in DOMAIN rsShards
    <3>1. i \in Positions /\ i \notin DataPositions
      BY <1>2, <2>1
    <3> QED
      BY <3>1 DEF LostShards
  <2>3. LostData \subseteq LostShards /\ \A h \in LostData : h < i
    BY <1>1, <1>2, <2>1
  <2>4. UsedParity(i)
    BY <2>1, <2>2, <2>3, UsedBehindLost DEF k
  <2> QED
    BY <2>1, <2>4
<1>4. Cardinality(LostData) <= k
  BY <1>1
<1> HIDE DEF k
<1> QED
  BY <1>1, <1>2, <1>3, <1>4, ProgressionRecovers

\* At most three shards are lost, data or parity.
FewLostRecoverable ==
  rsStep = "refused" =>
    Cardinality(LostShards) > ParityShards \/ Cardinality(LostShards) > 3

LEMMA FewLostSafe == ErasureInv /\ KernelInv => FewLostRecoverable
<1> SUFFICES ASSUME ErasureInv, KernelInv, rsStep = "refused",
                    Cardinality(LostShards) <= ParityShards, Cardinality(LostShards) <= 3
             PROVE  FALSE
  <2>1. rsStep = "refused" /\ ErasureInv =>
          Cardinality(LostShards) \in Nat /\ ParityShards \in Nat
    BY LossCounts, ReedSolomonAssumption
  <2> QED
    BY <2>1 DEF FewLostRecoverable
<1> DEFINE k == Cardinality(LostData)
           Q == LostShards \ DataPositions
           q == Cardinality(Q)
<1>1. /\ k \in Nat /\ LostData = LostShards \cap DataPositions
      /\ IsFiniteSet(LostShards) /\ IsFiniteSet(LostData)
      /\ ~(Cardinality(DOMAIN rsShards) < DataShards)
  BY LossCounts
<1>2. /\ DataShards \in Nat \ {0} /\ ParityShards \in Nat
      /\ \A i : i \in Positions <=> i \in Nat /\ i < DataShards + ParityShards
      /\ \A i : i \in DataPositions <=> i \in Nat /\ i < DataShards
  BY PositionFacts
<1>3. /\ q \in Nat /\ IsFiniteSet(Q) /\ k + q <= ParityShards /\ k + q <= 3
  <2>1. LostData \cup Q = LostShards /\ LostData \cap Q = {} /\ Q \subseteq LostShards
    BY <1>1
  <2> HIDE DEF Q
  <2>2. IsFiniteSet(Q)
    BY <1>1, <2>1, FS_Subset
  <2>3. q \in Nat
    BY <2>2, FS_CardinalityType
  <2>4. Cardinality(LostData \cup Q) = k + q - Cardinality(LostData \cap Q)
    BY <1>1, <2>2, FS_Union
  <2>5. Cardinality(LostData \cap Q) = 0
    BY <2>1, FS_EmptySet
  <2>6. Cardinality(LostShards) = k + q
    <3> HIDE DEF k, q
    <3> QED
      BY <1>1, <2>1, <2>3, <2>4, <2>5
  <2> QED
    BY <2>2, <2>3, <2>6
<1>4. /\ \A h \in LostData : h \in LostShards /\ h < DataShards
      /\ \A h \in Q : h \in LostShards /\ h \in Nat /\ DataShards <= h
                      /\ h < DataShards + ParityShards
      /\ \A i \in Nat : DataShards <= i /\ i < DataShards + ParityShards /\ i \notin Q
                          => i \in DOMAIN rsShards
  BY <1>1, <1>2 DEF LostShards
\* The rows that are used behind the lost data shards, and behind a lost parity shard too.
<1>5. ASSUME NEW i \in Nat, DataShards <= i, i < DataShards + ParityShards, i \notin Q,
             i < DataShards + k
      PROVE  UsedParity(i)
  <2> HIDE DEF k
  <2>1. LostData \subseteq LostShards /\ \A h \in LostData : h < i
    BY <1>2, <1>4, <1>5
  <2>2. Cardinality(LostData) + DataShards > i
    BY <1>1, <1>2, <1>5 DEF k
  <2> QED
    BY <1>4, <1>5, <2>1, <2>2, UsedBehindLost
<1>6. ASSUME NEW i \in Nat, DataShards <= i, i < DataShards + ParityShards, i \notin Q,
             NEW z \in Q, z < i, i < DataShards + k + 1
      PROVE  UsedParity(i)
  <2> DEFINE G == LostData \cup {z}
  <2> HIDE DEF k, Q
  <2>1. G \subseteq LostShards /\ \A h \in G : h < i
    <3>1. \A h \in LostData : h \in LostShards /\ h < i
      BY <1>1, <1>2, <1>4, <1>6
    <3>2. z \in LostShards /\ z < i
      BY <1>4, <1>6
    <3> QED
      BY <3>1, <3>2
  <2>2. Cardinality(G) = Cardinality(LostData) + 1
    <3>1. z \notin LostData
      BY <1>2, <1>4
    <3> QED
      BY <1>1, <3>1, FS_AddElement, Zenon
  <2> HIDE DEF G
  <2>3. Cardinality(G) + DataShards > i
    BY <1>1, <1>2, <1>6, <2>2 DEF k
  <2> QED
    BY <1>4, <1>6, <2>1, <2>3, UsedBehindLost
<1>7. CASE k = 0
  <2>1. \A t \in 0 .. 0 - 1 : UsedParity(DataShards + 1 * t)
    OBVIOUS
  <2>2. Cardinality(LostData) <= 0
    BY <1>7
  <2> QED
    BY <1>1, <1>2, <2>1, <2>2, ProgressionRecovers
<1>8. CASE q = 0
  <2>1. Q = {}
    BY <1>3, <1>8, FS_EmptySet
  <2>2. LostShards \subseteq DataPositions
    BY <2>1
  <2> QED
    BY <2>2, DataLossSafe, LossCounts, <1>2 DEF DataLossRecoverable
\* One data shard: the first parity shard that is left will do.
<1>9. CASE k = 1
  <2> DEFINE T == {i \in DOMAIN rsShards : DataShards <= i}
  <2>1. T # {} /\ T \subseteq Nat
    <3> DEFINE last == DataShards + ParityShards - 1
               P == DataShards .. last
    <3>1. IsFiniteSet(P) /\ Cardinality(P) = ParityShards
      <4>1. last \in Int /\ DataShards \in Int /\ (last - DataShards) + 1 = ParityShards
        BY <1>2
      <4> HIDE DEF last
      <4>2. IsFiniteSet(P)
            /\ Cardinality(P) = IF DataShards > last THEN 0 ELSE last - DataShards + 1
        BY <4>1, FS_Interval
      <4> QED
        BY <1>2, <1>3, <1>9, <4>1, <4>2
    <3>2. \A i : i \in P <=> i \in Nat /\ DataShards <= i /\ i < DataShards + ParityShards
      BY <1>2
    <3> HIDE DEF P
    <3>3. P \subseteq Q => Cardinality(P) <= q
      BY <1>3, FS_Subset
    <3>4. ~(ParityShards <= q)
      <4> HIDE DEF k, q
      <4> QED
        BY <1>2, <1>3, <1>9
    <3>5. PICK i \in P : i \notin Q
      BY <3>1, <3>3, <3>4
    <3>6. i \in T
      BY <1>4, <3>2, <3>5
    <3>7. T \subseteq Nat
      BY PositionFacts
    <3> QED
      BY <3>6, <3>7
  <2>2. PICK i \in T : \A j \in T : i <= j
    <3> HIDE DEF T
    <3> QED
      BY <2>1, LeastOf
  <2>3. i \in DOMAIN rsShards /\ DataShards <= i /\ i \in Nat /\ i < DataShards + ParityShards
    BY <1>2, <2>1, PositionFacts
  <2> DEFINE B == DataShards .. i - 1
             G == LostData \cup B
  <2>4. IsFiniteSet(B) /\ Cardinality(B) = i - DataShards
    <3>1. DataShards \in Int /\ i - 1 \in Int
      BY <1>2, <2>3
    <3>2. IsFiniteSet(B)
          /\ Cardinality(B) = IF DataShards > i - 1 THEN 0 ELSE (i - 1) - DataShards + 1
      BY <3>1, FS_Interval
    <3> HIDE DEF B
    <3> QED
      BY <1>2, <2>3, <3>2
  <2>5. \A h \in B : h \in Nat /\ DataShards <= h /\ h < i
    BY <1>2, <2>3
  <2> HIDE DEF B
  <2>6. \A h \in B : h \in LostShards
    <3> SUFFICES ASSUME NEW h \in B PROVE h \in LostShards
      OBVIOUS
    <3>1. h \in Positions
      BY <1>2, <2>3, <2>5
    <3>2. h \notin DOMAIN rsShards
      <4>1. ~(i <= h)
        BY <2>3, <2>5
      <4> QED
        BY <2>2, <2>5, <4>1
    <3> QED
      BY <3>1, <3>2 DEF LostShards
  <2>7. G \subseteq LostShards /\ \A h \in G : h < i
    <3>1. \A h \in LostData : h \in Nat /\ h < i
      BY <1>1, <1>2, <1>4, <2>3
    <3> QED
      BY <1>4, <2>5, <2>6, <3>1
  <2>8. Cardinality(G) + DataShards > i
    <3>1. LostData \cap B = {}
      BY <1>1, <1>2, <1>4, <2>5
    <3>2. Cardinality(G) = k + Cardinality(B) - Cardinality(LostData \cap B)
      BY <1>1, <2>4, FS_Union
    <3>3. Cardinality(LostData \cap B) = 0
      BY <3>1, FS_EmptySet
    <3> HIDE DEF G, k
    <3> QED
      BY <1>2, <1>9, <2>3, <2>4, <3>2, <3>3
  <2> HIDE DEF G
  <2>9. UsedParity(i)
    BY <2>3, <2>7, <2>8, UsedBehindLost
  <2>10. \A t \in 0 .. 1 - 1 : UsedParity(i + 1 * t)
    <3>1. \A t \in 0 .. 1 - 1 : i + 1 * t = i
      BY <2>3
    <3> QED
      BY <2>9, <3>1
  <2>11. Cardinality(LostData) <= 1
    BY <1>9
  <2> QED
    BY <1>1, <2>3, <2>10, <2>11, ProgressionRecovers
\* Two data shards and one parity shard: two of the first three parity shards.
<1>10. CASE k = 2 /\ q = 1
  <2>1. PICK z : Q = {z}
    BY <1>3, <1>10, FS_Singleton
  <2>2. /\ z \in Q /\ z \in Nat /\ DataShards <= z /\ \A i : i # z => i \notin Q
        /\ ParityShards >= 3
    <3>1. z \in Q /\ \A i : i # z => i \notin Q
      BY <2>1
    <3>2. ParityShards >= 3
      <4> HIDE DEF k, q
      <4> QED
        BY <1>2, <1>3, <1>10
    <3> HIDE DEF Q
    <3> QED
      BY <1>4, <3>1, <3>2
  <2>3. Cardinality(LostData) <= 2
    BY <1>10
  <2> HIDE DEF Q, k, q
  <2>4. CASE z = DataShards
    <3>1. UsedParity(DataShards + 1) /\ UsedParity(DataShards + 2)
      BY <1>2, <1>6, <1>10, <2>2, <2>4
    <3>2. ASSUME NEW t \in 0 .. 2 - 1 PROVE UsedParity((DataShards + 1) + 1 * t)
      <4>1. (DataShards + 1) + 1 * t = DataShards + 1 \/ (DataShards + 1) + 1 * t = DataShards + 2
        BY <1>2
      <4> QED
        BY <3>1, <4>1
    <3>3. DataShards + 1 \in Nat
      BY <1>2
    <3> QED
      BY <1>1, <2>3, <3>2, <3>3, ProgressionRecovers
  <2>5. CASE z = DataShards + 1
    <3>1. UsedParity(DataShards)
      BY <1>2, <1>5, <1>10, <2>2, <2>5
    <3>2. UsedParity(DataShards + 2)
      BY <1>2, <1>6, <1>10, <2>2, <2>5
    <3>3. ASSUME NEW t \in 0 .. 2 - 1 PROVE UsedParity(DataShards + 2 * t)
      <4>1. DataShards + 2 * t = DataShards \/ DataShards + 2 * t = DataShards + 2
        BY <1>2
      <4> QED
        BY <3>1, <3>2, <4>1
    <3> QED
      BY <1>1, <1>2, <2>3, <3>3, ProgressionRecovers
  <2>6. CASE z # DataShards /\ z # DataShards + 1
    <3>1. UsedParity(DataShards) /\ UsedParity(DataShards + 1)
      BY <1>2, <1>5, <1>10, <2>2, <2>6
    <3>2. ASSUME NEW t \in 0 .. 2 - 1 PROVE UsedParity(DataShards + 1 * t)
      <4>1. DataShards + 1 * t = DataShards \/ DataShards + 1 * t = DataShards + 1
        BY <1>2
      <4> QED
        BY <3>1, <4>1
    <3> QED
      BY <1>1, <1>2, <2>3, <3>2, ProgressionRecovers
  <2> QED
    BY <2>4, <2>5, <2>6
<1>11. k = 0 \/ q = 0 \/ k = 1 \/ (k = 2 /\ q = 1)
  <2> HIDE DEF k, q
  <2> QED
    BY <1>1, <1>3
<1> QED
  BY <1>7, <1>8, <1>9, <1>10, <1>11

\* When no parity shard is lost, data shards come back up to the promised
\* number: with any number of data and parity shards the codec accepts.
THEOREM DataLossAlwaysRecoverable == ReedSolomonSpec => []DataLossRecoverable
  BY DataLossSafe, ErasureAlways, KernelAlways, PTL

\* Any three shards may be lost, data or parity, when that many parity shards
\* were made: with any number of shards the codec accepts.  Four may be too
\* many, as the run of the default numbers shows.
THEOREM FewLostAlwaysRecoverable == ReedSolomonSpec => []FewLostRecoverable
  BY FewLostSafe, ErasureAlways, KernelAlways, PTL

\* With up to three parity shards the documented promise of the codec holds, for
\* any number of data shards (ReedSolomon::reconstruct).
THEOREM MaxLossAlwaysRecoverable ==
  ASSUME ParityShards <= 3
  PROVE  ReedSolomonSpec => []MaxLossRecoverable
<1>1. ErasureInv /\ KernelInv => MaxLossRecoverable
  <2> SUFFICES ASSUME ErasureInv, KernelInv, rsStep = "refused",
                      ~(Cardinality(LostShards) > ParityShards)
               PROVE  FALSE
    BY DEF MaxLossRecoverable, LostShards
  <2>1. Cardinality(LostShards) \in Nat /\ ParityShards \in Nat
    BY LossCounts, ReedSolomonAssumption
  <2> QED
    BY <2>1, FewLostSafe DEF FewLostRecoverable
<1> QED
  BY <1>1, ErasureAlways, KernelAlways, PTL

-----------------------------------------------------------------------------
\* The tables compute the field.

LEMMA DivUndoes ==
  ASSUME NEW a \in Byte, NEW b \in Nonzero
  PROVE  GfDiv(GfMul(a, b), b) = a
<1>1. CASE a = Zero
  BY <1>1, MulSimple DEF GfDiv, Nonzero
<1>2. CASE a # Zero
  <2> DEFINE x == LogTable[a]
             y == LogTable[b]
             s == AddLogs(x, y)
  <2>1. a \in Nonzero /\ ExpTable[x] = a
    BY <1>2, FieldAssumption DEF Nonzero
  <2>2. GfMul(a, b) \in Nonzero /\ LogTable[GfMul(a, b)] = s
    BY <2>1, MulLogs
  <2>3. x \in Nat /\ x < 255 /\ y \in Nat /\ y < 255
    BY <2>1, LogRange
  <2>4. GfDiv(GfMul(a, b), b) = ExpTable[(s + 255 - y) % 255]
    BY <2>2 DEF GfDiv, Nonzero
  <2> HIDE DEF x, y
  <2>5. s \in Nat /\ (s = x + y \/ s = x + y - 255)
    BY <2>3, LogSums
  <2> HIDE DEF s
  <2>6. s + 255 - y = x + 255 \/ s + 255 - y = x
    BY <2>3, <2>5
  <2>7. (x + 255) % 255 = x /\ x % 255 = x
    BY <2>3
  <2>8. (s + 255 - y) % 255 = x
    BY <2>6, <2>7
  <2> QED
    BY <2>1, <2>4, <2>8
<1> QED
  BY <1>1, <1>2

LEMMA PowRepeats ==
  ASSUME NEW a \in Byte, NEW n \in Nat
  PROVE  GfPow(a, n + 1) = GfMul(a, GfPow(a, n))
<1>1. CASE a = Zero
  BY <1>1, MulSimple, OneLog DEF GfPow, GfMul
<1>2. CASE a # Zero
  <2> DEFINE x == LogTable[a]
             p == x * n
             q == x * (n + 1)
  <2>1. a \in Nonzero /\ ExpTable[x] = a /\ x \in Nat /\ x < 255
    BY <1>2, LogRange, FieldAssumption DEF Nonzero
  <2>2. GfPow(a, n + 1) = ExpTable[q % 255]
    BY <1>2 DEF GfPow
  <2>3. GfPow(a, n) = ExpTable[p % 255]
    <3>1. CASE n = 0
      <4>1. p = 0 /\ 0 % 255 = 0
        BY <2>1, <3>1
      <4> QED
        BY <3>1, <4>1, FieldAssumption DEF GfPow
    <3>2. CASE n # 0
      BY <1>2, <3>2 DEF GfPow
    <3> QED
      BY <3>1, <3>2
  <2>4. p \in Nat /\ q = p + x
    <3> HIDE DEF x
    <3>1. x * (n + 1) = x * n + x
      BY <2>1
    <3> QED
      BY <2>1, <3>1
  <2> DEFINE r == p % 255
  <2>5. ExpTable[r] \in Nonzero /\ LogTable[ExpTable[r]] = r
    <3>1. r \in 0 .. 254
      <4> HIDE DEF p
      <4> QED
        BY <2>4
    <3> HIDE DEF r
    <3> QED
      BY <3>1, FieldAssumption DEF Nonzero
  <2>6. GfMul(a, ExpTable[r]) = ExpTable[AddLogs(x, r)]
    <3> HIDE DEF r
    <3> QED
      BY <2>1, <2>5, MulLogs
  <2>7. AddLogs(x, r) = q % 255
    <3> HIDE DEF x, p, q
    <3> QED
      BY <2>1, <2>4 DEF AddLogs
  <2> QED
    BY <2>2, <2>3, <2>6, <2>7
<1> QED
  BY <1>1, <1>2

\* Bit k alone is the k-th power of alpha.
LEMMA BitPowers == \A k \in 0 .. 7 : ExpTable[k] = {k}
<1> DEFINE S == {k \in Nat : k < 8 => ExpTable[k] = {k}}
<1>1. 0 \in S
  BY FieldAssumption DEF One
<1>2. ASSUME NEW k \in Nat, k \in S PROVE k + 1 \in S
  <2> SUFFICES ASSUME k + 1 < 8 PROVE ExpTable[k + 1] = {k + 1}
    OBVIOUS
  <2>1. ExpTable[k] = {k} /\ k \in 0 .. 254 /\ (k + 1) % 255 = k + 1
    BY <1>2
  <2>2. ExpTable[k + 1] = GfDouble({k})
    BY <2>1, FieldAssumption
  <2>3. {i + 1 : i \in {k}} = {k + 1} /\ 8 \notin {k + 1}
    OBVIOUS
  <2> QED
    BY <2>2, <2>3 DEF GfDouble
<1>3. \A k \in Nat : k \in S
  <2> HIDE DEF S
  <2> QED
    BY <1>1, <1>2, AllNumbers
<1> QED
  BY <1>3

\* A byte is the sum of its bits.
LEMMA BitsOfByte ==
  ASSUME NEW b \in Byte, NEW f, \A k \in 0 .. 7 : f[k] = IF k \in b THEN {k} ELSE Zero
  PROVE  Sum(8, f) = b
<1>1. ASSUME NEW k \in 0 .. 7 PROVE k \in Sum(8, f) <=> k \in b
  <2>1. {i \in 0 .. 8 - 1 : k \in f[i]} = IF k \in b THEN {k} ELSE {}
    BY DEF Zero
  <2>2. Cardinality({k}) = 1 /\ Cardinality({}) = 0
    BY FS_Singleton, FS_EmptySet
  <2>3. 1 % 2 = 1 /\ ~(0 % 2 = 1)
    OBVIOUS
  <2> QED
    BY <2>1, <2>2, <2>3 DEF Sum, GfSum
<1> QED
  BY <1>1, SumByte DEF Byte

\* The k-th doubling of a is its product with the k-th power of alpha.
Doubled(a) ==
  CHOOSE d : d = [k \in 0 .. 7 |-> IF k = 0 THEN a ELSE GfDouble(d[k - 1])]

LEMMA DoubledPowers ==
  ASSUME NEW a \in Byte, NEW k \in 0 .. 7
  PROVE  Doubled(a)[k] = GfMul(ExpTable[k], a)
<1> DEFINE g == [i \in 0 .. 7 |-> GfMul(ExpTable[i], a)]
           d == Doubled(a)
<1>1. ASSUME NEW i \in 0 .. 7
      PROVE  GfMul(ExpTable[i], a) = IF i = 0 THEN a ELSE GfDouble(GfMul(ExpTable[i - 1], a))
  <2>1. CASE i = 0
    BY <2>1, MulSimple, FieldAssumption
  <2>2. CASE i # 0
    <3>1. i - 1 \in 0 .. 254 /\ AddLogs(i - 1, 1) = i
      BY <2>2 DEF AddLogs
    <3> QED
      BY <2>2, <3>1, MulDouble
  <2> QED
    BY <2>1, <2>2
<1>2. g = [i \in 0 .. 7 |-> IF i = 0 THEN a ELSE GfDouble(g[i - 1])]
  BY <1>1
<1>3. d = [i \in 0 .. 7 |-> IF i = 0 THEN a ELSE GfDouble(d[i - 1])]
  <2> HIDE DEF g
  <2> QED
    BY <1>2 DEF Doubled
<1> HIDE DEF d
<1> DEFINE S == {i \in Nat : i < 8 => d[i] = GfMul(ExpTable[i], a)}
<1>4. 0 \in S
  BY <1>1, <1>3
<1>5. ASSUME NEW i \in Nat, i \in S PROVE i + 1 \in S
  <2> SUFFICES ASSUME i + 1 < 8 PROVE d[i + 1] = GfMul(ExpTable[i + 1], a)
    OBVIOUS
  <2>1. i + 1 \in 0 .. 7 /\ i + 1 # 0 /\ (i + 1) - 1 = i /\ d[i] = GfMul(ExpTable[i], a)
    BY <1>5
  <2>2. d[i + 1] = GfDouble(d[i])
    BY <1>3, <2>1
  <2>3. GfMul(ExpTable[i + 1], a) = GfDouble(GfMul(ExpTable[i], a))
    BY <1>1, <2>1
  <2> QED
    BY <2>1, <2>2, <2>3
<1>6. \A i \in Nat : i \in S
  <2> HIDE DEF S
  <2> QED
    BY <1>4, <1>5, AllNumbers
<1> QED
  BY <1>6 DEF d

\* The product by the tables is the product of polynomials.
LEMMA TimesIsMul ==
  ASSUME NEW a \in Byte, NEW b \in Byte
  PROVE  GfMul(a, b) = Times(a, b)
<1> DEFINE d == Doubled(a)
           bits == [k \in 0 .. 7 |-> IF k \in b THEN {k} ELSE Zero]
           parts == [k \in 0 .. 7 |-> IF k \in b THEN d[k] ELSE Zero]
<1>1. Times(a, b) = GfSum(b, d)
  BY DEF Times, Table, Doubled
<1>2. GfSum(b, d) = Sum(8, parts)
  <2>1. ASSUME NEW k \in 0 .. 7
        PROVE  {i \in b : k \in d[i]} = {i \in 0 .. 8 - 1 : k \in parts[i]}
    <3>1. 0 .. 8 - 1 = 0 .. 7 /\ \A i \in b : i \in 0 .. 7
      BY DEF Byte
    <3> HIDE DEF d
    <3>2. \A i \in 0 .. 7 : k \in parts[i] <=> i \in b /\ k \in d[i]
      BY DEF Zero
    <3> HIDE DEF parts
    <3> QED
      BY <3>1, <3>2
  <2> HIDE DEF d, parts
  <2> QED
    BY <2>1 DEF GfSum, Sum
<1>3. Sum(8, bits) = b
  <2>1. \A k \in 0 .. 7 : bits[k] = IF k \in b THEN {k} ELSE Zero
    OBVIOUS
  <2> HIDE DEF bits
  <2> QED
    BY <2>1, BitsOfByte
<1>4. ASSUME NEW k \in 0 .. 8 - 1 PROVE bits[k] \in Byte /\ parts[k] = GfMul(a, bits[k])
  <2>1. k \in 0 .. 7 /\ k \in 0 .. 254
    OBVIOUS
  <2>2. ExpTable[k] = {k} /\ {k} \in Byte
    <3>1. ExpTable[k] = {k}
      BY <2>1, BitPowers
    <3>2. ExpTable[k] \in Byte
      BY <2>1, FieldAssumption
    <3> QED
      BY <3>1, <3>2
  <2>3. d[k] = GfMul(a, {k})
    <3>1. d[k] = GfMul(ExpTable[k], a)
      BY <2>1, DoubledPowers
    <3>2. GfMul({k}, a) = GfMul(a, {k})
      BY <2>2, MulSimple
    <3> QED
      BY <2>2, <3>1, <3>2
  <2>4. GfMul(a, Zero) = Zero /\ Zero \in Byte
    BY MulSimple, OneLog
  <2> HIDE DEF d
  <2> QED
    BY <2>1, <2>2, <2>3, <2>4
<1> HIDE DEF d, bits, parts
<1>5. Sum(8, parts) = GfMul(a, Sum(8, bits))
  <2>1. 8 \in Nat /\ \A k \in 0 .. 8 - 1 : bits[k] \in Byte /\ parts[k] = GfMul(a, bits[k])
    BY <1>4
  <2> DEFINE n == 8
  <2>2. n \in Nat /\ \A k \in 0 .. n - 1 : bits[k] \in Byte /\ parts[k] = GfMul(a, bits[k])
    BY <2>1
  <2> HIDE DEF n
  <2>3. Sum(n, parts) = GfMul(a, Sum(n, bits))
    BY <2>2, SumTimes
  <2> QED
    BY <2>3 DEF n
<1> QED
  BY <1>1, <1>2, <1>3, <1>5

\* For every byte: multiplication by the tables is multiplication of polynomials
\* over GF(2) modulo GfPoly, division and inverse undo it, powers repeat it
\* (gf_mul, gf_div, gf_inv, gf_pow).
THEOREM FieldAlwaysSound == ReedSolomonSpec => []FieldIsSound
<1> DEFINE Inv == rsStep = "look" => rsByte \in Byte
<1>1. ReedSolomonInit => Inv
  BY DEF ReedSolomonInit
<1>2. Inv /\ [ReedSolomonNext]_rsVars => Inv'
  <2> SUFFICES ASSUME Inv, [ReedSolomonNext]_rsVars PROVE Inv'
    OBVIOUS
  <2>1. CASE LookUp
    BY <2>1, ReedSolomonAssumption DEF LookUp
  <2>2. CASE UNCHANGED rsVars
    BY <2>2 DEF rsVars
  <2>3. CASE Reconstruct
    BY <2>3 DEF Reconstruct
  <2>4. CASE EncodeAndLose \/ Eliminate \/ Recover
    BY <2>4 DEF EncodeAndLose, Eliminate, Recover
  <2> QED
    BY <2>1, <2>2, <2>3, <2>4 DEF ReedSolomonNext
<1>3. Inv => FieldIsSound
  <2> SUFFICES ASSUME Inv, rsStep = "look"
               PROVE /\ \A b \in Byte : GfMul(rsByte, b) = Times(rsByte, b)
                     /\ \A b \in Byte \ {Zero} : GfDiv(GfMul(rsByte, b), b) = rsByte
                     /\ rsByte # Zero => GfMul(rsByte, GfInv(rsByte)) = One
                     /\ \A n \in 0 .. 8 : GfPow(rsByte, n + 1) = GfMul(rsByte, GfPow(rsByte, n))
    BY DEF FieldIsSound
  <2>1. rsByte \in Byte
    OBVIOUS
  <2>2. \A b \in Byte : GfMul(rsByte, b) = Times(rsByte, b)
    BY <2>1, TimesIsMul
  <2>3. \A b \in Byte \ {Zero} : GfDiv(GfMul(rsByte, b), b) = rsByte
    BY <2>1, DivUndoes DEF Nonzero
  <2>4. rsByte # Zero => GfMul(rsByte, GfInv(rsByte)) = One
    BY <2>1, MulInverse DEF Nonzero
  <2>5. \A n \in 0 .. 8 : GfPow(rsByte, n + 1) = GfMul(rsByte, GfPow(rsByte, n))
    <3>1. \A n \in 0 .. 8 : n \in Nat
      OBVIOUS
    <3> QED
      BY <2>1, <3>1, PowRepeats
  <2> QED
    BY <2>2, <2>3, <2>4, <2>5
<1> QED
  BY <1>1, <1>2, <1>3, PTL DEF ReedSolomonSpec

================================================================================
