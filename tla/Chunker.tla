-------------------------------- MODULE Chunker --------------------------------
(***************************************************************************)
(* Content-defined chunking: a file is cut where the rolling hash of its   *)
(* last bytes has a certain form, so that a change of a file changes the   *)
(* chunks around it and no others.  One step per byte.                     *)
(*                                                                         *)
(* A word is the set of its bits that are 1: exclusive or is the symmetric *)
(* difference.  Buzhash's window has as many bytes as its words have bits. *)
(***************************************************************************)
EXTENDS Naturals, Sequences, FiniteSets

CONSTANTS
  WordBits,      \* bits of a word, and bytes of the window
  ByteWord,      \* Buzhash's table: byte -> word
  ZeroByte,      \* what the window is filled with at first
  MinSize, MaxSize, TargetSize,
  ChunkerInputs  \* bound: the files

Bits == 0..WordBits-1

ASSUME ChunkerAssumption ==
  /\ WordBits \in Nat \ {0}
  /\ ZeroByte \in DOMAIN ByteWord
  /\ \A b \in DOMAIN ByteWord : ByteWord[b] \subseteq Bits
  /\ MinSize \in Nat \ {0} /\ MaxSize \in Nat /\ TargetSize \in Nat
  /\ MinSize < MaxSize /\ MinSize <= TargetSize /\ TargetSize <= MaxSize
  /\ ChunkerInputs \subseteq Seq(DOMAIN ByteWord)

VARIABLES
  ckStep,     \* "idle", "read", "end"
  ckData,     \* the file that is chunked
  ckPos,      \* how many of its bytes have been read
  ckCuts,     \* the ends of its chunks
  ckHash,     \* the rolling hash
  ckWindow,   \* the last bytes, a circular buffer
  ckSlot,     \* the place of the oldest of them
  ckEarlier   \* an earlier version of the file, chunked: <<its data, its cuts>>

hashVars == <<ckHash, ckWindow, ckSlot>>
chunkerVars == <<ckStep, ckData, ckPos, ckCuts, hashVars, ckEarlier>>

-----------------------------------------------------------------------------
\* Buzhash.

BitXor(v, w) == (v \ w) \cup (w \ v)
RotateLeft(v, n) == {(b + n) % WordBits : b \in v}

Reset ==
  /\ ckHash' = {}
  /\ ckWindow' = [i \in Bits |-> ZeroByte]
  /\ ckSlot' = 0

\* Slip: the oldest byte is taken out as if it had gone all the way round.
SlideTooFar(b) ==
  LET left == BitXor(ckHash, RotateLeft(ByteWord[ckWindow[ckSlot]], WordBits))
  IN  BitXor(RotateLeft(left, 1), ByteWord[b])

\* The hash after one byte more: the oldest byte leaves, every other one is
\* rotated by one place, the new byte enters.
Slide(b) ==
  LET left == BitXor(ckHash, RotateLeft(ByteWord[ckWindow[ckSlot]], WordBits - 1))
  IN  BitXor(RotateLeft(left, 1), ByteWord[b])

\* Chunker::new: half of the next power of two, so for a power of two half of
\* the target.  The mask is 2^MaskBits.
MaskBits == CHOOSE k \in 0..TargetSize :
  /\ k = 0 \/ 2^k < TargetSize
  /\ 2^(k + 1) >= TargetSize

\* hash % mask == mask - 1
Boundary(hash) == {b \in Bits : b < MaskBits} \subseteq hash

-----------------------------------------------------------------------------
\* chunk_data.

ChunkStart == IF ckCuts = <<>> THEN 0 ELSE ckCuts[Len(ckCuts)]

\* Slip: the largest chunk is one byte too large.
CutAfterLate(length, hash) == length >= MinSize /\ (length > MaxSize \/ Boundary(hash))

CutAfter(length, hash) == length >= MinSize /\ (length >= MaxSize \/ Boundary(hash))

ChunkerInit ==
  /\ ckStep = "idle" /\ ckData = <<>> /\ ckPos = 0 /\ ckCuts = <<>>
  /\ ckHash = {} /\ ckWindow = [i \in Bits |-> ZeroByte] /\ ckSlot = 0
  /\ ckEarlier = <<>>

StartChunking(file) ==
  /\ ckStep' = "read" /\ ckData' = file /\ ckPos' = 0 /\ ckCuts' = <<>>
  /\ Reset

StartFile ==
  /\ ckStep = "idle"
  /\ \E file \in ChunkerInputs : StartChunking(file)
  /\ UNCHANGED ckEarlier

\* Slip: after a cut the hash starts again, the window does not.
ReadByteKeepingWindow ==
  /\ ckStep = "read" /\ ckPos < Len(ckData)
  /\ LET byte == ckData[ckPos + 1]
         hash == Slide(byte)
     IN  /\ ckPos' = ckPos + 1
         /\ ckWindow' = [ckWindow EXCEPT ![ckSlot] = byte]
         /\ ckSlot' = (ckSlot + 1) % WordBits
         /\ IF CutAfter(ckPos' - ChunkStart, hash)
            THEN ckCuts' = Append(ckCuts, ckPos') /\ ckHash' = {}
            ELSE ckHash' = hash /\ UNCHANGED ckCuts
  /\ UNCHANGED <<ckStep, ckData, ckEarlier>>

ReadByte ==
  /\ ckStep = "read" /\ ckPos < Len(ckData)
  /\ LET byte == ckData[ckPos + 1]
         hash == Slide(byte)
     IN  /\ ckPos' = ckPos + 1
         /\ IF CutAfter(ckPos' - ChunkStart, hash)
            THEN ckCuts' = Append(ckCuts, ckPos') /\ Reset
            ELSE /\ ckHash' = hash
                 /\ ckWindow' = [ckWindow EXCEPT ![ckSlot] = byte]
                 /\ ckSlot' = (ckSlot + 1) % WordBits
                 /\ UNCHANGED ckCuts
  /\ UNCHANGED <<ckStep, ckData, ckEarlier>>

\* What is left after the last cut is the last chunk.
EndFile ==
  /\ ckStep = "read" /\ ckPos = Len(ckData)
  /\ ckStep' = "end"
  /\ ckCuts' = IF ChunkStart < Len(ckData) THEN Append(ckCuts, Len(ckData)) ELSE ckCuts
  /\ UNCHANGED <<ckData, ckPos, hashVars, ckEarlier>>

\* The next backup finds the file changed: a byte less or more, or another
\* one, in front.
NextVersion ==
  /\ ckStep = "end" /\ ckEarlier = <<>> /\ ckData # <<>>
  /\ ckEarlier' = <<ckData, ckCuts>>
  /\ \/ StartChunking(Tail(ckData))
     \/ \E b \in DOMAIN ByteWord : StartChunking(<<b>> \o ckData)
     \/ \E b \in DOMAIN ByteWord : StartChunking(<<b>> \o Tail(ckData))

ChunkerNext == StartFile \/ ReadByte \/ EndFile \/ NextVersion

ChunkerSpec == ChunkerInit /\ [][ChunkerNext]_chunkerVars

-----------------------------------------------------------------------------
\* Correctness.

\* The chunks are the file, cut in pieces: each begins where the one before
\* ends, none is larger than max_size or, unless it is the last, smaller than
\* min_size, and at the end they make up all of it (chunk_data).
ChunkSizes ==
  /\ \A i \in DOMAIN ckCuts :
       LET size == ckCuts[i] - (IF i = 1 THEN 0 ELSE ckCuts[i - 1])
       IN  /\ ckCuts[i] <= ckPos
           /\ size \in 1..MaxSize
           /\ size < MinSize => i = Len(ckCuts) /\ ckStep = "end"
  /\ ckStep = "end" => ChunkStart = Len(ckData)

\* The exclusive or of a family of words.
XorAll(n, word(_)) ==
  {b \in Bits : Cardinality({i \in 0..n-1 : b \in word(i)}) % 2 = 1}

\* The hash depends on no byte but the last ones of the chunk, each rotated by
\* its age; the bytes the window is filled with at first leave a trace that is
\* the same in every chunk (Buzhash::update).
HashOfWindow ==
  ckStep = "read" =>
    LET length == ckPos - ChunkStart
        seen == IF length < WordBits THEN length ELSE WordBits
    IN  ckHash = BitXor(XorAll(seen, LAMBDA i : RotateLeft(ByteWord[ckData[ckPos - i]], i)),
                     XorAll(seen, LAMBDA i : RotateLeft(ByteWord[ZeroByte], i)))

\* Where the cuts are, counted from the end of the file.
FromEnd(data, cuts) == {Len(data) - cuts[i] : i \in DOMAIN cuts}

\* Two versions that end alike and are both cut somewhere in that end are cut
\* alike from there on, so a changed file shares all later chunks with its
\* earlier version (Buzhash::reset).
CutsMeetAgain ==
  ckStep = "end" /\ ckEarlier # <<>> =>
    LET now == FromEnd(ckData, ckCuts)
        before == FromEnd(ckEarlier[1], ckEarlier[2])
        common == IF Len(ckData) < Len(ckEarlier[1]) THEN Len(ckData) ELSE Len(ckEarlier[1]) - 1
    IN  \A e \in now \cap before :
          e <= common => {x \in now : x < e} = {x \in before : x < e}

================================================================================
