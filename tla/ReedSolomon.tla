------------------------------- MODULE ReedSolomon -------------------------------
(***************************************************************************)
(* The erasure code behind parity groups: arithmetic in GF(256), the       *)
(* encoding matrix (identity above Vandermonde rows), encoding, and        *)
(* reconstruction by inverting the rows of the first present shards.       *)
(*                                                                         *)
(* A byte is the set of its bits that are 1: exclusive or is the symmetric *)
(* difference.  A shard is one byte: the code treats the bytes of a shard  *)
(* one by one, each with the same coefficients.  Gauss-Jordan elimination  *)
(* takes one step per column.                                              *)
(***************************************************************************)
EXTENDS Integers, FiniteSets

CONSTANTS
  DataShards,    \* data_shards of the codec
  ParityShards,  \* parity_shards
  ShardInputs,   \* bound: the data that is encoded, functions 0..DataShards-1 -> Byte
  ShardLosses,   \* bound: the sets of shards that are then lost
  FieldSamples   \* bound: the bytes whose products and quotients are looked at

Byte == SUBSET (0..7)
Zero == {}
One == {0}
Total == DataShards + ParityShards
DataPositions == 0..DataShards-1
Positions == 0..Total-1
Columns == 0..2*DataShards-1

ASSUME ReedSolomonAssumption ==
  /\ DataShards \in Nat \ {0} /\ ParityShards \in Nat \ {0} /\ Total <= 256
  /\ ShardInputs \subseteq [DataPositions -> Byte]
  /\ \A lost \in ShardLosses : lost \subseteq Positions
  /\ FieldSamples \subseteq Byte

VARIABLES
  rsStep,     \* "idle", "look", "encoded", "invert", "recovered", "refused"
  rsByte,     \* the byte whose row of the field's tables is looked at
  rsData,     \* the data that was encoded
  rsShards,   \* the shards: position -> byte, for the shards that are present
  rsUsed,     \* the shards reconstruct works with, in order
  rsAug,      \* the augmented matrix [sub-matrix | identity]
  rsColumn    \* the column that is eliminated next

rsVars == <<rsStep, rsByte, rsData, rsShards, rsUsed, rsAug, rsColumn>>

-----------------------------------------------------------------------------
\* Arithmetic in GF(256) by tables.

GfAdd(x, y) == (x \ y) \cup (y \ x)

\* The sum of a family of bytes: a bit is 1 if it is in an odd number of them.
GfSum(I, f) == {k \in 0..7 : Cardinality({i \in I : k \in f[i]}) % 2 = 1}

\* x^8 + x^4 + x^3 + x^2 + 1
GfPoly == {0, 2, 3, 4, 8}

\* Multiplication by alpha = 2.
GfDouble(x) ==
  LET twice == {k + 1 : k \in x}
  IN  IF 8 \in twice THEN GfAdd(twice, GfPoly) ELSE twice

\* A function as a table: it is f, and comparing it has its entries computed once.
Table(f) == CHOOSE table \in {f} : table = f

\* The powers of alpha, each twice the one before (or, to be found with fewer
\* steps, sixteen times doubled the sixteenth before).  exp_table repeats after
\* 255 entries.
ExpTable ==
  LET double == Table([x \in Byte |-> GfDouble(x)])
      Twice(f) == Table([x \in Byte |-> f[f[x]]])
      double16 == Twice(Twice(Twice(Twice(double))))
      exp[i \in 0..254] ==
        IF i = 0 THEN One
        ELSE IF i % 16 = 0 THEN double16[exp[i-16]] ELSE double[exp[i-1]]
  IN  Table(exp)

LogTable ==
  LET exp == ExpTable
  IN  Table([v \in Byte \ {Zero} |-> CHOOSE i \in 0..254 : exp[i] = v])

\* The tables are the same in every instance: whenever TLC evaluates this, it has
\* looked at all that there is.  Every power of alpha is twice the one before,
\* the 255th is the first again, and each byte but 0 is one of them.
ASSUME FieldAssumption ==
  /\ \A i \in 0..254 : ExpTable[i] \in Byte \ {Zero} /\ LogTable[ExpTable[i]] = i
  /\ ExpTable[0] = One
  /\ \A i \in 0..254 : ExpTable[(i + 1) % 255] = GfDouble(ExpTable[i])
  /\ \A v \in Byte \ {Zero} : LogTable[v] \in 0..254 /\ ExpTable[LogTable[v]] = v

\* Slip: the sum of the logarithms wraps at the field's size.
GfMulWrapping(a, b) ==
  IF a = Zero \/ b = Zero THEN Zero ELSE ExpTable[((LogTable[a] + LogTable[b]) % 256) % 255]

GfMul(a, b) ==
  IF a = Zero \/ b = Zero THEN Zero ELSE ExpTable[(LogTable[a] + LogTable[b]) % 255]

\* For a divisor that is not zero; the code returns an error for zero.
GfDiv(a, b) ==
  IF a = Zero THEN Zero ELSE ExpTable[(LogTable[a] + 255 - LogTable[b]) % 255]

\* For a # Zero.  The log of 1 is 0, which exp_table's second period answers.
GfInv(a) == ExpTable[(255 - LogTable[a]) % 255]

GfPow(a, n) ==
  IF n = 0 THEN One ELSE IF a = Zero THEN Zero ELSE ExpTable[(LogTable[a] * n) % 255]

-----------------------------------------------------------------------------
\* Matrices: functions from rows to functions from columns to bytes.

Product(row, column) ==
  GfSum(DataPositions, Table([d \in DataPositions |-> GfMul(row[d], column[d])]))

Vandermonde(i, j) == IF i = 0 \/ j = 0 THEN One ELSE ExpTable[(i * j) % 255]

EncodingMatrix ==
  [i \in Positions |-> [j \in DataPositions |->
     IF i >= DataShards THEN Vandermonde(i, j) ELSE IF i = j THEN One ELSE Zero]]

ParityShard(i, data) == Product(EncodingMatrix[i], data)

Encode(data) ==
  [i \in Positions |-> IF i < DataShards THEN data[i] ELSE ParityShard(i, data)]

\* Slip: no row is looked for below the diagonal.
PivotOnDiagonal(m, c) == {r \in {c} : m[r][c] # Zero}

\* The rows that could have the pivot of a column, from the diagonal down.
PivotRows(m, c) == {r \in c..DataShards-1 : m[r][c] # Zero}

FirstOf(S) == CHOOSE i \in S : \A j \in S : i <= j

Swap(m, r, s) == [m EXCEPT ![r] = m[s], ![s] = m[r]]

Scale(m, r) ==
  LET inv == GfInv(m[r][r])
  IN  [m EXCEPT ![r] = [j \in Columns |-> GfMul(m[r][j], inv)]]

\* Slip: only the rows below are cleared, as in plain Gaussian elimination.
ClearColumnBelow(m, c) ==
  [r \in DataPositions |->
     IF r <= c \/ m[r][c] = Zero THEN m[r]
     ELSE [j \in Columns |-> GfAdd(m[r][j], GfMul(m[r][c], m[c][j]))]]

\* Subtracts multiples of row c from all other rows, above and below.
ClearColumn(m, c) ==
  [r \in DataPositions |->
     IF r = c \/ m[r][c] = Zero THEN m[r]
     ELSE [j \in Columns |-> GfAdd(m[r][j], GfMul(m[r][c], m[c][j]))]]

InverseEntry(j, i) == rsAug[j][DataShards + i]

-----------------------------------------------------------------------------
ReedSolomonInit ==
  /\ rsStep = "idle" /\ rsByte = Zero
  /\ rsData = <<>> /\ rsShards = <<>> /\ rsUsed = <<>> /\ rsAug = <<>>
  /\ rsColumn = 0

LookUp ==
  /\ rsStep = "idle"
  /\ rsByte' \in FieldSamples
  /\ rsStep' = "look"
  /\ UNCHANGED <<rsData, rsShards, rsUsed, rsAug, rsColumn>>

\* encode computes the parity shards; then some of the shards are lost.
EncodeAndLose ==
  /\ rsStep = "idle"
  /\ rsData' \in ShardInputs
  /\ \E lost \in ShardLosses :
       LET shards == Encode(rsData')
       IN  rsShards' = [i \in Positions \ lost |-> shards[i]]
  /\ rsStep' = "encoded"
  /\ UNCHANGED <<rsByte, rsUsed, rsAug, rsColumn>>

\* The first shards that are present, one per row of the sub-matrix.
Used ==
  [r \in DataPositions |->
     CHOOSE i \in DOMAIN rsShards : Cardinality({h \in DOMAIN rsShards : h < i}) = r]

\* reconstruct refuses when too few shards are present, and returns at once
\* when none is missing.
Reconstruct ==
  /\ rsStep = "encoded"
  /\ CASE Cardinality(DOMAIN rsShards) < DataShards ->
            rsStep' = "refused" /\ UNCHANGED <<rsUsed, rsAug>>
       [] DOMAIN rsShards = Positions ->
            rsStep' = "recovered" /\ UNCHANGED <<rsUsed, rsAug>>
       [] OTHER ->
            /\ rsStep' = "invert"
            /\ rsUsed' = Used
            /\ rsAug' = [r \in DataPositions |-> [j \in Columns |->
                 IF j < DataShards THEN EncodingMatrix[rsUsed'[r]][j]
                 ELSE IF j = DataShards + r THEN One ELSE Zero]]
  /\ UNCHANGED <<rsByte, rsData, rsShards, rsColumn>>

\* One column of the elimination: find the pivot, swap, scale, clear.
Eliminate ==
  /\ rsStep = "invert"
  /\ rsColumn < DataShards
  /\ LET pivots == PivotRows(rsAug, rsColumn)
     IN  IF pivots = {}
         THEN rsStep' = "refused" /\ UNCHANGED <<rsAug, rsColumn>>
         ELSE /\ rsAug' = ClearColumn(Scale(Swap(rsAug, rsColumn, FirstOf(pivots)),
                                           rsColumn), rsColumn)
              /\ rsColumn' = rsColumn + 1
              /\ UNCHANGED rsStep
  /\ UNCHANGED <<rsByte, rsData, rsShards, rsUsed>>

\* The inverse gives the data back, the encoding matrix every missing shard.
Recover ==
  /\ rsStep = "invert"
  /\ rsColumn = DataShards
  /\ LET known == [i \in DataPositions |-> rsShards[rsUsed[i]]]
         data == [j \in DataPositions |->
                    Product([i \in DataPositions |-> InverseEntry(j, i)], known)]
     IN  rsShards' = [i \in Positions |->
           IF i \in DOMAIN rsShards THEN rsShards[i]
           ELSE ParityShard(i, data)]
  /\ rsStep' = "recovered"
  /\ UNCHANGED <<rsByte, rsData, rsUsed, rsAug, rsColumn>>

ReedSolomonNext == LookUp \/ EncodeAndLose \/ Reconstruct \/ Eliminate \/ Recover

ReedSolomonSpec == ReedSolomonInit /\ [][ReedSolomonNext]_rsVars

-----------------------------------------------------------------------------
\* The reference: a product of polynomials over GF(2), modulo GfPoly, is the sum
\* of a doubled k times, for the bits k of b.
Times(a, b) ==
  LET doubled[k \in 0..7] == IF k = 0 THEN a ELSE GfDouble(doubled[k-1])
  IN  GfSum(b, Table(doubled))

\* The tables compute the field: products are products of polynomials, division
\* and inverse undo them, powers repeat them (gf_mul, gf_div, gf_inv, gf_pow).
FieldIsSound ==
  rsStep = "look" =>
    /\ \A b \in Byte : GfMul(rsByte, b) = Times(rsByte, b)
    /\ \A b \in Byte \ {Zero} : GfDiv(GfMul(rsByte, b), b) = rsByte
    /\ rsByte # Zero => GfMul(rsByte, GfInv(rsByte)) = One
    /\ \A n \in 0..8 : GfPow(rsByte, n + 1) = GfMul(rsByte, GfPow(rsByte, n))

\* What reconstruct hands back is what was encoded, every shard of it.
RecoveredExact == rsStep = "recovered" => rsShards = Encode(rsData)

\* As long as at most parity_shards shards are lost, reconstruct succeeds
\* ("Up to `parity_shards` shards can be lost and recovered").
MaxLossRecoverable ==
  rsStep = "refused" => Cardinality(Positions \ DOMAIN rsShards) > ParityShards

==================================================================================
