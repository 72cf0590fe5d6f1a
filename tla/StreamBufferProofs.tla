------------------------- MODULE StreamBufferProofs -------------------------
(***************************************************************************)
(* Proofs about module StreamBuffer, for rings of every length and for     *)
(* both kinds of buffer: what is read is what was written, although        *)
(* neither side takes a lock, and no wake-up is lost.                      *)
(***************************************************************************)
EXTENDS StreamBufferInvariant, TLAPS

(* The buffer as it is when the refused message has been put back.         *)
Back == INSTANCE StreamBufferInvariant
            WITH xTail <- xOriginalTail, r <- "idle", ticks <- "none", xBytesAvailable <- 0

(* The inductive invariant: while the tail is to be put back, nobody else  *)
(* moves, and once it is back all is as before.                            *)
IInv ==
    IF r = "restore"
      THEN /\ ~WriterPreempts /\ isMessageBuffer
           /\ xTail \in Cell /\ xBytesAvailable \in 0 .. xLength - 1
           /\ Back!BufferInv
      ELSE BufferInv

(* Either the writer cannot run while the tail is to be put back, or every *)
(* reader has room for the longest message and never puts it back.         *)
PutBackAlone == ~WriterPreempts \/ \A n \in BufferLengths : MaxSend <= n

-----------------------------------------------------------------------------
(* Remainders *)

LEMMA Divides ==
    ASSUME NEW N \in Nat \ {0}, NEW x \in Nat
    PROVE  x % N \in 0 .. N - 1 /\ x = N * (x \div N) + (x % N) /\ x \div N \in Nat
BY SMT

LEMMA Multiples ==
    ASSUME NEW N \in Nat \ {0}, NEW p \in Nat, NEW q \in Nat, p < q
    PROVE  N * p + N <= N * q
<1>1. PICK d \in Nat : q = p + 1 + d
  <2>1. q - p - 1 \in Nat /\ q = p + 1 + (q - p - 1)
    OBVIOUS
  <2> QED
    BY <2>1
<1>2. N * q = N * p + N + N * d
  BY <1>1, SMT
<1>3. N * d \in Nat
  BY SMT
<1>4. N * p \in Nat /\ N * q \in Nat
  BY SMT
<1> QED
  BY <1>2, <1>3, <1>4

LEMMA OneRemainder ==
    ASSUME NEW N \in Nat \ {0}, NEW p \in Nat, NEW q \in Nat,
           NEW a \in 0 .. N - 1, NEW b \in 0 .. N - 1, N * p + a = N * q + b
    PROVE  a = b
<1>1. N * p \in Nat /\ N * q \in Nat
  BY SMT
<1>2. CASE p < q
  BY <1>1, <1>2, Multiples
<1>3. CASE q < p
  BY <1>1, <1>3, Multiples
<1>4. CASE p = q
  BY <1>1, <1>4
<1> QED
  BY <1>2, <1>3, <1>4

(* Remainders may be taken on the way.                                     *)
LEMMA AddToRemainder ==
    ASSUME NEW N \in Nat \ {0}, NEW a \in Nat, NEW b \in Nat
    PROVE  ((a % N) + b) % N = (a + b) % N
<1> DEFINE q == a \div N
           u == (a % N) + b
           Q == u \div N
           v == a + b
           P == v \div N
<1>1. a % N \in 0 .. N - 1 /\ a = N * q + (a % N) /\ q \in Nat
  BY Divides
<1>2. u \in Nat /\ v \in Nat
  BY <1>1
<1>3. u % N \in 0 .. N - 1 /\ u = N * Q + (u % N) /\ Q \in Nat
  <2> HIDE DEF u
  <2> QED
    BY <1>2, Divides
<1>4. v % N \in 0 .. N - 1 /\ v = N * P + (v % N) /\ P \in Nat
  <2> HIDE DEF v
  <2> QED
    BY <1>2, Divides
<1>5. N * (q + Q) = N * q + N * Q /\ N * q \in Nat /\ N * Q \in Nat /\ N * P \in Nat
  <2> HIDE DEF q, Q, P
  <2> QED
    BY <1>1, <1>3, <1>4, SMT
<1>6. q + Q \in Nat /\ N * (q + Q) + (u % N) = N * P + (v % N)
  <2>1. u = (a % N) + b /\ v = a + b
    OBVIOUS
  <2>2. u % N \in Nat /\ v % N \in Nat /\ a % N \in Nat
    BY <1>1, <1>3, <1>4
  <2> HIDE DEF q, u, Q, v, P
  <2>3. N * q + N * Q + (u % N) = a + b
    <3> DEFINE A == N * q
               B == N * Q
               C == u % N
               D == a % N
    <3>1. /\ A \in Nat /\ B \in Nat /\ C \in Nat /\ D \in Nat
          /\ a = A + D /\ u = B + C /\ u = D + b
      BY <1>1, <1>3, <1>5, <2>1, <2>2
    <3> HIDE DEF A, B, C, D
    <3>2. A + B + C = a + b
      BY <3>1
    <3> QED
      BY <3>2 DEF A, B, C
  <2>4. N * P + (v % N) = a + b
    BY <1>4, <2>1
  <2>5. N * (q + Q) + (u % N) = a + b
    BY <1>5, <2>3
  <2> QED
    BY <1>1, <1>3, <2>4, <2>5
<1>7. u % N = v % N
  <2> DEFINE c == q + Q
             d == u % N
             e == v % N
  <2>1. c \in Nat /\ P \in Nat /\ d \in 0 .. N - 1 /\ e \in 0 .. N - 1 /\ N * c + d = N * P + e
    BY <1>3, <1>4, <1>6
  <2> HIDE DEF c, d, e, P
  <2>2. d = e
    BY <2>1, OneRemainder
  <2> QED
    BY <2>2 DEF d, e
<1> QED
  BY <1>7

-----------------------------------------------------------------------------
(* The ring: xLength cells, of which one is always free *)

LEMMA LengthIs == xLength \in Nat /\ xLength >= 2 /\ MaxSend \in Nat /\ Numbers \in Nat \ {0}
BY StreamAssumption

LEMMA AtIs ==
    ASSUME NEW i \in Nat, i < xLength + xLength
    PROVE  At(i) = (IF i < xLength THEN i ELSE i - xLength) /\ At(i) \in Cell
<1>1. i % xLength = IF i < xLength THEN i ELSE i - xLength
  BY LengthIs, SMT
<1> QED
  BY <1>1, LengthIs DEF At, Cell

(* How far cell c lies behind cell b.                                      *)
LEMMA DistanceIs ==
    ASSUME NEW b \in Cell, NEW c \in Cell
    PROVE  /\ At(xLength + c - b) = IF b <= c THEN c - b ELSE xLength + c - b
           /\ At(xLength + c - b) \in Cell
<1> DEFINE i == xLength + c - b
<1>1. i \in Nat /\ i < xLength + xLength
  BY LengthIs DEF Cell
<1> HIDE DEF i
<1>2. At(i) = (IF i < xLength THEN i ELSE i - xLength) /\ At(i) \in Cell
  BY <1>1, AtIs
<1>3. /\ i = xLength + c - b /\ (i < xLength <=> ~(b <= c))
      /\ ~(i < xLength) => i - xLength = c - b
  BY LengthIs DEF i, Cell
<1>4. At(i) = IF b <= c THEN c - b ELSE xLength + c - b
  BY <1>2, <1>3
<1> QED
  BY <1>2, <1>4 DEF i

LEMMA PlaceIs ==
    ASSUME NEW c \in Cell, NEW n \in 0 .. xLength
    PROVE  At(c + n) = (IF c + n < xLength THEN c + n ELSE c + n - xLength) /\ At(c + n) \in Cell
<1> DEFINE i == c + n
<1>1. i \in Nat /\ i < xLength + xLength
  BY LengthIs DEF Cell
<1> HIDE DEF i
<1>2. At(i) = (IF i < xLength THEN i ELSE i - xLength) /\ At(i) \in Cell
  BY <1>1, AtIs
<1> QED
  BY <1>2, LengthIs DEF i, Cell

(* n cells further on, and then m.                                         *)
LEMMA PlaceAfterPlace ==
    ASSUME NEW c \in Cell, NEW n \in 0 .. xLength, NEW m \in 0 .. xLength, n + m <= xLength
    PROVE  At(At(c + n) + m) = At(c + (n + m))
<1>1. At(c + n) = (IF c + n < xLength THEN c + n ELSE c + n - xLength) /\ At(c + n) \in Cell
  BY PlaceIs
<1>2. n + m \in 0 .. xLength
  BY LengthIs
<1>3. At(c + (n + m)) = IF c + (n + m) < xLength THEN c + (n + m) ELSE c + (n + m) - xLength
  BY <1>2, PlaceIs
<1>4. \A d \in Cell : At(d + m) = IF d + m < xLength THEN d + m ELSE d + m - xLength
  BY PlaceIs
<1>5. At(At(c + n) + m) = IF At(c + n) + m < xLength THEN At(c + n) + m ELSE At(c + n) + m - xLength
  BY <1>1, <1>4
<1> QED
  BY <1>1, <1>3, <1>5, LengthIs DEF Cell

(* The cell n further on than c is n further from b, within one turn.      *)
LEMMA DistanceOfPlace ==
    ASSUME NEW b \in Cell, NEW c \in Cell, NEW n \in 0 .. xLength - 1,
           At(xLength + c - b) + n < xLength
    PROVE  At(xLength + At(c + n) - b) = At(xLength + c - b) + n
<1>1. n \in 0 .. xLength
  BY LengthIs
<1>2. At(c + n) = (IF c + n < xLength THEN c + n ELSE c + n - xLength) /\ At(c + n) \in Cell
  BY <1>1, PlaceIs
<1>3. At(xLength + c - b) = IF b <= c THEN c - b ELSE xLength + c - b
  BY DistanceIs
<1>4. At(xLength + At(c + n) - b) = IF b <= At(c + n) THEN At(c + n) - b ELSE xLength + At(c + n) - b
  BY <1>2, DistanceIs
<1> QED
  BY <1>2, <1>3, <1>4, LengthIs DEF Cell

(* A cell is its distance further on.                                      *)
LEMMA PlaceAtDistance ==
    ASSUME NEW b \in Cell, NEW c \in Cell
    PROVE  At(b + At(xLength + c - b)) = c
<1> DEFINE n == At(xLength + c - b)
<1>1. n = (IF b <= c THEN c - b ELSE xLength + c - b) /\ n \in Cell
  BY DistanceIs
<1> HIDE DEF n
<1>2. n \in 0 .. xLength
  BY <1>1, LengthIs DEF Cell
<1>3. At(b + n) = IF b + n < xLength THEN b + n ELSE b + n - xLength
  BY <1>2, PlaceIs
<1>4. At(b + n) = c
  BY <1>1, <1>3, LengthIs DEF Cell
<1> QED
  BY <1>4 DEF n

-----------------------------------------------------------------------------
(* The two moves of the ring *)

LEMMA BytesIs ==
    ASSUME xHead \in Cell, xTail \in Cell
    PROVE  /\ prvBytesInBuffer = IF xTail <= xHead THEN xHead - xTail ELSE xLength + xHead - xTail
           /\ prvBytesInBuffer \in 0 .. xLength - 1
           /\ xStreamBufferSpacesAvailable = xLength - 1 - prvBytesInBuffer
           /\ xStreamBufferSpacesAvailable \in 0 .. xLength - 1
<1>1. /\ prvBytesInBuffer = IF xTail <= xHead THEN xHead - xTail ELSE xLength + xHead - xTail
      /\ prvBytesInBuffer \in Cell
  BY DistanceIs DEF prvBytesInBuffer
<1> QED
  BY <1>1, LengthIs DEF Cell, xStreamBufferSpacesAvailable

LEMMA BehindIs ==
    ASSUME xTail \in Cell, NEW c \in Cell
    PROVE  /\ Behind(c) = IF xTail <= c THEN c - xTail ELSE xLength + c - xTail
           /\ Behind(c) \in Cell
BY DistanceIs DEF Behind

(* Bytes that fit change no byte that is in the buffer.                    *)
LEMMA WriteMoves ==
    ASSUME xHead \in Cell, xTail \in Cell, NEW n \in Nat, NEW bytes, Len(bytes) = n,
           n <= xStreamBufferSpacesAvailable, prvWriteBytesToBuffer(bytes)
    PROVE  /\ xHead' = At(xHead + n) /\ xHead' \in Cell /\ UNCHANGED xTail
           /\ prvBytesInBuffer' = prvBytesInBuffer + n
           /\ \A c \in Cell : Behind(c) < prvBytesInBuffer => pucBuffer'[c] = pucBuffer[c]
           /\ \A j \in 0 .. n - 1 : pucBuffer'[At(xHead + j)] = bytes[j + 1]
<1>1. /\ prvBytesInBuffer = IF xTail <= xHead THEN xHead - xTail ELSE xLength + xHead - xTail
      /\ prvBytesInBuffer \in 0 .. xLength - 1
      /\ n <= xLength - 1 - prvBytesInBuffer
      /\ n \in 0 .. xLength /\ xLength \in Nat
  BY BytesIs, LengthIs
<1>2. /\ xHead' = At(xHead + n) /\ UNCHANGED xTail
      /\ At(xHead + n) = IF xHead + n < xLength THEN xHead + n ELSE xHead + n - xLength
      /\ xHead' \in Cell
  BY <1>1, PlaceIs DEF prvWriteBytesToBuffer
<1>3. prvBytesInBuffer' = IF xTail <= xHead' THEN xHead' - xTail ELSE xLength + xHead' - xTail
  <2>1. At(xLength + xHead' - xTail) =
          IF xTail <= xHead' THEN xHead' - xTail ELSE xLength + xHead' - xTail
    BY <1>2, DistanceIs
  <2> QED
    BY <1>2, <2>1 DEF prvBytesInBuffer, At
<1>4. prvBytesInBuffer' = prvBytesInBuffer + n
  BY <1>1, <1>2, <1>3 DEF Cell
<1>5. ASSUME NEW c \in Cell, Behind(c) < prvBytesInBuffer
      PROVE  pucBuffer'[c] = pucBuffer[c]
  <2> DEFINE i == At(xLength + c - xHead)
  <2>1. i = IF xHead <= c THEN c - xHead ELSE xLength + c - xHead
    BY DistanceIs
  <2>2. Behind(c) = IF xTail <= c THEN c - xTail ELSE xLength + c - xTail
    BY BehindIs
  <2>3. pucBuffer'[c] = IF i < Len(bytes) THEN bytes[i + 1] ELSE pucBuffer[c]
    BY DEF prvWriteBytesToBuffer
  <2> HIDE DEF i
  <2>4. ~(i < n)
    BY <1>1, <1>5, <2>1, <2>2 DEF Cell
  <2> QED
    BY <2>3, <2>4
<1>6. ASSUME NEW j \in 0 .. n - 1
      PROVE  pucBuffer'[At(xHead + j)] = bytes[j + 1]
  <2>1. j \in 0 .. xLength - 1 /\ j \in 0 .. xLength /\ j < n
    BY <1>1
  <2>2. At(xLength + xHead - xHead) = 0
    <3>1. At(xLength + xHead - xHead) = IF xHead <= xHead THEN xHead - xHead ELSE xLength + xHead - xHead
      BY DistanceIs
    <3> QED
      BY <3>1 DEF Cell
  <2>3. At(xHead + j) \in Cell
    BY <2>1, PlaceIs
  <2>4. At(xLength + At(xHead + j) - xHead) = j
    <3>1. At(xLength + xHead - xHead) + j < xLength
      BY <1>1, <2>1, <2>2
    <3>2. At(xLength + At(xHead + j) - xHead) = At(xLength + xHead - xHead) + j
      BY <2>1, <3>1, DistanceOfPlace
    <3> QED
      BY <2>1, <2>2, <3>2
  <2>5. pucBuffer' = [c \in Cell |-> LET i == At(xLength + c - xHead)
                                     IN IF i < Len(bytes) THEN bytes[i + 1] ELSE pucBuffer[c]]
    BY DEF prvWriteBytesToBuffer
  <2> QED
    BY <2>1, <2>3, <2>4, <2>5
<1> QED
  BY <1>2, <1>4, <1>5, <1>6

LEMMA ReadMoves ==
    ASSUME xHead \in Cell, xTail \in Cell, NEW n \in Nat, n <= prvBytesInBuffer,
           prvReadBytesFromBuffer(n)
    PROVE  /\ xTail' = At(xTail + n) /\ xTail' \in Cell /\ UNCHANGED <<xHead, pucBuffer>>
           /\ prvBytesInBuffer' = prvBytesInBuffer - n
           /\ \A c \in Cell : Behind(c) >= n => Behind(c)' = Behind(c) - n
<1>1. /\ prvBytesInBuffer = IF xTail <= xHead THEN xHead - xTail ELSE xLength + xHead - xTail
      /\ n \in 0 .. xLength /\ xLength \in Nat
  BY BytesIs, LengthIs
<1>2. /\ xTail' = At(xTail + n) /\ UNCHANGED <<xHead, pucBuffer>>
      /\ At(xTail + n) = IF xTail + n < xLength THEN xTail + n ELSE xTail + n - xLength
      /\ xTail' \in Cell
  BY <1>1, PlaceIs DEF prvReadBytesFromBuffer
<1>3. \A c \in Cell : At(xLength + c - xTail') =
         IF xTail' <= c THEN c - xTail' ELSE xLength + c - xTail'
  BY <1>2, DistanceIs
<1>4. prvBytesInBuffer' = IF xTail' <= xHead THEN xHead - xTail' ELSE xLength + xHead - xTail'
  BY <1>2, <1>3 DEF prvBytesInBuffer, At
<1>5. prvBytesInBuffer' = prvBytesInBuffer - n
  BY <1>1, <1>2, <1>4 DEF Cell
<1>6. ASSUME NEW c \in Cell, Behind(c) >= n PROVE Behind(c)' = Behind(c) - n
  <2>1. Behind(c)' = IF xTail' <= c THEN c - xTail' ELSE xLength + c - xTail'
    BY <1>3 DEF Behind, At
  <2>2. Behind(c) = IF xTail <= c THEN c - xTail ELSE xLength + c - xTail
    BY BehindIs
  <2> QED
    BY <1>1, <1>2, <1>6, <2>1, <2>2 DEF Cell
<1> QED
  BY <1>2, <1>5, <1>6

(* What is stored in the buffer stays there when more is written.          *)
LEMMA StoredStays ==
    ASSUME xHead \in Cell, xTail \in Cell, NEW c \in Cell, NEW n \in Nat, NEW b,
           Behind(c) + n <= prvBytesInBuffer, Stored(c, n, b),
           \A d \in Cell : Behind(d) < prvBytesInBuffer => pucBuffer'[d] = pucBuffer[d]
    PROVE  \A k \in 0 .. n - 1 : pucBuffer'[At(c + k)] = (b + k) % Numbers
<1> SUFFICES ASSUME NEW k \in 0 .. n - 1
             PROVE  pucBuffer'[At(c + k)] = (b + k) % Numbers
  OBVIOUS
<1>1. prvBytesInBuffer \in 0 .. xLength - 1 /\ xLength \in Nat
  BY BytesIs, LengthIs
<1>2. Behind(c) \in 0 .. xLength - 1
  BY BehindIs DEF Cell
<1>3. k \in 0 .. xLength - 1 /\ k \in 0 .. xLength /\ Behind(c) + k < xLength
      /\ Behind(c) + k < prvBytesInBuffer
  BY <1>1, <1>2
<1>4. At(c + k) \in Cell
  BY <1>3, PlaceIs
<1>5. Behind(At(c + k)) = Behind(c) + k
  BY <1>3, DistanceOfPlace DEF Behind
<1> QED
  BY <1>3, <1>4, <1>5 DEF Stored

LEMMA NextBytesAre ==
    ASSUME NEW n \in Nat, written \in Nat
    PROVE  /\ Len(NextBytes(n)) = n
           /\ \A j \in 0 .. n - 1 : /\ NextBytes(n)[j + 1] = (written + j) % Numbers
                                    /\ NextBytes(n)[j + 1] \in 0 .. Numbers - 1
<1> DEFINE f == [i \in 1 .. n |-> (written + i - 1) % Numbers]
<1>1. \A x \in Nat : x % Numbers \in 0 .. Numbers - 1
  BY LengthIs, Divides
<1>2. ASSUME NEW i \in 1 .. n PROVE (written + i - 1) % Numbers \in 0 .. Numbers - 1
  <2>1. written + i - 1 \in Nat
    OBVIOUS
  <2> QED
    BY <1>1, <2>1
<1>3. f \in Seq(0 .. Numbers - 1) /\ Len(f) = n
  BY <1>2
<1>4. ASSUME NEW j \in 0 .. n - 1
      PROVE  f[j + 1] = (written + j) % Numbers /\ f[j + 1] \in 0 .. Numbers - 1
  <2>1. j + 1 \in 1 .. n /\ written + (j + 1) - 1 = written + j
    OBVIOUS
  <2> QED
    BY <1>2, <2>1
<1> QED
  BY <1>3, <1>4 DEF NextBytes

(* The buffer keeps its type when bytes are written that have it.          *)
LEMMA WriteType ==
    ASSUME pucBuffer \in [Cell -> 0 .. Numbers + MaxSend], xHead \in Cell, NEW bytes,
           NEW n \in Nat, Len(bytes) = n,
           \A j \in 0 .. n - 1 : bytes[j + 1] \in 0 .. Numbers + MaxSend,
           prvWriteBytesToBuffer(bytes)
    PROVE  pucBuffer' \in [Cell -> 0 .. Numbers + MaxSend]
<1>1. ASSUME NEW c \in Cell
      PROVE  (LET i == At(xLength + c - xHead)
              IN IF i < Len(bytes) THEN bytes[i + 1] ELSE pucBuffer[c]) \in 0 .. Numbers + MaxSend
  <2> DEFINE i == At(xLength + c - xHead)
  <2>1. i \in Cell
    BY DistanceIs
  <2> HIDE DEF i
  <2>2. i < n => i \in 0 .. n - 1
    BY <2>1, LengthIs DEF Cell
  <2>3. (IF i < Len(bytes) THEN bytes[i + 1] ELSE pucBuffer[c]) \in 0 .. Numbers + MaxSend
    BY <2>2
  <2> QED
    BY <2>3 DEF i
<1> QED
  BY <1>1 DEF prvWriteBytesToBuffer

-----------------------------------------------------------------------------
(* A stream of bytes *)

LEMMA AtTail ==
    ASSUME xHead \in Cell, xTail \in Cell
    PROVE  /\ Behind(xTail) = 0
           /\ At(xTail + prvBytesInBuffer) = xHead
<1>1. Behind(xTail) = IF xTail <= xTail THEN xTail - xTail ELSE xLength + xTail - xTail
  BY BehindIs
<1> QED
  BY <1>1, PlaceAtDistance DEF Cell, prvBytesInBuffer

LEMMA StreamWritten ==
    ASSUME Shape, RingIntact, ~isMessageBuffer, UNCHANGED <<isMessageBuffer, read>>,
           NEW n \in Nat, n <= xStreamBufferSpacesAvailable,
           prvWriteBytesToBuffer(NextBytes(n)), Written(n)
    PROVE  RingIntact'
<1>1. /\ xHead \in Cell /\ xTail \in Cell /\ read \in Nat /\ written \in Nat
      /\ Numbers \in Nat \ {0}
  BY LengthIs DEF Shape
<1>2. /\ Stored(xTail, prvBytesInBuffer, read)
      /\ (read + prvBytesInBuffer) % Numbers = written
      /\ prvBytesInBuffer \in 0 .. xLength - 1
      /\ n <= xLength - 1 - prvBytesInBuffer
      /\ xLength \in Nat
  BY <1>1, BytesIs, LengthIs DEF RingIntact
<1>3. /\ UNCHANGED xTail
      /\ prvBytesInBuffer' = prvBytesInBuffer + n
      /\ \A c \in Cell : Behind(c) < prvBytesInBuffer => pucBuffer'[c] = pucBuffer[c]
      /\ \A j \in 0 .. n - 1 : pucBuffer'[At(xHead + j)] = NextBytes(n)[j + 1]
  BY <1>1, NextBytesAre, WriteMoves
<1>4. \A k \in 0 .. prvBytesInBuffer - 1 : pucBuffer'[At(xTail + k)] = (read + k) % Numbers
  BY <1>1, <1>2, <1>3, AtTail, StoredStays
<1>5. ASSUME NEW j \in 0 .. n - 1
      PROVE  pucBuffer'[At(xTail + (prvBytesInBuffer + j))] = (read + (prvBytesInBuffer + j)) % Numbers
  <2> DEFINE b == prvBytesInBuffer
  <2>1. b \in 0 .. xLength /\ j \in 0 .. xLength /\ b + j <= xLength /\ b \in Nat /\ j \in Nat
    BY <1>2
  <2>2. At(xTail + b) = xHead
    BY <1>1, AtTail
  <2>3. (read + b) % Numbers = written
    BY <1>2
  <2> HIDE DEF b
  <2>4. At(xTail + (b + j)) = At(xHead + j)
    BY <1>1, <2>1, <2>2, PlaceAfterPlace
  <2>5. pucBuffer'[At(xHead + j)] = (written + j) % Numbers
    BY <1>1, <1>3, NextBytesAre
  <2>6. (written + j) % Numbers = (read + (b + j)) % Numbers
    <3>1. (((read + b) % Numbers) + j) % Numbers = ((read + b) + j) % Numbers
      <4> DEFINE a == read + b
      <4>1. a \in Nat
        BY <1>1, <2>1
      <4> HIDE DEF a
      <4>2. ((a % Numbers) + j) % Numbers = (a + j) % Numbers
        BY <1>1, <2>1, <4>1, AddToRemainder
      <4> QED
        BY <4>2 DEF a
    <3>2. (read + b) + j = read + (b + j)
      BY <1>1, <2>1
    <3> QED
      BY <2>3, <3>1, <3>2
  <2>7. pucBuffer'[At(xTail + (b + j))] = (read + (b + j)) % Numbers
    BY <2>4, <2>5, <2>6
  <2> QED
    BY <2>7 DEF b
<1>6. Stored(xTail, prvBytesInBuffer, read)'
  <2>1. ASSUME NEW k \in 0 .. prvBytesInBuffer + n - 1
        PROVE  pucBuffer'[At(xTail + k)] = (read + k) % Numbers
    <3>1. CASE k < prvBytesInBuffer
      BY <1>2, <1>4, <3>1
    <3>2. CASE ~(k < prvBytesInBuffer)
      <4>1. k - prvBytesInBuffer \in 0 .. n - 1 /\ prvBytesInBuffer + (k - prvBytesInBuffer) = k
        BY <1>2, <3>2
      <4> QED
        BY <1>5, <4>1
    <3> QED
      BY <3>1, <3>2
  <2>2. ASSUME NEW k \in 0 .. prvBytesInBuffer' - 1
        PROVE  pucBuffer'[At(xTail' + k)] = (read' + k) % Numbers
    <3>1. prvBytesInBuffer' = prvBytesInBuffer + n /\ xTail' = xTail /\ read' = read
      BY <1>3
    <3>2. k \in 0 .. prvBytesInBuffer + n - 1
      BY <1>2, <3>1
    <3>3. pucBuffer'[At(xTail + k)] = (read + k) % Numbers
      BY <3>2, <2>1
    <3> QED
      BY <3>1, <3>3
  <2> QED
    BY <2>2 DEF Stored, At
<1>7. ((read + prvBytesInBuffer) % Numbers = written)'
  <2> DEFINE b == prvBytesInBuffer
             a == read + b
  <2>1. a \in Nat /\ b \in Nat
    BY <1>1, <1>2
  <2>2. a % Numbers = written
    BY <1>2
  <2> HIDE DEF a
  <2>3. (written + n) % Numbers = (a + n) % Numbers
    BY <1>1, <2>1, <2>2, AddToRemainder
  <2>4. a + n = read + (b + n)
    BY <1>1, <2>1 DEF a
  <2> QED
    BY <1>3, <2>3, <2>4 DEF Written
<1> QED
  BY <1>6, <1>7 DEF RingIntact

LEMMA Numbering ==
    ASSUME NEW a \in Nat, NEW b \in Nat
    PROVE  /\ ((a % Numbers) + b) % Numbers = (a + b) % Numbers
           /\ a % Numbers \in 0 .. Numbers - 1
BY LengthIs, AddToRemainder, Divides

(* The n bytes at cell c, numbered from b on, are n - m bytes at the cell  *)
(* m further on, numbered from b + m on.                                   *)
LEMMA StoredFrom ==
    ASSUME NEW c \in Cell, NEW n \in 0 .. xLength, NEW b \in Nat, NEW m \in 0 .. n,
           Stored(c, n, b), UNCHANGED pucBuffer
    PROVE  \A k \in 0 .. (n - m) - 1 :
              pucBuffer'[At(At(c + m) + k)] = (((b + m) % Numbers) + k) % Numbers
<1> SUFFICES ASSUME NEW k \in 0 .. (n - m) - 1
             PROVE  pucBuffer[At(At(c + m) + k)] = (((b + m) % Numbers) + k) % Numbers
  OBVIOUS
<1>1. /\ m \in 0 .. xLength /\ k \in 0 .. xLength /\ m + k <= xLength
      /\ m + k \in 0 .. n - 1 /\ m \in Nat /\ k \in Nat /\ b + m \in Nat
  BY LengthIs
<1>2. At(At(c + m) + k) = At(c + (m + k))
  BY <1>1, PlaceAfterPlace
<1>3. pucBuffer[At(c + (m + k))] = (b + (m + k)) % Numbers
  BY <1>1 DEF Stored
<1>4. (((b + m) % Numbers) + k) % Numbers = ((b + m) + k) % Numbers
  <2> DEFINE a == b + m
  <2>1. a \in Nat
    BY <1>1
  <2> HIDE DEF a
  <2>2. ((a % Numbers) + k) % Numbers = (a + k) % Numbers
    BY <1>1, <2>1, Numbering
  <2> QED
    BY <2>2 DEF a
<1>5. (b + m) + k = b + (m + k)
  BY <1>1
<1> QED
  BY <1>2, <1>3, <1>4, <1>5

LEMMA StreamRead ==
    ASSUME Shape, RingIntact, ~isMessageBuffer, UNCHANGED <<isMessageBuffer, written>>,
           NEW n \in Nat, n <= prvBytesInBuffer, prvReadBytesFromBuffer(n), HasRead(n)
    PROVE  RingIntact'
<1>1. /\ xHead \in Cell /\ xTail \in Cell /\ read \in Nat /\ written \in Nat
  BY LengthIs DEF Shape
<1>2. /\ Stored(xTail, prvBytesInBuffer, read)
      /\ (read + prvBytesInBuffer) % Numbers = written
      /\ prvBytesInBuffer \in 0 .. xLength - 1
      /\ prvBytesInBuffer \in 0 .. xLength
      /\ n \in 0 .. prvBytesInBuffer
  BY <1>1, BytesIs, LengthIs DEF RingIntact
<1>3. /\ xTail' = At(xTail + n) /\ UNCHANGED pucBuffer
      /\ prvBytesInBuffer' = prvBytesInBuffer - n
      /\ read' = (read + n) % Numbers
  BY <1>1, ReadMoves DEF HasRead
<1>4. Stored(xTail, prvBytesInBuffer, read)'
  <2>1. \A k \in 0 .. (prvBytesInBuffer - n) - 1 :
           pucBuffer'[At(At(xTail + n) + k)] = (((read + n) % Numbers) + k) % Numbers
    BY <1>1, <1>2, <1>3, StoredFrom
  <2>2. \A k \in 0 .. prvBytesInBuffer' - 1 : pucBuffer'[At(xTail' + k)] = (read' + k) % Numbers
    BY <1>3, <2>1
  <2> QED
    BY <2>2 DEF Stored, At
<1>5. ((read + prvBytesInBuffer) % Numbers = written)'
  <2> DEFINE a == read + n
             b == prvBytesInBuffer - n
  <2>1. a \in Nat /\ b \in Nat /\ a + b = read + prvBytesInBuffer
    BY <1>1, <1>2
  <2> HIDE DEF a, b
  <2>2. ((a % Numbers) + b) % Numbers = (a + b) % Numbers
    BY <2>1, Numbering
  <2> QED
    BY <1>2, <1>3, <2>1, <2>2 DEF a, b
<1> QED
  BY <1>4, <1>5 DEF RingIntact

-----------------------------------------------------------------------------
(* Messages *)

LEMMA MessageIs ==
    ASSUME Shape, NEW i \in 1 .. Len(messages)
    PROVE  /\ messages[i] \in Message
           /\ messages[i].at \in Cell /\ messages[i].length \in 1 .. MaxSend
           /\ messages[i].first \in Nat
<1>1. messages[i] \in Message
  BY DEF Shape
<1> QED
  BY <1>1, LengthIs DEF Message

(* A message in the buffer lies there whole, behind the tail.              *)
LEMMA WhereMessageLies ==
    ASSUME Shape, isMessageBuffer, InBuffer, NEW i \in 1 .. Len(messages)
    PROVE  /\ At(messages[i].at + 1) \in Cell
           /\ Behind(messages[i].at) \in Nat
           /\ Behind(At(messages[i].at + 1)) = Behind(messages[i].at) + 1
           /\ Behind(messages[i].at) + 1 + messages[i].length <= prvBytesInBuffer
<1>1. /\ xHead \in Cell /\ xTail \in Cell
      /\ prvBytesInBuffer \in 0 .. xLength - 1 /\ xLength \in Nat
      /\ messages[i].at \in Cell /\ messages[i].length \in 1 .. MaxSend
      /\ 1 \in 0 .. xLength /\ 1 \in 0 .. xLength - 1
  BY BytesIs, MessageIs, LengthIs DEF Shape
<1>2. Behind(messages[i].at) \in Nat
  BY <1>1, BehindIs, LengthIs DEF Cell
<1>3. Behind(messages[i].at) + 1 + messages[i].length <= prvBytesInBuffer
  BY <1>1 DEF InBuffer, Ends
<1>4. Behind(messages[i].at) + 1 < xLength
  BY <1>1, <1>2, <1>3, LengthIs
<1>5. At(messages[i].at + 1) \in Cell
  BY <1>1, PlaceIs
<1>6. Behind(At(messages[i].at + 1)) = Behind(messages[i].at) + 1
  BY <1>1, <1>4, DistanceOfPlace DEF Behind
<1> QED
  BY <1>2, <1>3, <1>5, <1>6

LEMMA EndsType ==
    ASSUME Shape, isMessageBuffer, InBuffer, NEW i \in 0 .. Len(messages)
    PROVE  Ends(i) \in Nat
<1>1. CASE i = 0
  BY <1>1, LengthIs DEF Ends, Shape
<1>2. CASE i # 0
  <2>1. i \in 1 .. Len(messages)
    BY <1>2
  <2> QED
    BY <1>2, <2>1, MessageIs, WhereMessageLies, LengthIs DEF Ends
<1> QED
  BY <1>1, <1>2

(* When more is written, the messages in the buffer stay as they are.      *)
LEMMA MessagesStay ==
    ASSUME Shape, isMessageBuffer, InBuffer, RingIntact,
           UNCHANGED <<xTail, taking, read>>,
           \A d \in Cell : Behind(d) < prvBytesInBuffer => pucBuffer'[d] = pucBuffer[d],
           \A i \in 1 .. Len(messages) : messages'[i] = messages[i]
    PROVE  /\ \A i \in 1 .. Len(messages) : Whole(i)'
           /\ \A i \in 0 .. Len(messages) : Ends(i)' = Ends(i) /\ NextNumber(i)' = NextNumber(i)
           /\ Stored(xTail, taking, read)'
<1>1. xHead \in Cell /\ xTail \in Cell /\ taking \in Nat /\ Len(messages) \in Nat
  BY LengthIs DEF Shape
<1>2. \A c : Behind(c)' = Behind(c)
  BY DEF Behind, At
<1>3. \A i \in 0 .. Len(messages) : Ends(i)' = Ends(i) /\ NextNumber(i)' = NextNumber(i)
  BY <1>1, <1>2 DEF Ends, NextNumber
<1>4. Stored(xTail, taking, read)'
  <2>1. Behind(xTail) + taking <= prvBytesInBuffer
    BY <1>1, AtTail DEF InBuffer, Ends
  <2>2. \A k \in 0 .. taking - 1 : pucBuffer'[At(xTail + k)] = (read + k) % Numbers
    BY <1>1, <2>1, StoredStays DEF RingIntact
  <2> QED
    BY <2>2 DEF Stored, At
<1>5. ASSUME NEW i \in 1 .. Len(messages) PROVE Whole(i)'
  <2> PICK m : m = messages[i]
    OBVIOUS
  <2>1. /\ m.at \in Cell /\ m.length \in 1 .. MaxSend /\ m.length \in Nat
        /\ At(m.at + 1) \in Cell /\ Behind(m.at) \in Nat
        /\ Behind(At(m.at + 1)) = Behind(m.at) + 1
        /\ Behind(m.at) + 1 + m.length <= prvBytesInBuffer
    BY MessageIs, WhereMessageLies, LengthIs
  <2>2. Whole(i) /\ messages'[i] = m
    BY DEF RingIntact
  <2>3. Behind(m.at) = Ends(i - 1) /\ m.first = NextNumber(i - 1)
        /\ pucBuffer[m.at] = m.length /\ Stored(At(m.at + 1), m.length, m.first)
    BY <2>2 DEF Whole
  <2>4. prvBytesInBuffer \in Nat
    BY <1>1, BytesIs, LengthIs
  <2>5. pucBuffer'[m.at] = m.length
    BY <2>1, <2>3, <2>4
  <2>6. \A k \in 0 .. m.length - 1 : pucBuffer'[At(At(m.at + 1) + k)] = (m.first + k) % Numbers
    BY <1>1, <2>1, <2>3, <2>4, StoredStays
  <2>7. i - 1 \in 0 .. Len(messages)
    BY <1>1
  <2>8. m.first = NextNumber(i - 1)' /\ At(xLength + m.at - xTail') = Ends(i - 1)'
    BY <1>3, <2>3, <2>7 DEF Behind
  <2>9. /\ messages'[i].first = NextNumber(i - 1)'
        /\ At(xLength + messages'[i].at - xTail') = Ends(i - 1)'
        /\ pucBuffer'[messages'[i].at] = messages'[i].length
        /\ \A k \in 0 .. messages'[i].length - 1 :
             pucBuffer'[At(At(messages'[i].at + 1) + k)] = (messages'[i].first + k) % Numbers
    BY <2>2, <2>5, <2>6, <2>8
  <2> QED
    BY <2>9 DEF Whole, Stored, At, Behind
<1> QED
  BY <1>3, <1>4, <1>5

LEMMA BeforeNext ==
    ASSUME NEW c \in Cell
    PROVE  At(xLength + At(c + 1) - 1) = c
<1>1. At(c + 1) = (IF c + 1 < xLength THEN c + 1 ELSE c + 1 - xLength) /\ At(c + 1) \in Cell
  <2>1. 1 \in 0 .. xLength
    BY LengthIs
  <2> QED
    BY <2>1, PlaceIs
<1> DEFINE i == xLength + At(c + 1) - 1
<1>2. i \in Nat /\ i < xLength + xLength /\ (IF i < xLength THEN i ELSE i - xLength) = c
  BY <1>1, LengthIs DEF Cell
<1> HIDE DEF i
<1>3. At(i) = c
  BY <1>2, AtIs
<1> QED
  BY <1>3 DEF i

(* The length goes in, and its message is to follow.                       *)
LEMMA LengthWritten ==
    ASSUME Shape, isMessageBuffer, InBuffer, RingIntact, w # "data", w' = "data",
           send.length + 1 <= xStreamBufferSpacesAvailable,
           prvWriteBytesToBuffer(<<send.length>>),
           UNCHANGED <<isMessageBuffer, send, taking, read, written, messages>>
    PROVE  /\ RingIntact' /\ InBuffer'
           /\ (send.length <= xStreamBufferSpacesAvailable)'
           /\ (prvBytesInBuffer > 0)'
           /\ (pucBuffer[At(xLength + xHead - 1)] = send.length)'
<1>1. /\ xHead \in Cell /\ xTail \in Cell /\ send.length \in Nat /\ taking \in Nat
      /\ Len(messages) \in Nat
  BY LengthIs DEF Shape
<1>2. /\ prvBytesInBuffer \in 0 .. xLength - 1 /\ xLength \in Nat
      /\ xStreamBufferSpacesAvailable = xLength - 1 - prvBytesInBuffer
  BY <1>1, BytesIs, LengthIs
<1>3. /\ xHead' = At(xHead + 1) /\ xHead' \in Cell /\ UNCHANGED xTail
      /\ prvBytesInBuffer' = prvBytesInBuffer + 1
      /\ \A c \in Cell : Behind(c) < prvBytesInBuffer => pucBuffer'[c] = pucBuffer[c]
      /\ pucBuffer'[At(xHead + 0)] = send.length
  <2>1. Len(<<send.length>>) = 1 /\ 1 <= xStreamBufferSpacesAvailable
        /\ <<send.length>>[0 + 1] = send.length /\ 0 \in 0 .. 1 - 1
    BY <1>1, <1>2
  <2> QED
    BY <1>1, <2>1, WriteMoves
<1>4. At(xHead + 0) = xHead
  BY <1>1, PlaceIs, LengthIs DEF Cell
<1>5. /\ \A i \in 1 .. Len(messages) : Whole(i)'
      /\ \A i \in 0 .. Len(messages) : Ends(i)' = Ends(i) /\ NextNumber(i)' = NextNumber(i)
      /\ Stored(xTail, taking, read)'
  BY <1>3, MessagesStay
<1>6. PICK n \in Nat : n = Len(messages)
  BY <1>1
<1>7. Ends(n) = prvBytesInBuffer /\ NextNumber(n) = written
  <2>1. Ends(n) \in Nat
    BY <1>6, EndsType
  <2> QED
    BY <1>2, <1>6, <2>1 DEF RingIntact
<1>8. RingIntact'
  <2>1. Ends(n)' + 1 = prvBytesInBuffer' /\ NextNumber(n)' = written' /\ n = Len(messages')
    BY <1>3, <1>5, <1>6, <1>7
  <2>2. \A i \in DOMAIN messages' : Whole(i)'
    BY <1>5 DEF Shape
  <2> QED
    BY <1>5, <2>1, <2>2 DEF RingIntact
<1>9. InBuffer'
  <2>1. \A i \in 0 .. Len(messages) : Ends(i) \in Nat
    BY EndsType
  <2>2. \A i \in 0 .. Len(messages') : Ends(i)' <= prvBytesInBuffer'
    BY <1>2, <1>3, <1>5, <2>1 DEF InBuffer
  <2>3. \A i, j \in 0 .. Len(messages') : i <= j => Ends(i)' <= Ends(j)'
    BY <1>5 DEF InBuffer
  <2> QED
    BY <2>2, <2>3 DEF InBuffer
<1>10. (send.length <= xStreamBufferSpacesAvailable)'
  <2>1. xStreamBufferSpacesAvailable' = xLength - 1 - prvBytesInBuffer'
    BY DEF xStreamBufferSpacesAvailable
  <2> QED
    BY <1>1, <1>2, <1>3, <2>1
<1>11. pucBuffer'[At(xLength + xHead' - 1)] = send.length
  BY <1>1, <1>3, <1>4, BeforeNext
<1>12. (pucBuffer[At(xLength + xHead - 1)] = send.length)'
  BY <1>11 DEF At
<1> QED
  BY <1>2, <1>3, <1>8, <1>9, <1>10, <1>12

(* The message goes in behind its length.                                  *)
LEMMA DataWritten ==
    ASSUME Shape, isMessageBuffer, InBuffer, RingIntact, SpaceSeen, w = "data", w' # "data",
           prvWriteBytesToBuffer(NextBytes(send.length)), Written(send.length),
           messages' = Append(messages, [at     |-> At(xLength + xHead - 1),
                                         length |-> send.length,
                                         first  |-> written]),
           UNCHANGED <<isMessageBuffer, taking, read>>
    PROVE  RingIntact' /\ InBuffer' /\ messages' \in Seq(Message)
<1>1. /\ xHead \in Cell /\ xTail \in Cell /\ taking \in Nat
      /\ written \in 0 .. Numbers - 1 /\ written \in Nat
      /\ messages \in Seq(Message) /\ Len(messages) \in Nat
  BY LengthIs DEF Shape
<1>2. /\ send.length \in 1 .. MaxSend /\ send.length \in Nat
  BY LengthIs DEF Shape
<1>3. /\ prvBytesInBuffer \in 0 .. xLength - 1 /\ xLength \in Nat /\ prvBytesInBuffer > 0
      /\ xStreamBufferSpacesAvailable = xLength - 1 - prvBytesInBuffer
      /\ send.length <= xStreamBufferSpacesAvailable
  BY <1>1, BytesIs, LengthIs DEF SpaceSeen
<1>4. /\ UNCHANGED xTail
      /\ prvBytesInBuffer' = prvBytesInBuffer + send.length
      /\ \A c \in Cell : Behind(c) < prvBytesInBuffer => pucBuffer'[c] = pucBuffer[c]
      /\ \A j \in 0 .. send.length - 1 : pucBuffer'[At(xHead + j)] = NextBytes(send.length)[j + 1]
  BY <1>1, <1>2, <1>3, NextBytesAre, WriteMoves
<1>5. PICK at : at = At(xLength + xHead - 1)
  OBVIOUS
<1>6. /\ at \in Cell
      /\ At(at + 1) = xHead
      /\ Behind(at) = prvBytesInBuffer - 1
      /\ pucBuffer[at] = send.length
  <2> DEFINE i == xLength + xHead - 1
  <2>1. i \in Nat /\ i < xLength + xLength
    BY <1>1, <1>3, LengthIs DEF Cell
  <2>2. i < xLength <=> xHead = 0
    BY <1>1, <1>3, LengthIs DEF Cell
  <2> HIDE DEF i
  <2>3. at = (IF i < xLength THEN i ELSE i - xLength) /\ at \in Cell
    BY <1>5, <2>1, AtIs DEF i
  <2>4. at = IF xHead = 0 THEN xLength - 1 ELSE xHead - 1
    BY <1>1, <1>3, <2>2, <2>3 DEF i, Cell
  <2>5. 1 \in 0 .. xLength
    BY LengthIs
  <2>6. At(at + 1) = IF at + 1 < xLength THEN at + 1 ELSE at + 1 - xLength
    BY <2>3, <2>5, PlaceIs
  <2>7. At(at + 1) = xHead
    <3>1. CASE xHead = 0
      BY <1>3, <2>4, <2>6, <3>1
    <3>2. CASE xHead # 0
      BY <1>1, <1>3, <2>4, <2>6, <3>2 DEF Cell
    <3> QED
      BY <3>1, <3>2
  <2>8. Behind(at) = IF xTail <= at THEN at - xTail ELSE xLength + at - xTail
    BY <1>1, <2>3, BehindIs
  <2>9. prvBytesInBuffer = IF xTail <= xHead THEN xHead - xTail ELSE xLength + xHead - xTail
    BY <1>1, BytesIs
  <2>10. Behind(at) = prvBytesInBuffer - 1
    BY <1>1, <1>3, <2>4, <2>8, <2>9 DEF Cell
  <2> QED
    BY <1>5, <2>3, <2>7, <2>10 DEF SpaceSeen
<1>7. /\ \A i \in 1 .. Len(messages) : Whole(i)'
      /\ \A i \in 0 .. Len(messages) : Ends(i)' = Ends(i) /\ NextNumber(i)' = NextNumber(i)
      /\ Stored(xTail, taking, read)'
  <2>1. \A i \in 1 .. Len(messages) : messages'[i] = messages[i]
    BY <1>1
  <2> QED
    BY <1>4, <2>1, MessagesStay
<1>8. PICK n \in Nat : n = Len(messages)
  BY <1>1
<1>9. PICK m : m = [at |-> at, length |-> send.length, first |-> written]
  OBVIOUS
<1>10. /\ m \in Message
       /\ messages' = Append(messages, m) /\ messages' \in Seq(Message)
       /\ Len(messages') = n + 1 /\ messages'[n + 1] = m
  BY <1>1, <1>2, <1>5, <1>6, <1>8, <1>9 DEF Message
<1>11. Ends(n) + 1 = prvBytesInBuffer /\ NextNumber(n) = written
  BY <1>8 DEF RingIntact
<1>12. Whole(n + 1)'
  <2>1. At(xLength + m.at - xTail') = Behind(at)
    BY <1>4, <1>9 DEF Behind
  <2>2. Ends(n)' = prvBytesInBuffer - 1
    <3>1. Ends(n) \in Nat
      BY <1>8, EndsType
    <3> QED
      BY <1>3, <1>7, <1>8, <1>11, <3>1
  <2>3. (n + 1) - 1 = n
    OBVIOUS
  <2>4. pucBuffer'[m.at] = m.length
    <3>1. Behind(at) < prvBytesInBuffer
      BY <1>3, <1>6
    <3> QED
      BY <1>4, <1>6, <1>9, <3>1
  <2>5. \A k \in 0 .. m.length - 1 : pucBuffer'[At(At(m.at + 1) + k)] = (m.first + k) % Numbers
    BY <1>1, <1>2, <1>4, <1>6, <1>9, NextBytesAre
  <2>6. m.first = NextNumber(n)'
    BY <1>7, <1>8, <1>9, <1>11
  <2>7. /\ messages'[n + 1].first = NextNumber((n + 1) - 1)'
        /\ At(xLength + messages'[n + 1].at - xTail') = Ends((n + 1) - 1)'
        /\ pucBuffer'[messages'[n + 1].at] = messages'[n + 1].length
        /\ \A k \in 0 .. messages'[n + 1].length - 1 :
             pucBuffer'[At(At(messages'[n + 1].at + 1) + k)] = (messages'[n + 1].first + k) % Numbers
    BY <1>6, <1>10, <2>1, <2>2, <2>3, <2>4, <2>5, <2>6
  <2> QED
    BY <2>7 DEF Whole, Stored, At, Behind
<1>13. Ends(n + 1)' = prvBytesInBuffer'
  <2>1. Ends(n + 1)' = At(xLength + m.at - xTail') + 1 + m.length
    BY <1>10 DEF Ends, Behind, At
  <2>2. At(xLength + m.at - xTail') = prvBytesInBuffer - 1
    BY <1>4, <1>6, <1>9 DEF Behind
  <2> QED
    BY <1>2, <1>3, <1>4, <1>9, <2>1, <2>2
<1>14. NextNumber(n + 1)' = written'
  BY <1>9, <1>10 DEF NextNumber, Written
<1>15. RingIntact'
  <2>1. \A i \in DOMAIN messages' : Whole(i)'
    BY <1>7, <1>8, <1>10, <1>12
  <2>2. prvBytesInBuffer' \in Nat
    BY <1>2, <1>3, <1>4
  <2> QED
    BY <1>7, <1>10, <1>13, <1>14, <2>1, <2>2 DEF RingIntact
<1>16. InBuffer'
  <2>1. \A i \in 0 .. n : Ends(i) \in Nat
    BY <1>8, EndsType
  <2>2. ASSUME NEW i \in 0 .. n + 1 PROVE Ends(i)' <= prvBytesInBuffer'
    <3>1. CASE i = n + 1
      BY <1>2, <1>3, <1>4, <1>13, <3>1
    <3>2. CASE i # n + 1
      <4>1. i \in 0 .. n
        BY <3>2
      <4> QED
        BY <1>2, <1>3, <1>4, <1>7, <1>8, <2>1, <4>1 DEF InBuffer
    <3> QED
      BY <3>1, <3>2
  <2>3. ASSUME NEW i \in 0 .. n + 1, NEW j \in 0 .. n + 1, i <= j
        PROVE  Ends(i)' <= Ends(j)'
    <3>1. CASE j = n + 1
      BY <1>13, <2>2, <3>1
    <3>2. CASE j # n + 1
      <4>1. i \in 0 .. n /\ j \in 0 .. n
        BY <2>3, <3>2
      <4> QED
        BY <1>7, <1>8, <2>3, <4>1 DEF InBuffer
    <3> QED
      BY <3>1, <3>2
  <2> QED
    BY <1>10, <2>2, <2>3 DEF InBuffer
<1> QED
  BY <1>10, <1>15, <1>16

(* The tail moves over n bytes, at most to the end of message s: what lies *)
(* behind it only comes nearer.                                            *)
LEMMA TailMoves ==
    ASSUME Shape, isMessageBuffer, InBuffer, RingIntact,
           NEW n \in Nat, n <= prvBytesInBuffer, prvReadBytesFromBuffer(n),
           NEW s \in {0, 1}, s <= Len(messages), n <= Ends(s),
           messages' \in Seq(Message), Len(messages') = Len(messages) - s,
           \A i \in 1 .. Len(messages') : messages'[i] = messages[i + s],
           taking' = Ends(s) - n, NextNumber(0)' = NextNumber(s),
           Stored(xTail, taking, read)',
           UNCHANGED <<isMessageBuffer, w, written>>
    PROVE  RingIntact' /\ InBuffer'
<1>1. /\ xHead \in Cell /\ xTail \in Cell /\ Len(messages) \in Nat /\ Len(messages') \in Nat
  BY DEF Shape
<1>2. /\ prvBytesInBuffer \in 0 .. xLength - 1 /\ xLength \in Nat
  BY <1>1, BytesIs, LengthIs
<1>3. /\ UNCHANGED pucBuffer
      /\ prvBytesInBuffer' = prvBytesInBuffer - n
      /\ \A c \in Cell : Behind(c) >= n => At(xLength + c - xTail') = Behind(c) - n
  BY <1>1, ReadMoves DEF Behind, At
<1>4. PICK l \in Nat : l = Len(messages')
  BY <1>1
<1>5. \A i \in 0 .. l : i + s \in 0 .. Len(messages) /\ Ends(i + s) \in Nat
  BY <1>1, <1>4, EndsType
<1>6. ASSUME NEW i \in 1 .. l
      PROVE  /\ messages'[i] = messages[i + s]
             /\ i + s \in 1 .. Len(messages) /\ (i + s) - 1 = (i - 1) + s
             /\ Behind(messages[i + s].at) = Ends((i - 1) + s)
             /\ messages[i + s].first = NextNumber((i - 1) + s)
             /\ At(xLength + messages[i + s].at - xTail') = Ends((i - 1) + s) - n
  <2>1. messages'[i] = messages[i + s]
    BY <1>4
  <2>2. i + s \in 1 .. Len(messages) /\ (i + s) - 1 = (i - 1) + s
    BY <1>1, <1>4
  <2>3. Whole(i + s)
    BY <2>2 DEF RingIntact, Shape
  <2>4. Behind(messages[i + s].at) = Ends((i - 1) + s) /\ messages[i + s].first = NextNumber((i - 1) + s)
    BY <2>2, <2>3 DEF Whole
  <2>5. s \in 0 .. Len(messages) /\ (i - 1) + s \in 0 .. Len(messages) /\ s <= (i - 1) + s
    BY <1>1, <2>2
  <2>6. Ends(s) <= Ends((i - 1) + s) /\ Ends(s) \in Nat /\ Ends((i - 1) + s) \in Nat
    BY <2>5, EndsType DEF InBuffer
  <2>7. Behind(messages[i + s].at) >= n
    BY <2>4, <2>6
  <2>8. messages[i + s].at \in Cell
    BY <2>2, MessageIs
  <2> QED
    BY <1>3, <2>1, <2>2, <2>4, <2>7, <2>8
<1>7. ASSUME NEW i \in 0 .. l
      PROVE  Ends(i)' = Ends(i + s) - n /\ NextNumber(i)' = NextNumber(i + s)
  <2>1. CASE i = 0
    BY <2>1 DEF Ends
  <2>2. CASE i # 0
    <3>1. i \in 1 .. l /\ i + s # 0
      BY <2>2
    <3>2. /\ messages'[i] = messages[i + s]
          /\ Behind(messages[i + s].at) = Ends((i - 1) + s)
          /\ At(xLength + messages[i + s].at - xTail') = Ends((i - 1) + s) - n
          /\ messages[i + s].length \in 1 .. MaxSend
      BY <1>6, <3>1, MessageIs
    <3>3. NextNumber(i)' = NextNumber(i + s)
      BY <2>2, <3>1, <3>2 DEF NextNumber
    <3>4. Ends(i)' = At(xLength + messages[i + s].at - xTail') + 1 + messages[i + s].length
      BY <2>2, <3>2 DEF Ends, Behind, At
    <3>5. Ends(i + s) = Behind(messages[i + s].at) + 1 + messages[i + s].length
      BY <3>1 DEF Ends
    <3>6. Ends((i - 1) + s) \in Nat /\ messages[i + s].length \in Nat
      <4>1. i \in Nat /\ l \in Nat /\ 1 <= i /\ i <= l
        BY <1>4, <3>1
      <4>2. i - 1 \in 0 .. l
        BY <4>1
      <4>3. Ends((i - 1) + s) \in Nat
        BY <1>5, <4>2
      <4> QED
        BY <3>2, <4>3, LengthIs
    <3>7. PICK e : e = Ends((i - 1) + s)
      OBVIOUS
    <3>8. PICK h : h = messages[i + s].length
      OBVIOUS
    <3>9. Ends(i)' = e - n + 1 + h /\ Ends(i + s) = e + 1 + h /\ e \in Nat /\ h \in Nat
      BY <3>2, <3>4, <3>5, <3>6, <3>7, <3>8
    <3> QED
      BY <3>3, <3>9
  <2> QED
    BY <2>1, <2>2
<1>8. ASSUME NEW i \in 1 .. l PROVE Whole(i)'
  <2>1. PICK m : m = messages[i + s]
    OBVIOUS
  <2>2. /\ messages'[i] = m /\ i + s \in 1 .. Len(messages) /\ i - 1 \in 0 .. l
        /\ At(xLength + m.at - xTail') = Ends(i - 1)'
        /\ m.first = NextNumber(i - 1)'
    <3>1. i \in Nat /\ l \in Nat /\ 1 <= i /\ i <= l
      BY <1>4, <1>8
    <3>2. i - 1 \in 0 .. l
      BY <3>1
    <3>3. Ends(i - 1)' = Ends((i - 1) + s) - n /\ NextNumber(i - 1)' = NextNumber((i - 1) + s)
      BY <1>7, <3>2
    <3>4. /\ messages'[i] = messages[i + s] /\ i + s \in 1 .. Len(messages)
          /\ messages[i + s].first = NextNumber((i - 1) + s)
          /\ At(xLength + messages[i + s].at - xTail') = Ends((i - 1) + s) - n
      BY <1>6, <1>8
    <3> QED
      BY <2>1, <3>2, <3>3, <3>4
  <2>3. Whole(i + s)
    <3>1. i + s \in 1 .. Len(messages)
      BY <2>2
    <3>2. \A x \in DOMAIN messages : Whole(x)
      BY DEF RingIntact
    <3>3. DOMAIN messages = 1 .. Len(messages)
      BY DEF Shape
    <3> QED
      BY <3>1, <3>2, <3>3, Zenon
  <2>4. pucBuffer[m.at] = m.length /\ Stored(At(m.at + 1), m.length, m.first)
    BY <2>1, <2>3 DEF Whole
  <2>5. /\ messages'[i].first = NextNumber(i - 1)'
        /\ At(xLength + messages'[i].at - xTail') = Ends(i - 1)'
        /\ pucBuffer'[messages'[i].at] = messages'[i].length
        /\ \A k \in 0 .. messages'[i].length - 1 :
             pucBuffer'[At(At(messages'[i].at + 1) + k)] = (messages'[i].first + k) % Numbers
    BY <1>3, <2>2, <2>4 DEF Stored
  <2>6. Behind(messages[i].at)' = Ends(i - 1)'
    BY <2>5, Zenon DEF Behind, At
  <2>7. Stored(At(messages[i].at + 1), messages[i].length, messages[i].first)'
    BY <2>5, Zenon DEF Stored, At
  <2> QED
    BY <2>5, <2>6, <2>7, Zenon DEF Whole
<1>9. RingIntact'
  <2>1. PICK d \in {0, 1} : d = IF w = "data" THEN 1 ELSE 0
    OBVIOUS
  <2>2. Ends(l + s) + d = prvBytesInBuffer /\ NextNumber(l + s) = written /\ Ends(l + s) \in Nat
    BY <1>1, <1>4, <1>5, <2>1 DEF RingIntact
  <2>3. Ends(l)' + d = prvBytesInBuffer' /\ NextNumber(l)' = written'
    <3>1. l \in 0 .. l
      BY <1>1, <1>4
    <3>2. Ends(l)' = Ends(l + s) - n /\ NextNumber(l)' = NextNumber(l + s)
      BY <1>7, <3>1
    <3> QED
      BY <1>2, <1>3, <2>2, <3>2
  <2>4. \A i \in DOMAIN messages' : Whole(i)'
    BY <1>4, <1>8
  <2> QED
    BY <1>4, <2>1, <2>3, <2>4 DEF RingIntact
<1>10. InBuffer'
  <2>1. \A i \in 0 .. l : Ends(i)' <= prvBytesInBuffer'
    BY <1>2, <1>3, <1>5, <1>7 DEF InBuffer
  <2>2. ASSUME NEW i \in 0 .. l, NEW j \in 0 .. l, i <= j
        PROVE  Ends(i)' <= Ends(j)'
    <3>1. i + s <= j + s /\ Ends(i + s) <= Ends(j + s)
      BY <1>5, <2>2 DEF InBuffer
    <3> QED
      BY <1>5, <1>7, <3>1
  <2> QED
    BY <1>4, <2>1, <2>2 DEF InBuffer
<1> QED
  BY <1>9, <1>10

LEMMA DataRead ==
    ASSUME Shape, isMessageBuffer, InBuffer, RingIntact,
           prvReadBytesFromBuffer(taking), HasRead(taking), taking' = 0,
           UNCHANGED <<isMessageBuffer, w, written, messages>>
    PROVE  RingIntact' /\ InBuffer'
<1>1. /\ taking \in Nat /\ read \in Nat /\ messages \in Seq(Message) /\ Len(messages) \in Nat
      /\ Ends(0) = taking
  BY LengthIs DEF Shape, Ends
<1>2. taking <= prvBytesInBuffer
  BY <1>1 DEF InBuffer
<1>3. NextNumber(0)' = NextNumber(0)
  <2> DEFINE a == read + taking
  <2>1. a \in Nat
    BY <1>1
  <2> HIDE DEF a
  <2>2. ((a % Numbers) + 0) % Numbers = (a + 0) % Numbers /\ a + 0 = a
    BY <2>1, Numbering
  <2>3. read' = a % Numbers /\ NextNumber(0) = a % Numbers
    BY DEF HasRead, NextNumber, a
  <2> QED
    BY <2>2, <2>3 DEF NextNumber
<1>4. Stored(xTail, taking, read)'
  BY DEF Stored
<1> QED
  BY <1>1, <1>2, <1>3, <1>4, TailMoves

(* With no message half read, the next one begins at the tail.             *)
LEMMA FirstAtTail ==
    ASSUME Shape, isMessageBuffer, InBuffer, RingIntact, r # "data", messages # <<>>,
           NEW m, m = messages[1]
    PROVE  /\ m.at \in Cell /\ m.length \in 1 .. MaxSend /\ m.length \in Nat /\ m.first \in Nat
           /\ Behind(m.at) = 0 /\ m.first = read % Numbers
           /\ pucBuffer[m.at] = m.length /\ Stored(At(m.at + 1), m.length, m.first)
           /\ m.at = xTail
<1>1. /\ taking = 0 /\ read \in Nat /\ messages \in Seq(Message) /\ Len(messages) \in Nat
      /\ xHead \in Cell /\ xTail \in Cell
  BY LengthIs DEF Shape
<1>2. 1 \in 1 .. Len(messages)
  BY <1>1
<1>3. m = messages[1]
  OBVIOUS
<1>4. /\ m.at \in Cell /\ m.length \in 1 .. MaxSend /\ m.length \in Nat /\ m.first \in Nat
  BY <1>2, <1>3, MessageIs, LengthIs
<1>5. /\ Behind(m.at) = 0 /\ m.first = read % Numbers
      /\ pucBuffer[m.at] = m.length /\ Stored(At(m.at + 1), m.length, m.first)
  <2>1. Whole(1)
    BY <1>2 DEF RingIntact, Shape
  <2>2. 1 - 1 = 0 /\ Ends(0) = 0 /\ NextNumber(0) = read % Numbers
    BY <1>1 DEF Ends, NextNumber
  <2> QED
    BY <1>3, <2>1, <2>2 DEF Whole
<1>6. m.at = xTail
  <2>1. At(xTail + Behind(m.at)) = m.at
    BY <1>1, <1>4, PlaceAtDistance DEF Behind
  <2>2. At(xTail + 0) = xTail
    <3>1. 0 \in 0 .. xLength
      BY LengthIs
    <3>2. At(xTail + 0) = IF xTail + 0 < xLength THEN xTail + 0 ELSE xTail + 0 - xLength
      BY <1>1, <3>1, PlaceIs
    <3> QED
      BY <1>1, <3>2, LengthIs DEF Cell
  <2> QED
    BY <1>5, <2>1, <2>2
<1> QED
  BY <1>4, <1>5, <1>6

LEMMA LengthRead ==
    ASSUME Shape, isMessageBuffer, InBuffer, RingIntact, BytesSeen, r = "read",
           xBytesAvailable > 1,
           taking' = Least(pucBuffer[xTail], xBytesAvailable - 1),
           prvReadBytesFromBuffer(1), messages' = Tail(messages),
           UNCHANGED <<isMessageBuffer, w, written, read>>
    PROVE  RingIntact' /\ InBuffer' /\ messages' \in Seq(Message) /\ taking' \in 0 .. MaxSend
<1>1. /\ taking = 0 /\ read \in Nat /\ messages \in Seq(Message) /\ Len(messages) \in Nat
      /\ xHead \in Cell /\ xTail \in Cell /\ xBytesAvailable \in 0 .. xLength - 1
  BY LengthIs DEF Shape
<1>2. messages # <<>> /\ 1 \in 1 .. Len(messages) /\ messages[1].length < xBytesAvailable
  BY <1>1 DEF BytesSeen
<1>3. PICK m : m = messages[1]
  OBVIOUS
<1>4. /\ m.at \in Cell /\ m.length \in 1 .. MaxSend /\ m.length \in Nat /\ m.first \in Nat
      /\ Behind(m.at) = 0 /\ m.first = read % Numbers
      /\ pucBuffer[m.at] = m.length /\ Stored(At(m.at + 1), m.length, m.first)
      /\ m.at = xTail
  BY <1>2, <1>3, FirstAtTail
<1>5. /\ Behind(m.at) = 0 /\ m.first = read % Numbers
      /\ pucBuffer[m.at] = m.length /\ Stored(At(m.at + 1), m.length, m.first)
  BY <1>4
<1>6. m.at = xTail
  BY <1>4
<1>7. taking' = m.length
  BY <1>1, <1>2, <1>3, <1>4, <1>5, <1>6, LengthIs DEF Least
<1>8. Ends(1) = 1 + m.length /\ Ends(1) <= prvBytesInBuffer
  BY <1>2, <1>3, <1>4, <1>5 DEF Ends, InBuffer
<1>9. /\ messages' \in Seq(Message) /\ Len(messages') = Len(messages) - 1
      /\ \A i \in 1 .. Len(messages') : messages'[i] = messages[i + 1]
  BY <1>1, <1>2
<1>10. NextNumber(0)' = NextNumber(1)
  <2>1. ((read % Numbers) + m.length) % Numbers = (read + m.length) % Numbers
    BY <1>1, <1>4, Numbering
  <2>2. NextNumber(1) = (m.first + m.length) % Numbers
    BY <1>3 DEF NextNumber
  <2>3. NextNumber(0)' = (read + m.length) % Numbers
    BY <1>7 DEF NextNumber
  <2> QED
    BY <1>5, <2>1, <2>2, <2>3
<1>11. Stored(xTail, taking, read)'
  <2>1. xTail' = At(xTail + 1) /\ UNCHANGED pucBuffer
    BY DEF prvReadBytesFromBuffer
  <2>2. ASSUME NEW k \in 0 .. m.length - 1
        PROVE  pucBuffer'[At(xTail' + k)] = (read + k) % Numbers
    <3>1. pucBuffer[At(At(m.at + 1) + k)] = ((read % Numbers) + k) % Numbers
      BY <1>5 DEF Stored
    <3>2. ((read % Numbers) + k) % Numbers = (read + k) % Numbers
      BY <1>1, Numbering
    <3> QED
      BY <1>6, <2>1, <3>1, <3>2
  <2> QED
    BY <1>7, <2>2 DEF Stored, At
<1>12. prvBytesInBuffer \in Nat
  BY <1>1, BytesIs, LengthIs
<1>13. RingIntact' /\ InBuffer'
  <2>1. taking' = Ends(1) - 1 /\ 1 <= prvBytesInBuffer /\ 1 <= Ends(1) /\ 1 <= Len(messages)
    BY <1>2, <1>4, <1>7, <1>8, <1>12
  <2> QED
    BY <1>9, <1>10, <1>11, <2>1, TailMoves
<1> QED
  BY <1>4, <1>7, <1>9, <1>13, LengthIs

-----------------------------------------------------------------------------
(* Steps that move neither end of the ring *)

LEMMA Still ==
    ASSUME UNCHANGED <<isMessageBuffer, ring, history, taking>>, w' = "data" <=> w = "data"
    PROVE  /\ prvBytesInBuffer' = prvBytesInBuffer
           /\ xStreamBufferSpacesAvailable' = xStreamBufferSpacesAvailable
           /\ RingIntact => RingIntact'
           /\ InBuffer => InBuffer'
<1>1. Ends(Len(messages))' = Ends(Len(messages)) /\ NextNumber(Len(messages))' = NextNumber(Len(messages))
  BY DEF ring, history, Ends, NextNumber, Behind, At
<1>2. \A i : Whole(i) => Whole(i)'
  BY DEF ring, history, Ends, NextNumber, Whole, Behind, Stored, At
<1>3. /\ prvBytesInBuffer' = prvBytesInBuffer
      /\ xStreamBufferSpacesAvailable' = xStreamBufferSpacesAvailable
  BY DEF ring, prvBytesInBuffer, xStreamBufferSpacesAvailable, At
<1>4. ASSUME RingIntact PROVE RingIntact'
  <2>1. CASE isMessageBuffer
    <3>1. \A i \in DOMAIN messages' : Whole(i)'
      BY <1>2, <1>4, <2>1 DEF RingIntact, history
    <3>2. Stored(xTail, taking, read)'
      BY <1>4, <2>1 DEF RingIntact, Stored, At, ring, history
    <3>3. /\ Ends(Len(messages))' + (IF w' = "data" THEN 1 ELSE 0) = prvBytesInBuffer'
          /\ NextNumber(Len(messages))' = written'
      BY <1>1, <1>3, <1>4, <2>1 DEF RingIntact, history
    <3> QED
      BY <2>1, <3>1, <3>2, <3>3 DEF RingIntact
  <2>2. CASE ~isMessageBuffer
    <3>1. Stored(xTail, prvBytesInBuffer, read)'
      BY <1>3, <1>4, <2>2 DEF RingIntact, Stored, At, ring, history
    <3> QED
      BY <1>3, <1>4, <2>2, <3>1 DEF RingIntact, history
  <2> QED
    BY <2>1, <2>2
<1>5. ASSUME InBuffer PROVE InBuffer'
  <2>1. \A i : Ends(i)' = Ends(i)
    BY DEF ring, history, Ends, Behind, At
  <2> QED
    BY <1>3, <1>5, <2>1 DEF InBuffer, history
<1> QED
  BY <1>3, <1>4, <1>5

(* A reader between two messages that sees more than a length sees a       *)
(* whole message; one that sees a length alone sees it written.            *)
LEMMA MessageSeen ==
    ASSUME Shape, isMessageBuffer, InBuffer, RingIntact, r # "data"
    PROVE  /\ prvBytesInBuffer > 1 =>
                 messages # <<>> /\ messages[1].length < prvBytesInBuffer
           /\ prvBytesInBuffer = 1 => w = "data"
<1>1. Len(messages) \in Nat /\ messages \in Seq(Message) /\ Ends(0) = 0 /\ taking = 0
  BY DEF Shape, Ends
<1>2. xHead \in Cell /\ xTail \in Cell /\ prvBytesInBuffer \in Nat
  BY BytesIs, LengthIs DEF Shape
<1>3. ASSUME messages # <<>>
      PROVE  /\ messages[1].length < prvBytesInBuffer
             /\ Ends(1) \in Nat /\ Ends(1) > 1
             /\ Ends(1) <= Ends(Len(messages)) /\ Ends(Len(messages)) \in Nat
  <2>1. 1 \in 1 .. Len(messages) /\ 1 \in 0 .. Len(messages)
        /\ Len(messages) \in 0 .. Len(messages) /\ 1 <= Len(messages)
    BY <1>1, <1>3
  <2>2. /\ Behind(messages[1].at) \in Nat /\ messages[1].length \in Nat
        /\ messages[1].length >= 1
        /\ Behind(messages[1].at) + 1 + messages[1].length <= prvBytesInBuffer
    BY <2>1, WhereMessageLies, MessageIs, LengthIs
  <2>3. Ends(1) = Behind(messages[1].at) + 1 + messages[1].length
    BY DEF Ends
  <2>4. Ends(1) <= Ends(Len(messages)) /\ Ends(Len(messages)) \in Nat
    BY <2>1, EndsType DEF InBuffer
  <2> QED
    BY <1>2, <2>2, <2>3, <2>4
<1>4. CASE messages = <<>>
  <2>1. Len(messages) = 0
    BY <1>4
  <2>2. 0 + (IF w = "data" THEN 1 ELSE 0) = prvBytesInBuffer
    BY <1>1, <2>1 DEF RingIntact
  <2> QED
    BY <1>2, <2>2
<1>5. CASE messages # <<>>
  <2>1. Ends(Len(messages)) + (IF w = "data" THEN 1 ELSE 0) = prvBytesInBuffer
    BY DEF RingIntact
  <2> QED
    BY <1>2, <1>3, <1>5, <2>1
<1> QED
  BY <1>4, <1>5

-----------------------------------------------------------------------------
(* The writer's steps *)

(* Those that leave the ring alone.                                        *)
QuietWriter ==
    SendCall \/ SendCheck \/ SendWait \/ SendWakes \/ SendWoken \/ SendUnregister
    \/ SendSpace \/ WriteNothing \/ SendTrigger \/ SendCompleted

LEMMA QuietWriterRing ==
    ASSUME RingInv, QuietWriter, UNCHANGED <<buffer, readerVars>>
    PROVE  RingInv'
<1> USE DEF RingInv
<1>1. UNCHANGED <<isMessageBuffer, xTriggerLevelBytes, ring, history, taking, r, ticks, xBytesAvailable>>
  BY DEF QuietWriter, SendCall, SendCheck, SendWait, SendWakes, SendWoken, SendUnregister,
         SendSpace, WriteNothing, SendTrigger, SendCompleted, buffer, readerVars
<1>2. w # "data" /\ w' # "data"
  BY DEF QuietWriter, SendCall, SendCheck, SendWait, SendWakes, SendWoken, SendUnregister,
         SendSpace, WriteNothing, SendTrigger, SendCompleted, WriterGoto, SendReturn
<1>3. /\ prvBytesInBuffer' = prvBytesInBuffer
      /\ xStreamBufferSpacesAvailable' = xStreamBufferSpacesAvailable
      /\ RingIntact' /\ InBuffer'
  BY <1>1, <1>2, Still
<1>4. /\ xStreamBufferSpacesAvailable \in 0 .. xLength - 1 /\ xLength \in Nat
      /\ xSpace \in 0 .. xLength - 1
  BY BytesIs, LengthIs DEF Shape
<1>5. /\ w' \in WriterAt
      /\ send' \in [length : 0 .. MaxSend, ticks : Ticks]
      /\ w' # "idle" => send'.length # 0
      /\ xSpace' \in 0 .. xLength - 1
      /\ w' \notin {"data", "trigger", "complete"} => xSpace' <= xStreamBufferSpacesAvailable
  <2>1. CASE SendCall
    <3>1. PICK n \in 1 .. MaxSend, t \in Ticks :
              send' = [length |-> n, ticks |-> t] /\ w' = IF t = "none" THEN "space" ELSE "check"
      BY <2>1 DEF SendCall, Ticks
    <3> QED
      BY <2>1, <3>1, <1>4, LengthIs DEF SendCall, SpaceSeen, WriterAt
  <2>2. CASE SendCheck
    BY <2>2, <1>4, LengthIs DEF SendCheck, Shape, SpaceSeen, WriterAt
  <2>3. CASE SendSpace
    BY <2>3, <1>4, LengthIs DEF SendSpace, Shape, SpaceSeen, WriterAt
  <2>4. CASE SendWait \/ SendWakes \/ SendWoken \/ SendUnregister
    BY <2>4, <1>4 DEF SendWait, SendWakes, SendWoken, SendUnregister, WriterGoto,
                      Shape, SpaceSeen, WriterAt
  <2>5. CASE WriteNothing \/ SendCompleted
    BY <2>5, <1>4, LengthIs DEF WriteNothing, SendCompleted, SendReturn, NoCall, Ticks, WriterAt
  <2>6. CASE SendTrigger
    BY <2>6, <1>4, LengthIs DEF SendTrigger, WriterGoto, SendReturn, NoCall, Ticks, WriterAt, Shape
  <2> QED
    BY <2>1, <2>2, <2>3, <2>4, <2>5, <2>6 DEF QuietWriter
<1>6. ucNotifyState' \in [{"writer", "reader"} -> {"none", "waiting", "received"}]
  BY DEF QuietWriter, SendCall, SendCheck, SendWait, SendWakes, SendWoken, SendUnregister,
         SendSpace, WriteNothing, SendTrigger, SendCompleted, waitVars,
         xTaskNotifyStateClear, NotifyWait, NotifyWaitEnds, Notify, Notified, Shape
<1>7. Shape'
  BY <1>1, <1>2, <1>5, <1>6 DEF Shape, ring, history, TriggerLevels, LengthBytes
<1>8. SpaceSeen'
  BY <1>2, <1>3, <1>5 DEF SpaceSeen
<1>9. BytesSeen'
  BY <1>1, <1>3 DEF BytesSeen, history
<1> QED
  BY <1>3, <1>7, <1>8, <1>9

LEMMA WriteBytesRing ==
    ASSUME RingInv, WriteBytes, UNCHANGED <<buffer, readerVars>>
    PROVE  RingInv'
<1> USE DEF RingInv
<1>1. PICK n : n = Least(send.length, xSpace)
  OBVIOUS
<1>2. /\ send.length \in 1 .. MaxSend /\ xSpace \in 0 .. xLength - 1 /\ xSpace > 0
      /\ MaxSend \in Nat /\ xLength \in Nat /\ Numbers \in Nat \ {0}
      /\ written \in Nat /\ xHead \in Cell /\ xTail \in Cell
  BY LengthIs DEF WriteBytes, Shape
<1>3. n \in Nat /\ n <= xSpace
  BY <1>1, <1>2 DEF Least
<1>4. /\ prvBytesInBuffer \in 0 .. xLength - 1
      /\ xStreamBufferSpacesAvailable = xLength - 1 - prvBytesInBuffer
      /\ n <= xStreamBufferSpacesAvailable
  <2>1. xSpace <= xStreamBufferSpacesAvailable
    BY DEF SpaceSeen, WriteBytes
  <2> QED
    BY <1>2, <1>3, <2>1, BytesIs
<1>5. prvWriteBytesToBuffer(NextBytes(n)) /\ Written(n)
  BY <1>1 DEF WriteBytes
<1>6. /\ UNCHANGED <<isMessageBuffer, xTriggerLevelBytes, send, xSpace, waitVars, read, messages,
                     r, ticks, xBytesAvailable, taking>>
      /\ w' = "trigger" /\ ~isMessageBuffer /\ w # "idle"
  BY DEF WriteBytes, WriterGoto, buffer, readerVars
<1>7. /\ xHead' \in Cell /\ UNCHANGED xTail
      /\ prvBytesInBuffer' = prvBytesInBuffer + n
  BY <1>2, <1>3, <1>4, <1>5, NextBytesAre, WriteMoves
<1>8. RingIntact' /\ InBuffer'
  BY <1>3, <1>4, <1>5, <1>6, StreamWritten DEF InBuffer
<1>9. pucBuffer' \in [Cell -> 0 .. Numbers + MaxSend]
  <2>1. \A j \in 0 .. n - 1 : NextBytes(n)[j + 1] \in 0 .. Numbers + MaxSend
    BY <1>2, <1>3, NextBytesAre
  <2>2. Len(NextBytes(n)) = n
    BY <1>2, <1>3, NextBytesAre
  <2> QED
    BY <1>2, <1>3, <1>5, <2>1, <2>2, WriteType DEF Shape
<1>10. written' \in 0 .. Numbers - 1
  <2>1. written + n \in Nat
    BY <1>2, <1>3
  <2> QED
    BY <1>5, <2>1, Numbering DEF Written
<1>11. Shape'
  BY <1>6, <1>7, <1>9, <1>10 DEF Shape, WriterAt, waitVars, TriggerLevels, LengthBytes
<1>12. SpaceSeen' /\ BytesSeen'
  BY <1>2, <1>3, <1>4, <1>6, <1>7 DEF SpaceSeen, BytesSeen, Shape
<1> QED
  BY <1>8, <1>11, <1>12

LEMMA WriteLengthRing ==
    ASSUME RingInv, WriteLength, UNCHANGED <<buffer, readerVars>>
    PROVE  RingInv'
<1> USE DEF RingInv
<1>1. /\ send.length \in 1 .. MaxSend /\ xSpace \in 0 .. xLength - 1
      /\ MaxSend \in Nat /\ xLength \in Nat /\ Numbers \in Nat \ {0}
      /\ xHead \in Cell /\ xTail \in Cell
  BY LengthIs DEF WriteLength, Shape
<1>2. /\ prvBytesInBuffer \in 0 .. xLength - 1
      /\ xStreamBufferSpacesAvailable = xLength - 1 - prvBytesInBuffer
      /\ send.length + 1 <= xStreamBufferSpacesAvailable
  <2>1. xSpace <= xStreamBufferSpacesAvailable /\ xSpace >= send.length + 1
    BY DEF SpaceSeen, WriteLength, xRequiredSpace, LengthBytes
  <2> QED
    BY <1>1, <2>1, BytesIs
<1>3. /\ UNCHANGED <<isMessageBuffer, xTriggerLevelBytes, send, xSpace, waitVars,
                     written, read, messages, r, ticks, xBytesAvailable, taking>>
      /\ w' = "data" /\ isMessageBuffer /\ w = "write"
      /\ prvWriteBytesToBuffer(<<send.length>>)
  BY DEF WriteLength, WriterGoto, buffer, readerVars, history
<1>4. /\ Len(<<send.length>>) = 1
      /\ \A j \in 0 .. 1 - 1 : <<send.length>>[j + 1] \in 0 .. Numbers + MaxSend
  BY <1>1
<1>5. /\ xHead' \in Cell /\ UNCHANGED xTail
      /\ prvBytesInBuffer' = prvBytesInBuffer + 1
      /\ pucBuffer' \in [Cell -> 0 .. Numbers + MaxSend]
  <2>1. 1 <= xStreamBufferSpacesAvailable
    BY <1>1, <1>2
  <2> QED
    BY <1>1, <1>3, <1>4, <2>1, WriteMoves, WriteType DEF Shape
<1>6. /\ RingIntact' /\ InBuffer'
      /\ (send.length <= xStreamBufferSpacesAvailable)'
      /\ (prvBytesInBuffer > 0)'
      /\ (pucBuffer[At(xLength + xHead - 1)] = send.length)'
  BY <1>2, <1>3, LengthWritten
<1>7. Shape'
  BY <1>3, <1>5 DEF Shape, WriterAt, waitVars, TriggerLevels, LengthBytes
<1>8. SpaceSeen' /\ BytesSeen'
  BY <1>1, <1>2, <1>3, <1>5, <1>6 DEF SpaceSeen, BytesSeen, Shape
<1> QED
  BY <1>6, <1>7, <1>8

LEMMA WriteDataRing ==
    ASSUME RingInv, WriteData, UNCHANGED <<buffer, readerVars>>
    PROVE  RingInv'
<1> USE DEF RingInv
<1>1. /\ send.length \in 1 .. MaxSend /\ send.length \in Nat
      /\ MaxSend \in Nat /\ xLength \in Nat /\ Numbers \in Nat \ {0}
      /\ xHead \in Cell /\ xTail \in Cell /\ written \in Nat
      /\ messages \in Seq(Message) /\ isMessageBuffer
  BY LengthIs DEF WriteData, Shape
<1>2. /\ prvBytesInBuffer \in 0 .. xLength - 1
      /\ send.length <= xStreamBufferSpacesAvailable
  BY <1>1, BytesIs DEF SpaceSeen, WriteData
<1>3. /\ UNCHANGED <<isMessageBuffer, xTriggerLevelBytes, send, xSpace, waitVars,
                     read, r, ticks, xBytesAvailable, taking>>
      /\ w' = "trigger" /\ w = "data"
      /\ prvWriteBytesToBuffer(NextBytes(send.length)) /\ Written(send.length)
      /\ messages' = Append(messages, [at     |-> At(xLength + xHead - 1),
                                       length |-> send.length,
                                       first  |-> written])
  BY DEF WriteData, WriterGoto, buffer, readerVars
<1>4. RingIntact' /\ InBuffer' /\ messages' \in Seq(Message)
  BY <1>1, <1>3, DataWritten
<1>5. /\ Len(NextBytes(send.length)) = send.length
      /\ \A j \in 0 .. send.length - 1 :
             NextBytes(send.length)[j + 1] \in 0 .. Numbers + MaxSend
  BY <1>1, NextBytesAre
<1>6. /\ xHead' \in Cell /\ UNCHANGED xTail
      /\ prvBytesInBuffer' = prvBytesInBuffer + send.length
      /\ pucBuffer' \in [Cell -> 0 .. Numbers + MaxSend]
  BY <1>1, <1>2, <1>3, <1>5, WriteMoves, WriteType DEF Shape
<1>7. written' \in 0 .. Numbers - 1
  <2>1. written + send.length \in Nat
    BY <1>1
  <2> QED
    BY <1>3, <2>1, Numbering DEF Written
<1>8. Shape'
  BY <1>3, <1>4, <1>6, <1>7 DEF Shape, WriterAt, waitVars, TriggerLevels, LengthBytes
<1>9. messages # <<>> => messages' # <<>> /\ messages'[1] = messages[1]
  BY <1>1, <1>3
<1>10. SpaceSeen' /\ BytesSeen'
  BY <1>1, <1>2, <1>3, <1>6, <1>9 DEF SpaceSeen, BytesSeen, Shape
<1> QED
  BY <1>4, <1>8, <1>10

-----------------------------------------------------------------------------
(* The reader's steps *)

QuietReader ==
    ReceiveCall \/ ReceiveCheck \/ ReceiveWait \/ ReceiveWakes \/ ReceiveWoken
    \/ ReceiveUnregister \/ ReceiveMeasure \/ ReadNothing \/ ReceiveCompleted

LEMMA QuietReaderRing ==
    ASSUME RingInv, QuietReader, UNCHANGED <<buffer, writerVars>>
    PROVE  RingInv'
<1> USE DEF RingInv
<1>1. UNCHANGED <<isMessageBuffer, xTriggerLevelBytes, ring, history, taking, w, send, xSpace>>
  BY DEF QuietReader, ReceiveCall, ReceiveCheck, ReceiveWait, ReceiveWakes, ReceiveWoken,
         ReceiveUnregister, ReceiveMeasure, ReadNothing, ReceiveCompleted, ReaderGoto,
         ReceiveReturn, buffer, writerVars
<1>2. r # "data" /\ r' # "data"
  BY DEF QuietReader, ReceiveCall, ReceiveCheck, ReceiveWait, ReceiveWakes, ReceiveWoken,
         ReceiveUnregister, ReceiveMeasure, ReadNothing, ReceiveCompleted, ReaderGoto,
         ReceiveReturn
<1>3. /\ prvBytesInBuffer' = prvBytesInBuffer
      /\ xStreamBufferSpacesAvailable' = xStreamBufferSpacesAvailable
      /\ RingIntact' /\ InBuffer'
  BY <1>1, Still
<1>4. /\ prvBytesInBuffer \in 0 .. xLength - 1 /\ xLength \in Nat
      /\ xBytesAvailable \in 0 .. xLength - 1 /\ 0 \in 0 .. xLength - 1
  BY BytesIs, LengthIs DEF Shape
<1>5. /\ r' \in ReaderAt /\ xBytesAvailable' \in 0 .. xLength - 1
      /\ r' = "read" => xBytesAvailable' = prvBytesInBuffer
  <2>1. CASE ReceiveCall
    BY <2>1, <1>4 DEF ReceiveCall, ReaderAt
  <2>2. CASE ReceiveCheck \/ ReceiveMeasure
    BY <2>2, <1>4 DEF ReceiveCheck, ReceiveMeasure, ReaderAt
  <2>3. CASE ReceiveWait \/ ReceiveWakes \/ ReceiveWoken \/ ReceiveUnregister
    BY <2>3, <1>4 DEF ReceiveWait, ReceiveWakes, ReceiveWoken, ReceiveUnregister, ReaderGoto, ReaderAt
  <2>4. CASE ReadNothing \/ ReceiveCompleted
    BY <2>4, <1>4 DEF ReadNothing, ReceiveCompleted, ReceiveReturn, ReaderAt
  <2> QED
    BY <2>1, <2>2, <2>3, <2>4 DEF QuietReader
<1>6. ucNotifyState' \in [{"writer", "reader"} -> {"none", "waiting", "received"}]
  BY DEF QuietReader, ReceiveCall, ReceiveCheck, ReceiveWait, ReceiveWakes, ReceiveWoken,
         ReceiveUnregister, ReceiveMeasure, ReadNothing, ReceiveCompleted, waitVars,
         xTaskNotifyStateClear, NotifyWait, NotifyWaitEnds, Notify, Notified, Shape
<1>7. Shape'
  BY <1>1, <1>2, <1>5, <1>6 DEF Shape, ring, history, TriggerLevels, LengthBytes
<1>8. SpaceSeen'
  <2>1. (pucBuffer[At(xLength + xHead - 1)])' = pucBuffer[At(xLength + xHead - 1)]
    BY <1>1 DEF ring, At
  <2> QED
    BY <1>1, <1>3, <2>1 DEF SpaceSeen
<1>9. BytesSeen'
  <2>1. isMessageBuffer /\ prvBytesInBuffer > 1 =>
             messages # <<>> /\ messages[1].length < prvBytesInBuffer
    BY <1>2, MessageSeen
  <2> QED
    BY <1>1, <1>3, <1>4, <1>5, <2>1 DEF BytesSeen, history
<1> QED
  BY <1>3, <1>7, <1>8, <1>9

(* Bytes taken from the buffer leave the more space to the writer.         *)
LEMMA SpaceGrows ==
    ASSUME RingInv, UNCHANGED <<isMessageBuffer, w, send, xSpace>>,
           NEW n \in Nat, n <= prvBytesInBuffer, prvReadBytesFromBuffer(n),
           RingIntact', InBuffer', taking' \in Nat, messages' \in Seq(Message)
    PROVE  SpaceSeen'
<1>1. /\ prvBytesInBuffer \in 0 .. xLength - 1 /\ xLength \in Nat
      /\ xStreamBufferSpacesAvailable = xLength - 1 - prvBytesInBuffer
      /\ xSpace \in Nat /\ send.length \in Nat
  BY BytesIs, LengthIs DEF RingInv, Shape
<1>2. /\ prvBytesInBuffer' = prvBytesInBuffer - n /\ UNCHANGED <<xHead, pucBuffer>>
      /\ xTail' \in Cell
  BY ReadMoves DEF RingInv, Shape
<1>3. xStreamBufferSpacesAvailable' = xLength - 1 - prvBytesInBuffer'
  BY DEF xStreamBufferSpacesAvailable
<1>4. w = "data" => prvBytesInBuffer' > 0
  <2> SUFFICES ASSUME w = "data" PROVE prvBytesInBuffer' > 0
    OBVIOUS
  <2>1. isMessageBuffer
    BY DEF RingInv, Shape
  <2>2. Ends(Len(messages))' + 1 = prvBytesInBuffer'
    BY <2>1 DEF RingIntact
  <2>3. PICK l \in Nat : l = Len(messages')
    OBVIOUS
  <2>4. Ends(l)' + 1 = prvBytesInBuffer' /\ prvBytesInBuffer' \in Int
    BY <1>1, <1>2, <2>2, <2>3
  <2>5. Ends(0)' <= Ends(l)' /\ Ends(0)' = taking' /\ Ends(l)' <= prvBytesInBuffer'
    BY <2>1, <2>3 DEF InBuffer, Ends
  <2>6. ASSUME Ends(l)' \in Int PROVE prvBytesInBuffer' > 0
    BY <2>4, <2>5, <2>6
  <2>7. Ends(l)' \in Int
    <3>1. CASE l = 0
      BY <2>5, <3>1
    <3>2. CASE l # 0
      <4>1. l \in 1 .. Len(messages')
        BY <2>3, <3>2
      <4>2. messages'[l] \in Message
        BY <4>1
      <4>3. messages'[l].at \in Cell /\ messages'[l].length \in Int
        BY <4>2, LengthIs DEF Message
      <4>4. At(xLength + messages'[l].at - xTail') \in Int
        <5>1. \A b, c \in Cell : At(xLength + c - b) \in Cell
          BY DistanceIs
        <5>2. At(xLength + messages'[l].at - xTail') \in Cell
          BY <1>2, <4>3, <5>1
        <5> QED
          BY <5>2, LengthIs DEF Cell
      <4>5. Ends(l)' = At(xLength + messages'[l].at - xTail') + 1 + messages'[l].length
        BY <3>2 DEF Ends, Behind, At
      <4> QED
        BY <4>3, <4>4, <4>5
    <3> QED
      BY <3>1, <3>2
  <2> QED
    BY <2>6, <2>7
<1>5. (pucBuffer[At(xLength + xHead - 1)])' = pucBuffer[At(xLength + xHead - 1)]
  BY <1>2 DEF At
<1> QED
  BY <1>1, <1>2, <1>3, <1>4, <1>5 DEF RingInv, SpaceSeen

LEMMA ReadBytesRing ==
    ASSUME RingInv, ReadBytes, UNCHANGED <<buffer, writerVars>>
    PROVE  RingInv'
<1> USE DEF RingInv
<1>1. PICK n \in 1 .. xBytesAvailable : prvReadBytesFromBuffer(n) /\ HasRead(n)
  BY DEF ReadBytes
<1>2. /\ xBytesAvailable \in 0 .. xLength - 1 /\ prvBytesInBuffer \in 0 .. xLength - 1
      /\ xBytesAvailable <= prvBytesInBuffer /\ xLength \in Nat
      /\ xHead \in Cell /\ xTail \in Cell /\ read \in Nat /\ taking = 0
  BY BytesIs, LengthIs DEF BytesSeen, ReadBytes, Shape
<1>3. n \in Nat /\ n <= prvBytesInBuffer
  BY <1>2
<1>4. /\ UNCHANGED <<isMessageBuffer, xTriggerLevelBytes, waitVars, written, messages,
                     w, send, xSpace, ticks, xBytesAvailable, taking>>
      /\ r' = "complete" /\ r = "read" /\ ~isMessageBuffer
  BY DEF ReadBytes, ReaderGoto, buffer, writerVars
<1>5. RingIntact' /\ InBuffer'
  BY <1>1, <1>3, <1>4, StreamRead DEF InBuffer
<1>6. xTail' \in Cell /\ UNCHANGED <<xHead, pucBuffer>>
  BY <1>1, <1>2, <1>3, ReadMoves
<1>7. read' \in 0 .. Numbers - 1
  <2>1. read + n \in Nat
    BY <1>2, <1>3
  <2> QED
    BY <1>1, <2>1, Numbering DEF HasRead
<1>8. Shape'
  BY <1>4, <1>6, <1>7 DEF Shape, ReaderAt, waitVars, TriggerLevels, LengthBytes
<1>9. SpaceSeen'
  <2>1. taking' \in Nat /\ messages' \in Seq(Message)
    BY <1>2, <1>4 DEF Shape
  <2> QED
    BY <1>1, <1>3, <1>4, <1>5, <2>1, SpaceGrows
<1>10. BytesSeen'
  BY <1>4 DEF BytesSeen
<1> QED
  BY <1>5, <1>8, <1>9, <1>10

LEMMA ReadLengthRing ==
    ASSUME RingInv, ReadLength, UNCHANGED <<buffer, writerVars>>
    PROVE  RingInv'
<1> USE DEF RingInv
<1>1. /\ UNCHANGED <<isMessageBuffer, xTriggerLevelBytes, waitVars, written, read,
                     w, send, xSpace, ticks, xBytesAvailable>>
      /\ r' = "data" /\ r = "read" /\ isMessageBuffer /\ xBytesAvailable > 1
      /\ taking' = Least(pucBuffer[xTail], xBytesAvailable - 1)
      /\ prvReadBytesFromBuffer(1) /\ messages' = Tail(messages)
  BY DEF ReadLength, LengthBytes, buffer, writerVars
<1>2. RingIntact' /\ InBuffer' /\ messages' \in Seq(Message) /\ taking' \in 0 .. MaxSend
  BY <1>1, LengthRead
<1>3. /\ xBytesAvailable \in 0 .. xLength - 1 /\ prvBytesInBuffer \in 0 .. xLength - 1
      /\ xBytesAvailable <= prvBytesInBuffer /\ xLength \in Nat
      /\ xHead \in Cell /\ xTail \in Cell
  BY <1>1, BytesIs, LengthIs DEF BytesSeen, Shape
<1>4. 1 <= prvBytesInBuffer
  BY <1>1, <1>3
<1>5. xTail' \in Cell /\ UNCHANGED <<xHead, pucBuffer>>
  BY <1>1, <1>3, <1>4, ReadMoves
<1>6. Shape'
  BY <1>1, <1>2, <1>5 DEF Shape, ReaderAt, waitVars, TriggerLevels, LengthBytes
<1>7. SpaceSeen'
  <2>1. taking' \in Nat
    BY <1>2, LengthIs
  <2> QED
    BY <1>1, <1>2, <1>4, <2>1, SpaceGrows
<1>8. BytesSeen'
  BY <1>1 DEF BytesSeen
<1> QED
  BY <1>2, <1>6, <1>7, <1>8

LEMMA ReadDataRing ==
    ASSUME RingInv, ReadData, UNCHANGED <<buffer, writerVars>>
    PROVE  RingInv'
<1> USE DEF RingInv
<1>1. /\ UNCHANGED <<isMessageBuffer, xTriggerLevelBytes, waitVars, written, messages,
                     w, send, xSpace, ticks, xBytesAvailable>>
      /\ r' = "complete" /\ r = "data" /\ isMessageBuffer
      /\ prvReadBytesFromBuffer(taking) /\ HasRead(taking) /\ taking' = 0
  BY DEF ReadData, Shape, buffer, writerVars
<1>2. RingIntact' /\ InBuffer'
  BY <1>1, DataRead
<1>3. /\ taking \in Nat /\ xHead \in Cell /\ xTail \in Cell /\ read \in Nat
      /\ messages \in Seq(Message) /\ Len(messages) \in Nat
  BY LengthIs DEF Shape
<1>4. taking <= prvBytesInBuffer
  <2>1. Ends(0) <= prvBytesInBuffer
    BY <1>1, <1>3 DEF InBuffer
  <2> QED
    BY <2>1 DEF Ends
<1>5. xTail' \in Cell /\ UNCHANGED <<xHead, pucBuffer>>
  BY <1>1, <1>3, <1>4, ReadMoves
<1>6. read' \in 0 .. Numbers - 1
  <2>1. read + taking \in Nat
    BY <1>3
  <2> QED
    BY <1>1, <2>1, Numbering DEF HasRead
<1>7. Shape'
  BY <1>1, <1>5, <1>6, LengthIs DEF Shape, ReaderAt, waitVars, TriggerLevels, LengthBytes
<1>8. SpaceSeen'
  BY <1>1, <1>2, <1>3, <1>4, SpaceGrows
<1>9. BytesSeen'
  BY <1>1 DEF BytesSeen
<1> QED
  BY <1>2, <1>7, <1>8, <1>9

-----------------------------------------------------------------------------
(* Wake-ups *)

(* The writer adds bytes only on the way to its notification.              *)
LEMMA WriterWakes ==
    ASSUME Shape, WakeInv, Writer
    PROVE  WakeInv'
<1> USE DEF WakeInv, Waits, Registered, Notified
<1>1. /\ ucNotifyState \in [{"writer", "reader"} -> {"none", "waiting", "received"}]
      /\ w \in WriterAt /\ UNCHANGED <<isMessageBuffer, xTriggerLevelBytes, r, taking>>
      /\ LengthBytes' = LengthBytes
      /\ prvBytesInBuffer \in Nat /\ xTriggerLevelBytes \in Nat
  BY BytesIs, LengthIs DEF Shape, TriggerLevels, Writer, buffer, readerVars, LengthBytes
<1>2. UNCHANGED ring => /\ prvBytesInBuffer' = prvBytesInBuffer
                        /\ xStreamBufferSpacesAvailable' = xStreamBufferSpacesAvailable
  BY DEF ring, prvBytesInBuffer, xStreamBufferSpacesAvailable, At
<1>3. UNCHANGED send => xRequiredSpace' = xRequiredSpace
  BY <1>1 DEF xRequiredSpace
<1>4. CASE SendCall
  <2>1. w = "idle" /\ w' \in {"space", "check"} /\ UNCHANGED <<ring, waitVars>>
    BY <1>4 DEF SendCall
  <2> QED
    BY <1>1, <1>2, <2>1 DEF waitVars
<1>5. CASE SendCheck
  <2>1. xSpace' = xStreamBufferSpacesAvailable /\ UNCHANGED <<send, ring, xTaskWaitingToReceive>>
        /\ w = "check"
    BY <1>5 DEF SendCheck
  <2>2. CASE xSpace' < xRequiredSpace
    <3>1. w' = "wait" /\ xTaskWaitingToSend' = TRUE /\ ucNotifyState'["reader"] = ucNotifyState["reader"]
      BY <1>1, <1>5, <2>2 DEF SendCheck, xTaskNotifyStateClear
    <3>2. ~(xStreamBufferSpacesAvailable >= xRequiredSpace)
      <4>1. xStreamBufferSpacesAvailable \in Int /\ xRequiredSpace \in Int
        BY BytesIs, LengthIs DEF Shape, xRequiredSpace, LengthBytes
      <4> QED
        BY <2>1, <2>2, <4>1
    <3> QED
      BY <1>1, <1>2, <1>3, <2>1, <3>1, <3>2
  <2>3. CASE ~(xSpace' < xRequiredSpace)
    <3>1. w' = "space" /\ UNCHANGED <<ucNotifyState, xTaskWaitingToSend>>
      BY <1>5, <2>3, <2>1 DEF SendCheck
    <3> QED
      BY <1>1, <1>2, <2>1, <3>1
  <2> QED
    BY <2>2, <2>3
<1>6. CASE SendWait
  <2>1. /\ w = "wait" /\ UNCHANGED <<send, ring, xTaskWaitingToSend, xTaskWaitingToReceive>>
        /\ w' = (IF ucNotifyState'["writer"] = "received" THEN "woken" ELSE "blocked")
        /\ ucNotifyState'["reader"] = ucNotifyState["reader"]
        /\ ucNotifyState'["writer"] = (IF ucNotifyState["writer"] = "received" THEN "received" ELSE "waiting")
    BY <1>1, <1>6 DEF SendWait, WriterGoto, NotifyWait
  <2> QED
    BY <1>1, <1>2, <1>3, <2>1
<1>7. CASE SendWakes
  BY <1>1, <1>2, <1>3, <1>7 DEF SendWakes, WriterGoto, waitVars
<1>8. CASE SendWoken
  <2>1. /\ w = "woken" /\ w' = "unregister"
        /\ UNCHANGED <<send, ring, xTaskWaitingToSend, xTaskWaitingToReceive>>
        /\ ucNotifyState'["reader"] = ucNotifyState["reader"]
    BY <1>1, <1>8 DEF SendWoken, WriterGoto, NotifyWaitEnds
  <2> QED
    BY <1>1, <1>2, <1>3, <2>1
<1>9. CASE SendUnregister
  <2>1. /\ w = "unregister" /\ w' \in {"check", "space"} /\ xTaskWaitingToSend' = FALSE
        /\ UNCHANGED <<ring, xTaskWaitingToReceive, ucNotifyState>>
    BY <1>9 DEF SendUnregister, WriterGoto
  <2> QED
    BY <1>1, <1>2, <2>1
<1>10. CASE SendSpace
  BY <1>1, <1>2, <1>10 DEF SendSpace, waitVars
<1>11. CASE WriteBytes \/ WriteLength \/ WriteData
  <2>1. w \in {"write", "data"} /\ w' \in {"trigger", "data"} /\ UNCHANGED waitVars
    BY <1>11 DEF WriteBytes, WriteLength, WriteData, WriterGoto
  <2> QED
    BY <1>1, <2>1 DEF waitVars
<1>12. CASE WriteNothing
  <2>1. w = "write" /\ w' = "idle" /\ UNCHANGED <<ring, waitVars>>
    BY <1>12 DEF WriteNothing, SendReturn
  <2> QED
    BY <1>1, <1>2, <2>1 DEF waitVars
<1>13. CASE SendTrigger
  <2>1. /\ w = "trigger" /\ UNCHANGED <<ring, waitVars>>
        /\ w' = IF prvBytesInBuffer >= xTriggerLevelBytes THEN "complete" ELSE "idle"
    BY <1>13 DEF SendTrigger, WriterGoto, SendReturn
  <2> QED
    BY <1>1, <1>2, <2>1 DEF waitVars
<1>14. CASE SendCompleted
  <2>1. w = "complete" /\ w' = "idle" /\ UNCHANGED <<ring, xTaskWaitingToSend>>
    BY <1>14 DEF SendCompleted, SendReturn
  <2>2. \/ xTaskWaitingToReceive /\ ucNotifyState'["reader"] = "received" /\ xTaskWaitingToReceive' = FALSE
        \/ ~xTaskWaitingToReceive /\ UNCHANGED <<ucNotifyState, xTaskWaitingToReceive>>
    BY <1>1, <1>14 DEF SendCompleted, Notify
  <2>3. ~xTaskWaitingToSend /\ ~xTaskWaitingToSend' /\ w' \notin {"wait", "blocked"}
    BY <2>1
  <2>4. /\ xTaskWaitingToReceive' \in BOOLEAN
        /\ xTaskWaitingToReceive' => r \in Registered
        /\ r \in {"wait", "blocked"} => ucNotifyState'["reader"] = "received"
    <3>1. CASE xTaskWaitingToReceive
      BY <2>2, <3>1
    <3>2. CASE ~xTaskWaitingToReceive
      BY <2>2, <3>2
    <3> QED
      BY <3>1, <3>2
  <2>5. xTaskWaitingToSend' \in BOOLEAN
    BY <2>1
  <2>6. ~Waits(w)' /\ ~(Waits(r) /\ ~Notified("reader"))'
    BY <1>1, <2>3, <2>4
  <2> QED
    BY <1>1, <2>3, <2>4, <2>5, <2>6
<1> QED
  BY <1>4, <1>5, <1>6, <1>7, <1>8, <1>9, <1>10, <1>11, <1>12, <1>13, <1>14 DEF Writer

(* The reader takes bytes only on the way to its notification.             *)
LEMMA ReaderWakes ==
    ASSUME RingInv, WakeInv, Reader, ~ReadTooLong, r # "restore"
    PROVE  WakeInv'
<1> USE DEF WakeInv, Waits, Registered, Notified
<1>1. /\ ucNotifyState \in [{"writer", "reader"} -> {"none", "waiting", "received"}]
      /\ r \in ReaderAt /\ UNCHANGED <<isMessageBuffer, xTriggerLevelBytes, w, send>>
      /\ xRequiredSpace' = xRequiredSpace
  BY DEF RingInv, Shape, Reader, buffer, writerVars, LengthBytes, xRequiredSpace
<1>2. UNCHANGED ring => /\ prvBytesInBuffer' = prvBytesInBuffer
                        /\ xStreamBufferSpacesAvailable' = xStreamBufferSpacesAvailable
  BY DEF ring, prvBytesInBuffer, xStreamBufferSpacesAvailable, At
<1>3. CASE ReceiveCall
  <2>1. r = "idle" /\ r' \in {"measure", "check"} /\ UNCHANGED <<ring, waitVars>>
    BY <1>3 DEF ReceiveCall
  <2> QED
    BY <1>1, <1>2, <2>1 DEF waitVars
<1>4. CASE ReceiveCheck
  <2>1. xBytesAvailable' = prvBytesInBuffer /\ UNCHANGED <<ring, xTaskWaitingToSend>> /\ r = "check"
    BY <1>4 DEF ReceiveCheck
  <2>2. CASE xBytesAvailable' <= LengthBytes
    <3>1. r' = "wait" /\ xTaskWaitingToReceive' = TRUE /\ ucNotifyState'["writer"] = ucNotifyState["writer"]
      BY <1>1, <1>4, <2>2 DEF ReceiveCheck, xTaskNotifyStateClear
    <3>2. prvBytesInBuffer >= xTriggerLevelBytes => w = "data"
      <4>1. prvBytesInBuffer \in Nat /\ xTriggerLevelBytes \in Nat /\ xTriggerLevelBytes >= 1
        BY BytesIs, LengthIs DEF RingInv, Shape, TriggerLevels
      <4>2. isMessageBuffer /\ prvBytesInBuffer = 1 => w = "data"
        BY <2>1, MessageSeen DEF RingInv
      <4> QED
        BY <2>1, <2>2, <4>1, <4>2 DEF LengthBytes
    <3> QED
      BY <1>1, <1>2, <2>1, <3>1, <3>2
  <2>3. CASE ~(xBytesAvailable' <= LengthBytes)
    <3>1. r' = "read" /\ UNCHANGED <<ucNotifyState, xTaskWaitingToReceive>>
      BY <1>4, <2>3, <2>1 DEF ReceiveCheck
    <3> QED
      BY <1>1, <1>2, <2>1, <3>1
  <2> QED
    BY <2>2, <2>3
<1>5. CASE ReceiveWait
  <2>1. /\ r = "wait" /\ UNCHANGED <<ring, xTaskWaitingToSend, xTaskWaitingToReceive>>
        /\ r' = (IF ucNotifyState'["reader"] = "received" THEN "woken" ELSE "blocked")
        /\ ucNotifyState'["writer"] = ucNotifyState["writer"]
        /\ ucNotifyState'["reader"] = (IF ucNotifyState["reader"] = "received" THEN "received" ELSE "waiting")
    BY <1>1, <1>5 DEF ReceiveWait, ReaderGoto, NotifyWait
  <2> QED
    BY <1>1, <1>2, <2>1
<1>6. CASE ReceiveWakes
  BY <1>1, <1>2, <1>6 DEF ReceiveWakes, ReaderGoto, waitVars
<1>7. CASE ReceiveWoken
  <2>1. /\ r = "woken" /\ r' = "unregister"
        /\ UNCHANGED <<ring, xTaskWaitingToSend, xTaskWaitingToReceive>>
        /\ ucNotifyState'["writer"] = ucNotifyState["writer"]
    BY <1>1, <1>7 DEF ReceiveWoken, ReaderGoto, NotifyWaitEnds
  <2> QED
    BY <1>1, <1>2, <2>1
<1>8. CASE ReceiveUnregister
  <2>1. /\ r = "unregister" /\ r' = "measure" /\ xTaskWaitingToReceive' = FALSE
        /\ UNCHANGED <<ring, xTaskWaitingToSend, ucNotifyState>>
    BY <1>8 DEF ReceiveUnregister, ReaderGoto
  <2> QED
    BY <1>1, <1>2, <2>1
<1>9. CASE ReceiveMeasure
  BY <1>1, <1>2, <1>9 DEF ReceiveMeasure, waitVars
<1>10. CASE ReadNothing
  <2>1. r = "read" /\ r' = "idle" /\ UNCHANGED <<ring, waitVars>>
    BY <1>10 DEF ReadNothing, ReceiveReturn
  <2> QED
    BY <1>1, <1>2, <2>1 DEF waitVars
<1>11. CASE ReadBytes \/ ReadLength \/ ReadData
  <2>1. r \in {"read", "data"} /\ r' \in {"data", "complete"} /\ UNCHANGED waitVars
    BY <1>11 DEF ReadBytes, ReadLength, ReadData, ReaderGoto
  <2> QED
    BY <1>1, <2>1 DEF waitVars
<1>12. CASE ReceiveCompleted
  <2>1. r = "complete" /\ r' = "idle" /\ UNCHANGED <<ring, xTaskWaitingToReceive>>
    BY <1>12 DEF ReceiveCompleted, ReceiveReturn
  <2>2. \/ /\ xTaskWaitingToSend /\ ucNotifyState'["writer"] = "received" /\ xTaskWaitingToSend' = FALSE
           /\ ucNotifyState'["reader"] = ucNotifyState["reader"]
        \/ ~xTaskWaitingToSend /\ UNCHANGED <<ucNotifyState, xTaskWaitingToSend>>
    BY <1>1, <1>12 DEF ReceiveCompleted, Notify
  <2>3. ~xTaskWaitingToReceive /\ ~xTaskWaitingToReceive' /\ r' \notin {"wait", "blocked"}
    BY <2>1
  <2>4. /\ xTaskWaitingToSend' \in BOOLEAN
        /\ xTaskWaitingToSend' => w \in Registered
        /\ w \in {"wait", "blocked"} => ucNotifyState'["writer"] = "received"
    <3>1. CASE xTaskWaitingToSend
      BY <2>2, <3>1
    <3>2. CASE ~xTaskWaitingToSend
      BY <2>2, <3>2
    <3> QED
      BY <3>1, <3>2
  <2>5. xTaskWaitingToReceive' \in BOOLEAN
    BY <2>1
  <2>6. ~Waits(r)' /\ ~(Waits(w) /\ ~Notified("writer"))'
    BY <1>1, <2>3, <2>4
  <2> QED
    BY <1>1, <2>3, <2>4, <2>5, <2>6
<1> QED
  BY <1>3, <1>4, <1>5, <1>6, <1>7, <1>8, <1>9, <1>10, <1>11, <1>12 DEF Reader, PutBack

-----------------------------------------------------------------------------
(* The message that is refused *)

(* The reader without room moves the tail, and the buffer is as before but *)
(* for that.                                                               *)
LEMMA TooLong ==
    ASSUME BufferInv, ReadTooLong, UNCHANGED <<buffer, writerVars>>
    PROVE  /\ xTail' \in Cell /\ xBytesAvailable' \in 0 .. xLength - 1 /\ isMessageBuffer'
           /\ Back!BufferInv'
<1>1. /\ UNCHANGED <<isMessageBuffer, xTriggerLevelBytes, pucBuffer, xHead, xTaskWaitingToSend,
                     xTaskWaitingToReceive, ucNotifyState, w, send, xSpace, xBytesAvailable,
                     taking, written, read, messages>>
      /\ r = "read" /\ isMessageBuffer /\ xTail' = At(xTail + LengthBytes)
      /\ LengthBytes = 1 /\ LengthBytes' = 1
  BY DEF ReadTooLong, prvReadBytesFromBuffer, ReaderGoto, buffer, writerVars, waitVars, history,
         LengthBytes
<1>2. xTail \in Cell /\ xBytesAvailable \in 0 .. xLength - 1
  BY DEF BufferInv, RingInv, Shape
<1>3. xTail' \in Cell
  BY <1>1, <1>2, PlaceIs, LengthIs
<1>4. xOriginalTail' = xTail
  <2>1. At(xLength + At(xTail + 1) - 1) = xTail
    BY <1>2, BeforeNext
  <2>2. xOriginalTail' = At(xLength + xTail' - 1)
    BY <1>1 DEF xOriginalTail, At
  <2> QED
    BY <1>1, <2>1, <2>2
<1>5. \A c : Back!Behind(c)' = Behind(c)
  BY <1>1, <1>4 DEF Behind, Back!Behind, At, Back!At
<1>6. \A i : Back!Ends(i)' = Ends(i) /\ Back!NextNumber(i)' = NextNumber(i)
  BY <1>1, <1>5 DEF Ends, Back!Ends, NextNumber, Back!NextNumber
<1>7. \A c, n, b : Back!Stored(c, n, b)' <=> Stored(c, n, b)
  BY <1>1 DEF Stored, Back!Stored, At, Back!At
<1>8. \A i : Back!Whole(i)' <=> Whole(i)
  BY <1>1, <1>5, <1>6, <1>7 DEF Whole, Back!Whole, At, Back!At
<1>9. /\ Back!prvBytesInBuffer' = prvBytesInBuffer
      /\ Back!xStreamBufferSpacesAvailable' = xStreamBufferSpacesAvailable
      /\ Back!xRequiredSpace' = xRequiredSpace
  BY <1>1, <1>4 DEF prvBytesInBuffer, Back!prvBytesInBuffer, xStreamBufferSpacesAvailable,
     Back!xStreamBufferSpacesAvailable, xRequiredSpace, Back!xRequiredSpace, LengthBytes,
     Back!LengthBytes, At, Back!At
<1>10. Back!RingIntact'
  BY <1>1, <1>4, <1>6, <1>7, <1>8, <1>9 DEF BufferInv, RingInv, RingIntact, Back!RingIntact,
     Stored, Back!Stored, At, Back!At
<1>11. Back!InBuffer'
  BY <1>1, <1>6, <1>9 DEF BufferInv, RingInv, InBuffer, Back!InBuffer
<1>12. Back!Shape'
  BY <1>1, <1>2, <1>4, LengthIs DEF BufferInv, RingInv, Shape, Back!Shape, TriggerLevels,
     Back!TriggerLevels, LengthBytes, Back!LengthBytes, Cell, Back!Cell, WriterAt,
     Back!WriterAt, Back!ReaderAt, Ticks, Back!Ticks, Message, Back!Message
<1>13. Back!SpaceSeen' /\ Back!BytesSeen'
  BY <1>1, <1>9 DEF BufferInv, RingInv, SpaceSeen, Back!SpaceSeen, Back!BytesSeen, At, Back!At
<1>14. Back!WakeInv'
  BY <1>1, <1>9 DEF BufferInv, WakeInv, Back!WakeInv, Waits, Back!Waits, Registered,
     Back!Registered, Notified, Back!Notified
<1> QED
  BY <1>1, <1>2, <1>3, <1>10, <1>11, <1>12, <1>13, <1>14 DEF Back!BufferInv, Back!RingInv

LEMMA RestingBack ==
    ASSUME r = "restore", IInv, UNCHANGED <<buffer, ring, waitVars, writerVars, readerVars, history>>
    PROVE  IInv'
<1> USE DEF buffer, ring, waitVars, writerVars, readerVars, history
<1>1. Back!BufferInv
  BY DEF IInv
<1>2. xOriginalTail' = xOriginalTail
  BY DEF xOriginalTail, At, LengthBytes
<1>3. \A c : Back!Behind(c)' = Back!Behind(c)
  BY <1>2 DEF Back!Behind, Back!At
<1>4. \A i : Back!Ends(i)' = Back!Ends(i) /\ Back!NextNumber(i)' = Back!NextNumber(i)
  BY <1>3 DEF Back!Ends, Back!NextNumber
<1>5. \A c, n, b : Back!Stored(c, n, b)' <=> Back!Stored(c, n, b)
  BY DEF Back!Stored, Back!At
<1>6. \A i : Back!Whole(i)' <=> Back!Whole(i)
  BY <1>3, <1>4, <1>5 DEF Back!Whole, Back!At
<1>7. /\ Back!prvBytesInBuffer' = Back!prvBytesInBuffer
      /\ Back!xStreamBufferSpacesAvailable' = Back!xStreamBufferSpacesAvailable
      /\ Back!xRequiredSpace' = Back!xRequiredSpace
  BY <1>2 DEF Back!prvBytesInBuffer, Back!xStreamBufferSpacesAvailable, Back!xRequiredSpace,
     Back!LengthBytes, Back!At
<1>8. Back!RingIntact'
  BY <1>1, <1>2, <1>4, <1>5, <1>6, <1>7 DEF Back!BufferInv, Back!RingInv, Back!RingIntact,
     Back!Stored, Back!At
<1>9. Back!InBuffer'
  BY <1>1, <1>4, <1>7 DEF Back!BufferInv, Back!RingInv, Back!InBuffer
<1>10. Back!Shape'
  BY <1>1, <1>2 DEF Back!BufferInv, Back!RingInv, Back!Shape, Back!TriggerLevels, Back!LengthBytes
<1>11. Back!SpaceSeen' /\ Back!BytesSeen'
  BY <1>1, <1>7 DEF Back!BufferInv, Back!RingInv, Back!SpaceSeen, Back!BytesSeen, Back!At
<1>12. Back!WakeInv'
  BY <1>1, <1>7 DEF Back!BufferInv, Back!WakeInv, Back!Waits, Back!Registered, Back!Notified
<1>13. Back!BufferInv'
  BY <1>8, <1>9, <1>10, <1>11, <1>12 DEF Back!BufferInv, Back!RingInv
<1> QED
  BY <1>13 DEF IInv

(* The tail is put back.                                                   *)
LEMMA TailPutBack ==
    ASSUME Back!BufferInv, PutBack, UNCHANGED <<buffer, writerVars>>
    PROVE  BufferInv'
<1>1. /\ UNCHANGED <<isMessageBuffer, xTriggerLevelBytes, pucBuffer, xHead, xTaskWaitingToSend,
                     xTaskWaitingToReceive, ucNotifyState, w, send, xSpace,
                     taking, written, read, messages>>
      /\ r' = "idle" /\ xBytesAvailable' = 0 /\ xTail' = xOriginalTail
  BY DEF PutBack, ReceiveReturn, buffer, writerVars, waitVars, history
<1>2. \A c : Behind(c)' = Back!Behind(c)
  BY <1>1 DEF Behind, Back!Behind, At, Back!At
<1>3. \A i : Ends(i)' = Back!Ends(i) /\ NextNumber(i)' = Back!NextNumber(i)
  BY <1>1, <1>2 DEF Ends, Back!Ends, NextNumber, Back!NextNumber
<1>4. \A c, n, b : Stored(c, n, b)' <=> Back!Stored(c, n, b)
  BY <1>1 DEF Stored, Back!Stored, At, Back!At
<1>5. \A i : Whole(i)' <=> Back!Whole(i)
  BY <1>1, <1>2, <1>3, <1>4 DEF Whole, Back!Whole, At, Back!At
<1>6. /\ prvBytesInBuffer' = Back!prvBytesInBuffer
      /\ xStreamBufferSpacesAvailable' = Back!xStreamBufferSpacesAvailable
      /\ xRequiredSpace' = Back!xRequiredSpace
  BY <1>1 DEF prvBytesInBuffer, Back!prvBytesInBuffer, xStreamBufferSpacesAvailable,
     Back!xStreamBufferSpacesAvailable, xRequiredSpace, Back!xRequiredSpace, LengthBytes,
     Back!LengthBytes, At, Back!At
<1>7. RingIntact'
  BY <1>1, <1>3, <1>4, <1>5, <1>6 DEF Back!BufferInv, Back!RingInv, RingIntact,
     Back!RingIntact, Stored, Back!Stored, At, Back!At
<1>8. InBuffer'
  BY <1>1, <1>3, <1>6 DEF Back!BufferInv, Back!RingInv, InBuffer, Back!InBuffer
<1>9. Shape'
  BY <1>1, LengthIs DEF Back!BufferInv, Back!RingInv, Shape, Back!Shape, TriggerLevels,
     Back!TriggerLevels, LengthBytes, Back!LengthBytes, Cell, Back!Cell, WriterAt,
     Back!WriterAt, ReaderAt, Ticks, Back!Ticks, Message, Back!Message
<1>10. SpaceSeen' /\ BytesSeen'
  BY <1>1, <1>6 DEF Back!BufferInv, Back!RingInv, SpaceSeen, Back!SpaceSeen, BytesSeen, At, Back!At
<1>11. WakeInv'
  BY <1>1, <1>6 DEF Back!BufferInv, WakeInv, Back!WakeInv, Waits, Back!Waits, Registered,
     Back!Registered, Notified, Back!Notified
<1> QED
  BY <1>7, <1>8, <1>9, <1>10, <1>11 DEF BufferInv, RingInv

-----------------------------------------------------------------------------
(* The theorems *)

LEMMA StartsCorrect == Init => IInv
<1> SUFFICES ASSUME Init PROVE BufferInv
  BY DEF Init, IInv
<1>1. /\ xHead = 0 /\ xTail = 0 /\ 0 \in Cell /\ messages = <<>> /\ Len(messages) = 0
      /\ taking = 0 /\ w = "idle" /\ r = "idle" /\ read = 0 /\ written = 0
  BY LengthIs DEF Init, Cell
<1>2. prvBytesInBuffer = 0 /\ xStreamBufferSpacesAvailable \in Nat
  BY <1>1, BytesIs, LengthIs
<1>3. messages \in Seq(Message)
  BY <1>1
<1>4. Shape
  BY <1>1, <1>3, LengthIs DEF Init, Shape, WriterAt, ReaderAt, NoCall, Ticks
<1>5. SpaceSeen /\ BytesSeen
  BY <1>1, <1>2 DEF Init, SpaceSeen, BytesSeen
<1>6. Ends(0) = 0
  BY <1>1 DEF Ends
<1>7. InBuffer
  BY <1>1, <1>2, <1>6 DEF InBuffer
<1>8. 0 % Numbers = 0
  <2>1. Numbers \in Nat \ {0}
    BY LengthIs
  <2> QED
    BY <2>1, SMT
<1>9. RingIntact
  BY <1>1, <1>2, <1>6, <1>8 DEF RingIntact, Stored, NextNumber
<1>10. WakeInv
  BY <1>1 DEF Init, WakeInv, Waits
<1> QED
  BY <1>4, <1>5, <1>7, <1>9, <1>10 DEF BufferInv, RingInv

(* A step of anybody else than a reader without room.                      *)
LEMMA OtherSteps ==
    ASSUME BufferInv, [Next]_vars, ~ReadTooLong, r # "restore"
    PROVE  BufferInv'
<1>1. CASE Writer
  <2>1. UNCHANGED <<buffer, readerVars>>
    BY <1>1 DEF Writer
  <2>2. QuietWriter \/ WriteBytes \/ WriteLength \/ WriteData
    BY <1>1 DEF Writer, QuietWriter
  <2>3. RingInv'
    BY <2>1, <2>2, QuietWriterRing, WriteBytesRing, WriteLengthRing, WriteDataRing DEF BufferInv
  <2>4. WakeInv'
    BY <1>1, WriterWakes DEF BufferInv, RingInv
  <2> QED
    BY <2>3, <2>4 DEF BufferInv
<1>2. CASE Reader
  <2>1. UNCHANGED <<buffer, writerVars>>
    BY <1>2 DEF Reader
  <2>2. QuietReader \/ ReadBytes \/ ReadLength \/ ReadData
    BY <1>2 DEF Reader, QuietReader, PutBack
  <2>3. RingInv'
    BY <2>1, <2>2, QuietReaderRing, ReadBytesRing, ReadLengthRing, ReadDataRing DEF BufferInv
  <2>4. WakeInv'
    BY <1>2, ReaderWakes DEF BufferInv
  <2> QED
    BY <2>3, <2>4 DEF BufferInv
<1>3. CASE UNCHANGED vars
  <2>1. UNCHANGED <<buffer, ring, waitVars, writerVars, readerVars, history>>
    BY <1>3 DEF vars
  <2>2. /\ prvBytesInBuffer' = prvBytesInBuffer
        /\ xStreamBufferSpacesAvailable' = xStreamBufferSpacesAvailable
        /\ RingIntact' /\ InBuffer'
    BY <2>1, Still DEF BufferInv, RingInv, buffer, writerVars, readerVars
  <2>3. Shape'
    BY <2>1 DEF BufferInv, RingInv, Shape, buffer, ring, waitVars, writerVars, readerVars, history,
                TriggerLevels, LengthBytes
  <2>4. SpaceSeen' /\ BytesSeen'
    BY <2>1, <2>2 DEF BufferInv, RingInv, SpaceSeen, BytesSeen, At, ring, writerVars, readerVars,
                      history, buffer
  <2>5. WakeInv'
    BY <2>1, <2>2 DEF BufferInv, WakeInv, Waits, Registered, Notified, waitVars, writerVars, readerVars,
                      buffer, xRequiredSpace, LengthBytes
  <2> QED
    BY <2>2, <2>3, <2>4, <2>5 DEF BufferInv, RingInv
<1> QED
  BY <1>1, <1>2, <1>3 DEF Next

(* A reader with room for every message refuses none.                      *)
LEMMA NoneTooLong ==
    ASSUME BufferInv, \A n \in BufferLengths : MaxSend <= n
    PROVE  ~ReadTooLong
<1> SUFFICES ASSUME ReadTooLong PROVE FALSE
  OBVIOUS
<1>1. PICK n \in BufferLengths : pucBuffer[xTail] > n
  BY DEF ReadTooLong
<1>2. r = "read" /\ isMessageBuffer /\ xBytesAvailable > 1
  BY DEF ReadTooLong, LengthBytes
<1>3. messages # <<>>
  BY <1>2 DEF BufferInv, RingInv, BytesSeen
<1>4. PICK m : m = messages[1]
  OBVIOUS
<1>5. m.length \in 1 .. MaxSend /\ pucBuffer[xTail] = m.length
  BY <1>2, <1>3, <1>4, FirstAtTail DEF BufferInv, RingInv
<1>6. MaxSend <= n /\ n \in Nat /\ MaxSend \in Nat
  BY LengthIs, StreamAssumption
<1> QED
  BY <1>1, <1>5, <1>6

LEMMA StepsStayCorrect == PutBackAlone /\ IInv /\ [Next]_vars => IInv'
<1> SUFFICES ASSUME PutBackAlone, IInv, [Next]_vars PROVE IInv'
  OBVIOUS
<1>1. CASE r # "restore" /\ ReadTooLong /\ UNCHANGED <<buffer, writerVars>>
  <2>1. BufferInv
    BY <1>1 DEF IInv
  <2>2. ~WriterPreempts
    BY <1>1, <2>1, NoneTooLong DEF PutBackAlone
  <2>3. r' = "restore"
    BY <1>1 DEF ReadTooLong, ReaderGoto
  <2> QED
    BY <1>1, <2>1, <2>2, <2>3, TooLong DEF IInv
<1>2. CASE r # "restore" /\ ~ReadTooLong
  <2>1. BufferInv'
    BY <1>2, OtherSteps DEF IInv
  <2>2. r' # "restore"
    BY <2>1 DEF BufferInv, RingInv, Shape, ReaderAt
  <2> QED
    BY <2>1, <2>2 DEF IInv
<1>3. CASE r = "restore" /\ PutBack /\ UNCHANGED <<buffer, writerVars>>
  <2>1. r' # "restore"
    BY <1>3 DEF PutBack, ReceiveReturn
  <2> QED
    BY <1>3, <2>1, TailPutBack DEF IInv
<1>4. CASE r = "restore" /\ UNCHANGED vars
  <2>1. UNCHANGED <<buffer, ring, waitVars, writerVars, readerVars, history>>
    BY <1>4 DEF vars
  <2> QED
    BY <1>4, <2>1, RestingBack DEF IInv
<1>5. Writer => r # "restore"
  BY DEF IInv, Writer
<1>6. ReadTooLong => r # "restore"
  BY DEF ReadTooLong
<1>7. Reader => UNCHANGED <<buffer, writerVars>> /\ (r = "restore" => PutBack)
  BY DEF Reader, ReceiveCall, ReceiveCheck, ReceiveWait, ReceiveWakes, ReceiveWoken,
         ReceiveUnregister, ReceiveMeasure, ReadNothing, ReadBytes, ReadLength, ReadTooLong,
         ReadData, ReceiveCompleted
<1>8. Writer => ~ReadTooLong
  BY DEF Writer, ReadTooLong, readerVars, ReaderGoto
<1>9. UNCHANGED vars => ~ReadTooLong
  BY DEF vars, readerVars, ReadTooLong, ReaderGoto
<1> QED
  BY <1>1, <1>2, <1>3, <1>4, <1>5, <1>6, <1>7, <1>8, <1>9 DEF Next

(* Whatever writer and reader interrupt each other in, the ring, what each *)
(* has seen of it and who waits for whom fit together, if nobody writes    *)
(* while the length of a refused message is to be put back.                *)
THEOREM BufferCorrect == ASSUME PutBackAlone PROVE Spec => []IInv
BY StartsCorrect, StepsStayCorrect, PTL DEF Spec

(* The indices stay in the ring, and the assertions of stream_buffer.c:553 *)
(* and 757 hold: nobody is registered when a call is to register its task. *)
THEOREM TypeCorrect == ASSUME PutBackAlone PROVE Spec => []TypeOK
<1>1. IInv => TypeOK
  <2>1. CASE r # "restore"
    BY <2>1 DEF IInv, BufferInv, RingInv, Shape, WakeInv, Registered, TypeOK
  <2>2. CASE r = "restore"
    BY <2>2 DEF IInv, Back!BufferInv, Back!RingInv, Back!Shape, Back!WakeInv, Back!Registered,
                Back!Cell, Cell, TypeOK
  <2> QED
    BY <2>1, <2>2
<1> QED
  BY <1>1, BufferCorrect, PTL

(* What is read is what was written, byte for byte and message for         *)
(* message, with no lock between prvWriteBytesToBuffer and                 *)
(* prvReadBytesFromBuffer, if no writer preempts a reader between lines    *)
(* 934 and 948, or none is ever there: without that premise it is false.   *)
THEOREM BytesIntact == ASSUME PutBackAlone PROVE Spec => []Intact
<1>1. IInv => Intact
  BY DEF IInv, BufferInv, RingInv, Intact
<1> QED
  BY <1>1, BufferCorrect, PTL

(* No wake-up is lost between the checks of xStreamBufferSend and          *)
(* xStreamBufferReceive and the notifications that answer them.            *)
THEOREM NoWakeUpLost == ASSUME PutBackAlone PROVE Spec => []NobodyOversleeps
<1>1. IInv => NobodyOversleeps
  BY DEF IInv, BufferInv, WakeInv, Waits, NobodyOversleeps
<1> QED
  BY <1>1, BufferCorrect, PTL

(* With trigger levels that leave room for the longest send, the two tasks *)
(* never wait for each other.                                              *)
THEOREM OneIsAwake == ASSUME PutBackAlone PROVE Spec => []NeverBothAsleep
<1>1. IInv => NeverBothAsleep
  <2> SUFFICES ASSUME IInv, w = "blocked", ~Notified("writer"), r = "blocked", ~Notified("reader")
               PROVE  FALSE
    BY DEF NeverBothAsleep
  <2>0. BufferInv
    BY DEF IInv
  <2>1. /\ ~(xStreamBufferSpacesAvailable >= xRequiredSpace)
        /\ ~(prvBytesInBuffer >= xTriggerLevelBytes)
    BY <2>0 DEF BufferInv, WakeInv, Waits
  <2>2. /\ xStreamBufferSpacesAvailable = xLength - 1 - prvBytesInBuffer
        /\ prvBytesInBuffer \in Nat /\ xTriggerLevelBytes \in Nat /\ xLength \in Nat
        /\ xTriggerLevelBytes + MaxSend + LengthBytes <= xLength
        /\ MaxSend \in Nat /\ send.length \in Nat /\ send.length <= MaxSend
        /\ LengthBytes \in Nat
    BY <2>0, BytesIs, LengthIs DEF BufferInv, RingInv, Shape, TriggerLevels, LengthBytes
  <2> QED
    BY <2>1, <2>2 DEF xRequiredSpace
<1> QED
  BY <1>1, BufferCorrect, PTL
=============================================================================
