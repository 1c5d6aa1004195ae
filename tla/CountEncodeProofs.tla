-------------------------- MODULE CountEncodeProofs --------------------------
(***************************************************************************)
(* The counts of CountEncode are complete for every file, every size of    *)
(* the buffer and of the pipe, whatever fails and whoever is killed.       *)
(***************************************************************************)
EXTENDS CountEncode, TLAPS

Length(positions, i) == positions[i] - At(positions, i - 1)

\* The counts in queue are those of the pieces after the first n.
Carries(queue, n, pieces) ==
  \A i \in 1 .. Len(queue) :
    n + i \in 1 .. Len(pieces) /\ queue[i] = Length(pieces, n + i)

\* Every piece fits the buffer and is cut short by a newline only.
Fits(pieces, lines) ==
  \A i \in 1 .. Len(pieces) :
    /\ Length(pieces, i) \in 1 .. MaxPiece
    /\ Length(pieces, i) < MaxPiece => pieces[i] \in Ends(lines)

\* rest is the part of lines that the pieces have not reached.
Remains(rest, lines, pieces) ==
  /\ Len(rest) <= Len(lines)
  /\ \A i \in 1 .. Len(rest) : rest[i] = lines[Len(lines) - Len(rest) + i]
  /\ \A i \in 1 .. Len(lines) - Len(rest) : lines[i] \in Ends(pieces)
  /\ rest # <<>> => At(pieces, Len(pieces)) < rest[1]
  /\ rest = <<>> => At(pieces, Len(pieces)) = At(lines, Len(lines))

Types ==
  /\ input \in Inputs
  /\ file \in Seq(Nat) /\ read \in Seq(Nat)
  /\ filew \in Seq(Int) /\ pipe \in Seq(Int)
  /\ printed \in Seq(Int) /\ output \in Seq(Int)

\* Where the counts are: printed, in the pipe, or still in count.
Queues ==
  /\ Len(read) = Len(printed) + Len(pipe) + Len(filew)
  /\ Carries(printed, 0, read)
  /\ Carries(pipe, Len(printed), read)
  /\ Carries(filew, Len(printed) + Len(pipe), read)

Stages ==
  /\ parent \in {"wait", "ended"} => file = <<>> /\ filew = <<>>
  /\ child = "done" => pipe = <<>> /\ output = printed

CountInv ==
  /\ Types
  /\ Queues
  /\ Fits(read, input)
  /\ Remains(file, input, read)
  /\ Stages

-----------------------------------------------------------------------------
(* A later piece changes none of the earlier ones. *)
LEMMA LengthAppend ==
  ASSUME NEW r \in Seq(Nat), NEW x \in Nat, NEW i \in 1 .. Len(r)
  PROVE  /\ Append(r, x)[i] = r[i]
         /\ Length(Append(r, x), i) = Length(r, i)
  BY DEF Length, At

(* The last piece reaches from the one before it to its own end. *)
LEMMA LengthLast ==
  ASSUME NEW r \in Seq(Nat), NEW x \in Nat
  PROVE  /\ Len(Append(r, x)) = Len(r) + 1
         /\ Append(r, x)[Len(r) + 1] = x
         /\ Length(Append(r, x), Len(r) + 1) = x - At(r, Len(r))
  BY DEF Length, At

(* What waits to be printed stays right when another piece is read. *)
LEMMA CarriesMore ==
  ASSUME NEW q \in Seq(Int), NEW n \in Nat, NEW r \in Seq(Nat), NEW x \in Nat,
         Carries(q, n, r)
  PROVE  Carries(q, n, Append(r, x))
<1>1. ASSUME NEW i \in 1 .. Len(q)
      PROVE  n + i \in 1 .. Len(Append(r, x)) /\ q[i] = Length(Append(r, x), n + i)
  <2>1. n + i \in 1 .. Len(r) /\ q[i] = Length(r, n + i)
    BY DEF Carries
  <2> QED
    BY <2>1, LengthAppend, LengthLast
<1> QED
  BY <1>1 DEF Carries

(* A count that is appended is that of the next piece. *)
LEMMA CarriesAppend ==
  ASSUME NEW q \in Seq(Int), NEW n \in Nat, NEW r \in Seq(Nat), NEW l \in Int,
         Carries(q, n, r), n + Len(q) + 1 \in 1 .. Len(r),
         l = Length(r, n + Len(q) + 1)
  PROVE  Carries(Append(q, l), n, r)
<1>1. ASSUME NEW i \in 1 .. Len(Append(q, l))
      PROVE  n + i \in 1 .. Len(r) /\ Append(q, l)[i] = Length(r, n + i)
  <2>1. CASE i \in 1 .. Len(q)
    <3>1. Append(q, l)[i] = q[i]
      BY <2>1
    <3> QED
      BY <2>1, <3>1 DEF Carries
  <2>2. CASE i = Len(q) + 1
    <3>1. Append(q, l)[i] = l
      BY <2>2
    <3>2. n + i = n + Len(q) + 1
      BY <2>2
    <3> QED
      BY <3>1, <3>2
  <2> QED
    BY <2>1, <2>2
<1> QED
  BY <1>1 DEF Carries

(* A count that is taken leaves those of the later pieces. *)
LEMMA CarriesTail ==
  ASSUME NEW q \in Seq(Int), NEW n \in Nat, NEW r \in Seq(Nat),
         Carries(q, n, r), q # <<>>
  PROVE  /\ n + 1 \in 1 .. Len(r) /\ Head(q) = Length(r, n + 1)
         /\ Carries(Tail(q), n + 1, r)
<1>1. Len(q) \in Nat /\ Len(q) >= 1 /\ Head(q) = q[1]
  OBVIOUS
<1>2. n + 1 \in 1 .. Len(r) /\ Head(q) = Length(r, n + 1)
  BY <1>1 DEF Carries
<1>3. ASSUME NEW i \in 1 .. Len(Tail(q))
      PROVE  n + 1 + i \in 1 .. Len(r) /\ Tail(q)[i] = Length(r, n + 1 + i)
  <2>1. i + 1 \in 1 .. Len(q) /\ Tail(q)[i] = q[i + 1]
    OBVIOUS
  <2>2. n + (i + 1) = n + 1 + i
    OBVIOUS
  <2> QED
    BY <2>1, <2>2 DEF Carries
<1> QED
  BY <1>2, <1>3 DEF Carries

(* An empty queue carries nothing. *)
LEMMA CarriesNothing ==
  ASSUME NEW n, NEW r PROVE Carries(<<>>, n, r)
  BY DEF Carries

(* Ends of lines that were read are read, also after another piece. *)
LEMMA EndsAppend ==
  ASSUME NEW r \in Seq(Nat), NEW x \in Nat
  PROVE  Ends(r) \subseteq Ends(Append(r, x)) /\ x \in Ends(Append(r, x))
<1>1. Len(r) + 1 \in DOMAIN Append(r, x) /\ Append(r, x)[Len(r) + 1] = x
  OBVIOUS
<1>2. ASSUME NEW i \in DOMAIN r PROVE i \in DOMAIN Append(r, x) /\ r[i] = Append(r, x)[i]
  OBVIOUS
<1> QED
  BY <1>1, <1>2 DEF Ends

(* A piece that fits follows pieces that fit. *)
LEMMA FitsAppend ==
  ASSUME NEW r \in Seq(Nat), NEW x \in Nat, NEW lines, Fits(r, lines),
         x - At(r, Len(r)) \in 1 .. MaxPiece,
         x - At(r, Len(r)) < MaxPiece => x \in Ends(lines)
  PROVE  Fits(Append(r, x), lines)
<1>1. ASSUME NEW i \in 1 .. Len(Append(r, x))
      PROVE  /\ Length(Append(r, x), i) \in 1 .. MaxPiece
             /\ Length(Append(r, x), i) < MaxPiece => Append(r, x)[i] \in Ends(lines)
  <2>1. CASE i \in 1 .. Len(r)
    BY <2>1, LengthAppend DEF Fits
  <2>2. CASE i = Len(r) + 1
    BY <2>2, LengthLast
  <2> QED
    BY <2>1, <2>2, LengthLast
<1> QED
  BY <1>1 DEF Fits

-----------------------------------------------------------------------------
(* The piece of CountPiece fits, and what it leaves remains. *)
LEMMA PieceFits ==
  ASSUME NEW lines \in Inputs, NEW r \in Seq(Nat), NEW rest \in Seq(Nat), rest # <<>>,
         Remains(rest, lines, r), NEW l,
         l = IF Head(rest) - At(r, Len(r)) <= MaxPiece
             THEN Head(rest) - At(r, Len(r)) ELSE MaxPiece
  PROVE  /\ l \in 1 .. MaxPiece
         /\ At(r, Len(r)) + l \in Nat
         /\ l < MaxPiece => At(r, Len(r)) + l \in Ends(lines)
<1>1. MaxPiece \in Nat \ {0} /\ lines \in Seq(Nat)
  BY PiecesAssumption DEF IsFile
<1>2. At(r, Len(r)) \in Nat
  BY DEF At
<1>3. Head(rest) = rest[1] /\ Head(rest) \in Nat /\ Len(rest) \in Nat /\ Len(rest) >= 1
  OBVIOUS
<1>4. At(r, Len(r)) < Head(rest)
  BY <1>3 DEF Remains
<1>5. l \in 1 .. MaxPiece /\ At(r, Len(r)) + l \in Nat
  <2>1. CASE Head(rest) - At(r, Len(r)) <= MaxPiece
    <3>1. l = Head(rest) - At(r, Len(r))
      BY <2>1
    <3> QED
      BY <1>1, <1>2, <1>3, <1>4, <2>1, <3>1
  <2>2. CASE ~(Head(rest) - At(r, Len(r)) <= MaxPiece)
    <3>1. l = MaxPiece
      BY <2>2
    <3> QED
      BY <1>1, <1>2, <3>1
  <2> QED
    BY <2>1, <2>2
<1>6. Head(rest) \in Ends(lines)
  <2>1. rest[1] = lines[Len(lines) - Len(rest) + 1] /\ Len(rest) <= Len(lines)
    BY <1>3 DEF Remains
  <2>2. Len(lines) - Len(rest) + 1 \in DOMAIN lines
    BY <1>1, <1>3, <2>1
  <2> QED
    BY <1>3, <2>1, <2>2 DEF Ends
<1>7. l < MaxPiece => At(r, Len(r)) + l = Head(rest)
  BY <1>1, <1>2, <1>3
<1> QED
  BY <1>5, <1>6, <1>7

(* A full buffer leaves the line, a newline ends it. *)
LEMMA RemainsStep ==
  ASSUME NEW lines \in Inputs, NEW r \in Seq(Nat), NEW rest \in Seq(Nat), rest # <<>>,
         Remains(rest, lines, r), NEW x \in Nat,
         x <= Head(rest)
  PROVE  Remains(IF x = Head(rest) THEN Tail(rest) ELSE rest, lines, Append(r, x))
<1>1. lines \in Seq(Nat) /\ \A i \in 1 .. Len(lines) : lines[i] > At(lines, i - 1)
  BY PiecesAssumption DEF IsFile
<1>2. Head(rest) = rest[1] /\ Head(rest) \in Nat /\ Len(rest) \in Nat /\ Len(rest) >= 1
  OBVIOUS
<1>3. At(Append(r, x), Len(Append(r, x))) = x
  BY DEF At
<1>4. /\ Len(rest) <= Len(lines) /\ Len(lines) \in Nat
      /\ \A i \in 1 .. Len(rest) : rest[i] = lines[Len(lines) - Len(rest) + i]
      /\ \A i \in 1 .. Len(lines) - Len(rest) : lines[i] \in Ends(r)
  BY <1>1 DEF Remains
<1>5. \A i \in 1 .. Len(lines) - Len(rest) : lines[i] \in Ends(Append(r, x))
  BY <1>4, EndsAppend
<1>6. CASE x # Head(rest)
  BY <1>2, <1>3, <1>4, <1>5, <1>6 DEF Remains
<1>7. CASE x = Head(rest)
  <2> DEFINE k == Len(lines) - Len(rest) + 1
             tail == Tail(rest)
  <2>1. /\ tail \in Seq(Nat) /\ Len(tail) = Len(rest) - 1
        /\ \A i \in 1 .. Len(tail) : tail[i] = rest[i + 1]
    BY <1>2
  <2> HIDE DEF tail
  <2>2. k \in 1 .. Len(lines) /\ lines[k] = x /\ k = Len(lines) - Len(tail)
    BY <1>2, <1>4, <1>7, <2>1
  <2>3. ASSUME NEW i \in 1 .. Len(tail) PROVE tail[i] = lines[Len(lines) - Len(tail) + i]
    <3>1. tail[i] = rest[i + 1] /\ i + 1 \in 1 .. Len(rest)
      BY <1>2, <2>1
    <3>2. Len(lines) - Len(rest) + (i + 1) = Len(lines) - Len(tail) + i
      BY <1>2, <1>4, <2>1
    <3> QED
      BY <1>4, <3>1, <3>2
  <2>4. ASSUME NEW i \in 1 .. Len(lines) - Len(tail) PROVE lines[i] \in Ends(Append(r, x))
    <3>1. CASE i = k
      BY <2>2, <3>1, EndsAppend
    <3>2. CASE i # k
      BY <1>2, <1>4, <1>5, <2>1, <2>2, <3>2
    <3> QED
      BY <3>1, <3>2
  <2>5. tail # <<>> => x < tail[1]
    <3>1. SUFFICES ASSUME tail # <<>> PROVE x < tail[1]
      OBVIOUS
    <3>2. 1 \in 1 .. Len(tail) /\ tail[1] = lines[k + 1] /\ k + 1 \in 1 .. Len(lines)
      BY <1>2, <1>4, <2>1, <2>2, <2>3, <3>1
    <3>3. At(lines, k) = x
      BY <2>2 DEF At
    <3>4. lines[k + 1] > At(lines, k)
      BY <1>1, <2>2, <3>2
    <3> QED
      BY <2>2, <3>2, <3>3, <3>4
  <2>6. tail = <<>> => x = At(lines, Len(lines))
    <3>1. SUFFICES ASSUME tail = <<>> PROVE x = At(lines, Len(lines))
      OBVIOUS
    <3>2. Len(tail) = 0
      BY <3>1
    <3>3. k = Len(lines)
      BY <1>4, <2>2, <3>2
    <3> QED
      BY <2>2, <3>3 DEF At
  <2>7. Len(tail) <= Len(lines)
    BY <1>2, <1>4, <2>1
  <2>8. Remains(tail, lines, Append(r, x))
    BY <1>3, <2>3, <2>4, <2>5, <2>6, <2>7 DEF Remains
  <2> QED
    BY <1>7, <2>8 DEF tail
<1> QED
  BY <1>6, <1>7

-----------------------------------------------------------------------------
(* CountPiece keeps the counts, the file and the pieces in step. *)
LEMMA CountPieceInv == CountInv /\ CountPiece => CountInv'
<1> SUFFICES ASSUME CountInv, CountPiece PROVE CountInv'
  OBVIOUS
<1> DEFINE remaining == Head(file) - Offset
           l == IF remaining <= MaxPiece THEN remaining ELSE MaxPiece
           x == Offset + l
<1>1. /\ input \in Inputs /\ file \in Seq(Nat) /\ file # <<>> /\ read \in Seq(Nat)
      /\ filew \in Seq(Int) /\ pipe \in Seq(Int) /\ printed \in Seq(Int) /\ output \in Seq(Int)
      /\ parent = "read"
      /\ Len(read) = Len(printed) + Len(pipe) + Len(filew)
  BY DEF CountInv, Types, Queues, CountPiece
<1>2. /\ file' = IF remaining <= MaxPiece THEN Tail(file) ELSE file
      /\ read' = Append(read, x) /\ filew' = Append(filew, l)
      /\ UNCHANGED <<input, pipe, printed, output, parent, child>>
  BY DEF CountPiece
<1>3. Remains(file, input, read) /\ Fits(read, input)
  BY DEF CountInv
<1>4. l \in 1 .. MaxPiece /\ x \in Nat /\ (l < MaxPiece => x \in Ends(input))
  BY <1>1, <1>3, PieceFits DEF Offset
<1>5. Offset \in Nat /\ Head(file) \in Nat /\ MaxPiece \in Nat
  BY <1>1, PiecesAssumption DEF Offset, At
<1>6. x - Offset = l /\ x <= Head(file) /\ (remaining <= MaxPiece <=> x = Head(file))
  <2>1. l # MaxPiece => remaining <= MaxPiece
    OBVIOUS
  <2> QED
    BY <1>4, <1>5
<1> HIDE DEF l, x, remaining
<1>7. Remains(file', input, Append(read, x))
  BY <1>1, <1>2, <1>3, <1>4, <1>6, RemainsStep
<1>8. Fits(Append(read, x), input)
  BY <1>1, <1>3, <1>4, <1>6, FitsAppend DEF Offset
<1>9. Types'
  BY <1>1, <1>2, <1>4, <1>5 DEF Types
<1>10. Queues'
  <2>1. /\ Carries(printed, 0, read) /\ Carries(pipe, Len(printed), read)
        /\ Carries(filew, Len(printed) + Len(pipe), read)
    BY DEF CountInv, Queues
  <2>2. Len(printed) \in Nat /\ Len(pipe) \in Nat /\ Len(filew) \in Nat
    BY <1>1
  <2>3. l \in Int /\ Append(read, x) \in Seq(Nat) /\ Len(Append(read, x)) = Len(read) + 1
    BY <1>1, <1>4, <1>5
  <2>4. /\ Carries(printed, 0, Append(read, x)) /\ Carries(pipe, Len(printed), Append(read, x))
        /\ Carries(filew, Len(printed) + Len(pipe), Append(read, x))
    BY <1>1, <1>4, <2>1, <2>2, CarriesMore
  <2>5. Length(Append(read, x), Len(printed) + Len(pipe) + Len(filew) + 1) = l
    BY <1>1, <1>4, <1>6, <2>2, LengthLast DEF Offset
  <2>6. Carries(Append(filew, l), Len(printed) + Len(pipe), Append(read, x))
    <3>1. /\ Len(printed) + Len(pipe) \in Nat
          /\ Len(printed) + Len(pipe) + Len(filew) + 1 \in 1 .. Len(Append(read, x))
      BY <1>1, <2>2, <2>3
    <3> QED
      BY <1>1, <2>3, <2>4, <2>5, <3>1, CarriesAppend
  <2>7. Len(Append(filew, l)) = Len(filew) + 1
    BY <1>1, <2>3
  <2>8. Len(read') = Len(printed') + Len(pipe') + Len(filew')
    BY <1>1, <1>2, <2>2, <2>3, <2>7
  <2> QED
    BY <1>2, <2>4, <2>6, <2>8 DEF Queues
<1>11. Stages'
  BY <1>1, <1>2 DEF CountInv, Stages
<1> QED
  BY <1>2, <1>7, <1>8, <1>9, <1>10, <1>11 DEF CountInv

(* A count moves from the stream into the pipe. *)
LEMMA WriteCountInv == CountInv /\ WriteCount => CountInv'
<1> SUFFICES ASSUME CountInv, WriteCount PROVE CountInv'
  OBVIOUS
<1>1. /\ Types /\ parent = "read" /\ filew # <<>>
      /\ UNCHANGED <<input, file, read, printed, output, child>>
      /\ Fits(read, input) /\ Remains(file, input, read)
  BY DEF CountInv, WriteCount
<1>2. CASE ChildGone
  <2>1. parent' = "killed" /\ UNCHANGED <<filew, pipe>>
    BY <1>2 DEF WriteCount
  <2> QED
    BY <1>1, <2>1 DEF CountInv, Types, Queues, Stages
<1>3. CASE ~ChildGone
  <2>1. pipe' = Append(pipe, Head(filew)) /\ filew' = Tail(filew) /\ UNCHANGED parent
    BY <1>3 DEF WriteCount
  <2>2. child # "done"
    BY <1>3 DEF ChildGone
  <2>3. Head(filew) \in Int /\ filew \in Seq(Int) /\ pipe \in Seq(Int) /\ printed \in Seq(Int)
        /\ read \in Seq(Nat)
    BY <1>1 DEF Types
  <2>4. Len(pipe') = Len(pipe) + 1 /\ Len(filew') = Len(filew) - 1 /\ Len(filew) \in Nat
        /\ Len(pipe) \in Nat /\ Len(printed) \in Nat /\ Len(filew) >= 1
    BY <1>1, <2>1, <2>3
  <2>5. /\ Carries(pipe, Len(printed), read)
        /\ Carries(filew, Len(printed) + Len(pipe), read)
        /\ Len(read) = Len(printed) + Len(pipe) + Len(filew)
        /\ Carries(printed, 0, read)
    BY DEF CountInv, Queues
  <2>6. Len(printed) + Len(pipe) \in Nat
    BY <2>4
  <2>7. /\ Len(printed) + Len(pipe) + 1 \in 1 .. Len(read)
        /\ Head(filew) = Length(read, Len(printed) + Len(pipe) + 1)
        /\ Carries(Tail(filew), Len(printed) + Len(pipe) + 1, read)
    BY <1>1, <2>3, <2>5, <2>6, CarriesTail
  <2>8. Carries(Append(pipe, Head(filew)), Len(printed), read)
    BY <2>3, <2>4, <2>5, <2>7, CarriesAppend
  <2>9. Queues'
    <3>1. Len(printed) + Len(pipe) + 1 = Len(printed) + Len(pipe')
      BY <2>4
    <3>2. Len(read) = Len(printed) + Len(pipe') + Len(filew')
      BY <2>4, <2>5
    <3> QED
      BY <1>1, <2>1, <2>5, <2>7, <2>8, <3>1, <3>2 DEF Queues
  <2>10. Types'
    BY <1>1, <2>1, <2>3 DEF Types
  <2>11. Stages'
    BY <1>1, <2>1, <2>2 DEF CountInv, Stages
  <2> QED
    BY <1>1, <2>9, <2>10, <2>11 DEF CountInv
<1> QED
  BY <1>2, <1>3

(* A count moves from the pipe to the output. *)
LEMMA EncodeInv == CountInv /\ Encode => CountInv'
<1> SUFFICES ASSUME CountInv, Encode PROVE CountInv'
  OBVIOUS
<1>1. /\ child = "encode" /\ pipe # <<>>
      /\ printed' = Append(printed, Head(pipe)) /\ pipe' = Tail(pipe)
      /\ UNCHANGED <<input, file, read, filew, output, parent, child>>
  BY DEF Encode
<1>2. /\ Types /\ Fits(read, input) /\ Remains(file, input, read)
      /\ filew \in Seq(Int) /\ pipe \in Seq(Int) /\ printed \in Seq(Int) /\ read \in Seq(Nat)
  BY DEF CountInv, Types
<1>3. Head(pipe) \in Int /\ Len(printed') = Len(printed) + 1 /\ Len(pipe') = Len(pipe) - 1
      /\ Len(pipe) \in Nat /\ Len(printed) \in Nat /\ Len(pipe) >= 1 /\ Len(filew) \in Nat
  BY <1>1, <1>2
<1>4. /\ Carries(printed, 0, read) /\ Carries(pipe, Len(printed), read)
      /\ Carries(filew, Len(printed) + Len(pipe), read)
      /\ Len(read) = Len(printed) + Len(pipe) + Len(filew)
  BY DEF CountInv, Queues
<1>5. /\ Len(printed) + 1 \in 1 .. Len(read) /\ Head(pipe) = Length(read, Len(printed) + 1)
      /\ Carries(Tail(pipe), Len(printed) + 1, read)
  BY <1>1, <1>2, <1>3, <1>4, CarriesTail
<1>6. Carries(Append(printed, Head(pipe)), 0, read)
  <2>1. 0 + Len(printed) + 1 = Len(printed) + 1 /\ 0 \in Nat
    BY <1>3
  <2> QED
    BY <1>2, <1>3, <1>4, <1>5, <2>1, CarriesAppend
<1>7. Queues'
  <2>1. /\ Len(printed') + Len(pipe') = Len(printed) + Len(pipe)
        /\ Len(read) = Len(printed') + Len(pipe') + Len(filew)
    BY <1>3, <1>4
  <2> QED
    BY <1>1, <1>3, <1>4, <1>5, <1>6, <2>1 DEF Queues
<1>8. Types'
  BY <1>1, <1>2, <1>3 DEF Types
<1>9. Stages'
  BY <1>1 DEF CountInv, Stages
<1> QED
  BY <1>1, <1>2, <1>7, <1>8, <1>9 DEF CountInv

(***************************************************************************)
(* No step of count, of its child or of a signal that ends the child loses *)
(* a count or makes one up.                                                *)
(***************************************************************************)
LEMMA CountInvInductive == CountInv /\ [CountNext]_countVars => CountInv'
<1> SUFFICES ASSUME CountInv, [CountNext]_countVars PROVE CountInv'
  OBVIOUS
<1> USE DEF CountInv, Types, Queues, Stages
<1>1. CASE Fork
  BY <1>1 DEF Fork
<1>2. CASE OpenInput
  <2>1. parent' # "wait" /\ parent' # "ended"
        /\ UNCHANGED <<input, file, read, filew, pipe, printed, output, child>>
    BY <1>2 DEF OpenInput
  <2> QED
    BY <2>1
<1>3. CASE CountPiece
  BY <1>3, CountPieceInv
<1>4. CASE WriteCount
  BY <1>4, WriteCountInv
<1>5. CASE CloseFiles
  BY <1>5 DEF CloseFiles
<1>6. CASE Wait
  BY <1>6 DEF Wait
<1>7. CASE OpenOutput
  <2>1. child' # "done" /\ UNCHANGED <<input, file, read, filew, pipe, printed, output, parent>>
    BY <1>7 DEF OpenOutput
  <2> QED
    BY <2>1
<1>8. CASE Exec
  <2>1. child' # "done" /\ UNCHANGED <<input, file, read, filew, pipe, printed, output, parent>>
    BY <1>8 DEF Exec
  <2> QED
    BY <2>1
<1>9. CASE Encode
  BY <1>9, EncodeInv
<1>10. CASE EndOfInput
  BY <1>10 DEF EndOfInput
<1>11. CASE KillChild
  BY <1>11 DEF KillChild
<1>12. CASE UNCHANGED countVars
  BY <1>12 DEF countVars
<1> QED
  BY <1>1, <1>2, <1>3, <1>4, <1>5, <1>6, <1>7, <1>8, <1>9, <1>10, <1>11, <1>12
  DEF CountNext, ParentStep, ChildStep

(* At the start nothing is read and everything is left. *)
LEMMA CountInvInit == CountInit => CountInv
<1> SUFFICES ASSUME CountInit PROVE CountInv
  OBVIOUS
<1>1. /\ input \in Inputs /\ file = input /\ parent = "fork" /\ child = "none"
      /\ read = <<>> /\ filew = <<>> /\ pipe = <<>> /\ printed = <<>> /\ output = <<>>
  BY DEF CountInit
<1>2. input \in Seq(Nat) /\ \A i \in DOMAIN input : input[i] > At(input, i - 1)
  BY <1>1, PiecesAssumption DEF IsFile
<1>3. Types
  BY <1>1, <1>2 DEF Types
<1>4. Queues
  BY <1>1, CarriesNothing DEF Queues
<1>5. Fits(read, input)
  BY <1>1 DEF Fits
<1>6. Remains(file, input, read)
  <2>1. At(read, Len(read)) = 0 /\ At(input, 0) = 0
    BY <1>1 DEF At
  <2>2. file # <<>> => 0 < file[1]
    <3>1. SUFFICES ASSUME input # <<>> PROVE 0 < input[1]
      BY <1>1
    <3>2. 1 \in DOMAIN input /\ input[1] > At(input, 1 - 1)
      BY <1>2, <3>1
    <3> QED
      BY <2>1, <3>2
  <2>3. Len(input) \in Nat
    BY <1>2
  <2>4. file = <<>> => Len(input) = 0
    BY <1>1
  <2> QED
    BY <1>1, <2>1, <2>2, <2>3, <2>4 DEF Remains
<1>7. Stages
  BY <1>1 DEF Stages
<1> QED
  BY <1>3, <1>4, <1>5, <1>6, <1>7 DEF CountInv

(***************************************************************************)
(* CountsComplete for every file, buffer and pipe: if count and its child  *)
(* came to their ends, whatever the order of their steps, the output       *)
(* counts every character of the file once, line by line.                  *)
(***************************************************************************)
THEOREM CountsCompleteAlways == CountSpec => []CountsComplete
<1>1. CountInv => CountsComplete
  <2> SUFFICES ASSUME CountInv, parent = "ended", child = "done"
      PROVE  /\ Len(output) = Len(read)
             /\ \A i \in DOMAIN output :
                  /\ output[i] \in 1 .. MaxPiece
                  /\ read[i] = At(read, i - 1) + output[i]
                  /\ output[i] < MaxPiece => read[i] \in Ends(input)
             /\ Offset = At(input, Len(input))
             /\ Ends(input) \subseteq Ends(read)
    BY DEF CountsComplete
  <2>1. file = <<>> /\ filew = <<>> /\ pipe = <<>> /\ output = printed
    BY DEF CountInv, Stages
  <2>2. input \in Inputs /\ read \in Seq(Nat) /\ printed \in Seq(Int)
    BY DEF CountInv, Types
  <2>3. Len(output) = Len(read)
    BY <2>1, <2>2 DEF CountInv, Queues
  <2>4. ASSUME NEW i \in DOMAIN output
        PROVE  /\ output[i] \in 1 .. MaxPiece
               /\ read[i] = At(read, i - 1) + output[i]
               /\ output[i] < MaxPiece => read[i] \in Ends(input)
    <3>1. i \in 1 .. Len(read) /\ i \in 1 .. Len(printed) /\ 0 + i = i
      BY <2>1, <2>2, <2>3
    <3>2. output[i] = Length(read, i)
      BY <2>1, <3>1 DEF CountInv, Queues, Carries
    <3>3. read[i] \in Nat /\ At(read, i - 1) \in Nat
      BY <2>2, <3>1 DEF At
    <3>4. read[i] = At(read, i - 1) + output[i]
      BY <3>2, <3>3 DEF Length
    <3>5. /\ Length(read, i) \in 1 .. MaxPiece
          /\ Length(read, i) < MaxPiece => read[i] \in Ends(input)
      BY <3>1 DEF CountInv, Fits
    <3> QED
      BY <3>2, <3>4, <3>5
  <2>5. Remains(<<>>, input, read)
    BY <2>1 DEF CountInv
  <2>6. Offset = At(input, Len(input))
    BY <2>5 DEF Remains, Offset
  <2>7. Ends(input) \subseteq Ends(read)
    <3>1. input \in Seq(Nat) /\ Len(<<>>) = 0
      BY <2>2, PiecesAssumption DEF IsFile
    <3>2. \A i \in 1 .. Len(input) : input[i] \in Ends(read)
      BY <2>5, <3>1 DEF Remains
    <3> QED
      BY <3>1, <3>2 DEF Ends
  <2> QED
    BY <2>3, <2>4, <2>6, <2>7
<1> QED
  BY <1>1, CountInvInit, CountInvInductive, PTL DEF CountSpec

=============================================================================
