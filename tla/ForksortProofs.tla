--------------------------- MODULE ForksortProofs ---------------------------
(***************************************************************************)
(* Proofs about Forksort, for inputs, process trees and pipes of any size, *)
(* failing forks and killed processes.                                     *)
(***************************************************************************)
EXTENDS Forksort, SequenceTheorems, FiniteSetTheorems, WellFoundedInduction, TLAPS

\* Which child of its parent c is.
Slot(c) == c[Len(c)]

Early == {"unborn", "number"}

\* The process still reads, or never forks.
Leaf == {"unborn", "number", "read", "print"}

\* p has read all its lines and forks.
Forking(k) == {Fork(k), Count(k), Feed(k), Wait(k), Collect(k)}

\* p is busy with its child k: it may still get lines from it.
Serving(k) == {Count(k), Feed(k), Wait(k), Collect(k)}

\* The local variables of a process.
Local(p) ==
  /\ pc[p] \in Early =>
       /\ n[p] = 0 /\ strings[p] = <<>>
       /\ sent[p] = 0
  /\ pc[p] \in Leaf \cup {"fork1", "count1", "feed1", "wait1"} =>
       sub[p][1] = <<>>
  /\ pc[p] \notin {"merge", "ok", "failed"} \cup {"collect2"} => sub[p][2] = <<>>
  /\ pc[p] = "unborn" => stdin[p] = <<>>
  /\ pc[p] = "read" => Len(strings[p]) < n[p]
  /\ pc[p] \notin Early \cup {"failed"} => n[p] >= 1
  /\ pc[p] \notin Early \cup {"failed", "read"} => Len(strings[p]) = n[p]
  /\ pc[p] = "print" => n[p] = 1
  /\ \A k \in Child :
       /\ pc[p] \in Forking(k) \cup {"merge"} => n[p] >= 2
       /\ pc[p] = Count(k) => sent[p] = 0
       /\ pc[p] = Feed(k) => sent[p] <= Size(p, k)
       /\ pc[p] = Collect(k) => Len(sub[p][k]) < Size(p, k)
  /\ pc[p] \in Forking(2) => Len(sub[p][1]) = Size(p, 1)
  /\ pc[p] = "ok" /\ n[p] # 1 => \A k \in Child : sub[p][k] = <<>>
  /\ pc[p] # "failed" => sent[p] <= n[p] /\ \A k \in Child : Len(sub[p][k]) <= Size(p, k)

\* What c has taken from its stdin: the number and some lines.
Taken(c) == IF n[c] = 0 THEN 0 ELSE 1 + Len(strings[c])

\* The i-th item of what p has to tell child k.
Item(p, k, i) == IF i = 1 THEN Size(p, k) ELSE strings[p][Offset(p, k) + i - 1]

\* c and its parent.
Link(p, k, c) ==
  /\ pc[c] # "unborn" =>
       /\ n[p] >= 2 /\ Len(strings[p]) = n[p]
       /\ pc[p] \notin Leaf \cup {"fork1"}
       /\ k = 2 => pc[p] \notin Forking(1) \cup {"fork2"}
  /\ pc[p] \in Serving(k) => pc[c] # "unborn"
  /\ pc[p] = Collect(k) => pc[c] \in Ended
  /\ n[c] \in {0, Size(p, k)}
  /\ Len(strings[c]) <= n[c]
  /\ \A i \in 1 .. Len(strings[c]) : strings[c][i] = strings[p][Offset(p, k) + i]
  /\ pc[c] \notin Ended \cup {"unborn"} =>
       /\ Taken(c) + Len(stdin[c]) <= Size(p, k) + 1
       /\ \A i \in 1 .. Len(stdin[c]) : stdin[c][i] = Item(p, k, Taken(c) + i)
       /\ pc[p] = Count(k) => Taken(c) + Len(stdin[c]) = 0
       /\ pc[p] = Feed(k) => Taken(c) + Len(stdin[c]) = 1 + sent[p]

\* The root and what the user typed.
Typed ==
  /\ input \in Inputs
  /\ pc[Root] # "unborn"
  /\ pc[Root] = "number" => stdin[Root] = input
  /\ n[Root] >= 1 => input # <<>> /\ n[Root] = input[1]
  /\ n[Root] >= 1 => Len(strings[Root]) <= n[Root]
  /\ Len(strings[Root]) < Len(input) \/ strings[Root] = <<>>
  /\ \A i \in 1 .. Len(strings[Root]) : strings[Root][i] = input[i + 1]
  /\ pc[Root] = "read" =>
       /\ Len(strings[Root]) + Len(stdin[Root]) + 1 = Len(input)
       /\ \A i \in 1 .. Len(stdin[Root]) :
            stdin[Root][i] = input[Len(strings[Root]) + 1 + i]

\* q does not run, and no line of it is left.
Quiet(q) == pc[q] \in Ended \cup {"unborn"} /\ (q # Root => stdout[q] = <<>>)

\* The tree of the child k of p.
Tree(p, k) ==
  {q \in Procs : /\ Len(q) > Len(p) /\ q[Len(p) + 1] = k
                 /\ \A i \in 1 .. Len(p) : q[i] = p[i]}

Silent(p, k) == \A q \in Tree(p, k) : Quiet(q)

\* Nothing moves in a tree that is not served.
Still(p) == \A k \in Child : pc[p] \notin Serving(k) \cup {"failed"} => Silent(p, k)

\* What DeepEnough promises of the inputs holds of every process.
Fits(most) == \A p \in Procs : n[p] <= most[Len(p)]

-----------------------------------------------------------------------------
(***************************************************************************)
(* The tree of processes.                                                  *)
(***************************************************************************)
LEMMA ProcIsSeq ==
  /\ \A p \in Procs : p \in Seq(Child) /\ Len(p) \in 0 .. Depth
  /\ \A s \in Seq(Child) : Len(s) <= Depth => s \in Procs
<1>1. ASSUME NEW p \in Procs
      PROVE  p \in Seq(Child) /\ Len(p) \in 0 .. Depth
  <2>1. PICK d \in 0 .. Depth : p \in [1 .. d -> Child]
    BY DEF Procs
  <2>2. d \in Nat
    BY ConstantsAssumption
  <2>. QED
    BY <2>1, <2>2, IsASeq, LenProperties
<1>2. ASSUME NEW s \in Seq(Child), Len(s) <= Depth
      PROVE  s \in Procs
  <2>1. Len(s) \in 0 .. Depth /\ s \in [1 .. Len(s) -> Child]
    BY <1>2, LenProperties, ConstantsAssumption
  <2>. QED
    BY <2>1 DEF Procs
<1>. QED
  BY <1>1, <1>2

LEMMA RootIsProc == Root \in Procs /\ Len(Root) = 0
<1>1. Root \in Seq(Child) /\ Len(Root) = 0
  BY DEF Root
<1>2. Len(Root) <= Depth
  BY ONLY <1>1, ConstantsAssumption
<1>. QED
  BY ONLY <1>1, <1>2, ProcIsSeq

LEMMA ChildIsProc ==
  ASSUME NEW p \in Procs, NEW k \in Child, Len(p) < Depth
  PROVE  LET c == ChildOf(p, k)
         IN  /\ c \in Procs /\ c # Root /\ c # p /\ Len(c) = Len(p) + 1
             /\ Parent(c) = p /\ Slot(c) = k
<1>. DEFINE c == ChildOf(p, k)
<1>1. p \in Seq(Child) /\ Len(p) \in Nat
  BY ProcIsSeq
<1>2. /\ c \in Seq(Child) /\ Len(c) = Len(p) + 1
      /\ \A i \in 1 .. Len(p) : c[i] = p[i]
      /\ c[Len(p) + 1] = k
  BY <1>1, AppendProperties DEF ChildOf
<1>3. c \in Procs
  BY <1>1, <1>2, ProcIsSeq, ConstantsAssumption
<1>4. c # Root /\ c # p
  BY <1>1, <1>2 DEF Root
<1>5. Slot(c) = k
  BY <1>2 DEF Slot
<1>6. Parent(c) = p
  <2>1. Len(c) - 1 = Len(p)
    BY <1>1, <1>2
  <2>2. Parent(c) = SubSeq(c, 1, Len(p))
    BY <2>1 DEF Parent
  <2>3. /\ SubSeq(c, 1, Len(p)) \in Seq(Child)
        /\ Len(SubSeq(c, 1, Len(p))) = Len(p)
        /\ \A i \in 1 .. Len(p) : SubSeq(c, 1, Len(p))[i] = c[i]
    <3>1. \A i \in 1 .. Len(p) : c[i] \in Child
      BY <1>1, <1>2, ElementOfSeq
    <3>. HIDE DEF c
    <3>. QED
      BY <1>1, <3>1, SubSeqProperties
  <2>. QED
    BY <1>1, <1>2, <2>2, <2>3, SeqEqual
<1>. QED
  BY <1>2, <1>3, <1>4, <1>5, <1>6

LEMMA ParentIsProc ==
  ASSUME NEW c \in Procs, c # Root
  PROVE  /\ Parent(c) \in Procs /\ Slot(c) \in Child /\ Parent(c) # c
         /\ Len(Parent(c)) = Len(c) - 1 /\ Len(Parent(c)) < Depth
         /\ ChildOf(Parent(c), Slot(c)) = c
<1>. DEFINE p == Parent(c)
<1>1. c \in Seq(Child) /\ Len(c) \in 1 .. Depth /\ Depth \in Nat
  BY ProcIsSeq, EmptySeq, ConstantsAssumption DEF Root
<1>2. /\ p \in Seq(Child) /\ Len(p) = Len(c) - 1
      /\ \A i \in 1 .. Len(p) : p[i] = c[i]
  <2>. DEFINE m == Len(c) - 1
  <2>1. m \in Nat /\ \A i \in 1 .. m : c[i] \in Child
    BY <1>1, ElementOfSeq
  <2>2. p = SubSeq(c, 1, m)
    BY DEF Parent
  <2>. HIDE DEF m, p
  <2>3. /\ SubSeq(c, 1, m) \in Seq(Child)
        /\ Len(SubSeq(c, 1, m)) = m
        /\ \A i \in 1 .. m : SubSeq(c, 1, m)[i] = c[i]
    BY <2>1, SubSeqProperties
  <2>4. m = Len(c) - 1
    BY DEF m
  <2>. QED
    BY ONLY <2>2, <2>3, <2>4
<1>3. Slot(c) \in Child
  BY <1>1, ElementOfSeq DEF Slot
<1>4. p \in Procs /\ p # c
  BY <1>1, <1>2, ProcIsSeq
<1>5. ChildOf(p, Slot(c)) = c
  <2>1. /\ Append(p, Slot(c)) \in Seq(Child)
        /\ Len(Append(p, Slot(c))) = Len(p) + 1
        /\ \A i \in 1 .. Len(p) : Append(p, Slot(c))[i] = p[i]
        /\ Append(p, Slot(c))[Len(p) + 1] = Slot(c)
    BY <1>2, <1>3, AppendProperties
  <2>2. \A i \in 1 .. Len(c) : Append(p, Slot(c))[i] = c[i]
    BY <1>1, <1>2, <2>1 DEF Slot
  <2>. QED
    BY <1>1, <1>2, <2>1, <2>2, SeqEqual DEF ChildOf
<1>. QED
  BY <1>1, <1>2, <1>3, <1>4, <1>5

\* Upwards, and downwards, in the tree of a child.
LEMMA TreeParent ==
  ASSUME NEW p \in Procs, NEW k \in Child, NEW q \in Tree(p, k)
  PROVE  /\ q \in Procs /\ q # Root /\ Len(p) < Depth
         /\ (Parent(q) = p /\ Slot(q) = k) \/ Parent(q) \in Tree(p, k)
<1>. DEFINE r == Parent(q)
            m == Len(q) - 1
<1>1. /\ p \in Seq(Child) /\ Len(p) \in Nat /\ q \in Procs /\ q \in Seq(Child)
      /\ Len(q) > Len(p) /\ q[Len(p) + 1] = k
      /\ \A i \in 1 .. Len(p) : q[i] = p[i]
  BY ProcIsSeq DEF Tree
<1>2. q # Root /\ Len(p) < Depth
  BY <1>1, ProcIsSeq, ConstantsAssumption DEF Root
<1>3. r \in Procs /\ r \in Seq(Child) /\ Len(r) = m /\ m \in Nat
  BY <1>1, <1>2, ParentIsProc, ProcIsSeq
<1>4. \A i \in 1 .. m : r[i] = q[i]
  <2>1. r = SubSeq(q, 1, m) /\ m \in Nat /\ \A i \in 1 .. m : q[i] \in Child
    BY <1>1, <1>3, ElementOfSeq DEF Parent
  <2>. HIDE DEF m, r
  <2>. QED
    BY <2>1, SubSeqProperties
<1>5. CASE m = Len(p)
  <2>1. r = p
    BY <1>1, <1>3, <1>4, <1>5, SeqEqual
  <2>2. Slot(q) = k
    BY <1>1, <1>5 DEF Slot
  <2>. QED
    BY <1>1, <1>2, <2>1, <2>2
<1>6. CASE m # Len(p)
  <2>1. Len(r) > Len(p)
    BY <1>1, <1>3, <1>6
  <2>4. /\ Len(p) \in Nat /\ Len(p) < m /\ m \in Nat
        /\ \A i \in 1 .. Len(p) : q[i] = p[i]
    BY <1>1, <1>3, <2>1
  <2>5. Len(p) + 1 \in 1 .. m /\ \A i \in 1 .. Len(p) : i \in 1 .. m
    BY <2>4
  <2>2. r[Len(p) + 1] = k /\ \A i \in 1 .. Len(p) : r[i] = p[i]
    BY <1>1, <1>4, <2>4, <2>5
  <2>3. r \in Tree(p, k)
    BY <1>3, <2>1, <2>2 DEF Tree
  <2>. QED
    BY <1>1, <1>2, <2>3
<1>. QED
  BY <1>5, <1>6

LEMMA TreeChildren ==
  ASSUME NEW p \in Procs, NEW k \in Child, NEW q \in Tree(p, k)
  PROVE  q = ChildOf(p, k) \/ \E l \in Child : q \in Tree(ChildOf(p, k), l)
<1>. DEFINE c == ChildOf(p, k)
<1>1. /\ p \in Seq(Child) /\ Len(p) \in Nat /\ q \in Procs /\ q \in Seq(Child)
      /\ Len(q) > Len(p) /\ q[Len(p) + 1] = k
      /\ \A i \in 1 .. Len(p) : q[i] = p[i]
  BY ProcIsSeq DEF Tree
<1>2. /\ c \in Seq(Child) /\ Len(c) = Len(p) + 1
      /\ \A i \in 1 .. Len(p) : c[i] = p[i]
      /\ c[Len(p) + 1] = k
  BY <1>1, AppendProperties DEF ChildOf
<1>. HIDE DEF c
<1>3. \A i \in 1 .. Len(c) : q[i] = c[i]
  BY <1>1, <1>2
<1>4. CASE Len(q) = Len(c)
  BY <1>1, <1>2, <1>3, <1>4, SeqEqual DEF c
<1>5. CASE Len(q) # Len(c)
  <2>1. Len(q) > Len(c) /\ Len(c) + 1 \in 1 .. Len(q)
    BY <1>1, <1>2, <1>5
  <2>2. q[Len(c) + 1] \in Child
    BY <1>1, <2>1, ElementOfSeq
  <2>3. q \in Tree(c, q[Len(c) + 1])
    BY <1>1, <1>3, <2>1 DEF Tree
  <2>. QED
    BY <2>2, <2>3 DEF c
<1>. QED
  BY <1>4, <1>5

LEMMA TreesOfRoot ==
  ASSUME NEW q \in Procs, q # Root
  PROVE  \E k \in Child : q \in Tree(Root, k)
<1>1. q \in Seq(Child) /\ Len(q) > 0 /\ 1 \in 1 .. Len(q)
  BY ProcIsSeq, EmptySeq DEF Root
<1>2. q[1] \in Child
  BY <1>1, ElementOfSeq
<1>3. q \in Tree(Root, q[1])
  BY <1>1, RootIsProc DEF Tree
<1>. QED
  BY <1>2, <1>3

-----------------------------------------------------------------------------
(***************************************************************************)
(* The first part of the invariant: what every process has read is what    *)
(* its parent, or the user, has told it.                                   *)
(***************************************************************************)
Types ==
  /\ pc \in [Procs -> Labels]
  /\ n \in [Procs -> Int]
  /\ strings \in [Procs -> Seq(Int)]
  /\ sub \in [Procs -> [Child -> Seq(Int)]]
  /\ sent \in [Procs -> Nat]
  /\ stdin \in [Procs -> Seq(Int)]
  /\ stdout \in [Procs -> Seq(Int)]
  /\ input \in Seq(Int)

Shape(most) ==
  /\ Types
  /\ \A p \in Procs : Local(p)
  /\ \A c \in Procs \ {Root} : Link(Parent(c), Slot(c), c)
  /\ Typed
  /\ Fits(most)

\* The halves of at least two lines.
LEMMA HalfSizes ==
  ASSUME NEW p \in Procs, n[p] \in Int
  PROVE  /\ n[p] >= 1 => /\ Size(p, 1) \in Nat /\ Size(p, 2) \in Nat
                         /\ Size(p, 1) + Size(p, 2) = n[p]
                         /\ Offset(p, 1) = 0 /\ Offset(p, 2) = Size(p, 1)
         /\ n[p] >= 2 => /\ Size(p, 1) >= 1 /\ Size(p, 2) >= 1
                         /\ Size(p, 1) <= n[p] - n[p] \div 2
                         /\ Size(p, 2) = n[p] - n[p] \div 2
         /\ n[p] = 0 => Size(p, 1) = 0 /\ Size(p, 2) = 0
         /\ n[p] >= 2 => \A k \in Child :
              /\ Size(p, k) \in Nat /\ Size(p, k) >= 1 /\ Size(p, k) < n[p]
              /\ Offset(p, k) \in Nat /\ Offset(p, k) + Size(p, k) <= n[p]
<1>. DEFINE m == n[p]
            h == n[p] \div 2
<1>1. /\ Size(p, 1) = h /\ Size(p, 2) = m - h
      /\ Offset(p, 1) = 0 /\ Offset(p, 2) = h
  BY DEF Size, Offset
<1>2. m \in Int /\ h \in Int /\ 2 * h <= m /\ m <= 2 * h + 1
  BY Z3
<1>. HIDE DEF m, h
<1>3. ASSUME m >= 2, NEW k \in Child
      PROVE  /\ Size(p, k) \in Nat /\ Size(p, k) >= 1 /\ Size(p, k) < m
             /\ Offset(p, k) \in Nat /\ Offset(p, k) + Size(p, k) <= m
  <2>1. CASE k = 1
    BY <1>1, <1>2, <1>3, <2>1
  <2>2. CASE k = 2
    BY <1>1, <1>2, <1>3, <2>2
  <2>. QED
    BY <2>1, <2>2 DEF Child
<1>. QED
  BY <1>1, <1>2, <1>3 DEF m

\* A process with two lines is not at the bottom of the tree.
LEMMA Deep ==
  ASSUME NEW most, DeepEnough(most), Types, Fits(most),
         NEW p \in Procs, n[p] >= 2
  PROVE  /\ Len(p) < Depth
         /\ \A k \in Child : Size(p, k) <= most[Len(p) + 1]
<1>1. Len(p) \in 0 .. Depth /\ Depth \in Nat /\ n[p] \in Int
  BY ProcIsSeq, ConstantsAssumption DEF Types
<1>2. n[p] <= most[Len(p)]
  BY DEF Fits
<1>3. Len(p) < Depth
  BY <1>1, <1>2 DEF DeepEnough
<1>4. ASSUME NEW a \in Nat, NEW b \in Nat, NEW m \in Int,
             b >= a - a \div 2, m <= a, m >= 2
      PROVE  m - m \div 2 <= b
  BY <1>4
<1>5. Len(p) + 1 \in 1 .. Depth /\ Len(p) + 1 - 1 = Len(p)
  BY <1>1, <1>3
<1>6. /\ most[Len(p)] \in Nat /\ most[Len(p) + 1] \in Nat
      /\ most[Len(p) + 1] >= most[Len(p)] - most[Len(p)] \div 2
  <2>1. most \in [0 .. Depth -> Nat] /\ Len(p) \in 0 .. Depth /\ Len(p) + 1 \in 0 .. Depth
    <3>1. most \in [0 .. Depth -> Nat]
      BY DEF DeepEnough
    <3>2. Len(p) + 1 \in 0 .. Depth
      BY ONLY <1>1, <1>5
    <3>. QED
      BY ONLY <1>1, <3>1, <3>2
  <2>2. most[Len(p)] \in Nat /\ most[Len(p) + 1] \in Nat
    BY ONLY <2>1
  <2>. DEFINE d == Len(p)
              e == Len(p) + 1
  <2>3. most[e] >= most[e - 1] - most[e - 1] \div 2
    BY <1>5 DEF DeepEnough
  <2>4. e - 1 = d
    BY <1>5
  <2>. HIDE DEF d, e
  <2>5. most[e] >= most[d] - most[d] \div 2
    BY <2>3, <2>4
  <2>. QED
    BY <2>2, <2>5 DEF d, e
<1>7. n[p] - n[p] \div 2 <= most[Len(p) + 1]
  BY <1>1, <1>2, <1>4, <1>6
<1>8. \A k \in Child : Size(p, k) <= n[p] - n[p] \div 2
  BY <1>1 DEF Size, Child
<1>9. \A k \in Child : Size(p, k) \in Int
  BY <1>1 DEF Size, Child
<1>. QED
  BY <1>1, <1>3, <1>6, <1>7, <1>8, <1>9

\* What a step leaves alone keeps its part of the invariant.
LEMMA LocalFrame ==
  ASSUME NEW p \in Procs, Local(p),
         pc'[p] = pc[p], n'[p] = n[p], strings'[p] = strings[p],
         sub'[p] = sub[p], sent'[p] = sent[p],
         stdin'[p] = stdin[p] \/ pc[p] # "unborn"
  PROVE  Local(p)'
<1>1. \A k : Size(p, k)' = Size(p, k)
  BY DEF Size
<1>. QED
  BY <1>1 DEF Local

LEMMA LinkFrame ==
  ASSUME NEW p, NEW k, NEW c, Link(p, k, c),
         pc'[p] = pc[p], n'[p] = n[p], strings'[p] = strings[p],
         sent'[p] = sent[p],
         pc'[c] = pc[c], n'[c] = n[c], strings'[c] = strings[c],
         stdin'[c] = stdin[c]
  PROVE  Link(p, k, c)'
<1>1. Size(p, k)' = Size(p, k) /\ Taken(c)' = Taken(c)
  BY DEF Size, Taken
<1>2. Offset(p, k)' = Offset(p, k)
  BY DEF Offset
<1>3. \A i : Item(p, k, i)' = Item(p, k, i)
  BY <1>1, <1>2 DEF Item
<1>. QED
  BY <1>1, <1>2, <1>3 DEF Link

\* An unborn child, whatever its parent does but to serve it.
LEMMA LinkUnborn ==
  ASSUME NEW p, NEW k, NEW c, pc'[c] = "unborn", n'[c] = 0,
         strings'[c] = <<>>, pc'[p] \notin Serving(k)'
  PROVE  Link(p, k, c)'
<1>1. Len(strings'[c]) = 0 /\ "unborn" \notin Ended
  BY EmptySeq DEF Ended
<1>2. pc'[p] # Count(k) /\ pc'[p] # Feed(k) /\ pc'[p] # Collect(k)
  BY DEF Serving
<1>. QED
  BY <1>1, <1>2 DEF Link

LEMMA TypedFrame ==
  ASSUME Typed, pc'[Root] = pc[Root], n'[Root] = n[Root],
         strings'[Root] = strings[Root], stdin'[Root] = stdin[Root],
         input' = input
  PROVE  Typed'
BY DEF Typed

LEMMA Others ==
  ASSUME NEW most, Shape(most), Types', input' = input,
         NEW S \in SUBSET Procs,
         \A q \in Procs \ S :
           /\ pc'[q] = pc[q] /\ n'[q] = n[q] /\ strings'[q] = strings[q]
           /\ sub'[q] = sub[q] /\ sent'[q] = sent[q] /\ stdin'[q] = stdin[q],
         \A q \in S : Local(q)',
         \A c \in Procs \ {Root} :
           c \in S \/ Parent(c) \in S => Link(Parent(c), Slot(c), c)',
         Root \in S => Typed',
         \A q \in S : n'[q] <= most[Len(q)]
  PROVE  Shape(most)'
<1>1. \A q \in Procs : Local(q)'
  BY LocalFrame DEF Shape
<1>2. ASSUME NEW c \in Procs \ {Root}
      PROVE  Link(Parent(c), Slot(c), c)'
  <2>1. Link(Parent(c), Slot(c), c) /\ Parent(c) \in Procs
    BY ParentIsProc DEF Shape
  <2>2. CASE c \notin S /\ Parent(c) \notin S
    <3>. DEFINE p == Parent(c)
    <3>1. /\ pc'[p] = pc[p] /\ n'[p] = n[p] /\ strings'[p] = strings[p]
          /\ sent'[p] = sent[p] /\ pc'[c] = pc[c] /\ n'[c] = n[c]
          /\ strings'[c] = strings[c] /\ stdin'[c] = stdin[c]
      BY <2>1, <2>2
    <3>. QED
      BY <2>1, <3>1, LinkFrame
  <2>. QED
    BY <2>2
<1>3. Typed'
  BY TypedFrame, RootIsProc DEF Shape
<1>4. Fits(most)'
  BY DEF Fits, Shape
<1>. QED
  BY <1>1, <1>2, <1>3, <1>4 DEF Shape

LEMMA Alone ==
  ASSUME NEW most, Shape(most), Types', input' = input,
         NEW p \in Procs,
         \A q \in Procs \ {p} :
           /\ pc'[q] = pc[q] /\ n'[q] = n[q] /\ strings'[q] = strings[q]
           /\ sub'[q] = sub[q] /\ sent'[q] = sent[q] /\ stdin'[q] = stdin[q],
         Local(p)',
         \A c \in Procs \ {Root} :
           c = p \/ Parent(c) = p => Link(Parent(c), Slot(c), c)',
         p = Root => Typed',
         n'[p] <= most[Len(p)]
  PROVE  Shape(most)'
<1>. DEFINE S == {p}
<1>1. /\ S \in SUBSET Procs /\ \A q \in S : Local(q)'
      /\ Root \in S => Typed'
      /\ \A q \in S : n'[q] <= most[Len(q)]
  OBVIOUS
<1>2. \A q \in Procs \ S :
        /\ pc'[q] = pc[q] /\ n'[q] = n[q] /\ strings'[q] = strings[q]
        /\ sub'[q] = sub[q] /\ sent'[q] = sent[q] /\ stdin'[q] = stdin[q]
  OBVIOUS
<1>3. \A c \in Procs \ {Root} :
        c \in S \/ Parent(c) \in S => Link(Parent(c), Slot(c), c)'
  OBVIOUS
<1>. HIDE DEF S
<1>. QED
  BY <1>1, <1>2, <1>3, Others

\* A child that moves on, and a parent that does.
LEMMA ChildMoves ==
  ASSUME NEW q, NEW k, NEW c, Link(q, k, c),
         pc[c] \notin Ended \cup {"unborn"}, pc'[c] # "unborn",
         pc'[q] = pc[q], n'[q] = n[q], strings'[q] = strings[q],
         sent'[q] = sent[q],
         n'[c] = n[c], strings'[c] = strings[c], stdin'[c] = stdin[c]
  PROVE  Link(q, k, c)'
<1>1. /\ Size(q, k)' = Size(q, k) /\ Offset(q, k)' = Offset(q, k)
      /\ Taken(c)' = Taken(c) /\ \A i : Item(q, k, i)' = Item(q, k, i)
  BY DEF Size, Offset, Taken, Item
<1>. QED
  BY <1>1 DEF Link

LEMMA ParentMoves ==
  ASSUME NEW q, NEW k \in Child, NEW c, Link(q, k, c),
         pc'[c] = pc[c], n'[q] = n[q], strings'[q] = strings[q],
         n'[c] = n[c], strings'[c] = strings[c], stdin'[c] = stdin[c],
         pc'[q] \notin Leaf \cup {"fork1", Count(k), Feed(k)},
         k = 2 /\ pc[c] # "unborn" => pc'[q] \notin Forking(1) \cup {"fork2"},
         pc'[q] \in Serving(k) => pc[c] # "unborn",
         pc'[q] = Collect(k) => pc[c] \in Ended
  PROVE  Link(q, k, c)'
<1>1. /\ Size(q, k)' = Size(q, k) /\ Offset(q, k)' = Offset(q, k)
      /\ Taken(c)' = Taken(c) /\ \A i : Item(q, k, i)' = Item(q, k, i)
  BY DEF Size, Offset, Taken, Item
<1>. QED
  BY <1>1 DEF Link

LEMMA IsLabel ==
  /\ {"number", "read", "print", "merge", "ok", "failed"} \subseteq Labels
  /\ \A k \in Child :
       {Fork(k), Count(k), Feed(k), Wait(k), Collect(k), After(k)} \subseteq Labels
BY DEF Labels, Ended, Child, Fork, Count, Feed, Wait, Collect, After

\* Whoever fails, or is killed, leaves everything where it is.
LEMMA FailStep ==
  ASSUME NEW most, Shape(most), NEW p \in Procs,
         pc[p] \notin Ended \cup {"unborn"}, Fail(p),
         sent' = sent \/ sent' = [sent EXCEPT ![p] = 0],
         UNCHANGED <<n, strings, sub, stdin, stdout, input>>
  PROVE  Shape(most)'
<1>1. Types /\ Typed /\ Fits(most) /\ Local(p)
  BY DEF Shape
<1>2. /\ pc' = [pc EXCEPT ![p] = "failed"] /\ pc'[p] = "failed"
      /\ \A q \in Procs \ {p} : pc'[q] = pc[q] /\ sent'[q] = sent[q]
  BY <1>1 DEF Fail, Goto, Types
<1>3. Types'
  <2>1. pc' \in [Procs -> Labels]
    BY <1>1, <1>2, IsLabel DEF Types
  <2>2. sent' \in [Procs -> Nat]
    <3>1. sent \in [Procs -> Nat]
      BY <1>1 DEF Types
    <3>. QED
      BY ONLY <3>1, sent' = sent \/ sent' = [sent EXCEPT ![p] = 0]
  <2>. QED
    BY <1>1, <2>1, <2>2 DEF Types
<1>4. Local(p)'
  BY <1>1, <1>2 DEF Local, Leaf, Early, Forking, Fork, Count, Feed, Wait, Collect, Child
<1>5. ASSUME NEW c \in Procs \ {Root}, c = p \/ Parent(c) = p
      PROVE  Link(Parent(c), Slot(c), c)'
  <2>. DEFINE q == Parent(c)
              k == Slot(c)
  <2>1. Link(q, k, c) /\ q \in Procs /\ k \in Child /\ q # c
    BY ParentIsProc DEF Shape
  <2>2. CASE c = p
    <3>1. /\ pc'[q] = pc[q] /\ sent'[q] = sent[q] /\ pc'[c] = "failed"
          /\ pc[c] \notin Ended \cup {"unborn"}
      BY <1>2, <2>1, <2>2
    <3>. HIDE DEF q, k
    <3>2. Link(q, k, c)'
      BY <2>1, <3>1, ChildMoves
    <3>. QED
      BY <3>2 DEF q, k
  <2>3. CASE q = p
    <3>1. pc'[c] = pc[c] /\ pc'[q] = "failed"
      BY <1>2, <2>1, <2>3
    <3>. HIDE DEF q, k
    <3>2. /\ pc'[q] \notin Leaf \cup {"fork1", Count(k), Feed(k)}
          /\ pc'[q] \notin Forking(1) \cup {"fork2"}
          /\ pc'[q] \notin Serving(k) /\ pc'[q] # Collect(k)
      BY <2>1, <3>1 DEF Leaf, Forking, Serving, Fork, Count, Feed, Wait, Collect, Child
    <3>3. Link(q, k, c)'
      BY <2>1, <3>1, <3>2, ParentMoves
    <3>. QED
      BY <3>3 DEF q, k
  <2>. QED
    BY <1>5, <2>2, <2>3
<1>6. p = Root => Typed'
  BY <1>1, <1>2 DEF Typed
<1>7. \A q \in Procs \ {p} :
        /\ pc'[q] = pc[q] /\ n'[q] = n[q] /\ strings'[q] = strings[q]
        /\ sub'[q] = sub[q] /\ sent'[q] = sent[q] /\ stdin'[q] = stdin[q]
  BY <1>2
<1>8. n'[p] <= most[Len(p)] /\ input' = input
  BY <1>1 DEF Fits
<1>. QED
  BY <1>3, <1>4, <1>5, <1>6, <1>7, <1>8, Alone

\* A process that has not forked has no children.
LEMMA NoChildren ==
  ASSUME NEW most, Shape(most), NEW c \in Procs \ {Root},
         pc[Parent(c)] \in Leaf \cup {"fork1"}
  PROVE  pc[c] = "unborn" /\ n[c] = 0 /\ strings[c] = <<>>
<1>1. Link(Parent(c), Slot(c), c) /\ Local(c)
  BY DEF Shape
<1>2. pc[c] = "unborn"
  BY <1>1 DEF Link
<1>. QED
  BY <1>1, <1>2 DEF Local, Early

LEMMA ReadNumberStep ==
  ASSUME NEW most, DeepEnough(most), Shape(most), NEW p \in Procs, ReadNumber(p)
  PROVE  Shape(most)'
<1>. DEFINE s == stdin[p]
<1>1. Types /\ Typed /\ Fits(most) /\ Local(p) /\ pc[p] = "number"
  BY DEF Shape, ReadNumber, At
<1>2. CASE EndOfFile(p) /\ Fail(p) /\ UNCHANGED <<n, stdin>>
  BY <1>1, <1>2, FailStep DEF ReadNumber, Ended
<1>3. CASE /\ s # <<>>
           /\ stdin' = [stdin EXCEPT ![p] = Tail(@)]
           /\ n' = [n EXCEPT ![p] = Head(s)]
           /\ IF n'[p] < 1 THEN Fail(p) ELSE Goto(p, "read")
  <2>1. s \in Seq(Int)
    BY <1>1 DEF Types
  <2>2. /\ Head(s) = s[1] /\ Head(s) \in Int /\ Tail(s) \in Seq(Int)
        /\ Len(s) \in Nat \ {0} /\ Len(Tail(s)) = Len(s) - 1
        /\ \A i \in 1 .. Len(Tail(s)) : Tail(s)[i] = s[i + 1]
    BY <1>3, <2>1, HeadTailProperties, EmptySeq
  <2>3. UNCHANGED <<strings, sub, sent, stdout, input>>
    BY DEF ReadNumber
  <2>4. /\ n'[p] = Head(s) /\ stdin'[p] = Tail(s)
        /\ pc'[p] = IF n'[p] < 1 THEN "failed" ELSE "read"
        /\ pc' \in [Procs -> Labels] /\ n' \in [Procs -> Int]
        /\ stdin' \in [Procs -> Seq(Int)]
        /\ \A q \in Procs \ {p} : pc'[q] = pc[q] /\ n'[q] = n[q] /\ stdin'[q] = stdin[q]
    <3>1. /\ n' \in [Procs -> Int] /\ stdin' \in [Procs -> Seq(Int)]
          /\ n'[p] = Head(s) /\ stdin'[p] = Tail(s)
          /\ \A q \in Procs \ {p} : n'[q] = n[q] /\ stdin'[q] = stdin[q]
      BY <1>1, <1>3, <2>2 DEF Types
    <3>2. /\ pc' \in [Procs -> Labels]
          /\ pc'[p] = IF n'[p] < 1 THEN "failed" ELSE "read"
          /\ \A q \in Procs \ {p} : pc'[q] = pc[q]
      BY <1>1, <1>3, IsLabel DEF Types, Fail, Goto
    <3>. QED
      BY <3>1, <3>2
  <2>5. Types'
    BY <1>1, <2>3, <2>4 DEF Types
  <2>6. /\ n[p] = 0 /\ strings[p] = <<>> /\ Len(strings[p]) = 0 /\ sent[p] = 0
        /\ sub[p][1] = <<>> /\ sub[p][2] = <<>>
    BY <1>1, EmptySeq DEF Local, Early, Leaf
  <2>7. Local(p)'
    <3>1. n'[p] \in Int /\ sub'[p][1] = <<>> /\ sub'[p][2] = <<>> /\ Len(<<>>) = 0
      BY <2>3, <2>2, <2>4, <2>6, EmptySeq
    <3>2. n'[p] >= 1 => Size(p, 1)' \in Nat /\ Size(p, 2)' \in Nat
      BY <3>1 DEF Size
    <3>. QED
      BY <2>3, <2>4, <2>6, <3>1, <3>2
      DEF Local, Leaf, Early, Forking, Fork, Count, Feed, Wait, Collect, Child
  <2>8. ASSUME NEW c \in Procs \ {Root}, c = p
        PROVE  Link(Parent(c), Slot(c), c)' /\ n'[p] <= most[Len(p)]
    <3>. DEFINE q == Parent(c)
                k == Slot(c)
    <3>1. Link(q, k, c) /\ q \in Procs /\ k \in Child /\ q # c /\ Len(c) = Len(q) + 1
      BY ParentIsProc, ProcIsSeq DEF Shape
    <3>2. n[q] >= 2 /\ n[q] \in Int /\ pc[c] \notin Ended \cup {"unborn"} /\ Taken(c) = 0
      BY <1>1, <2>6, <2>8, <3>1 DEF Link, Ended, Taken, Types
    <3>3. s[1] = Item(q, k, 1) /\ Taken(c) + Len(s) <= Size(q, k) + 1
          /\ \A i \in 1 .. Len(s) : s[i] = Item(q, k, i)
      BY <2>2, <2>8, <3>1, <3>2 DEF Link
    <3>13. Size(q, k) \in Nat /\ Size(q, k) >= 1
      BY <3>1, <3>2, HalfSizes
    <3>4. n'[c] = Size(q, k) /\ Size(q, k) \in Nat /\ Size(q, k) >= 1 /\ pc'[c] = "read"
      BY <2>2, <2>4, <2>8, <3>3, <3>13 DEF Item
    <3>5. /\ Size(q, k)' = Size(q, k) /\ Offset(q, k)' = Offset(q, k)
          /\ \A i : Item(q, k, i)' = Item(q, k, i)
          /\ pc'[q] = pc[q] /\ n'[q] = n[q] /\ strings'[q] = strings[q]
          /\ sent'[q] = sent[q]
      BY <2>3, <2>4, <2>8, <3>1 DEF Size, Offset, Item
    <3>6. Taken(c)' = 1 /\ strings'[c] = <<>> /\ Len(<<>>) = 0
      BY <2>3, <2>6, <2>8, <3>4, EmptySeq DEF Taken
    <3>7. stdin'[c] = Tail(s)
      BY <2>4, <2>8
    <3>8. pc[c] # "unborn" /\ pc'[c] \notin Ended
      BY <3>4, <3>2 DEF Ended
    <3>9. pc[q] # Collect(k) /\ pc[q] # Count(k)
          /\ (pc[q] = Feed(k) => Len(s) = 1 + sent[q])
      BY <2>2, <2>8, <3>1, <3>2 DEF Link
    <3>10. /\ Taken(c)' + Len(stdin'[c]) <= Size(q, k) + 1
           /\ \A i \in 1 .. Len(stdin'[c]) : stdin'[c][i] = Item(q, k, Taken(c)' + i)
           /\ Taken(c)' + Len(stdin'[c]) = Len(s)
      <4>1. ASSUME NEW i \in 1 .. Len(Tail(s))
            PROVE  Tail(s)[i] = Item(q, k, 1 + i)
        <5>1. i + 1 \in 1 .. Len(s) /\ i + 1 = 1 + i /\ Tail(s)[i] = s[i + 1]
          BY <2>2
        <5>. QED
          BY <3>3, <5>1
      <4>. DEFINE r == Tail(s)
      <4>2. Len(s) \in Nat /\ Len(r) = Len(s) - 1
        BY <2>2
      <4>3. Taken(c)' + Len(stdin'[c]) = 1 + Len(r)
        BY <3>6, <3>7
      <4>4. \A i \in 1 .. Len(stdin'[c]) : stdin'[c][i] = Item(q, k, Taken(c)' + i)
        BY <3>6, <3>7, <4>1
      <4>. HIDE DEF r
      <4>5. 1 + Len(r) = Len(s)
        BY <4>2
      <4>6. Len(s) <= Size(q, k) + 1
        BY <3>2, <3>3
      <4>. QED
        BY <4>3, <4>4, <4>5, <4>6
    <3>11. Link(q, k, c)'
      <4>. HIDE DEF q, k, s
      <4>. QED
        BY <3>1, <3>4, <3>5, <3>6, <3>8, <3>9, <3>10 DEF Link
    <3>12. n'[c] <= most[Len(c)]
      BY <1>1, <3>1, <3>2, <3>4, Deep
    <3>. QED
      BY <2>8, <3>11, <3>12
  <2>9. ASSUME NEW c \in Procs \ {Root}, Parent(c) = p
        PROVE  Link(Parent(c), Slot(c), c)'
    <3>1. c # p
      BY <2>9, ParentIsProc
    <3>2. pc[c] = "unborn" /\ n[c] = 0 /\ strings[c] = <<>>
      BY <1>1, <2>9, NoChildren DEF Leaf
    <3>3. pc'[p] \notin Serving(Slot(c))'
      BY <2>4 DEF Serving, Count, Feed, Wait, Collect
    <3>. QED
      BY <2>3, <2>4, <2>9, <3>1, <3>2, <3>3, LinkUnborn
  <2>10. ASSUME p = Root
         PROVE  Typed' /\ n'[p] <= most[Len(p)]
    <3>1. s = input /\ input' = input /\ input[1] = n'[Root] /\ input # <<>>
      BY <1>1, <1>3, <2>2, <2>3, <2>4, <2>10 DEF Typed
    <3>2. Typed'
      <4>1. /\ strings'[Root] = <<>> /\ Len(strings'[Root]) = 0
            /\ stdin'[Root] = Tail(s) /\ pc'[Root] \in {"failed", "read"}
            /\ (n'[Root] >= 1 => pc'[Root] = "read") /\ n'[Root] \in Int
        BY <2>2, <2>3, <2>4, <2>6, <2>10
      <4>2. \A i \in 1 .. Len(stdin'[Root]) :
               stdin'[Root][i] = input'[Len(strings'[Root]) + 1 + i]
        <5>1. ASSUME NEW i \in 1 .. Len(Tail(s))
              PROVE  Tail(s)[i] = input[i + 1] /\ Len(strings'[Root]) + 1 + i = i + 1
          BY <2>2, <3>1, <4>1
        <5>. QED
          BY <3>1, <4>1, <5>1
      <4>3. Len(Tail(s)) + 1 = Len(input) /\ Len(input) > 0
        BY <2>2, <3>1
      <4>4. input \in Inputs
        BY <1>1 DEF Typed
      <4>. HIDE DEF s
      <4>5. Len(strings'[Root]) + Len(stdin'[Root]) + 1 = Len(input')
        BY <2>2, <3>1, <4>1, <4>3
      <4>6. /\ input' \in Inputs /\ pc'[Root] \notin {"unborn", "number"}
            /\ n'[Root] >= 1 => input' # <<>> /\ n'[Root] = input'[1]
            /\ n'[Root] >= 1 => Len(strings'[Root]) <= n'[Root]
            /\ Len(strings'[Root]) < Len(input')
            /\ \A i \in 1 .. Len(strings'[Root]) : strings'[Root][i] = input'[i + 1]
        BY <3>1, <4>1, <4>3, <4>4
      <4>. QED
        BY <4>2, <4>5, <4>6 DEF Typed
    <3>3. n'[p] <= most[Len(p)]
      BY <1>1, <2>10, <3>1, RootIsProc DEF Typed, DeepEnough
    <3>. QED
      BY <3>2, <3>3
  <2>11. n'[p] <= most[Len(p)]
    BY <2>8, <2>10
  <2>. QED
    BY <2>3, <2>4, <2>5, <2>7, <2>8, <2>9, <2>10, <2>11, Alone
<1>. QED
  BY <1>2, <1>3 DEF ReadNumber

LEMMA ReadLineStep ==
  ASSUME NEW most, DeepEnough(most), Shape(most), NEW p \in Procs, ReadLine(p)
  PROVE  Shape(most)'
<1>. DEFINE s == stdin[p]
            t == strings[p]
            r == Tail(s)
            u == Append(t, s[1])
<1>1. Types /\ Typed /\ Fits(most) /\ Local(p) /\ pc[p] = "read"
  BY DEF Shape, ReadLine, At
<1>2. CASE EndOfFile(p) /\ Fail(p) /\ UNCHANGED <<strings, stdin>>
  BY <1>1, <1>2, FailStep DEF ReadLine, Ended
<1>3. CASE /\ s # <<>>
           /\ stdin' = [stdin EXCEPT ![p] = Tail(@)]
           /\ strings' = [strings EXCEPT ![p] = Append(@, Head(s))]
           /\ Goto(p, IF Len(strings'[p]) < n[p] THEN "read"
                      ELSE IF n[p] = 1 THEN "print" ELSE "fork1")
  <2>0. s \in Seq(Int) /\ t \in Seq(Int)
    BY <1>1 DEF Types
  <2>1. n[p] \in Int /\ Len(t) \in Nat
    BY <1>1, <2>0, LenProperties DEF Types
  <2>2. /\ Len(s) \in Nat /\ Len(s) > 0 /\ Len(r) \in Nat /\ Len(r) = Len(s) - 1
        /\ \A i \in 1 .. Len(r) : r[i] = s[i + 1]
    BY <1>3, <2>0, HeadTailProperties, EmptySeq, LenProperties
  <2>15. Head(s) = s[1]
    OBVIOUS
  <2>14. r \in Seq(Int) /\ u \in Seq(Int)
    BY <1>3, <2>0, <2>15, HeadTailProperties, AppendProperties
  <2>3. /\ Len(u) = Len(t) + 1 /\ u # <<>>
        /\ \A i \in 1 .. Len(t) : u[i] = t[i]
        /\ u[Len(t) + 1] = s[1]
    <3>1. s[1] \in Int
      BY <1>3, <2>0, <2>15, HeadTailProperties
    <3>. QED
      BY <2>0, <3>1, AppendProperties
  <2>4. UNCHANGED <<n, sub, sent, stdout, input>>
    BY DEF ReadLine
  <2>5. /\ strings' \in [Procs -> Seq(Int)] /\ stdin' \in [Procs -> Seq(Int)]
        /\ strings'[p] = u /\ stdin'[p] = r
        /\ \A q \in Procs \ {p} : strings'[q] = strings[q] /\ stdin'[q] = stdin[q]
    BY <1>1, <1>3, <2>14, <2>15 DEF Types
  <2>. HIDE DEF r, u, s, t
  <2>6. Len(t) < n[p] /\ n[p] >= 1 /\ Len(strings'[p]) = Len(t) + 1
    BY <1>1, <2>3, <2>5 DEF Local, Early, t
  <2>7. /\ pc' \in [Procs -> Labels]
        /\ \A q \in Procs \ {p} : pc'[q] = pc[q]
        /\ \/ pc'[p] = "read" /\ Len(t) + 1 < n[p]
           \/ pc'[p] = "print" /\ Len(t) + 1 = n[p] /\ n[p] = 1
           \/ pc'[p] = "fork1" /\ Len(t) + 1 = n[p] /\ n[p] >= 2
    <3>. DEFINE l == IF Len(t) + 1 < n[p] THEN "read"
                     ELSE IF n[p] = 1 THEN "print" ELSE "fork1"
    <3>1. l \in Labels
      BY IsLabel DEF Fork, Child
    <3>2. pc' = [pc EXCEPT ![p] = l]
      BY <1>3, <2>6 DEF Goto
    <3>3. \/ l = "read" /\ Len(t) + 1 < n[p]
          \/ l = "print" /\ Len(t) + 1 = n[p] /\ n[p] = 1
          \/ l = "fork1" /\ Len(t) + 1 = n[p] /\ n[p] >= 2
      BY <2>1, <2>6
    <3>. HIDE DEF l
    <3>. QED
      BY <1>1, <3>1, <3>2, <3>3 DEF Types
  <2>8. Types'
    BY <1>1, <2>4, <2>5, <2>7 DEF Types
  <2>9. Local(p)'
    <3>1. sub'[p][1] = <<>> /\ sub'[p][2] = <<>> /\ Len(<<>>) = 0 /\ sent'[p] <= n'[p]
      BY <1>1, <2>4, EmptySeq DEF Local, Leaf
    <3>2. /\ Size(p, 1)' \in Nat /\ Size(p, 2)' \in Nat /\ n'[p] = n[p]
          /\ pc'[p] \in {"read", "print", "fork1"}
      <4>1. Size(p, 1) \in Nat /\ Size(p, 2) \in Nat
        BY <2>1, <2>6, HalfSizes
      <4>. QED
        BY <2>4, <2>7, <4>1 DEF Size
    <3>. QED
      BY <2>1, <2>6, <2>7, <3>1, <3>2
      DEF Local, Leaf, Early, Forking, Fork, Count, Feed, Wait, Collect, Child
  <2>10. ASSUME NEW c \in Procs \ {Root}, c = p
         PROVE  Link(Parent(c), Slot(c), c)'
    <3>. DEFINE q == Parent(c)
                k == Slot(c)
    <3>1. Link(q, k, c) /\ q \in Procs /\ k \in Child /\ q # c
      BY ParentIsProc DEF Shape
    <3>2. /\ pc[c] \notin Ended \cup {"unborn"} /\ n[c] = Size(q, k)
          /\ Taken(c) = 1 + Len(t) /\ pc'[c] \notin Ended \cup {"unborn"}
      BY <1>1, <2>1, <2>6, <2>7, <2>10, <3>1 DEF Link, Ended, Taken, t
    <3>3. /\ Taken(c) + Len(s) <= Size(q, k) + 1
          /\ \A i \in 1 .. Len(s) : s[i] = Item(q, k, Taken(c) + i)
          /\ pc[q] = Count(k) => Taken(c) + Len(s) = 0
          /\ pc[q] = Feed(k) => Taken(c) + Len(s) = 1 + sent[q]
          /\ \A i \in 1 .. Len(t) : t[i] = strings[q][Offset(q, k) + i]
      BY <2>10, <3>1, <3>2 DEF Link, s, t
    <3>4. /\ Size(q, k)' = Size(q, k) /\ Offset(q, k)' = Offset(q, k)
          /\ \A i : Item(q, k, i)' = Item(q, k, i)
          /\ pc'[q] = pc[q] /\ n'[q] = n[q] /\ strings'[q] = strings[q]
          /\ sent'[q] = sent[q] /\ n'[c] = n[c]
      BY <2>4, <2>5, <2>7, <2>10, <3>1 DEF Size, Offset, Item
    <3>5. /\ Taken(c)' = 2 + Len(t) /\ stdin'[c] = r
          /\ strings'[c] = u /\ Len(strings'[c]) = Len(t) + 1
      BY <2>1, <2>3, <2>4, <2>5, <2>6, <2>10 DEF Taken
    <3>6. ASSUME NEW i \in 1 .. Len(r)
          PROVE  r[i] = Item(q, k, 2 + Len(t) + i)
      <4>1. i + 1 \in 1 .. Len(s) /\ 1 + Len(t) + (i + 1) = 2 + Len(t) + i
            /\ r[i] = s[i + 1]
        BY <2>1, <2>2
      <4>. QED
        BY <3>2, <3>3, <4>1
    <3>7. s[1] = strings[q][Offset(q, k) + (Len(t) + 1)]
      <4>1. s[1] = Item(q, k, 2 + Len(t))
        <5>1. 1 \in 1 .. Len(s) /\ 1 + Len(t) + 1 = 2 + Len(t)
          BY <2>1, <2>2
        <5>. QED
          BY <3>2, <3>3, <5>1
      <4>2. /\ 2 + Len(t) # 1
            /\ Offset(q, k) + (2 + Len(t)) - 1 = Offset(q, k) + (Len(t) + 1)
        <5>1. Offset(q, k) \in Int
          <6>1. n[q] \in Int
            BY <1>1, <3>1 DEF Types
          <6>. QED
            BY <6>1 DEF Offset
        <5>. QED
          BY <2>1, <5>1
      <4>. QED
        BY <4>1, <4>2 DEF Item
    <3>8. \A i \in 1 .. Len(t) + 1 :
            u[i] = strings[q][Offset(q, k) + i]
      <4>1. ASSUME NEW i \in 1 .. Len(t) + 1
            PROVE  i \in 1 .. Len(t) \/ i = Len(t) + 1
        BY <2>1
      <4>. QED
        BY <2>3, <3>3, <3>7, <4>1
    <3>9. Taken(c)' + Len(stdin'[c]) = Taken(c) + Len(s)
      <4>1. (2 + Len(t)) + Len(r) = (1 + Len(t)) + Len(s)
        BY <2>1, <2>2
      <4>. QED
        BY <3>2, <3>5, <4>1
    <3>10. pc[c] # "unborn" /\ pc[c] \notin Ended /\ n[c] \in Int
           /\ Len(strings'[c]) <= n'[c] /\ pc[q] # Collect(k)
      BY <1>1, <2>1, <2>4, <2>6, <2>10, <3>1, <3>2 DEF Link
    <3>11. Link(q, k, c)'
      <4>1. /\ \A i \in 1 .. Len(strings'[c]) :
                 strings'[c][i] = strings'[q][Offset(q, k)' + i]
            /\ \A i \in 1 .. Len(stdin'[c]) :
                 stdin'[c][i] = Item(q, k, Taken(c)' + i)
        BY <3>4, <3>5, <3>6, <3>8
      <4>. HIDE DEF q, k
      <4>. QED
        BY <3>1, <3>2, <3>3, <3>4, <3>9, <3>10, <4>1 DEF Link
    <3>. QED
      BY <3>11
  <2>11. ASSUME NEW c \in Procs \ {Root}, Parent(c) = p
         PROVE  Link(Parent(c), Slot(c), c)'
    <3>1. c # p
      BY <2>11, ParentIsProc
    <3>2. pc[c] = "unborn" /\ n[c] = 0 /\ strings[c] = <<>>
      BY <1>1, <2>11, NoChildren DEF Leaf
    <3>3. pc'[p] \notin Serving(Slot(c))'
      BY <2>7 DEF Serving, Count, Feed, Wait, Collect
    <3>. QED
      BY <2>4, <2>5, <2>7, <2>11, <3>1, <3>2, <3>3, LinkUnborn
  <2>12. ASSUME p = Root
         PROVE  Typed'
    <3>1. /\ input' = input /\ n'[Root] = n[Root] /\ stdin'[Root] = r
          /\ strings'[Root] = u /\ pc'[Root] \notin {"unborn", "number"}
          /\ Len(u) = Len(t) + 1 /\ Len(u) <= n[Root]
      BY <2>1, <2>3, <2>4, <2>5, <2>6, <2>7, <2>12
    <3>2. /\ input \in Inputs /\ (n[Root] >= 1 => input # <<>> /\ n[Root] = input[1])
          /\ Len(t) + Len(s) + 1 = Len(input)
          /\ \A i \in 1 .. Len(t) : t[i] = input[i + 1]
          /\ \A i \in 1 .. Len(s) : s[i] = input[Len(t) + 1 + i]
      BY <1>1, <2>12 DEF Typed, s, t
    <3>3. \A i \in 1 .. Len(t) + 1 : u[i] = input[i + 1]
      <4>1. ASSUME NEW i \in 1 .. Len(t) + 1
            PROVE  i \in 1 .. Len(t) \/ i = Len(t) + 1
        BY <2>1
      <4>2. 1 \in 1 .. Len(s) /\ Len(t) + 1 + 1 = (Len(t) + 1) + 1
        BY <2>2
      <4>. QED
        BY <2>3, <3>2, <4>1, <4>2
    <3>4. \A i \in 1 .. Len(r) : r[i] = input[(Len(t) + 1) + 1 + i]
      <4>1. ASSUME NEW i \in 1 .. Len(r)
            PROVE  r[i] = s[i + 1] /\ i + 1 \in 1 .. Len(s)
                   /\ Len(t) + 1 + (i + 1) = (Len(t) + 1) + 1 + i
        BY <2>1, <2>2
      <4>. QED
        BY <3>2, <4>1
    <3>5. Len(t) + 1 < Len(input) /\ (Len(t) + 1) + Len(r) + 1 = Len(input)
      BY <2>1, <2>2, <3>2
    <3>. QED
      BY <3>1, <3>2, <3>3, <3>4, <3>5 DEF Typed
  <2>13. n'[p] <= most[Len(p)]
    BY <1>1, <2>4 DEF Fits
  <2>. QED
    BY <2>4, <2>5, <2>7, <2>8, <2>9, <2>10, <2>11, <2>12, <2>13, Alone
<1>. QED
  BY <1>2, <1>3 DEF ReadLine

\* A process that moves on, and at most takes lines from its child, merges
\* or prints.
LEMMA MoveStep ==
  ASSUME NEW most, Shape(most), Types', NEW p \in Procs,
         UNCHANGED <<n, strings, sent, stdin, input>>,
         \A q \in Procs \ {p} : pc'[q] = pc[q] /\ sub'[q] = sub[q],
         pc[p] \notin Ended \cup {"unborn"},
         pc'[p] \notin Leaf \cup {"fork1", "count1", "count2", "feed1", "feed2"},
         Local(p)',
         \A c \in Procs \ {Root} :
           Parent(c) = p /\ Link(p, Slot(c), c) =>
             /\ Slot(c) = 2 /\ pc[c] # "unborn" =>
                  pc'[p] \notin Forking(1) \cup {"fork2"}
             /\ pc'[p] \in Serving(Slot(c)) => pc[c] # "unborn"
             /\ pc'[p] = Collect(Slot(c)) => pc[c] \in Ended
  PROVE  Shape(most)'
<1>1. Types /\ Typed /\ Fits(most) /\ Local(p)
  BY DEF Shape
<1>2. ASSUME NEW c \in Procs \ {Root}, c = p \/ Parent(c) = p
      PROVE  Link(Parent(c), Slot(c), c)'
  <2>. DEFINE q == Parent(c)
              k == Slot(c)
  <2>1. Link(q, k, c) /\ q \in Procs /\ k \in Child /\ q # c
    BY ParentIsProc DEF Shape
  <2>2. CASE c = p
    <3>1. /\ pc'[q] = pc[q] /\ pc'[c] # "unborn"
          /\ pc[c] \notin Ended \cup {"unborn"}
      BY <2>1, <2>2 DEF Leaf
    <3>. HIDE DEF q, k
    <3>2. Link(q, k, c)'
      BY <2>1, <3>1, ChildMoves
    <3>. QED
      BY <3>2 DEF q, k
  <2>3. CASE q = p
    <3>1. /\ pc'[c] = pc[c]
          /\ pc'[q] \notin Leaf \cup {"fork1", Count(k), Feed(k)}
      BY <2>1, <2>3 DEF Count, Feed
    <3>2. /\ k = 2 /\ pc[c] # "unborn" => pc'[q] \notin Forking(1) \cup {"fork2"}
          /\ pc'[q] \in Serving(k) => pc[c] # "unborn"
          /\ pc'[q] = Collect(k) => pc[c] \in Ended
      BY <2>1, <2>3
    <3>. HIDE DEF q, k
    <3>3. Link(q, k, c)'
      BY <2>1, <3>1, <3>2, ParentMoves
    <3>. QED
      BY <3>3 DEF q, k
  <2>. QED
    BY <1>2, <2>2, <2>3
<1>3. p = Root => Typed'
  BY <1>1 DEF Typed, Leaf
<1>4. n'[p] <= most[Len(p)]
  BY <1>1 DEF Fits
<1>. QED
  BY <1>2, <1>3, <1>4, Alone

LEMMA PrintSingleStep ==
  ASSUME NEW most, Shape(most), NEW p \in Procs, PrintSingle(p)
  PROVE  Shape(most)'
<1>1. /\ Types /\ Local(p) /\ pc[p] = "print"
      /\ UNCHANGED <<n, strings, sub, sent, stdin, input>>
  BY DEF Shape, PrintSingle, At
<1>2. CASE ReaderGone(p) /\ Fail(p) /\ UNCHANGED stdout
  BY <1>1, <1>2, FailStep DEF Ended
<1>3. CASE Emit(p, strings[p][1]) /\ Goto(p, "ok")
  <2>1. n[p] = 1 /\ Len(strings[p]) = 1 /\ sub[p][1] = <<>> /\ sub[p][2] = <<>>
    BY <1>1 DEF Local, Early, Leaf
  <2>2. strings[p][1] \in Int
    <3>1. strings[p] \in Seq(Int) /\ 1 \in 1 .. Len(strings[p])
      BY <1>1, <2>1 DEF Types
    <3>. QED
      BY <3>1, ElementOfSeq
  <2>3. stdout' \in [Procs -> Seq(Int)]
    <3>1. Append(stdout[p], strings[p][1]) \in Seq(Int)
      BY <1>1, <2>2, AppendProperties DEF Types
    <3>. QED
      BY <1>1, <1>3, <3>1 DEF Types, Emit
  <2>4. /\ pc' \in [Procs -> Labels] /\ pc'[p] = "ok"
        /\ \A q \in Procs \ {p} : pc'[q] = pc[q]
    BY <1>1, <1>3, IsLabel DEF Types, Goto
  <2>5. Types'
    BY <1>1, <2>3, <2>4 DEF Types
  <2>6. Local(p)'
    <3>1. Size(p, 1)' = Size(p, 1) /\ Size(p, 2)' = Size(p, 2)
      BY <1>1 DEF Size
    <3>. QED
      BY <1>1, <2>1, <2>4, <3>1
      DEF Local, Leaf, Early, Forking, Fork, Count, Feed, Wait, Collect, Child
  <2>7. /\ pc[p] \notin Ended \cup {"unborn"}
        /\ pc'[p] \notin Leaf \cup {"fork1", "count1", "count2", "feed1", "feed2"}
        /\ pc'[p] \notin Forking(1) \cup {"fork2"}
        /\ \A k : pc'[p] \notin Serving(k) /\ pc'[p] # Collect(k)
    BY <1>1, <2>4
    DEF Ended, Leaf, Forking, Serving, Fork, Count, Feed, Wait, Collect
  <2>. QED
    BY <1>1, <2>4, <2>5, <2>6, <2>7, MoveStep
<1>. QED
  BY <1>2, <1>3 DEF PrintSingle

LEMMA AwaitStep ==
  ASSUME NEW most, DeepEnough(most), Shape(most), NEW p \in Procs,
         NEW k \in Child, Await(p, k)
  PROVE  Shape(most)'
<1>1. /\ Types /\ Local(p) /\ Fits(most) /\ pc[p] = Wait(k)
      /\ pc[ChildOf(p, k)] \in Ended
      /\ UNCHANGED <<n, strings, sub, sent, stdin, stdout, input>>
  BY DEF Shape, Await, At
<1>2. /\ pc' \in [Procs -> Labels] /\ pc'[p] = Collect(k)
      /\ \A q \in Procs \ {p} : pc'[q] = pc[q]
  BY <1>1, IsLabel DEF Types, Goto, Await
<1>3. Types'
  BY <1>1, <1>2 DEF Types
<1>4. n[p] >= 2
  BY <1>1 DEF Local, Forking
<1>5. /\ Size(p, 1) \in Nat /\ Size(p, 2) \in Nat
      /\ Size(p, 1) >= 1 /\ Size(p, 2) >= 1
      /\ \A l : Size(p, l)' = Size(p, l)
  <2>1. n[p] \in Int
    BY <1>1 DEF Types
  <2>2. /\ Size(p, 1) \in Nat /\ Size(p, 2) \in Nat
        /\ Size(p, 1) >= 1 /\ Size(p, 2) >= 1
    BY <1>4, <2>1, HalfSizes
  <2>3. \A l : Size(p, l)' = Size(p, l)
    BY <1>1 DEF Size
  <2>. QED
    BY <2>2, <2>3
<1>6. Local(p)'
  <2>1. Len(<<>>) = 0
    OBVIOUS
  <2>2. CASE k = 1
    <3>1. pc[p] = "wait1" /\ pc'[p] = "collect1"
      BY <1>1, <1>2, <2>2 DEF Wait, Collect
    <3>. QED
      BY <1>1, <1>5, <2>1, <3>1
      DEF Local, Leaf, Early, Forking, Fork, Count, Feed, Wait, Collect, Child
  <2>3. CASE k = 2
    <3>1. pc[p] = "wait2" /\ pc'[p] = "collect2"
      BY <1>1, <1>2, <2>3 DEF Wait, Collect
    <3>. QED
      BY <1>1, <1>5, <2>1, <3>1
      DEF Local, Leaf, Early, Forking, Fork, Count, Feed, Wait, Collect, Child
  <2>. QED
    BY <2>2, <2>3 DEF Child
<1>7. ASSUME NEW c \in Procs \ {Root}, Parent(c) = p, Link(p, Slot(c), c)
      PROVE  /\ Slot(c) = 2 /\ pc[c] # "unborn" =>
                  pc'[p] \notin Forking(1) \cup {"fork2"}
             /\ pc'[p] \in Serving(Slot(c)) => pc[c] # "unborn"
             /\ pc'[p] = Collect(Slot(c)) => pc[c] \in Ended
  <2>1. Slot(c) \in Child /\ c = ChildOf(p, Slot(c))
    BY <1>7, ParentIsProc
  <2>2. /\ Slot(c) = 2 /\ pc[c] # "unborn" => pc[p] \notin Forking(1)
        /\ pc[p] \in Serving(Slot(c)) => pc[c] # "unborn"
    BY <1>7 DEF Link
  <2>. HIDE DEF Slot, ChildOf
  <2>. QED
    BY <1>1, <1>2, <2>1, <2>2
    DEF Forking, Serving, Fork, Count, Feed, Wait, Collect, Child
<1>8. /\ pc[p] \notin Ended \cup {"unborn"}
      /\ pc'[p] \notin Leaf \cup {"fork1", "count1", "count2", "feed1", "feed2"}
  BY <1>1, <1>2 DEF Ended, Leaf, Wait, Collect, Child
<1>. QED
  BY <1>1, <1>2, <1>3, <1>6, <1>7, <1>8, MoveStep

\* Merging takes the smaller first line of the halves that are left.
LEMMA SourceIsLeast ==
  ASSUME NEW p, sub[p] \in [Child -> Seq(Int)], sub[p] # [k \in Child |-> <<>>]
  PROVE  /\ Source(p) \in Child /\ sub[p][Source(p)] # <<>>
         /\ \A l \in Child : sub[p][l] # <<>> =>
              Head(sub[p][Source(p)]) <= Head(sub[p][l])
<1>1. sub[p][1] # <<>> \/ sub[p][2] # <<>>
  <2>1. sub[p] = [k \in Child |-> sub[p][k]]
    OBVIOUS
  <2>2. \E k \in Child : sub[p][k] # <<>>
    BY <2>1
  <2>. QED
    BY <2>2 DEF Child
<1>. DEFINE s == sub[p][1]
            r == sub[p][2]
<1>2. /\ s # <<>> => Head(s) \in Int
      /\ r # <<>> => Head(r) \in Int
  <2>1. s \in Seq(Int) /\ r \in Seq(Int)
    BY DEF Child
  <2>. QED
    BY <2>1, HeadTailProperties
<1>3. Source(p) = IF r = <<>> \/ (s # <<>> /\ Head(s) < Head(r)) THEN 1 ELSE 2
  BY DEF Source
<1>6. s # <<>> \/ r # <<>>
  BY <1>1
<1>. HIDE DEF s, r
<1>4. CASE Source(p) = 1
  <2>1. s # <<>> /\ (r # <<>> => Head(s) <= Head(r)) /\ Head(s) <= Head(s)
    BY ONLY <1>2, <1>3, <1>4, <1>6
  <2>. QED
    BY <1>4, <2>1 DEF s, r, Child
<1>5. CASE Source(p) = 2
  <2>1. r # <<>> /\ (s # <<>> => Head(r) <= Head(s)) /\ Head(r) <= Head(r)
    BY <1>2, <1>3, <1>5
  <2>. QED
    BY <1>5, <2>1 DEF s, r, Child
<1>. QED
  BY <1>3, <1>4, <1>5

LEMMA MergeStep ==
  ASSUME NEW most, Shape(most), NEW p \in Procs, Merge(p)
  PROVE  Shape(most)'
<1>1. /\ Types /\ Local(p) /\ pc[p] = "merge"
      /\ UNCHANGED <<n, strings, sent, stdin, input>>
  BY DEF Shape, Merge, At
<1>2. CASE ReaderGone(p) /\ Fail(p) /\ UNCHANGED <<sub, stdout>>
  BY <1>1, <1>2, FailStep DEF Ended
<1>3. n[p] >= 2 /\ Len(strings[p]) = n[p]
  BY <1>1 DEF Local, Early, Child
<1>4. \A l : Size(p, l)' = Size(p, l)
  BY <1>1 DEF Size
<1>5. CASE /\ sub[p] # [k \in Child |-> <<>>]
           /\ Emit(p, Head(sub[p][Source(p)]))
           /\ sub' = [sub EXCEPT ![p][Source(p)] = Tail(@)]
           /\ UNCHANGED pc
  <2>. DEFINE k == Source(p)
              s == sub[p][k]
  <2>1. sub[p] \in [Child -> Seq(Int)]
    BY <1>1 DEF Types
  <2>2. k \in Child /\ s # <<>> /\ s \in Seq(Int)
    BY <1>5, <2>1, SourceIsLeast
  <2>3. Head(s) \in Int /\ Tail(s) \in Seq(Int) /\ Len(Tail(s)) = Len(s) - 1
        /\ Len(s) \in Nat /\ Len(s) > 0
    BY <2>2, HeadTailProperties, EmptySeq
  <2>4. stdout' \in [Procs -> Seq(Int)]
    <3>1. Append(stdout[p], Head(s)) \in Seq(Int)
      BY <1>1, <2>3, AppendProperties DEF Types
    <3>. QED
      BY <1>1, <1>5, <3>1 DEF Types, Emit
  <2>. HIDE DEF k
  <2>5. /\ sub' \in [Procs -> [Child -> Seq(Int)]]
        /\ sub'[p][k] = Tail(s) /\ \A l \in Child \ {k} : sub'[p][l] = sub[p][l]
        /\ \A q \in Procs \ {p} : sub'[q] = sub[q]
    <3>1. sub' = [sub EXCEPT ![p][k] = Tail(@)]
      BY <1>5 DEF k
    <3>2. sub \in [Procs -> [Child -> Seq(Int)]]
      BY <1>1 DEF Types
    <3>. QED
      BY <2>2, <2>3, <3>1, <3>2
  <2>6. Types'
    BY <1>1, <1>5, <2>4, <2>5 DEF Types
  <2>. HIDE DEF s
  <2>7. \A l \in Child : Len(sub'[p][l]) <= Size(p, l)
    <3>1. \A l \in Child : Len(sub[p][l]) <= Size(p, l)
      BY <1>1 DEF Local
    <3>2. Size(p, 1) \in Nat /\ Size(p, 2) \in Nat
      BY <1>1, <1>3, HalfSizes DEF Types
    <3>3. Len(Tail(s)) <= Size(p, k)
      BY <2>2, <2>3, <3>1, <3>2 DEF Child, s
    <3>. QED
      BY <2>5, <3>1, <3>3
  <2>8. Local(p)'
    BY <1>1, <1>3, <1>4, <1>5, <2>7
    DEF Local, Leaf, Early, Forking, Fork, Count, Feed, Wait, Collect, Child
  <2>9. /\ pc'[p] = "merge" /\ \A q \in Procs \ {p} : pc'[q] = pc[q]
        /\ pc[p] \notin Ended \cup {"unborn"}
        /\ pc'[p] \notin Leaf \cup {"fork1", "count1", "count2", "feed1", "feed2"}
        /\ pc'[p] \notin Forking(1) \cup {"fork2"}
        /\ \A l : pc'[p] \notin Serving(l) /\ pc'[p] # Collect(l)
    BY <1>1, <1>5
    DEF Ended, Leaf, Forking, Serving, Fork, Count, Feed, Wait, Collect
  <2>. QED
    BY <1>1, <2>5, <2>6, <2>8, <2>9, MoveStep
<1>6. CASE sub[p] = [k \in Child |-> <<>>] /\ Goto(p, "ok") /\ UNCHANGED <<sub, stdout>>
  <2>1. /\ pc' \in [Procs -> Labels] /\ pc'[p] = "ok"
        /\ \A q \in Procs \ {p} : pc'[q] = pc[q]
    BY <1>1, <1>6, IsLabel DEF Types, Goto
  <2>2. Types'
    BY <1>1, <1>6, <2>1 DEF Types
  <2>3. Local(p)'
    <3>1. sub'[p][1] = <<>> /\ sub'[p][2] = <<>>
      BY <1>6 DEF Child
    <3>. QED
      BY <1>1, <1>3, <1>4, <1>6, <2>1, <3>1
      DEF Local, Leaf, Early, Forking, Fork, Count, Feed, Wait, Collect, Child
  <2>4. /\ pc[p] \notin Ended \cup {"unborn"}
        /\ pc'[p] \notin Leaf \cup {"fork1", "count1", "count2", "feed1", "feed2"}
        /\ pc'[p] \notin Forking(1) \cup {"fork2"}
        /\ \A l : pc'[p] \notin Serving(l) /\ pc'[p] # Collect(l)
    BY <1>1, <2>1
    DEF Ended, Leaf, Forking, Serving, Fork, Count, Feed, Wait, Collect
  <2>. QED
    BY <1>1, <1>6, <2>1, <2>2, <2>3, <2>4, MoveStep
<1>. QED
  BY <1>2, <1>5, <1>6 DEF Merge

LEMMA CollectLineStep ==
  ASSUME NEW most, DeepEnough(most), Shape(most), NEW p \in Procs,
         NEW k \in Child, CollectLine(p, k)
  PROVE  Shape(most)'
<1>. DEFINE c == ChildOf(p, k)
            s == sub[p][k]
            u == Append(s, Head(stdout[c]))
<1>1. /\ Types /\ Local(p) /\ pc[p] = Collect(k)
      /\ UNCHANGED <<n, strings, sent, stdin, input>>
  BY DEF Shape, CollectLine, At
<1>2. CASE stdout[c] = <<>> /\ Fail(p) /\ UNCHANGED <<sub, stdout>>
  BY <1>1, <1>2, FailStep DEF Ended, Collect
<1>3. n[p] >= 2 /\ Len(strings[p]) = n[p] /\ Len(s) < Size(p, k)
  BY <1>1 DEF Local, Early, Child, Forking, Collect
<1>4. \A l : Size(p, l)' = Size(p, l)
  BY <1>1 DEF Size
<1>5. Size(p, 1) \in Nat /\ Size(p, 2) \in Nat /\ Size(p, 1) >= 1 /\ Size(p, 2) >= 1
  <2>1. n[p] \in Int /\ n[p] >= 1
    BY <1>1, <1>3 DEF Types
  <2>. QED
    BY <1>3, <2>1, HalfSizes
<1>6. CASE /\ stdout[c] # <<>>
           /\ stdout' = [stdout EXCEPT ![c] = Tail(@)]
           /\ sub' = [sub EXCEPT ![p][k] = Append(@, Head(stdout[c]))]
           /\ Goto(p, IF Len(sub'[p][k]) < Size(p, k) THEN Collect(k) ELSE After(k))
  <2>0. stdout[c] \in Seq(Int)
    BY <1>1, <1>3, Deep, ChildIsProc DEF Shape, Types
  <2>1. stdout' \in [Procs -> Seq(Int)]
    BY <1>1, <1>6, <2>0, HeadTailProperties DEF Types
  <2>2. s \in Seq(Int) /\ u \in Seq(Int) /\ Len(u) = Len(s) + 1 /\ Len(s) \in Nat
    <3>1. s \in Seq(Int)
      BY <1>1 DEF Types
    <3>2. Head(stdout[c]) \in Int
      BY <1>6, <2>0, HeadTailProperties
    <3>. QED
      BY <3>1, <3>2, AppendProperties, LenProperties
  <2>. HIDE DEF c
  <2>3. /\ sub' \in [Procs -> [Child -> Seq(Int)]]
        /\ sub'[p][k] = u /\ \A l \in Child \ {k} : sub'[p][l] = sub[p][l]
        /\ \A q \in Procs \ {p} : sub'[q] = sub[q]
    <3>1. sub \in [Procs -> [Child -> Seq(Int)]]
      BY <1>1 DEF Types
    <3>2. sub' = [sub EXCEPT ![p][k] = u]
      BY <1>6
    <3>. HIDE DEF u
    <3>. QED
      BY <2>2, <3>1, <3>2
  <2>. HIDE DEF s, u
  <2>4. /\ pc' \in [Procs -> Labels]
        /\ \A q \in Procs \ {p} : pc'[q] = pc[q]
        /\ \/ pc'[p] = Collect(k) /\ Len(u) < Size(p, k)
           \/ pc'[p] = After(k) /\ Len(u) = Size(p, k)
    <3>1. Size(p, k) \in Nat
      BY <1>5 DEF Child
    <3>2. Len(u) <= Size(p, k)
      BY <1>3, <2>2, <3>1 DEF s
    <3>. DEFINE l == IF Len(u) < Size(p, k) THEN Collect(k) ELSE After(k)
    <3>3. l \in Labels
      BY IsLabel
    <3>4. pc' = [pc EXCEPT ![p] = l]
      BY <1>6, <2>3 DEF Goto
    <3>5. \/ l = Collect(k) /\ Len(u) < Size(p, k)
          \/ l = After(k) /\ Len(u) = Size(p, k)
      BY <2>2, <3>1, <3>2
    <3>. HIDE DEF l
    <3>. QED
      BY <1>1, <3>3, <3>4, <3>5 DEF Types
  <2>5. Types'
    BY <1>1, <2>1, <2>3, <2>4 DEF Types
  <2>6. \A l \in Child : Len(sub'[p][l]) <= Size(p, l)
    <3>1. \A l \in Child : Len(sub[p][l]) <= Size(p, l)
      BY <1>1 DEF Local, Collect, Child
    <3>2. Len(u) <= Size(p, k)
      BY <1>5, <2>2, <2>4 DEF Child
    <3>. QED
      BY <2>3, <3>1, <3>2
  <2>7. Local(p)'
    <3>1. CASE k = 1
      <4>1. pc[p] = "collect1" /\ sub'[p][2] = <<>>
        BY <1>1, <2>3, <3>1 DEF Collect, Local, Child
      <4>2. \/ pc'[p] = "collect1" /\ Len(sub'[p][1]) < Size(p, 1)
            \/ pc'[p] = "fork2" /\ Len(sub'[p][1]) = Size(p, 1)
        BY <2>3, <2>4, <3>1 DEF Collect, After
      <4>. QED
        BY <1>1, <1>3, <1>4, <2>6, <4>1, <4>2
        DEF Local, Leaf, Early, Forking, Fork, Count, Feed, Wait, Collect, Child
    <3>2. CASE k = 2
      <4>3. pc[p] = "collect2" /\ sub'[p][1] = sub[p][1]
        BY <1>1, <2>3, <3>2 DEF Collect, Child
      <4>1. pc[p] = "collect2" /\ Len(sub'[p][1]) = Size(p, 1)
        BY <1>1, <4>3 DEF Collect, Local, Forking
      <4>2. \/ pc'[p] = "collect2" /\ Len(sub'[p][2]) < Size(p, 2)
            \/ pc'[p] = "merge"
        BY <2>3, <2>4, <3>2 DEF Collect, After
      <4>. QED
        BY <1>1, <1>3, <1>4, <2>6, <4>1, <4>2
        DEF Local, Leaf, Early, Forking, Fork, Count, Feed, Wait, Collect, Child
    <3>. QED
      BY <3>1, <3>2 DEF Child
  <2>8. ASSUME NEW d \in Procs \ {Root}, Parent(d) = p, Link(p, Slot(d), d)
        PROVE  /\ Slot(d) = 2 /\ pc[d] # "unborn" =>
                    pc'[p] \notin Forking(1) \cup {"fork2"}
               /\ pc'[p] \in Serving(Slot(d)) => pc[d] # "unborn"
               /\ pc'[p] = Collect(Slot(d)) => pc[d] \in Ended
    <3>1. Slot(d) \in Child
      BY ParentIsProc
    <3>2. /\ Slot(d) = 2 /\ pc[d] # "unborn" => pc[p] \notin Forking(1)
          /\ pc[p] \in Serving(Slot(d)) => pc[d] # "unborn"
          /\ pc[p] = Collect(Slot(d)) => pc[d] \in Ended
      BY <2>8 DEF Link
    <3>. HIDE DEF Slot
    <3>. QED
      BY <1>1, <2>4, <3>1, <3>2
      DEF Forking, Serving, Fork, Count, Feed, Wait, Collect, After, Child
  <2>9. /\ pc[p] \notin Ended \cup {"unborn"}
        /\ pc'[p] \notin Leaf \cup {"fork1", "count1", "count2", "feed1", "feed2"}
    BY <1>1, <2>4 DEF Ended, Leaf, Collect, After, Child
  <2>. QED
    BY <1>1, <2>3, <2>4, <2>5, <2>7, <2>8, <2>9, MoveStep
<1>. QED
  BY <1>2, <1>6 DEF CollectLine

\* The children of a process are its two children.
LEMMA OtherChild ==
  ASSUME NEW d \in Procs \ {Root}, NEW k \in Child, d # ChildOf(Parent(d), k)
  PROVE  Slot(d) \in Child /\ Slot(d) # k
BY ParentIsProc

\* A process starts a child, or sends it something: the rest of the tree
\* does not notice.
LEMMA PairStep ==
  ASSUME NEW most, DeepEnough(most), Shape(most), Types', NEW p \in Procs,
         NEW k \in Child, pc[p] \in {Fork(k), Count(k), Feed(k)},
         UNCHANGED <<n, strings, sub, input>>,
         pc'[p] \in {Count(k), Feed(k)},
         pc'[ChildOf(p, k)] \in {pc[ChildOf(p, k)], "number"},
         \A q \in Procs \ {p, ChildOf(p, k)} : pc'[q] = pc[q],
         \A q \in Procs \ {p} : sent'[q] = sent[q],
         \A q \in Procs \ {ChildOf(p, k)} : stdin'[q] = stdin[q],
         Local(p)', Local(ChildOf(p, k))', Link(p, k, ChildOf(p, k))',
         pc'[ChildOf(p, k)] = pc[ChildOf(p, k)] \/ pc[ChildOf(p, k)] = "unborn"
  PROVE  Shape(most)'
<1>. DEFINE c == ChildOf(p, k)
<1>1. Types /\ Typed /\ Fits(most) /\ Local(p)
  BY DEF Shape
<1>2. n[p] >= 2
  BY <1>1 DEF Local, Forking
<1>3. /\ c \in Procs /\ c # Root /\ c # p /\ Len(c) = Len(p) + 1 /\ Len(p) \in Nat
      /\ Parent(c) = p /\ Slot(c) = k
  BY <1>1, <1>2, Deep, ChildIsProc, ProcIsSeq
<1>4. /\ pc[p] \notin Ended \cup {"unborn"} /\ pc'[p] # "unborn"
      /\ pc'[p] \notin Leaf \cup {"fork1"}
      /\ pc'[p] # "number" /\ pc'[p] # "read"
  BY DEF Ended, Leaf, Fork, Count, Feed, Child
<1>5. ASSUME NEW d \in Procs \ {Root}, d \in {p, c} \/ Parent(d) \in {p, c}
      PROVE  Link(Parent(d), Slot(d), d)'
  <2>. DEFINE q == Parent(d)
              j == Slot(d)
  <2>1. /\ Link(q, j, d) /\ Local(d) /\ q \in Procs /\ j \in Child /\ q # d
        /\ Len(d) = Len(q) + 1 /\ Len(q) \in Nat
    BY ParentIsProc, ProcIsSeq DEF Shape
  <2>2. CASE d = p
    <3>1. q # p /\ q # c
      BY <1>3, <2>1, <2>2
    <3>. HIDE DEF q, j, c
    <3>2. Link(q, j, d)'
      BY <1>3, <1>4, <2>1, <2>2, <3>1, ChildMoves DEF c
    <3>. QED
      BY <3>2 DEF q, j
  <2>3. CASE d = c
    BY <1>3, <2>3
  <2>4. CASE q = p /\ d # c
    <3>1. j # k /\ d # p
      BY <2>1, <2>4, OtherChild
    <3>2. pc'[d] = pc[d] /\ stdin'[d] = stdin[d]
      BY <2>4, <3>1
    <3>3. pc'[p] \notin {Count(j), Feed(j), Collect(j)} /\ pc'[p] \notin Serving(j)
      BY <2>1, <3>1 DEF Count, Feed, Wait, Collect, Serving, Child
    <3>4. ASSUME j = 2, pc[d] # "unborn"
          PROVE  pc'[p] \notin Forking(1) \cup {"fork2"}
      <4>1. pc[p] \notin Leaf \cup {"fork1"} /\ pc[p] \notin Forking(1) \cup {"fork2"}
        BY <2>1, <2>4, <3>4 DEF Link
      <4>. QED
        BY <2>1, <3>1, <3>4, <4>1 DEF Forking, Fork, Count, Feed, Wait, Collect, Child
    <3>. HIDE DEF q, j, c
    <3>5. Link(q, j, d)'
      <4>1. pc'[q] \notin Leaf \cup {"fork1", Count(j), Feed(j)}
        BY <1>4, <2>4, <3>3
      <4>2. j = 2 /\ pc[d] # "unborn" => pc'[q] \notin Forking(1) \cup {"fork2"}
        BY <2>4, <3>4
      <4>3. pc'[q] \notin Serving(j) /\ pc'[q] # Collect(j)
        BY <2>4, <3>3
      <4>. QED
        BY <2>1, <3>2, <4>1, <4>2, <4>3, ParentMoves
    <3>. QED
      BY <3>5 DEF q, j
  <2>5. CASE q = c
    <3>1. d # p /\ d # c
      BY <1>3, <2>1, <2>5
    <3>2. pc'[d] = pc[d] /\ stdin'[d] = stdin[d]
      BY <3>1
    <3>3. CASE pc'[c] = pc[c]
      <4>. HIDE DEF q, j
      <4>1. Link(q, j, d)'
        <5>1. pc'[q] = pc[q] /\ sent'[q] = sent[q]
          BY <1>3, <2>5, <3>3
        <5>. HIDE DEF c
        <5>. QED
          BY <2>1, <3>2, <5>1, LinkFrame
      <4>. QED
        BY <4>1 DEF q, j
    <3>4. CASE pc[c] = "unborn" /\ pc'[c] = "number"
      <4>1. pc[d] = "unborn" /\ n[d] = 0 /\ strings[d] = <<>>
        BY <2>5, <3>4, NoChildren DEF Leaf
      <4>2. pc'[q] \notin Serving(j)
        BY <2>1, <2>5, <3>4 DEF Serving, Count, Feed, Wait, Collect
      <4>. HIDE DEF q, j, c
      <4>3. Link(q, j, d)'
        BY <3>2, <4>1, <4>2, LinkUnborn DEF Serving
      <4>. QED
        BY <4>3 DEF q, j
    <3>. QED
      BY <3>3, <3>4
  <2>. QED
    BY <1>5, <2>2, <2>3, <2>4, <2>5
<1>6. p = Root => Typed'
  BY <1>1, <1>3, <1>4 DEF Typed
<1>7. Root \in {p, c} => Typed'
  BY <1>3, <1>6
<1>8. \A q \in {p, c} : n'[q] <= most[Len(q)]
  BY <1>1, <1>3 DEF Fits
<1>9. \A q \in Procs \ {p, c} :
        /\ pc'[q] = pc[q] /\ n'[q] = n[q] /\ strings'[q] = strings[q]
        /\ sub'[q] = sub[q] /\ sent'[q] = sent[q] /\ stdin'[q] = stdin[q]
  OBVIOUS
<1>10. \A q \in {p, c} : Local(q)'
  OBVIOUS
<1>. DEFINE S == {p, c}
<1>11. S \in SUBSET Procs
  BY <1>3
<1>12. /\ \A q \in Procs \ S :
             /\ pc'[q] = pc[q] /\ n'[q] = n[q] /\ strings'[q] = strings[q]
             /\ sub'[q] = sub[q] /\ sent'[q] = sent[q] /\ stdin'[q] = stdin[q]
       /\ \A q \in S : Local(q)' /\ n'[q] <= most[Len(q)]
       /\ \A d \in Procs \ {Root} :
            d \in S \/ Parent(d) \in S => Link(Parent(d), Slot(d), d)'
       /\ Root \in S => Typed'
  BY <1>5, <1>7, <1>8, <1>9, <1>10
<1>. HIDE DEF S
<1>. QED
  BY <1>11, <1>12, Others

\* A process that forks or feeds: what its child and its halves are.
LEMMA Busy ==
  ASSUME NEW most, DeepEnough(most), Shape(most), NEW p \in Procs,
         NEW k \in Child, pc[p] \in Forking(k)
  PROVE  LET c == ChildOf(p, k)
         IN  /\ c \in Procs \ {Root} /\ c # p /\ Parent(c) = p /\ Slot(c) = k
             /\ Link(p, k, c) /\ Local(c) /\ stdin[c] \in Seq(Int)
             /\ n[p] \in Int /\ n[p] >= 2 /\ Len(strings[p]) = n[p]
             /\ strings[p] \in Seq(Int)
             /\ Size(p, k) \in Nat /\ Size(p, k) >= 1 /\ Size(p, k) < n[p]
             /\ Offset(p, k) \in Nat /\ Offset(p, k) + Size(p, k) <= n[p]
<1>. DEFINE c == ChildOf(p, k)
<1>1. Types /\ Local(p) /\ Fits(most)
  BY DEF Shape
<1>2. n[p] \in Int /\ n[p] >= 2 /\ strings[p] \in Seq(Int)
  BY <1>1 DEF Local, Types
<1>3. Len(strings[p]) = n[p]
  BY <1>1 DEF Local, Forking, Early, Fork, Count, Feed, Wait, Collect, Child
<1>4. c \in Procs \ {Root} /\ c # p /\ Parent(c) = p /\ Slot(c) = k
  BY <1>1, <1>2, Deep, ChildIsProc
<1>5. Link(p, k, c) /\ Local(c)
  BY <1>4 DEF Shape
<1>6. stdin[c] \in Seq(Int)
  BY <1>1, <1>4 DEF Types
<1>. QED
  BY <1>2, <1>3, <1>4, <1>5, <1>6, HalfSizes

LEMMA ForkChildStep ==
  ASSUME NEW most, DeepEnough(most), Shape(most), NEW p \in Procs,
         NEW k \in Child, ForkChild(p, k)
  PROVE  Shape(most)'
<1>. DEFINE c == ChildOf(p, k)
<1>1. /\ Types /\ Local(p) /\ pc[p] = Fork(k)
      /\ UNCHANGED <<n, strings, sub, stdin, stdout, input>>
      /\ sent' = [sent EXCEPT ![p] = 0]
  BY DEF Shape, ForkChild, At
<1>2. CASE ForkFails /\ Fail(p)
  BY <1>1, <1>2, FailStep DEF Ended, Fork
<1>3. CASE pc' = [pc EXCEPT ![p] = Count(k), ![c] = "number"]
  <2>1. /\ c \in Procs \ {Root} /\ c # p /\ Link(p, k, c) /\ Local(c)
        /\ n[p] \in Int /\ n[p] >= 2 /\ Len(strings[p]) = n[p]
        /\ Size(p, k) \in Nat /\ Size(p, k) >= 1
    BY <1>1, Busy DEF Forking
  <2>. HIDE DEF c
  <2>2. /\ pc' \in [Procs -> Labels] /\ pc'[p] = Count(k) /\ pc'[c] = "number"
        /\ \A q \in Procs \ {p, c} : pc'[q] = pc[q]
    BY <1>1, <1>3, <2>1, IsLabel DEF Types
  <2>3. /\ sent' \in [Procs -> Nat] /\ sent'[p] = 0
        /\ \A q \in Procs \ {p} : sent'[q] = sent[q]
    BY <1>1 DEF Types
  <2>4. Types'
    BY <1>1, <2>2, <2>3 DEF Types
  <2>5. pc[c] = "unborn"
    BY <1>1, <2>1 DEF Link, Fork, Leaf, Child
  <2>6. /\ n[c] = 0 /\ strings[c] = <<>> /\ sent[c] = 0 /\ sub[c][1] = <<>>
        /\ sub[c][2] = <<>> /\ stdin[c] = <<>> /\ Len(<<>>) = 0
    BY <2>1, <2>5, EmptySeq DEF Local, Early, Leaf
  <2>7. \A q, l : Size(q, l)' = Size(q, l)
    BY <1>1 DEF Size
  <2>8. Local(p)'
    <3>1. CASE k = 1
      <4>1. pc[p] = "fork1" /\ pc'[p] = "count1"
        BY <1>1, <2>2, <3>1 DEF Fork, Count
      <4>. QED
        BY <1>1, <2>1, <2>3, <2>7, <4>1
        DEF Local, Leaf, Early, Forking, Fork, Count, Feed, Wait, Collect, Child
    <3>2. CASE k = 2
      <4>1. pc[p] = "fork2" /\ pc'[p] = "count2"
        BY <1>1, <2>2, <3>2 DEF Fork, Count
      <4>. QED
        BY <1>1, <2>1, <2>3, <2>7, <4>1
        DEF Local, Leaf, Early, Forking, Fork, Count, Feed, Wait, Collect, Child
    <3>. QED
      BY <3>1, <3>2 DEF Child
  <2>9. Local(c)'
    <3>1. Size(c, 1) = 0 /\ Size(c, 2) = 0
      BY <2>1, <2>6, HalfSizes
    <3>2. sent'[c] = 0
      BY <2>1, <2>3, <2>6
    <3>. QED
      BY <1>1, <2>2, <2>6, <2>7, <3>1, <3>2
      DEF Local, Leaf, Early, Forking, Fork, Count, Feed, Wait, Collect, Child
  <2>10. Link(p, k, c)'
    <3>1. Taken(c)' = 0 /\ Len(stdin'[c]) = 0 /\ n'[c] = 0 /\ Len(strings'[c]) = 0
      BY <1>1, <2>6 DEF Taken
    <3>2. /\ pc'[p] \notin Leaf \cup {"fork1"} /\ pc'[p] # Collect(k) /\ pc'[p] # Feed(k)
          /\ k = 2 => pc'[p] \notin Forking(1) \cup {"fork2"}
          /\ pc'[c] # "unborn"
      BY <2>2 DEF Leaf, Forking, Fork, Count, Feed, Wait, Collect, Child
    <3>. QED
      BY <1>1, <2>1, <2>7, <3>1, <3>2 DEF Link
  <2>. QED
    BY <1>1, <2>1, <2>2, <2>3, <2>4, <2>5, <2>8, <2>9, <2>10, PairStep DEF c
<1>. QED
  BY <1>2, <1>3 DEF ForkChild

LEMMA SendCountStep ==
  ASSUME NEW most, DeepEnough(most), Shape(most), NEW p \in Procs,
         NEW k \in Child, SendCount(p, k)
  PROVE  Shape(most)'
<1>. DEFINE c == ChildOf(p, k)
            s == stdin[c]
            m == Size(p, k)
            u == Append(s, m)
<1>1. /\ Types /\ Local(p) /\ pc[p] = Count(k)
      /\ UNCHANGED <<n, strings, sub, sent, stdout, input>>
  BY DEF Shape, SendCount, At
<1>2. CASE Broken(p, k) /\ UNCHANGED stdin
  BY <1>1, <1>2, FailStep DEF Broken, Ended, Count
<1>3. CASE Write(p, k, m) /\ Goto(p, Feed(k))
  <2>1. /\ c \in Procs \ {Root} /\ c # p /\ Link(p, k, c) /\ Local(c)
        /\ n[p] \in Int /\ n[p] >= 2 /\ Len(strings[p]) = n[p]
        /\ m \in Nat /\ m >= 1
    BY <1>1, Busy DEF Forking
  <2>2. s \in Seq(Int)
    BY <1>1, <2>1 DEF Types
  <2>3. /\ u \in Seq(Int) /\ Len(u) = Len(s) + 1
    BY <2>1, <2>2, AppendProperties
  <2>4. pc[c] \notin Ended /\ stdin' = [stdin EXCEPT ![c] = u]
    BY <1>3 DEF Write
  <2>5. pc[c] # "unborn"
    BY <1>1, <2>1 DEF Link, Serving
  <2>6. Taken(c) = 0 /\ Len(s) = 0
    <3>1. Taken(c) + Len(s) = 0
      BY <1>1, <2>1, <2>4, <2>5 DEF Link
    <3>2. Len(s) \in Nat
      BY <2>2, LenProperties
    <3>3. Taken(c) \in Nat
      <4>1. Len(strings[c]) \in Nat
        BY <1>1, <2>1, LenProperties DEF Types
      <4>. QED
        BY <4>1 DEF Taken
    <3>. HIDE DEF s
    <3>. QED
      BY <3>1, <3>2, <3>3
  <2>7. u[1] = m /\ Len(u) = 1
    BY <2>1, <2>2, <2>6, AppendProperties
  <2>. HIDE DEF c, s, m, u
  <2>8. /\ stdin' \in [Procs -> Seq(Int)] /\ stdin'[c] = u
        /\ \A q \in Procs \ {c} : stdin'[q] = stdin[q]
    BY <1>1, <2>1, <2>3, <2>4 DEF Types
  <2>9. /\ pc' \in [Procs -> Labels] /\ pc'[p] = Feed(k)
        /\ \A q \in Procs \ {p} : pc'[q] = pc[q]
    BY <1>1, <1>3, IsLabel DEF Types, Goto
  <2>10. Types'
    BY <1>1, <2>8, <2>9 DEF Types
  <2>11. \A q, l : Size(q, l)' = Size(q, l)
    BY <1>1 DEF Size
  <2>12. Local(p)'
    <3>1. CASE k = 1
      <4>1. pc[p] = "count1" /\ pc'[p] = "feed1" /\ m = Size(p, 1)
        BY <1>1, <2>9, <3>1 DEF Feed, Count, m
      <4>. QED
        BY <1>1, <2>1, <2>11, <4>1
        DEF Local, Leaf, Early, Forking, Fork, Count, Feed, Wait, Collect, Child
    <3>2. CASE k = 2
      <4>1. pc[p] = "count2" /\ pc'[p] = "feed2" /\ m = Size(p, 2)
        BY <1>1, <2>9, <3>2 DEF Feed, Count, m
      <4>. QED
        BY <1>1, <2>1, <2>11, <4>1
        DEF Local, Leaf, Early, Forking, Fork, Count, Feed, Wait, Collect, Child
    <3>. QED
      BY <3>1, <3>2 DEF Child
  <2>13. Local(c)'
    BY <1>1, <2>1, <2>5, <2>9, LocalFrame
  <2>14. Link(p, k, c)'
    <3>1. /\ Taken(c)' = 0 /\ n'[c] = n[c] /\ strings'[c] = strings[c]
          /\ n'[p] = n[p] /\ strings'[p] = strings[p] /\ sent'[p] = sent[p]
          /\ pc'[c] = pc[c] /\ Offset(p, k)' = Offset(p, k)
          /\ \A i : Item(p, k, i)' = Item(p, k, i)
      BY <1>1, <2>1, <2>6, <2>9, <2>11 DEF Taken, Offset, Item
    <3>6. Item(p, k, 1) = m
      BY DEF Item, m
    <3>2. /\ pc'[p] \notin Leaf \cup {"fork1"} /\ pc'[p] # Collect(k) /\ pc'[p] # Count(k)
          /\ k = 2 => pc'[p] \notin Forking(1) \cup {"fork2"}
      BY <2>9 DEF Leaf, Forking, Fork, Count, Feed, Wait, Collect, Child
    <3>3. sent[p] = 0 /\ m = Size(p, k)
      BY <1>1 DEF Local, m
    <3>4. \A i \in 1 .. Len(stdin'[c]) : stdin'[c][i] = Item(p, k, 0 + i)
      <4>1. \A i \in 1 .. 1 : i = 1 /\ 0 + i = 1
        OBVIOUS
      <4>2. \A i \in 1 .. 1 : u[i] = Item(p, k, 0 + i)
        BY <2>7, <3>6, <4>1
      <4>. QED
        BY <2>7, <2>8, <4>2
    <3>5. Taken(c)' + Len(stdin'[c]) = 1
      BY <2>7, <2>8, <3>1
    <3>. QED
      BY <2>1, <2>5, <2>11, <3>1, <3>2, <3>3, <3>4, <3>5 DEF Link
  <2>. QED
    BY <1>1, <2>1, <2>8, <2>9, <2>10, <2>12, <2>13, <2>14, PairStep DEF c
<1>. QED
  BY <1>2, <1>3 DEF SendCount

LEMMA SendLineStep ==
  ASSUME NEW most, DeepEnough(most), Shape(most), NEW p \in Procs,
         NEW k \in Child, SendLine(p, k)
  PROVE  Shape(most)'
<1>. DEFINE c == ChildOf(p, k)
            s == stdin[c]
            m == Size(p, k)
            v == strings[p][Offset(p, k) + sent[p] + 1]
            u == Append(s, v)
<1>1. /\ Types /\ Local(p) /\ pc[p] = Feed(k)
      /\ UNCHANGED <<n, strings, sub, stdout, input>>
  BY DEF Shape, SendLine, At
<1>2. CASE Broken(p, k) /\ UNCHANGED <<stdin, sent>>
  BY <1>1, <1>2, FailStep DEF Broken, Ended, Feed
<1>3. /\ c \in Procs \ {Root} /\ c # p /\ Parent(c) = p /\ Slot(c) = k
      /\ Link(p, k, c) /\ Local(c)
      /\ n[p] \in Int /\ n[p] >= 2 /\ Len(strings[p]) = n[p]
      /\ strings[p] \in Seq(Int)
      /\ m \in Nat /\ m >= 1 /\ m < n[p]
      /\ Offset(p, k) \in Nat /\ Offset(p, k) + m <= n[p]
  BY <1>1, Busy DEF Forking
<1>4. sent[p] \in Nat /\ sent[p] <= m
  BY <1>1 DEF Types, Local
<1>5. \A q, l : Size(q, l)' = Size(q, l)
  BY <1>1 DEF Size
<1>6. CASE /\ sent[p] < m /\ Write(p, k, v)
           /\ sent' = [sent EXCEPT ![p] = @ + 1] /\ UNCHANGED pc
  <2>1. s \in Seq(Int)
    BY <1>1, <1>3 DEF Types
  <2>2. v \in Int
    <3>. DEFINE i == Offset(p, k) + sent[p] + 1
    <3>3. ASSUME NEW o \in Nat, NEW d \in Nat, NEW e \in Nat, NEW l \in Int,
                 d < e, o + e <= l
          PROVE  o + d + 1 \in 1 .. l
      BY <3>3
    <3>1. i \in 1 .. Len(strings[p])
      <4>. HIDE DEF m
      <4>. QED
        BY <1>3, <1>4, <1>6, <3>3
    <3>. HIDE DEF i
    <3>2. strings[p][i] \in Int
      BY <1>3, <3>1, ElementOfSeq
    <3>. QED
      BY <3>2 DEF i
  <2>3. /\ u \in Seq(Int) /\ Len(u) = Len(s) + 1 /\ Len(s) \in Nat
        /\ \A i \in 1 .. Len(s) : u[i] = s[i]
        /\ u[Len(s) + 1] = v
    BY <2>1, <2>2, AppendProperties, LenProperties
  <2>4. pc[c] \notin Ended /\ stdin' = [stdin EXCEPT ![c] = u]
    BY <1>6 DEF Write
  <2>5. pc[c] # "unborn"
    BY <1>1, <1>3 DEF Link, Serving
  <2>6. /\ Taken(c) + Len(s) = 1 + sent[p]
        /\ \A i \in 1 .. Len(s) : s[i] = Item(p, k, Taken(c) + i)
    BY <1>1, <1>3, <2>4, <2>5 DEF Link
  <2>7. Taken(c) \in Nat
    <3>1. Len(strings[c]) \in Nat
      BY <1>1, <1>3, LenProperties DEF Types
    <3>. QED
      BY <3>1 DEF Taken
  <2>8. v = Item(p, k, sent[p] + 2)
    <3>1. /\ sent[p] + 2 # 1
          /\ Offset(p, k) + (sent[p] + 2) - 1 = Offset(p, k) + sent[p] + 1
      BY <1>3, <1>4
    <3>. QED
      BY <3>1 DEF Item
  <2>. HIDE DEF c, s, m, v, u
  <2>9. /\ stdin' \in [Procs -> Seq(Int)] /\ stdin'[c] = u
        /\ \A q \in Procs \ {c} : stdin'[q] = stdin[q]
    BY <1>1, <1>3, <2>3, <2>4 DEF Types
  <2>10. /\ sent' \in [Procs -> Nat] /\ sent'[p] = sent[p] + 1
         /\ \A q \in Procs \ {p} : sent'[q] = sent[q]
    BY <1>1, <1>6 DEF Types
  <2>11. Types'
    BY <1>1, <1>6, <2>9, <2>10 DEF Types
  <2>12. sent'[p] <= m /\ sent'[p] <= n[p]
    BY <1>3, <1>4, <1>6, <2>10
  <2>13. Local(p)'
    <3>1. CASE k = 1
      <4>1. pc[p] = "feed1" /\ pc'[p] = "feed1" /\ m = Size(p, 1)
        BY <1>1, <1>6, <3>1 DEF Feed, m
      <4>. QED
        BY <1>1, <1>3, <1>5, <2>12, <4>1
        DEF Local, Leaf, Early, Forking, Fork, Count, Feed, Wait, Collect, Child
    <3>2. CASE k = 2
      <4>1. pc[p] = "feed2" /\ pc'[p] = "feed2" /\ m = Size(p, 2)
        BY <1>1, <1>6, <3>2 DEF Feed, m
      <4>. QED
        BY <1>1, <1>3, <1>5, <2>12, <4>1
        DEF Local, Leaf, Early, Forking, Fork, Count, Feed, Wait, Collect, Child
    <3>. QED
      BY <3>1, <3>2 DEF Child
  <2>14. Local(c)'
    BY <1>1, <1>3, <1>6, <2>5, <2>10, LocalFrame
  <2>15. Taken(c) + Len(u) = 1 + (sent[p] + 1) /\ Taken(c) + Len(u) <= m + 1
    <3>1. ASSUME NEW a \in Nat, NEW b \in Nat, NEW d \in Nat, NEW e \in Nat,
                 a + b = 1 + d, d < e
          PROVE  a + (b + 1) = 1 + (d + 1) /\ a + (b + 1) <= e + 1
      BY <3>1
    <3>2. /\ Taken(c) + (Len(s) + 1) = 1 + (sent[p] + 1)
          /\ Taken(c) + (Len(s) + 1) <= m + 1
      BY <1>3, <1>4, <1>6, <2>3, <2>6, <2>7, <3>1
    <3>. QED
      BY <2>3, <3>2
  <2>16. \A i \in 1 .. Len(u) : u[i] = Item(p, k, Taken(c) + i)
    <3>1. ASSUME NEW i \in 1 .. Len(s) + 1
          PROVE  i \in 1 .. Len(s) \/ i = Len(s) + 1
      BY <2>3
    <3>2. Taken(c) + (Len(s) + 1) = sent[p] + 2
      BY <1>4, <2>3, <2>6, <2>7
    <3>. QED
      BY <2>3, <2>6, <2>8, <3>1, <3>2
  <2>17. Link(p, k, c)'
    <3>1. /\ Taken(c)' = Taken(c) /\ n'[c] = n[c] /\ strings'[c] = strings[c]
          /\ n'[p] = n[p] /\ strings'[p] = strings[p] /\ pc'[p] = pc[p]
          /\ pc'[c] = pc[c] /\ Offset(p, k)' = Offset(p, k)
          /\ \A i : Item(p, k, i)' = Item(p, k, i)
      BY <1>1, <1>5, <1>6 DEF Taken, Offset, Item
    <3>2. pc[p] # Count(k) /\ pc[p] # Collect(k) /\ m = Size(p, k)
      BY <1>1 DEF Count, Feed, Collect, Child, m
    <3>3. \A i \in 1 .. Len(stdin'[c]) : stdin'[c][i] = Item(p, k, Taken(c) + i)
      BY <2>9, <2>16
    <3>4. /\ Taken(c) + Len(stdin'[c]) <= Size(p, k) + 1
          /\ Taken(c) + Len(stdin'[c]) = 1 + sent'[p]
      BY <2>9, <2>10, <2>15, <3>2
    <3>5. Size(p, k)' = Size(p, k)
      BY <3>1 DEF Size
    <3>. QED
      BY <1>3, <1>5, <3>1, <3>2, <3>3, <3>4, <3>5 DEF Link
  <2>. QED
    BY <1>1, <1>3, <1>6, <2>9, <2>10, <2>11, <2>13, <2>14, <2>17, PairStep DEF c
<1>7. CASE sent[p] = m /\ Goto(p, Wait(k)) /\ UNCHANGED <<stdin, sent>>
  <2>1. /\ pc' \in [Procs -> Labels] /\ pc'[p] = Wait(k)
        /\ \A q \in Procs \ {p} : pc'[q] = pc[q]
    BY <1>1, <1>7, IsLabel DEF Types, Goto
  <2>2. Types'
    BY <1>1, <1>7, <2>1 DEF Types
  <2>3. Local(p)'
    <3>1. CASE k = 1
      <4>1. pc[p] = "feed1" /\ pc'[p] = "wait1"
        BY <1>1, <2>1, <3>1 DEF Feed, Wait
      <4>. QED
        BY <1>1, <1>3, <1>5, <1>7, <4>1
        DEF Local, Leaf, Early, Forking, Fork, Count, Feed, Wait, Collect, Child
    <3>2. CASE k = 2
      <4>1. pc[p] = "feed2" /\ pc'[p] = "wait2"
        BY <1>1, <2>1, <3>2 DEF Feed, Wait
      <4>. QED
        BY <1>1, <1>3, <1>5, <1>7, <4>1
        DEF Local, Leaf, Early, Forking, Fork, Count, Feed, Wait, Collect, Child
    <3>. QED
      BY <3>1, <3>2 DEF Child
  <2>4. ASSUME NEW d \in Procs \ {Root}, Parent(d) = p, Link(p, Slot(d), d)
        PROVE  /\ Slot(d) = 2 /\ pc[d] # "unborn" =>
                    pc'[p] \notin Forking(1) \cup {"fork2"}
               /\ pc'[p] \in Serving(Slot(d)) => pc[d] # "unborn"
               /\ pc'[p] = Collect(Slot(d)) => pc[d] \in Ended
    <3>1. Slot(d) \in Child
      BY ParentIsProc
    <3>2. /\ Slot(d) = 2 /\ pc[d] # "unborn" => pc[p] \notin Forking(1)
          /\ pc[p] \in Serving(Slot(d)) => pc[d] # "unborn"
      BY <2>4 DEF Link
    <3>. HIDE DEF Slot
    <3>. QED
      BY <1>1, <2>1, <3>1, <3>2
      DEF Forking, Serving, Fork, Count, Feed, Wait, Collect, Child
  <2>5. /\ pc[p] \notin Ended \cup {"unborn"}
        /\ pc'[p] \notin Leaf \cup {"fork1", "count1", "count2", "feed1", "feed2"}
    BY <1>1, <2>1 DEF Ended, Leaf, Feed, Wait, Child
  <2>. QED
    BY <1>1, <1>7, <2>1, <2>2, <2>3, <2>4, <2>5, MoveStep
<1>. QED
  BY <1>2, <1>6, <1>7 DEF SendLine

LEMMA KillStep ==
  ASSUME NEW most, Shape(most), NEW p \in Procs, Kill(p)
  PROVE  Shape(most)'
BY FailStep DEF Kill

LEMMA ShapeInit ==
  ASSUME NEW most, DeepEnough(most), Init
  PROVE  Shape(most)
<1>1. Types
  <2>1. input \in Seq(Int) /\ <<>> \in Seq(Int)
    BY ConstantsAssumption, EmptySeq DEF Init
  <2>2. pc \in [Procs -> Labels]
    BY IsLabel DEF Init, Labels
  <2>. QED
    BY <2>1, <2>2 DEF Init, Types
<1>2. \A p \in Procs :
        /\ pc[p] = (IF p = Root THEN "number" ELSE "unborn")
        /\ n[p] = 0 /\ strings[p] = <<>> /\ Len(strings[p]) = 0
        /\ sub[p][1] = <<>> /\ sub[p][2] = <<>> /\ sent[p] = 0
        /\ stdin[p] = (IF p = Root THEN input ELSE <<>>)
  BY EmptySeq DEF Init, Child
<1>3. ASSUME NEW p \in Procs
      PROVE  Local(p)
  <2>1. Size(p, 1) = 0 /\ Size(p, 2) = 0 /\ Len(<<>>) = 0
    BY <1>2, HalfSizes, EmptySeq
  <2>2. pc[p] \in {"number", "unborn"}
    BY <1>2
  <2>. QED
    BY <1>2, <2>1, <2>2
    DEF Local, Leaf, Early, Forking, Fork, Count, Feed, Wait, Collect, Child
<1>4. ASSUME NEW c \in Procs \ {Root}
      PROVE  Link(Parent(c), Slot(c), c)
  <2>. DEFINE q == Parent(c)
              k == Slot(c)
  <2>1. q \in Procs /\ k \in Child
    BY ParentIsProc
  <2>2. pc[q] \notin Serving(k) /\ pc[q] # Collect(k)
    BY <1>2, <2>1 DEF Serving, Count, Feed, Wait, Collect
  <2>. HIDE DEF q, k
  <2>3. Link(q, k, c)
    BY <1>2, <2>2 DEF Link, Ended
  <2>. QED
    BY <2>3 DEF q, k
<1>5. Typed
  <2>1. input \in Inputs
    BY DEF Init
  <2>2. /\ pc[Root] = "number" /\ n[Root] = 0 /\ strings[Root] = <<>>
        /\ Len(strings[Root]) = 0 /\ stdin[Root] = input
    BY <1>2, RootIsProc
  <2>. QED
    BY <2>1, <2>2 DEF Typed
<1>6. Fits(most)
  BY <1>2, ProcIsSeq DEF Fits, DeepEnough
<1>. QED
  BY <1>1, <1>3, <1>4, <1>5, <1>6 DEF Shape

LEMMA ShapeStep ==
  ASSUME NEW most, DeepEnough(most), Shape(most), [Next]_vars
  PROVE  Shape(most)'
<1>1. ASSUME NEW p \in Procs, ProcNext(p) \/ Kill(p)
      PROVE  Shape(most)'
  BY <1>1, ReadNumberStep, ReadLineStep, PrintSingleStep, MergeStep, KillStep,
     ForkChildStep, SendCountStep, SendLineStep, AwaitStep, CollectLineStep
  DEF ProcNext
<1>2. CASE UNCHANGED vars
  <2>1. /\ Types' /\ input' = input
        /\ \A q \in Procs \ {} :
             /\ pc'[q] = pc[q] /\ n'[q] = n[q] /\ strings'[q] = strings[q]
             /\ sub'[q] = sub[q] /\ sent'[q] = sent[q] /\ stdin'[q] = stdin[q]
    BY <1>2 DEF vars, Shape, Types
  <2>. QED
    BY <2>1, Others
<1>. QED
  BY <1>1, <1>2 DEF Next

LEMMA ShapeAlways ==
  ASSUME NEW most, DeepEnough(most)
  PROVE  Spec => []Shape(most)
<1>1. Init => Shape(most)
  BY ShapeInit
<1>2. Shape(most) /\ [Next]_vars => Shape(most)'
  BY ShapeStep
<1>. QED
  BY <1>1, <1>2, PTL DEF Spec

(***************************************************************************)
(* No process reads, sends or collects more lines than its number says,    *)
(* however its pipes, children and readers fail: the arrays that hold the  *)
(* lines are never overrun.                                                *)
(***************************************************************************)
THEOREM TypeCorrect ==
  ASSUME NEW most, DeepEnough(most)
  PROVE  Spec => []TypeOK
<1>1. ASSUME Shape(most)
      PROVE  TypeOK
  <2>1. Types /\ \A p \in Procs : Local(p)
    BY <1>1 DEF Shape
  <2>2. ASSUME NEW p \in Procs, pc[p] # "failed"
        PROVE  /\ Len(strings[p]) <= n[p]
               /\ \A k \in Child : sent[p] <= n[p] /\ Len(sub[p][k]) <= Size(p, k)
    <3>1. Local(p) /\ n[p] \in Int
      BY <2>1 DEF Types
    <3>2. Len(strings[p]) \in Nat
      BY <2>1, LenProperties DEF Types
    <3>3. Len(strings[p]) <= n[p]
      <4>1. CASE pc[p] \in Early
        BY <3>1, <4>1, EmptySeq DEF Local
      <4>2. CASE pc[p] \notin Early
        BY <2>2, <3>1, <3>2, <4>2 DEF Local
      <4>. QED
        BY <4>1, <4>2
    <3>4. \A k \in Child : sent[p] <= n[p] /\ Len(sub[p][k]) <= Size(p, k)
      BY <2>2, <3>1 DEF Local
    <3>. QED
      BY <3>3, <3>4
  <2>. QED
    BY <2>1, <2>2 DEF TypeOK, Types
<1>. QED
  BY <1>1, ShapeAlways, PTL

-----------------------------------------------------------------------------
(***************************************************************************)
(* The second part of the invariant: how many lines have been printed, and *)
(* that nothing moves in a tree that is not served.                        *)
(***************************************************************************)
\* Somebody may still read what c prints.
Heard(c) == c # Root => pc[Parent(c)] \in Serving(Slot(c))

\* Lines of c that its parent has read already.
Heeded(c) == IF c = Root THEN 0 ELSE Len(sub[Parent(c)][Slot(c)])

Printed(c) == Heeded(c) + Len(stdout[c])

\* A process prints when it has read all its lines and its children are done,
\* and when it succeeds it has printed all of them.
Counted(c) ==
  Heard(c) =>
    /\ Printed(c) > 0 => \A k \in Child : Silent(c, k)
    /\ Printed(c) <= IF n[c] > 0 THEN n[c] ELSE 0
    /\ pc[c] \notin {"merge", "ok", "failed"} => Printed(c) = 0
    /\ pc[c] = "merge" => Printed(c) + Len(sub[c][1]) + Len(sub[c][2]) = n[c]
    /\ pc[c] = "ok" => Printed(c) = n[c]

Counting == \A p \in Procs : Still(p) /\ Counted(p)

\* What a step of process a can do to the others: start a child, or take a
\* line from it.
LEMMA Effects ==
  ASSUME Types, NEW a \in Procs, ProcNext(a) \/ Kill(a)
  PROVE  /\ pc[a] \notin Ended \cup {"unborn"}
         /\ \A q \in Procs \ {a} :
              /\ n'[q] = n[q] /\ strings'[q] = strings[q] /\ sub'[q] = sub[q]
              /\ \/ pc'[q] = pc[q]
                 \/ \E k \in Child :
                      /\ q = ChildOf(a, k) /\ pc[a] = Fork(k)
                      /\ pc'[a] = Count(k) /\ pc'[q] = "number"
              /\ \/ stdout'[q] = stdout[q]
                 \/ \E k \in Child :
                      q = ChildOf(a, k) /\ CollectLine(a, k) /\ stdout[q] # <<>>
<1>. USE DEF Types
<1>1. CASE ReadNumber(a) \/ ReadLine(a) \/ Kill(a)
  <2>1. pc[a] \in {"number", "read"} \/ pc[a] \notin Ended \cup {"unborn"}
    BY <1>1 DEF ReadNumber, ReadLine, Kill, At
  <2>2. pc[a] \notin Ended \cup {"unborn"}
    BY <2>1 DEF Ended
  <2>3. \A q \in Procs \ {a} :
          /\ n'[q] = n[q] /\ strings'[q] = strings[q] /\ sub'[q] = sub[q]
          /\ pc'[q] = pc[q] /\ stdout'[q] = stdout[q]
    <3>1. CASE ReadNumber(a)
      BY <3>1 DEF ReadNumber, Fail, Goto
    <3>2. CASE ReadLine(a)
      BY <3>2 DEF ReadLine, Fail, Goto
    <3>3. CASE Kill(a)
      BY <3>3 DEF Kill, Fail, Goto
    <3>. QED
      BY <1>1, <3>1, <3>2, <3>3
  <2>. QED
    BY <2>2, <2>3
<1>2. CASE PrintSingle(a) \/ Merge(a)
  <2>1. pc[a] \notin Ended \cup {"unborn"}
    BY <1>2 DEF PrintSingle, Merge, At, Ended
  <2>2. \A q \in Procs \ {a} :
          /\ n'[q] = n[q] /\ strings'[q] = strings[q] /\ sub'[q] = sub[q]
          /\ pc'[q] = pc[q] /\ stdout'[q] = stdout[q]
    <3>1. CASE PrintSingle(a)
      BY <3>1 DEF PrintSingle, Fail, Goto, Emit
    <3>2. CASE Merge(a)
      BY <3>2 DEF Merge, Fail, Goto, Emit
    <3>. QED
      BY <1>2, <3>1, <3>2
  <2>. QED
    BY <2>1, <2>2
<1>3. ASSUME NEW k \in Child, ForkChild(a, k)
      PROVE  /\ pc[a] = Fork(k)
             /\ \A q \in Procs \ {a} :
                  /\ n'[q] = n[q] /\ strings'[q] = strings[q] /\ sub'[q] = sub[q]
                  /\ \/ pc'[q] = pc[q]
                     \/ q = ChildOf(a, k) /\ pc'[a] = Count(k) /\ pc'[q] = "number"
                  /\ stdout'[q] = stdout[q]
  BY <1>3 DEF ForkChild, At, Fail, Goto
<1>4. ASSUME NEW k \in Child, SendCount(a, k) \/ SendLine(a, k) \/ Await(a, k)
      PROVE  /\ pc[a] \in {Count(k), Feed(k), Wait(k)}
             /\ \A q \in Procs \ {a} :
                  /\ n'[q] = n[q] /\ strings'[q] = strings[q] /\ sub'[q] = sub[q]
                  /\ pc'[q] = pc[q] /\ stdout'[q] = stdout[q]
  <2>1. CASE SendCount(a, k)
    BY <2>1 DEF SendCount, At, Broken, Fail, Goto
  <2>2. CASE SendLine(a, k)
    BY <2>2 DEF SendLine, At, Broken, Fail, Goto
  <2>3. CASE Await(a, k)
    BY <2>3 DEF Await, At, Goto
  <2>. QED
    BY <1>4, <2>1, <2>2, <2>3
<1>5. ASSUME NEW k \in Child, CollectLine(a, k)
      PROVE  /\ pc[a] = Collect(k)
             /\ \A q \in Procs \ {a} :
                  /\ n'[q] = n[q] /\ strings'[q] = strings[q] /\ sub'[q] = sub[q]
                  /\ pc'[q] = pc[q]
                  /\ \/ stdout'[q] = stdout[q]
                     \/ q = ChildOf(a, k) /\ stdout[q] # <<>>
  <2>1. CASE stdout[ChildOf(a, k)] = <<>> /\ Fail(a) /\ UNCHANGED <<sub, stdout>>
    BY <1>5, <2>1 DEF CollectLine, At, Fail, Goto
  <2>2. CASE /\ stdout[ChildOf(a, k)] # <<>>
             /\ stdout' = [stdout EXCEPT ![ChildOf(a, k)] = Tail(@)]
             /\ sub' = [sub EXCEPT ![a][k] = Append(@, Head(stdout[ChildOf(a, k)]))]
             /\ Goto(a, IF Len(sub'[a][k]) < Size(a, k) THEN Collect(k) ELSE After(k))
    BY <1>5, <2>2 DEF CollectLine, At, Goto
  <2>. QED
    BY <1>5, <2>1, <2>2 DEF CollectLine
<1>6. \A k \in Child :
        {Fork(k), Count(k), Feed(k), Wait(k), Collect(k)} \cap (Ended \cup {"unborn"}) = {}
  BY DEF Child, Ended, Fork, Count, Feed, Wait, Collect
<1>. QED
  <2>1. ASSUME NEW k \in Child,
               \/ ForkChild(a, k) \/ SendCount(a, k) \/ SendLine(a, k)
               \/ Await(a, k) \/ CollectLine(a, k)
        PROVE  /\ pc[a] \notin Ended \cup {"unborn"}
               /\ \A q \in Procs \ {a} :
                    /\ n'[q] = n[q] /\ strings'[q] = strings[q] /\ sub'[q] = sub[q]
                    /\ \/ pc'[q] = pc[q]
                       \/ /\ q = ChildOf(a, k) /\ pc[a] = Fork(k)
                          /\ pc'[a] = Count(k) /\ pc'[q] = "number"
                    /\ \/ stdout'[q] = stdout[q]
                       \/ q = ChildOf(a, k) /\ CollectLine(a, k) /\ stdout[q] # <<>>
    <3>1. CASE ForkChild(a, k)
      BY <1>3, <1>6, <3>1
    <3>2. CASE SendCount(a, k) \/ SendLine(a, k) \/ Await(a, k)
      BY <1>4, <1>6, <3>2
    <3>3. CASE CollectLine(a, k)
      BY <1>5, <1>6, <3>3
    <3>. QED
      BY <2>1, <3>1, <3>2, <3>3
  <2>. QED
    BY <1>1, <1>2, <2>1 DEF ProcNext

LEMMA ChildParent ==
  ASSUME NEW a \in Procs, NEW k \in Child, ChildOf(a, k) \in Procs
  PROVE  /\ ChildOf(a, k) # Root /\ ChildOf(a, k) # a
         /\ Parent(ChildOf(a, k)) = a /\ Slot(ChildOf(a, k)) = k
<1>1. a \in Seq(Child) /\ Len(a) \in Nat /\ Depth \in Nat
  BY ProcIsSeq, ConstantsAssumption
<1>2. Len(ChildOf(a, k)) = Len(a) + 1
  BY <1>1, AppendProperties DEF ChildOf
<1>3. Len(ChildOf(a, k)) \in 0 .. Depth
  BY ProcIsSeq
<1>4. Len(a) < Depth
  <2>. HIDE DEF ChildOf
  <2>. QED
    BY <1>1, <1>2, <1>3
<1>. QED
  BY <1>4, ChildIsProc

\* A child that is started was not there before.
LEMMA Birth ==
  ASSUME NEW most, DeepEnough(most), Shape(most), NEW a \in Procs, NEW k \in Child,
         pc[a] = Fork(k)
  PROVE  pc[ChildOf(a, k)] = "unborn"
<1>1. Link(a, k, ChildOf(a, k))
  BY Busy DEF Forking
<1>. QED
  BY <1>1 DEF Link, Fork, Leaf, Child

\* Nothing moves in a silent tree until its first process is started.
LEMMA SilentStep ==
  ASSUME Types, NEW a \in Procs, ProcNext(a) \/ Kill(a),
         NEW p \in Procs, NEW k \in Child, Silent(p, k),
         ~ (a = p /\ pc[p] = Fork(k) /\ pc'[p] = Count(k))
  PROVE  Silent(p, k)'
<1>. SUFFICES ASSUME NEW q \in Tree(p, k)
              PROVE  Quiet(q)'
  BY DEF Silent, Tree
<1>1. q \in Procs /\ q # Root /\ pc[q] \in Ended \cup {"unborn"} /\ stdout[q] = <<>>
  BY TreeParent DEF Silent, Quiet
<1>2. pc[a] \notin Ended \cup {"unborn"}
  BY Effects
<1>3. q # a
  BY <1>1, <1>2
<1>4. ASSUME NEW l \in Child, q = ChildOf(a, l), pc[a] = Fork(l), pc'[a] = Count(l)
      PROVE  FALSE
  <2>1. Parent(q) = a /\ Slot(q) = l
    BY <1>1, <1>4, ChildParent
  <2>2. CASE a = p /\ l = k
    BY <1>4, <2>2
  <2>3. CASE a \in Tree(p, k)
    BY <1>2, <2>3 DEF Silent, Quiet
  <2>. QED
    BY <2>1, <2>2, <2>3, TreeParent
<1>5. pc'[q] = pc[q]
  BY <1>1, <1>3, <1>4, Effects
<1>6. stdout'[q] = stdout[q]
  BY <1>1, <1>3, Effects
<1>. QED
  BY <1>1, <1>5, <1>6 DEF Quiet

\* A process is done with its child when it has got all the lines.
LEMMA ServiceEnds ==
  ASSUME Types, NEW p \in Procs, NEW k \in Child, ProcNext(p) \/ Kill(p),
         pc[p] \in Serving(k), pc'[p] \notin Serving(k) \cup {"failed"}
  PROVE  LET c == ChildOf(p, k)
         IN  /\ pc[p] = Collect(k) /\ stdout[c] # <<>>
             /\ stdout' = [stdout EXCEPT ![c] = Tail(@)]
             /\ sub' = [sub EXCEPT ![p][k] = Append(@, Head(stdout[c]))]
             /\ ~ (Len(sub'[p][k]) < Size(p, k)) /\ pc'[p] = After(k)
<1>. USE DEF Types
<1>1. pc[p] \notin {"number", "read", "print", "merge"}
      /\ \A l \in Child : /\ pc[p] # Fork(l)
                          /\ pc[p] \in {Count(l), Feed(l), Wait(l), Collect(l)} => l = k
  BY DEF Serving, Fork, Count, Feed, Wait, Collect, Child
<1>2. ~ ReadNumber(p) /\ ~ ReadLine(p) /\ ~ PrintSingle(p) /\ ~ Merge(p) /\ ~ Kill(p)
  BY <1>1 DEF ReadNumber, ReadLine, PrintSingle, Merge, Kill, At, Fail, Goto
<1>3. ASSUME NEW l \in Child,
             ForkChild(p, l) \/ SendCount(p, l) \/ SendLine(p, l) \/ Await(p, l)
      PROVE  FALSE
  <2>1. ~ ForkChild(p, l)
    BY <1>1 DEF ForkChild, At
  <2>2. CASE SendCount(p, l)
    BY <1>1, <2>2 DEF SendCount, At, Broken, Fail, Goto, Serving
  <2>3. CASE SendLine(p, l)
    BY <1>1, <2>3 DEF SendLine, At, Broken, Fail, Goto, Serving
  <2>4. CASE Await(p, l)
    BY <1>1, <2>4 DEF Await, At, Goto, Serving
  <2>. QED
    BY <1>3, <2>1, <2>2, <2>3, <2>4
<1>4. CollectLine(p, k)
  BY <1>1, <1>2, <1>3 DEF ProcNext, CollectLine, At
<1>. QED
  BY <1>4 DEF CollectLine, At, Fail, Goto, Serving

\* The child of p that has given its last line is done, and so is its tree.
LEMMA LastLine ==
  ASSUME NEW most, DeepEnough(most), Shape(most), Counting,
         NEW p \in Procs, NEW k \in Child, ProcNext(p),
         pc[p] = Collect(k), stdout[ChildOf(p, k)] # <<>>,
         stdout' = [stdout EXCEPT ![ChildOf(p, k)] = Tail(@)],
         sub' = [sub EXCEPT ![p][k] = Append(@, Head(stdout[ChildOf(p, k)]))],
         ~ (Len(sub'[p][k]) < Size(p, k)), pc'[p] = After(k)
  PROVE  Silent(p, k)'
<1>. DEFINE c == ChildOf(p, k)
            s == stdout[c]
            t == sub[p][k]
<1>1. /\ Types /\ c \in Procs \ {Root} /\ c # p /\ Parent(c) = p /\ Slot(c) = k
      /\ Link(p, k, c) /\ Size(p, k) \in Nat /\ Size(p, k) >= 1
  BY Busy DEF Shape, Forking
<1>2. s \in Seq(Int) /\ t \in Seq(Int)
  BY <1>1 DEF Types
<1>3. /\ Len(s) \in Nat /\ Len(s) > 0 /\ Len(Tail(s)) = Len(s) - 1
      /\ Len(t) \in Nat /\ Len(Append(t, Head(s))) = Len(t) + 1
      /\ Tail(s) \in Seq(Int)
  BY <1>2, HeadTailProperties, AppendProperties, LenProperties, EmptySeq
<1>. HIDE DEF c
<1>4. Heard(c) /\ Printed(c) = Len(t) + Len(s)
  BY <1>1 DEF Heard, Printed, Heeded, Serving
<1>5. stdout'[c] = Tail(s) /\ sub'[p][k] = Append(t, Head(s))
  BY <1>1 DEF Types, c
<1>. HIDE DEF s, t
<1>6. /\ Printed(c) > 0 => \A l \in Child : Silent(c, l)
      /\ Printed(c) <= IF n[c] > 0 THEN n[c] ELSE 0
  BY <1>1, <1>4 DEF Counting, Counted
<1>7. n[c] \in {0, Size(p, k)} /\ pc[c] \in Ended
  BY <1>1 DEF Link
<1>8. Printed(c) > 0 /\ Len(t) + Len(s) <= Size(p, k)
  BY <1>1, <1>3, <1>4, <1>6, <1>7
<1>9. Len(Tail(s)) = 0
  <2>1. ~ (Len(t) + 1 < Size(p, k))
    BY <1>3, <1>5
  <2>. QED
    BY <1>1, <1>3, <1>8, <2>1
<1>10. stdout'[c] = <<>>
  BY <1>3, <1>5, <1>9, EmptySeq
<1>11. pc'[c] \in Ended
  <2>1. c # p /\ \A l \in Child : pc[p] # Fork(l)
    BY <1>1 DEF Fork, Collect, Child
  <2>. QED
    BY <1>1, <1>7, <2>1, Effects
<1>12. \A l \in Child : Silent(c, l)'
  BY <1>1, <1>6, <1>8, SilentStep
<1>13. ASSUME NEW q \in Tree(p, k)
       PROVE  Quiet(q)'
  <2>1. q = c \/ \E l \in Child : q \in Tree(c, l)
    BY TreeChildren DEF c
  <2>2. CASE q = c
    BY <1>10, <1>11, <2>2 DEF Quiet
  <2>3. CASE \E l \in Child : q \in Tree(c, l)
    BY <1>12, <2>3 DEF Silent
  <2>. QED
    BY <2>1, <2>2, <2>3
<1>. QED
  BY <1>13 DEF Silent, Tree

LEMMA StillStep ==
  ASSUME NEW most, DeepEnough(most), Shape(most), Counting,
         NEW a \in Procs, ProcNext(a) \/ Kill(a), NEW p \in Procs
  PROVE  Still(p)'
<1>. SUFFICES ASSUME NEW k \in Child, pc'[p] \notin Serving(k) \cup {"failed"}
              PROVE  Silent(p, k)'
  BY DEF Still, Serving
<1>1. Types /\ Still(p)
  BY DEF Shape, Counting
<1>2. CASE pc[p] \notin Serving(k) \cup {"failed"}
  <2>1. Silent(p, k)
    BY <1>1, <1>2 DEF Still
  <2>2. pc'[p] # Count(k)
    BY DEF Serving
  <2>. QED
    BY <1>1, <2>1, <2>2, SilentStep
<1>3. CASE pc[p] \in Serving(k) \cup {"failed"} /\ a # p
  <2>1. pc[p] # "unborn"
    BY <1>3 DEF Serving, Count, Feed, Wait, Collect
  <2>2. pc'[p] = pc[p]
    BY <1>1, <1>3, <2>1, Effects, Birth
  <2>. QED
    BY <1>3, <2>2
<1>4. CASE pc[p] = "failed" /\ a = p
  BY <1>1, <1>4, Effects DEF Ended
<1>5. CASE pc[p] \in Serving(k) /\ a = p
  <2>1. ~ Kill(p)
    BY <1>1 DEF Kill, Fail, Goto, Types
  <2>. QED
    BY <1>1, <1>5, <2>1, ServiceEnds, LastLine
<1>. QED
  BY <1>2, <1>3, <1>4, <1>5

\* What a process does while it serves its child.
LEMMA ServiceStep ==
  ASSUME Types, NEW p \in Procs, NEW k \in Child, ProcNext(p) \/ Kill(p),
         pc'[p] \in Serving(k)
  PROVE  LET c == ChildOf(p, k)
         IN  \/ /\ pc[p] = Fork(k) /\ pc'[p] = Count(k)
                /\ UNCHANGED <<n, strings, sub, stdout>>
             \/ pc[p] \in Serving(k) /\ UNCHANGED <<n, strings, sub, stdout>>
             \/ /\ pc[p] = Collect(k) /\ stdout[c] # <<>>
                /\ stdout' = [stdout EXCEPT ![c] = Tail(@)]
                /\ sub' = [sub EXCEPT ![p][k] = Append(@, Head(stdout[c]))]
                /\ UNCHANGED <<n, strings>>
<1>. USE DEF Types
<1>1. pc'[p] \notin {"failed", "read", "print", "fork1", "fork2", "merge", "ok"}
      /\ \A l \in Child :
           /\ pc'[p] # After(l)
           /\ pc'[p] \in {Count(l), Feed(l), Wait(l), Collect(l)} => l = k
  BY DEF Serving, Fork, Count, Feed, Wait, Collect, Child, After
<1>2. ~ ReadNumber(p) /\ ~ Kill(p)
  BY <1>1 DEF ReadNumber, Kill, At, Fail, Goto
<1>3. ~ ReadLine(p) /\ ~ PrintSingle(p)
  BY <1>1 DEF ReadLine, PrintSingle, At, Fail, Goto
<1>4. ~ Merge(p)
  BY <1>1 DEF Merge, At, Fail, Goto
<1>5. ASSUME NEW l \in Child, ForkChild(p, l)
      PROVE  /\ pc[p] = Fork(k) /\ pc'[p] = Count(k)
             /\ UNCHANGED <<n, strings, sub, stdout>>
  <2>1. pc' = [pc EXCEPT ![p] = Count(l), ![ChildOf(p, l)] = "number"]
    BY <1>1, <1>5 DEF ForkChild, Fail, Goto
  <2>2. pc'[p] = Count(l)
    <3>1. pc'[p] \in {Count(l), "number"}
      BY <2>1
    <3>2. pc'[p] # "number"
      BY DEF Serving, Count, Feed, Wait, Collect
    <3>. QED
      BY <3>1, <3>2
  <2>. QED
    BY <1>1, <1>5, <2>2 DEF ForkChild, At
<1>6. ASSUME NEW l \in Child, SendCount(p, l) \/ SendLine(p, l) \/ Await(p, l)
      PROVE  pc[p] \in Serving(k) /\ UNCHANGED <<n, strings, sub, stdout>>
  <2>1. CASE SendCount(p, l)
    BY <1>1, <2>1 DEF SendCount, At, Broken, Fail, Goto, Serving
  <2>2. CASE SendLine(p, l)
    BY <1>1, <2>2 DEF SendLine, At, Broken, Fail, Goto, Serving
  <2>3. CASE Await(p, l)
    BY <1>1, <2>3 DEF Await, At, Goto, Serving
  <2>. QED
    BY <1>6, <2>1, <2>2, <2>3
<1>7. ASSUME NEW l \in Child, CollectLine(p, l)
      PROVE  LET c == ChildOf(p, k)
             IN  /\ pc[p] = Collect(k) /\ stdout[c] # <<>>
                 /\ stdout' = [stdout EXCEPT ![c] = Tail(@)]
                 /\ sub' = [sub EXCEPT ![p][k] = Append(@, Head(stdout[c]))]
                 /\ UNCHANGED <<n, strings>>
  <2>1. pc'[p] # "failed"
    BY <1>1
  <2>2. /\ stdout[ChildOf(p, l)] # <<>>
        /\ stdout' = [stdout EXCEPT ![ChildOf(p, l)] = Tail(@)]
        /\ sub' = [sub EXCEPT ![p][l] = Append(@, Head(stdout[ChildOf(p, l)]))]
        /\ pc'[p] \in {Collect(l), After(l)}
    BY <1>7, <2>1 DEF CollectLine, Fail, Goto
  <2>3. l = k
    BY <1>1, <2>2
  <2>. QED
    BY <1>7, <2>2, <2>3 DEF CollectLine, At
<1>. QED
  BY <1>2, <1>3, <1>4, <1>5, <1>6, <1>7 DEF ProcNext

\* Taking a line from a child leaves the number of lines it has printed.
LEMMA PrintedKept ==
  ASSUME Types, NEW c \in Procs \ {Root},
         stdout[c] # <<>>,
         stdout' = [stdout EXCEPT ![c] = Tail(@)],
         sub' = [sub EXCEPT ![Parent(c)][Slot(c)] = Append(@, Head(stdout[c]))]
  PROVE  Printed(c)' = Printed(c) /\ Heeded(c)' = Heeded(c) + 1 /\ Heeded(c) \in Nat
         /\ stdout'[c] = Tail(stdout[c])
<1>. DEFINE p == Parent(c)
            k == Slot(c)
            s == stdout[c]
            t == sub[p][k]
<1>1. p \in Procs /\ k \in Child
  BY ParentIsProc
<1>2. s \in Seq(Int) /\ t \in Seq(Int)
  BY <1>1 DEF Types
<1>3. /\ Len(s) \in Nat /\ Len(Tail(s)) = Len(s) - 1
      /\ Len(t) \in Nat /\ Len(Append(t, Head(s))) = Len(t) + 1
  BY <1>2, HeadTailProperties, AppendProperties, LenProperties
<1>4. Heeded(c) = Len(t)
  BY DEF Heeded
<1>5. stdout'[c] = Tail(s)
  BY DEF Types
<1>. HIDE DEF p, k
<1>6. sub'[p][k] = Append(t, Head(s))
  BY <1>1 DEF Types, p, k
<1>7. Heeded(c)' = Len(Append(t, Head(s)))
  BY <1>6 DEF Heeded, p, k
<1>8. /\ Printed(c) = Heeded(c) + Len(s)
      /\ Printed(c)' = Heeded(c)' + Len(Tail(s))
  BY <1>5 DEF Printed
<1>. HIDE DEF s, t
<1>9. Printed(c)' = Printed(c) /\ Heeded(c)' = Heeded(c) + 1 /\ Heeded(c) \in Nat
  <2>. DEFINE r == Tail(s)
              u == Append(t, Head(s))
  <2>1. /\ Len(s) \in Nat /\ Len(r) = Len(s) - 1
        /\ Len(t) \in Nat /\ Len(u) = Len(t) + 1
        /\ Printed(c) = Len(t) + Len(s) /\ Printed(c)' = Len(u) + Len(r)
        /\ Heeded(c) = Len(t) /\ Heeded(c)' = Len(u)
    BY <1>3, <1>4, <1>7, <1>8
  <2>. HIDE DEF r, u
  <2>2. Len(u) + Len(r) = Len(t) + Len(s)
    BY <2>1
  <2>. QED
    BY <2>1, <2>2
<1>. QED
  BY <1>5, <1>9 DEF s

\* What c can notice of a step of another process, if its parent serves it:
\* nothing, its own birth, or that a line is taken from it.
LEMMA Noticed ==
  ASSUME NEW most, DeepEnough(most), Shape(most), Counting,
         NEW a \in Procs, ProcNext(a) \/ Kill(a), NEW c \in Procs, a # c, Heard(c)'
  PROVE  \/ /\ Heard(c) /\ pc'[c] = pc[c]
            /\ stdout'[c] = stdout[c] /\ Heeded(c)' = Heeded(c)
         \/ Printed(c)' = 0 /\ pc'[c] \in {"number", "unborn"}
         \/ /\ Heard(c) /\ pc'[c] = pc[c] /\ c # Root /\ stdout[c] # <<>>
            /\ stdout' = [stdout EXCEPT ![c] = Tail(@)]
            /\ sub' = [sub EXCEPT ![Parent(c)][Slot(c)] = Append(@, Head(stdout[c]))]
<1>. DEFINE p == Parent(c)
            k == Slot(c)
<1>1. Types
  BY DEF Shape
<1>2. CASE c = Root
  <2>1. Heard(c) /\ pc'[c] = pc[c] /\ stdout'[c] = stdout[c]
    BY <1>1, <1>2, Effects, ChildParent DEF Heard
  <2>. QED
    BY <1>2, <2>1 DEF Heeded
<1>3. CASE c # Root
  <2>1. /\ p \in Procs /\ k \in Child /\ p # c /\ ChildOf(p, k) = c
        /\ pc'[p] \in Serving(k)
    BY <1>3, ParentIsProc DEF Heard, Serving
  <2>2. CASE a # p
    <3>1. pc'[c] = pc[c] /\ stdout'[c] = stdout[c]
      BY <1>1, <2>2, Effects, ChildParent
    <3>2. sub'[p] = sub[p] /\ pc'[p] = pc[p]
      BY <1>1, <2>1, <2>2, Effects DEF Serving, Count, Feed, Wait, Collect
    <3>. QED
      BY <2>1, <3>1, <3>2 DEF Heeded, Heard
  <2>3. CASE a = p /\ pc[p] = Fork(k) /\ pc'[p] = Count(k) /\ UNCHANGED <<n, strings, sub, stdout>>
    <3>1. pc[c] = "unborn" /\ Local(p) /\ Still(p)
      BY <2>1, <2>3, Birth DEF Shape, Counting
    <3>2. sub[p][k] = <<>>
      BY <2>1, <2>3, <3>1 DEF Local, Fork, Leaf, Child, Serving
    <3>3. stdout[c] = <<>>
      <4>1. Silent(p, k)
        BY <2>1, <2>3, <3>1 DEF Still, Fork, Serving, Count, Feed, Wait, Collect, Child
      <4>2. c \in Tree(p, k)
        <5>1. p \in Seq(Child) /\ Len(p) \in Nat
          BY <2>1, ProcIsSeq
        <5>. HIDE DEF p, k
        <5>. QED
          BY <2>1, <5>1, AppendProperties DEF ChildOf, Tree
      <4>. QED
        BY <1>3, <4>1, <4>2 DEF Silent, Quiet
    <3>4. Printed(c)' = 0
      BY <1>3, <2>3, <3>2, <3>3, EmptySeq DEF Printed, Heeded
    <3>5. pc'[c] = "number" \/ pc'[c] = pc[c]
      BY <1>1, <2>1, Effects
    <3>. QED
      BY <3>1, <3>4, <3>5
  <2>4. CASE a = p /\ pc[p] \in Serving(k) /\ UNCHANGED <<n, strings, sub, stdout>>
    <3>1. pc'[c] = pc[c]
      BY <1>1, <2>1, <2>4, Effects DEF Serving, Fork, Count, Feed, Wait, Collect, Child
    <3>. QED
      BY <2>1, <2>4, <3>1 DEF Heeded, Heard
  <2>5. CASE /\ a = p /\ pc[p] = Collect(k) /\ stdout[c] # <<>>
             /\ stdout' = [stdout EXCEPT ![c] = Tail(@)]
             /\ sub' = [sub EXCEPT ![p][k] = Append(@, Head(stdout[c]))]
    <3>1. pc'[c] = pc[c]
      BY <1>1, <2>1, <2>5, Effects DEF Fork, Collect, Child
    <3>2. Heard(c)
      BY <2>1, <2>5 DEF Heard, Serving
    <3>. QED
      BY <1>3, <2>5, <3>1, <3>2
  <2>. QED
    BY <1>1, <2>1, <2>2, <2>3, <2>4, <2>5, ServiceStep
<1>. QED
  BY <1>2, <1>3

LEMMA CountedOther ==
  ASSUME NEW most, DeepEnough(most), Shape(most), Counting,
         NEW a \in Procs, ProcNext(a) \/ Kill(a), NEW c \in Procs, a # c
  PROVE  Counted(c)'
<1>1. Types /\ Counted(c)
  BY DEF Shape, Counting
<1>. SUFFICES ASSUME Heard(c)'
              PROVE  Counted(c)'
  BY DEF Counted
<1>2. n'[c] = n[c] /\ sub'[c] = sub[c] /\ n[c] \in Int
  BY <1>1, Effects DEF Types
<1>3. CASE Printed(c)' = 0 /\ pc'[c] \in {"number", "unborn"}
  <2>1. ~ (Printed(c)' > 0) /\ Printed(c)' <= IF n'[c] > 0 THEN n'[c] ELSE 0
    BY <1>2, <1>3
  <2>2. pc'[c] # "merge" /\ pc'[c] # "ok"
    BY <1>3
  <2>. QED
    BY <1>3, <2>1, <2>2 DEF Counted
<1>4. CASE pc'[c] = pc[c] /\ Printed(c)' = Printed(c) /\ Heard(c)
  <2>1. ASSUME Printed(c) > 0, NEW l \in Child
        PROVE  Silent(c, l)'
    BY <1>1, <1>4, <2>1, SilentStep DEF Counted
  <2>. QED
    BY <1>1, <1>2, <1>4, <2>1 DEF Counted
<1>. QED
  BY <1>1, <1>3, <1>4, Noticed, PrintedKept DEF Printed

\* A process prints in two places only, and merges when both halves are back.
LEMMA MuteStep ==
  ASSUME Types, NEW a \in Procs, ProcNext(a) \/ Kill(a),
         pc[a] \notin {"print", "merge"}
  PROVE  /\ stdout'[a] = stdout[a] /\ pc'[a] # "ok"
         /\ pc'[a] = "merge" => pc[a] = "collect2" /\ n'[a] = n[a]
<1>. USE DEF Types
<1>1. \A k \in Child : ChildOf(a, k) # a
  BY ChildParent
<1>2. CASE ReadNumber(a)
  BY <1>2 DEF ReadNumber, Fail, Goto
<1>3. CASE ReadLine(a)
  BY <1>3 DEF ReadLine, Fail, Goto
<1>4. CASE Kill(a)
  BY <1>4 DEF Kill, Fail, Goto
<1>5. ASSUME NEW k \in Child, ForkChild(a, k)
      PROVE  stdout'[a] = stdout[a] /\ pc'[a] \notin {"ok", "merge"}
  <2>1. CASE pc' = [pc EXCEPT ![a] = Count(k), ![ChildOf(a, k)] = "number"]
    <3>1. pc'[a] = Count(k)
      BY <1>1, <2>1
    <3>. QED
      BY <1>5, <3>1 DEF ForkChild, Count, Child
  <2>2. CASE ForkFails /\ Fail(a)
    BY <1>5, <2>2 DEF ForkChild, Fail, Goto
  <2>. QED
    BY <1>5, <2>1, <2>2 DEF ForkChild
<1>6. ASSUME NEW k \in Child, SendCount(a, k) \/ SendLine(a, k) \/ Await(a, k)
      PROVE  stdout'[a] = stdout[a] /\ pc'[a] \notin {"ok", "merge"}
  <2>1. CASE SendCount(a, k)
    BY <2>1 DEF SendCount, Broken, Fail, Goto, Feed, Child
  <2>2. CASE SendLine(a, k)
    BY <2>2 DEF SendLine, At, Broken, Fail, Goto, Feed, Wait, Child
  <2>3. CASE Await(a, k)
    BY <2>3 DEF Await, Goto, Collect, Child
  <2>. QED
    BY <1>6, <2>1, <2>2, <2>3
<1>7. ASSUME NEW k \in Child, CollectLine(a, k)
      PROVE  /\ stdout'[a] = stdout[a] /\ pc'[a] # "ok" /\ n'[a] = n[a]
             /\ pc'[a] = "merge" => pc[a] = "collect2"
  <2>1. stdout'[a] = stdout[a] /\ n'[a] = n[a] /\ pc[a] = Collect(k)
    BY <1>1, <1>7 DEF CollectLine, At
  <2>2. pc'[a] \in {"failed", Collect(k), After(k)}
    BY <1>7 DEF CollectLine, Fail, Goto
  <2>. QED
    BY <2>1, <2>2 DEF Collect, After, Child
<1>. QED
  BY <1>2, <1>3, <1>4, <1>5, <1>6, <1>7 DEF ProcNext, PrintSingle, Merge, At

\* What a process prints while its parent stands by.
LEMMA ParentStays ==
  ASSUME Types, NEW c \in Procs, ProcNext(c) \/ Kill(c), Heard(c)'
  PROVE  Heard(c) /\ Heeded(c)' = Heeded(c)
<1>. DEFINE p == Parent(c)
<1>1. CASE c = Root
  BY <1>1 DEF Heard, Heeded
<1>2. CASE c # Root
  <2>1. p \in Procs /\ p # c /\ pc'[p] \in Serving(Slot(c))
    BY <1>2, ParentIsProc DEF Heard, Serving
  <2>2. sub'[p] = sub[p] /\ pc'[p] = pc[p]
    BY <2>1, Effects DEF Serving, Count, Feed, Wait, Collect
  <2>. QED
    BY <1>2, <2>1, <2>2 DEF Heard, Heeded
<1>. QED
  BY <1>1, <1>2

LEMMA CountedSelf ==
  ASSUME NEW most, DeepEnough(most), Shape(most), Shape(most)', Counting,
         NEW c \in Procs, ProcNext(c) \/ Kill(c)
  PROVE  Counted(c)'
<1>. SUFFICES ASSUME Heard(c)'
              PROVE  Counted(c)'
  BY DEF Counted
<1>1. Types /\ Types' /\ Counted(c) /\ Still(c) /\ Local(c) /\ Local(c)'
  BY DEF Shape, Counting
<1>2. Heard(c) /\ Heeded(c)' = Heeded(c)
  BY <1>1, ParentStays
<1>3. /\ n[c] \in Int /\ n'[c] \in Int /\ Len(stdout[c]) \in Nat /\ Heeded(c) \in Nat
      /\ Printed(c) = Heeded(c) + Len(stdout[c])
      /\ Printed(c)' = Heeded(c) + Len(stdout'[c])
  <2>1. Heeded(c) \in Nat
    <3>1. c # Root => sub[Parent(c)][Slot(c)] \in Seq(Int)
      BY <1>1, ParentIsProc DEF Types
    <3>. QED
      BY <3>1, LenProperties DEF Heeded
  <2>2. stdout[c] \in Seq(Int) /\ n[c] \in Int /\ n'[c] \in Int
    BY <1>1 DEF Types
  <2>. QED
    BY <1>2, <2>1, <2>2, LenProperties DEF Printed
<1>4. CASE pc[c] \notin {"print", "merge"}
  <2>1. /\ stdout'[c] = stdout[c] /\ pc'[c] # "ok"
        /\ pc'[c] = "merge" => pc[c] = "collect2" /\ n'[c] = n[c]
    BY <1>1, <1>4, MuteStep
  <2>2. Printed(c) = 0
    BY <1>1, <1>2, <1>4, Effects DEF Counted, Ended
  <2>3. Printed(c)' = 0
    BY <1>3, <2>1, <2>2
  <2>4. ASSUME pc'[c] = "merge"
        PROVE  Printed(c)' + Len(sub'[c][1]) + Len(sub'[c][2]) = n'[c]
    <3>1. pc[c] = Collect(2) /\ 2 \in Child /\ n'[c] = n[c]
      BY <2>1, <2>4 DEF Collect, Child
    <3>2. pc[c] \in Serving(2) /\ pc'[c] \notin Serving(2) \cup {"failed"}
      BY <2>4, <3>1 DEF Serving, Count, Feed, Wait, Collect
    <3>3. /\ sub' = [sub EXCEPT ![c][2] = Append(@, Head(stdout[ChildOf(c, 2)]))]
          /\ ~ (Len(sub'[c][2]) < Size(c, 2))
      BY <1>1, <3>1, <3>2, ServiceEnds
    <3>4. sub'[c][1] = sub[c][1]
      BY <1>1, <3>3 DEF Types, Child
    <3>5. Len(sub[c][1]) = Size(c, 1) /\ n[c] >= 2
      BY <1>1, <3>1 DEF Local, Forking
    <3>6. Len(sub'[c][2]) <= Size(c, 2)
      <4>1. Size(c, 2)' = Size(c, 2)
        BY <3>1 DEF Size
      <4>. QED
        BY <1>1, <2>4, <3>1, <4>1 DEF Local
    <3>7. Size(c, 1) \in Nat /\ Size(c, 2) \in Nat /\ Size(c, 1) + Size(c, 2) = n[c]
      BY <1>3, <3>5, HalfSizes
    <3>8. Len(sub'[c][2]) \in Nat
      <4>1. sub'[c][2] \in Seq(Int)
        BY <1>1 DEF Types, Child
      <4>. QED
        BY <4>1, LenProperties
    <3>9. Len(sub'[c][2]) = Size(c, 2)
      BY <3>3, <3>6, <3>7, <3>8
    <3>10. 0 + Size(c, 1) + Size(c, 2) = n[c]
      BY <3>7
    <3>. QED
      BY <2>3, <3>1, <3>4, <3>5, <3>9, <3>10
  <2>5. /\ ~ (Printed(c)' > 0)
        /\ Printed(c)' <= IF n'[c] > 0 THEN n'[c] ELSE 0
    BY <1>3, <2>3
  <2>. QED
    BY <2>1, <2>3, <2>4, <2>5 DEF Counted
<1>5. CASE pc[c] \in {"print", "merge"}
  <2>1. \A l \in Child : Silent(c, l)'
    <3>1. \A l \in Child : Silent(c, l) /\ pc[c] # Fork(l)
      BY <1>1, <1>5 DEF Still, Serving, Fork, Count, Feed, Wait, Collect, Child
    <3>. QED
      BY <1>1, <3>1, SilentStep
  <2>2. /\ n[c] >= 1 /\ Printed(c) <= n[c]
        /\ pc[c] = "print" => n[c] = 1 /\ Printed(c) = 0
        /\ pc[c] = "merge" => Printed(c) + Len(sub[c][1]) + Len(sub[c][2]) = n[c]
    BY <1>1, <1>2, <1>3, <1>5 DEF Local, Early, Counted
  <2>3. ASSUME pc'[c] = "failed", stdout'[c] = stdout[c], n'[c] = n[c]
        PROVE  Counted(c)'
    BY <1>3, <2>1, <2>2, <2>3 DEF Counted
  <2>4. CASE ReaderGone(c) /\ Fail(c) /\ UNCHANGED <<n, stdout>>
    BY <1>1, <2>3, <2>4 DEF Types, Fail, Goto
  <2>5. CASE Kill(c)
    BY <1>1, <2>3, <2>5 DEF Types, Kill, Fail, Goto
  <2>6. CASE /\ pc[c] = "print" /\ Emit(c, strings[c][1]) /\ Goto(c, "ok")
             /\ UNCHANGED n
    <3>1. stdout[c] \in Seq(Int) /\ stdout'[c] = Append(stdout[c], strings[c][1])
      BY <1>1, <2>6 DEF Types, Emit
    <3>2. strings[c][1] \in Int
      <4>1. strings[c] \in Seq(Int) /\ Len(strings[c]) = n[c]
        BY <1>1, <2>6 DEF Types, Local, Early
      <4>2. 1 \in 1 .. Len(strings[c])
        BY <2>2, <2>6, <4>1
      <4>. QED
        BY <4>1, <4>2, ElementOfSeq
    <3>3. Len(stdout'[c]) = Len(stdout[c]) + 1
      BY <3>1, <3>2, AppendProperties
    <3>4. Printed(c)' = 1 /\ n'[c] = 1
      BY <1>3, <2>2, <2>6, <3>3
    <3>5. pc'[c] = "ok"
      BY <1>1, <2>6 DEF Types, Goto
    <3>. QED
      BY <2>1, <3>4, <3>5 DEF Counted
  <2>7. CASE /\ pc[c] = "merge" /\ sub[c] # [k \in Child |-> <<>>]
             /\ Emit(c, Head(sub[c][Source(c)]))
             /\ sub' = [sub EXCEPT ![c][Source(c)] = Tail(@)]
             /\ UNCHANGED <<pc, n>>
    <3>. DEFINE k == Source(c)
                s == sub[c][k]
    <3>1. sub[c] \in [Child -> Seq(Int)] /\ stdout[c] \in Seq(Int)
      BY <1>1 DEF Types
    <3>2. k \in Child /\ s # <<>> /\ s \in Seq(Int)
      BY <2>7, <3>1, SourceIsLeast
    <3>3. Head(s) \in Int /\ Len(Tail(s)) = Len(s) - 1 /\ Len(s) \in Nat /\ Len(s) > 0
      BY <3>2, HeadTailProperties, EmptySeq
    <3>4. Len(stdout'[c]) = Len(stdout[c]) + 1
      <4>1. stdout'[c] = Append(stdout[c], Head(s))
        BY <1>1, <2>7 DEF Types, Emit
      <4>. QED
        BY <3>1, <3>3, <4>1, AppendProperties
    <3>. HIDE DEF k
    <3>5. sub'[c][k] = Tail(s) /\ \A l \in Child \ {k} : sub'[c][l] = sub[c][l]
      <4>1. sub' = [sub EXCEPT ![c][k] = Tail(@)] /\ sub \in [Procs -> [Child -> Seq(Int)]]
        BY <1>1, <2>7 DEF Types, k
      <4>. QED
        BY <3>2, <4>1
    <3>11. Len(sub'[c][k]) = Len(sub[c][k]) - 1
      BY <3>3, <3>5
    <3>. HIDE DEF s
    <3>6. Len(sub[c][1]) \in Nat /\ Len(sub[c][2]) \in Nat
      <4>1. sub[c][1] \in Seq(Int) /\ sub[c][2] \in Seq(Int)
        BY <3>1 DEF Child
      <4>. QED
        BY <4>1, LenProperties
    <3>. DEFINE x == Len(sub[c][1])
                y == Len(sub[c][2])
                u == Len(sub'[c][1])
                v == Len(sub'[c][2])
    <3>7. (u = x - 1 /\ v = y) \/ (u = x /\ v = y - 1)
      <4>1. CASE k = 1
        <5>1. u = x - 1
          BY <3>11, <4>1
        <5>2. v = y
          BY <3>5, <4>1 DEF Child
        <5>. QED
          BY <5>1, <5>2
      <4>2. CASE k = 2
        <5>1. v = y - 1
          BY <3>11, <4>2
        <5>2. u = x
          BY <3>5, <4>2 DEF Child
        <5>. QED
          BY <5>1, <5>2
      <4>. QED
        BY <3>2, <4>1, <4>2 DEF Child
    <3>8. Printed(c)' = Printed(c) + 1 /\ n'[c] = n[c] /\ pc'[c] = "merge"
      BY <1>3, <2>7, <3>4
    <3>9. Len(sub'[c][1]) \in Nat /\ Len(sub'[c][2]) \in Nat
      <4>1. sub'[c][1] \in Seq(Int) /\ sub'[c][2] \in Seq(Int)
        BY <1>1 DEF Types, Child
      <4>. QED
        BY <4>1, LenProperties
    <3>10. /\ Printed(c)' + Len(sub'[c][1]) + Len(sub'[c][2]) = n'[c]
           /\ Printed(c)' <= n'[c]
      <4>1. Printed(c) \in Nat
        BY <1>3
      <4>2. Printed(c) + x + y = n[c]
        BY <2>2, <2>7
      <4>5. n[c] \in Int
        BY <1>3
      <4>4. x \in Nat /\ y \in Nat /\ u \in Nat /\ v \in Nat
        BY <3>6, <3>9
      <4>. HIDE DEF x, y, u, v
      <4>3. (Printed(c) + 1) + u + v = n[c] /\ Printed(c) + 1 <= n[c]
        BY <3>7, <4>1, <4>2, <4>4, <4>5
      <4>. QED
        BY <3>8, <4>3 DEF u, v
    <3>. QED
      BY <1>3, <2>1, <2>2, <3>8, <3>10 DEF Counted
  <2>8. CASE /\ pc[c] = "merge" /\ sub[c] = [k \in Child |-> <<>>]
             /\ Goto(c, "ok") /\ UNCHANGED <<n, stdout>>
    <3>1. pc'[c] = "ok" /\ n'[c] = n[c] /\ Printed(c)' = Printed(c)
      BY <1>1, <1>3, <2>8 DEF Types, Goto
    <3>2. Len(sub[c][1]) = 0 /\ Len(sub[c][2]) = 0
      BY <2>8, EmptySeq DEF Child
    <3>3. Printed(c) = n[c]
      BY <1>3, <2>2, <2>8, <3>2
    <3>. QED
      BY <1>3, <2>1, <2>2, <3>1, <3>3 DEF Counted
  <2>9. PrintSingle(c) \/ Merge(c) \/ Kill(c)
    BY <1>5 DEF ProcNext, ReadNumber, ReadLine, ForkChild, SendCount, SendLine,
                Await, CollectLine, At, Fork, Count, Feed, Wait, Collect, Child
  <2>10. CASE PrintSingle(c)
    BY <2>4, <2>6, <2>10 DEF PrintSingle, At
  <2>11. CASE Merge(c)
    BY <2>4, <2>7, <2>8, <2>11 DEF Merge, At
  <2>. QED
    BY <2>5, <2>9, <2>10, <2>11
<1>. QED
  BY <1>4, <1>5

LEMMA CountingInit ==
  ASSUME NEW most, DeepEnough(most), Init
  PROVE  Counting
<1>1. \A p \in Procs :
        /\ pc[p] = (IF p = Root THEN "number" ELSE "unborn")
        /\ n[p] = 0 /\ stdout[p] = <<>>
        /\ \A k \in Child : sub[p][k] = <<>>
  BY DEF Init
<1>2. \A p \in Procs, k \in Child : Silent(p, k)
  <2>1. ASSUME NEW p \in Procs, NEW k \in Child, NEW q \in Tree(p, k)
        PROVE  Quiet(q)
    BY <1>1, TreeParent DEF Quiet
  <2>. QED
    BY <2>1 DEF Silent
<1>3. ASSUME NEW c \in Procs
      PROVE  Counted(c)
  <2>1. Heeded(c) = 0
    BY <1>1, ParentIsProc, EmptySeq DEF Heeded
  <2>2. Printed(c) = 0
    BY <1>1, <2>1, EmptySeq DEF Printed
  <2>3. pc[c] \in {"number", "unborn"} /\ n[c] = 0
    BY <1>1
  <2>4. ~ (Printed(c) > 0) /\ Printed(c) <= IF n[c] > 0 THEN n[c] ELSE 0
    BY <2>2, <2>3
  <2>5. pc[c] # "merge" /\ pc[c] # "ok"
    BY <2>3
  <2>. QED
    BY <2>2, <2>4, <2>5 DEF Counted
<1>. QED
  BY <1>2, <1>3 DEF Counting, Still

LEMMA CountingStep ==
  ASSUME NEW most, DeepEnough(most), Shape(most), Shape(most)', Counting, [Next]_vars
  PROVE  Counting'
<1>1. ASSUME NEW a \in Procs, ProcNext(a) \/ Kill(a)
      PROVE  Counting'
  <2>1. \A p \in Procs : Still(p)'
    BY <1>1, StillStep
  <2>2. \A c \in Procs : Counted(c)'
    BY <1>1, CountedSelf, CountedOther
  <2>. QED
    BY <2>1, <2>2 DEF Counting
<1>2. CASE UNCHANGED vars
  BY <1>2 DEF vars, Counting, Still, Counted, Silent, Quiet, Heard, Printed, Heeded
<1>. QED
  BY <1>1, <1>2 DEF Next

LEMMA CountingAlways ==
  ASSUME NEW most, DeepEnough(most)
  PROVE  Spec => []Counting
<1>1. Init => Counting
  BY CountingInit
<1>2. Shape(most) /\ Shape(most)' /\ Counting /\ [Next]_vars => Counting'
  BY CountingStep
<1>3. Spec => []Shape(most)
  BY ShapeAlways
<1>. QED
  BY <1>1, <1>2, <1>3, PTL DEF Spec

(***************************************************************************)
(* forksort ignores the exit status of its children, and still a forksort  *)
(* that exits with success has printed as many lines as it was told, has   *)
(* no child left and no line unread, whoever was killed on the way.        *)
(***************************************************************************)
THEOREM Complete ==
  ASSUME NEW most, DeepEnough(most)
  PROVE  Spec => []SuccessIsComplete
<1>1. ASSUME Shape(most), Counting, pc[Root] = "ok"
      PROVE  /\ Len(stdout[Root]) = input[1]
             /\ \A p \in Procs : pc[p] \in Ended \cup {"unborn"}
             /\ \A p \in Procs \ {Root} : stdout[p] = <<>>
  <2>1. Types /\ Local(Root) /\ Typed /\ Still(Root) /\ Counted(Root)
    BY <1>1, RootIsProc DEF Shape, Counting
  <2>2. n[Root] >= 1
    BY <1>1, <2>1 DEF Local, Early
  <2>3. Len(stdout[Root]) = n[Root]
    <3>1. Len(stdout[Root]) \in Nat
      BY <2>1, RootIsProc, LenProperties DEF Types
    <3>2. Printed(Root) = 0 + Len(stdout[Root])
      BY DEF Printed, Heeded
    <3>3. Printed(Root) = n[Root]
      BY <1>1, <2>1 DEF Counted, Heard
    <3>. QED
      BY <3>1, <3>2, <3>3
  <2>4. \A k \in Child : Silent(Root, k)
    BY <1>1, <2>1 DEF Still, Serving, Count, Feed, Wait, Collect
  <2>5. \A q \in Procs \ {Root} : Quiet(q)
    BY <2>4, TreesOfRoot DEF Silent
  <2>. QED
    BY <1>1, <2>1, <2>2, <2>3, <2>5 DEF Quiet, Typed, Ended
<1>2. Shape(most) /\ Counting => SuccessIsComplete
  BY <1>1 DEF SuccessIsComplete
<1>3. Spec => []Shape(most) /\ []Counting
  BY ShapeAlways, CountingAlways
<1>. QED
  BY <1>2, <1>3, PTL

-----------------------------------------------------------------------------
(***************************************************************************)
(* Ranks: how many lines are less than a line, and how many at most it.    *)
(***************************************************************************)
\* The lines among the m lines behind the first o of t that are less than v,
\* and those that are at most v.
Less(t, o, m, v) == Cardinality({j \in 1 .. m : t[o + j] < v})
Upto(t, o, m, v) == Cardinality({j \in 1 .. m : t[o + j] <= v})

\* v is the i-th smallest of these lines.
Ranks(t, o, m, v, i) == Less(t, o, m, v) < i /\ Upto(t, o, m, v) >= i

LEMMA Bounds ==
  ASSUME NEW t, NEW o, NEW m \in Nat, NEW v
  PROVE  /\ Less(t, o, m, v) \in Nat /\ Less(t, o, m, v) <= m
         /\ Upto(t, o, m, v) \in Nat /\ Upto(t, o, m, v) <= m
<1>1. IsFiniteSet(1 .. m) /\ Cardinality(1 .. m) = m
  BY FS_Interval
<1>2. ASSUME NEW S \in SUBSET (1 .. m)
      PROVE  Cardinality(S) \in Nat /\ Cardinality(S) <= m
  BY <1>1, FS_Subset, FS_CardinalityType
<1>3. {j \in 1 .. m : t[o + j] < v} \in SUBSET (1 .. m)
  OBVIOUS
<1>4. {j \in 1 .. m : t[o + j] <= v} \in SUBSET (1 .. m)
  OBVIOUS
<1>. QED
  BY <1>2, <1>3, <1>4 DEF Less, Upto

\* The lines that are counted are numbers.
Lines(t, o, m) == \A j \in 1 .. m : t[o + j] \in Int

LEMMA Monotone ==
  ASSUME NEW t, NEW o, NEW m \in Nat, Lines(t, o, m), NEW v \in Int, NEW w \in Int
  PROVE  /\ v <= w => /\ Less(t, o, m, v) <= Less(t, o, m, w)
                      /\ Upto(t, o, m, v) <= Upto(t, o, m, w)
         /\ v < w => Upto(t, o, m, v) <= Less(t, o, m, w)
<1>1. IsFiniteSet(1 .. m)
  BY FS_Interval
<1>2. ASSUME NEW S \in SUBSET (1 .. m), NEW R \in SUBSET S
      PROVE  Cardinality(R) <= Cardinality(S)
  BY <1>1, FS_Subset
<1>. DEFINE L(x) == {j \in 1 .. m : t[o + j] < x}
            U(x) == {j \in 1 .. m : t[o + j] <= x}
<1>3. L(w) \in SUBSET (1 .. m) /\ U(w) \in SUBSET (1 .. m)
  OBVIOUS
<1>4. v <= w => L(v) \in SUBSET L(w) /\ U(v) \in SUBSET U(w)
  BY DEF Lines
<1>5. v < w => U(v) \in SUBSET L(w)
  BY DEF Lines
<1>6. /\ Less(t, o, m, v) = Cardinality(L(v)) /\ Less(t, o, m, w) = Cardinality(L(w))
      /\ Upto(t, o, m, v) = Cardinality(U(v)) /\ Upto(t, o, m, w) = Cardinality(U(w))
  BY DEF Less, Upto
<1>. HIDE DEF L, U
<1>. QED
  BY <1>2, <1>3, <1>4, <1>5, <1>6

\* A set of line numbers is counted half by half.
LEMMA TwoHalves ==
  ASSUME NEW a \in Nat, NEW b \in Nat, NEW S \in SUBSET (1 .. a + b)
  PROVE  Cardinality(S) = Cardinality({j \in 1 .. a : j \in S})
                          + Cardinality({j \in 1 .. b : a + j \in S})
<1>. DEFINE A == {j \in 1 .. a : j \in S}
            B == {j \in 1 .. b : a + j \in S}
            C == {j \in S : j > a}
            f == [j \in B |-> a + j]
<1>1. IsFiniteSet(A) /\ IsFiniteSet(B) /\ IsFiniteSet(C) /\ IsFiniteSet(S)
  <2>1. IsFiniteSet(1 .. a) /\ IsFiniteSet(1 .. b) /\ IsFiniteSet(1 .. a + b)
    BY FS_Interval
  <2>2. A \in SUBSET (1 .. a) /\ B \in SUBSET (1 .. b) /\ C \in SUBSET S
    OBVIOUS
  <2>. QED
    BY <2>1, <2>2, FS_Subset
<1>2. f \in Bijection(B, C)
  <2>1. \A j \in B : f[j] \in C
    OBVIOUS
  <2>2. f \in [B -> C]
    BY <2>1
  <2>3. \A i, j \in B : f[i] = f[j] => i = j
    OBVIOUS
  <2>4. ASSUME NEW i \in C
        PROVE  \E j \in B : f[j] = i
    <3>1. i - a \in B /\ a + (i - a) = i
      OBVIOUS
    <3>. QED
      BY <3>1
  <2>. QED
    BY <2>2, <2>3, <2>4 DEF Bijection, Injection, Surjection, IsInjective
<1>3. Cardinality(C) = Cardinality(B)
  BY <1>1, <1>2, FS_Bijection DEF ExistsBijection
<1>4. S = A \cup C /\ A \cap C = {}
  <2>1. \A i \in S : i \in Int /\ (i > a \/ i \in 1 .. a)
    OBVIOUS
  <2>2. \A i \in A : i \in S /\ ~ (i > a)
    OBVIOUS
  <2>3. \A i \in C : i \in S /\ i > a
    OBVIOUS
  <2>. QED
    BY <2>1, <2>2, <2>3
<1>5. /\ Cardinality(A) \in Nat /\ Cardinality(C) \in Nat /\ Cardinality({}) = 0
      /\ Cardinality(A \cup C) = Cardinality(A) + Cardinality(C) - Cardinality(A \cap C)
  BY <1>1, FS_CardinalityType, FS_EmptySet, FS_Union
<1>. HIDE DEF A, B, C
<1>6. Cardinality(S) = Cardinality(A) + Cardinality(B)
  <2>1. Cardinality(S) = Cardinality(A) + Cardinality(C) - 0
    BY ONLY <1>4, <1>5
  <2>. QED
    BY ONLY <1>3, <1>5, <2>1
<1>. QED
  BY <1>6 DEF A, B

LEMMA Halving ==
  ASSUME NEW t, NEW a \in Nat, NEW b \in Nat, NEW v
  PROVE  /\ Less(t, 0, a + b, v) = Less(t, 0, a, v) + Less(t, a, b, v)
         /\ Upto(t, 0, a + b, v) = Upto(t, 0, a, v) + Upto(t, a, b, v)
<1>1. \A j \in Nat : 0 + j = j
  OBVIOUS
<1>. DEFINE S == {j \in 1 .. a + b : t[j] < v}
            R == {j \in 1 .. a + b : t[j] <= v}
<1>2. /\ {j \in 1 .. a + b : t[0 + j] < v} = S
      /\ {j \in 1 .. a : t[0 + j] < v} = {j \in 1 .. a : j \in S}
      /\ {j \in 1 .. b : t[a + j] < v} = {j \in 1 .. b : a + j \in S}
  BY <1>1
<1>3. /\ {j \in 1 .. a + b : t[0 + j] <= v} = R
      /\ {j \in 1 .. a : t[0 + j] <= v} = {j \in 1 .. a : j \in R}
      /\ {j \in 1 .. b : t[a + j] <= v} = {j \in 1 .. b : a + j \in R}
  BY <1>1
<1>4. S \in SUBSET (1 .. a + b) /\ R \in SUBSET (1 .. a + b)
  OBVIOUS
<1>. HIDE DEF S, R
<1>5. ASSUME NEW Q \in SUBSET (1 .. a + b)
      PROVE  Cardinality(Q) = Cardinality({j \in 1 .. a : j \in Q})
                              + Cardinality({j \in 1 .. b : a + j \in Q})
  BY TwoHalves
<1>6. Less(t, 0, a + b, v) = Less(t, 0, a, v) + Less(t, a, b, v)
  BY <1>2, <1>4, <1>5, Zenon DEF Less
<1>7. Upto(t, 0, a + b, v) = Upto(t, 0, a, v) + Upto(t, a, b, v)
  BY <1>3, <1>4, <1>5, Zenon DEF Upto
<1>. QED
  BY <1>6, <1>7

\* Equal lines have equal ranks.
LEMMA SameLines ==
  ASSUME NEW t, NEW o, NEW u, NEW r, NEW m, NEW v,
         \A j \in 1 .. m : t[o + j] = u[r + j]
  PROVE  Less(t, o, m, v) = Less(u, r, m, v) /\ Upto(t, o, m, v) = Upto(u, r, m, v)
<1>1. {j \in 1 .. m : t[o + j] < v} = {j \in 1 .. m : u[r + j] < v}
  OBVIOUS
<1>2. {j \in 1 .. m : t[o + j] <= v} = {j \in 1 .. m : u[r + j] <= v}
  OBVIOUS
<1>. QED
  BY <1>1, <1>2 DEF Less, Upto

-----------------------------------------------------------------------------
(***************************************************************************)
(* The third part of the invariant: what is printed, and what has come     *)
(* back, is sorted.  Halves that are merged are known by their ranks, and  *)
(* no line that is left comes before one that has been merged.             *)
(***************************************************************************)
LessIn(p, k, v) == Less(strings[p], Offset(p, k), Size(p, k), v)
UptoIn(p, k, v) == Upto(strings[p], Offset(p, k), Size(p, k), v)

\* Lines of half k that p has merged.
Merged(p, k) == IF pc[p] = "merge" THEN Size(p, k) - Len(sub[p][k]) ELSE 0

InPlace(p, k) ==
  \A j \in 1 .. Len(sub[p][k]) :
    /\ LessIn(p, k, sub[p][k][j]) < Merged(p, k) + j
    /\ UptoIn(p, k, sub[p][k][j]) >= Merged(p, k) + j

Halves(p) ==
  pc[p] # "failed" =>
    /\ \A k \in Child : InPlace(p, k)
    /\ pc[p] = "merge" =>
         \A k, l \in Child :
           sub[p][l] # <<>> => UptoIn(p, k, Head(sub[p][l])) >= Merged(p, k)

Ranked(c) ==
  Heard(c) =>
    /\ \A j \in 1 .. Len(stdout[c]) :
         Ranks(strings[c], 0, n[c], stdout[c][j], Heeded(c) + j)
    /\ Printed(c) > 0 => n[c] >= 1 /\ Len(strings[c]) = n[c]

Ranking == \A p \in Procs : Halves(p) /\ Ranked(p)

LEMMA HalfLines ==
  ASSUME Types, NEW p \in Procs, n[p] >= 2, Len(strings[p]) = n[p], NEW k \in Child
  PROVE  Size(p, k) \in Nat /\ Lines(strings[p], Offset(p, k), Size(p, k))
<1>. DEFINE s == strings[p]
            o == Offset(p, k)
            m == Size(p, k)
<1>1. s \in Seq(Int) /\ n[p] \in Int
  BY DEF Types
<1>2. m \in Nat /\ o \in Nat /\ o + m <= Len(s)
  BY <1>1, HalfSizes
<1>3. \A i \in 1 .. Len(s) : s[i] \in Int
  BY <1>1, ElementOfSeq
<1>4. Len(s) \in Nat
  BY <1>1, LenProperties
<1>. HIDE DEF s, o, m
<1>5. \A j \in 1 .. m : o + j \in 1 .. Len(s)
  BY <1>2, <1>4
<1>. QED
  BY <1>2, <1>3, <1>5 DEF Lines, s, o, m

\* The next line that is printed is in its place.
LEMMA NextLine ==
  ASSUME Types, NEW p \in Procs, Local(p), pc[p] = "merge", Halves(p),
         sub[p] # [k \in Child |-> <<>>]
  PROVE  /\ Head(sub[p][Source(p)]) \in Int
         /\ Ranks(strings[p], 0, n[p], Head(sub[p][Source(p)]),
                  Merged(p, 1) + Merged(p, 2) + 1)
<1>. DEFINE k == Source(p)
            l == IF k = 1 THEN 2 ELSE 1
            s == sub[p][k]
            r == sub[p][l]
            v == Head(s)
            w == Head(r)
<1>1. n[p] \in Int /\ n[p] >= 2 /\ Len(strings[p]) = n[p]
  BY DEF Local, Types, Early, Child
<1>2. /\ k \in Child /\ s # <<>>
      /\ \A h \in Child : sub[p][h] # <<>> => v <= Head(sub[p][h])
  BY SourceIsLeast DEF Types
<1>3. l \in Child /\ l # k /\ s \in Seq(Int) /\ r \in Seq(Int)
  <2>1. l \in Child /\ l # k
    BY <1>2 DEF Child
  <2>2. sub[p] \in [Child -> Seq(Int)]
    BY DEF Types
  <2>. HIDE DEF k, l
  <2>. QED
    BY <1>2, <2>1, <2>2
<1>4. v \in Int /\ v = s[1] /\ Len(s) \in Nat /\ 1 \in 1 .. Len(s)
  BY <1>2, <1>3, HeadTailProperties, EmptySeq, LenProperties
<1>5. r # <<>> => w \in Int /\ w = r[1] /\ 1 \in 1 .. Len(r) /\ v <= w
  BY <1>2, <1>3, HeadTailProperties, EmptySeq, LenProperties
<1>6. \A h \in Child : Size(p, h) \in Nat /\ Lines(strings[p], Offset(p, h), Size(p, h))
  BY <1>1, HalfLines
<1>7. /\ Size(p, 1) + Size(p, 2) = n[p] /\ Offset(p, 1) = 0 /\ Offset(p, 2) = Size(p, 1)
  BY <1>1, HalfSizes
<1>8. /\ Merged(p, k) = Size(p, k) - Len(s) /\ Merged(p, l) = Size(p, l) - Len(r)
      /\ Len(r) \in Nat /\ r = <<>> => Len(r) = 0
  BY <1>3, LenProperties, EmptySeq DEF Merged
<1>. HIDE DEF k, l, s, r, v, w
<1>9. /\ LessIn(p, k, v) < Merged(p, k) + 1 /\ UptoIn(p, k, v) >= Merged(p, k) + 1
      /\ r # <<>> => LessIn(p, l, w) < Merged(p, l) + 1
      /\ UptoIn(p, l, v) >= Merged(p, l)
  BY <1>2, <1>3, <1>4, <1>5 DEF Halves, InPlace, s, r, v, w
<1>10. \A h \in Child, x \in Int :
         /\ LessIn(p, h, x) \in Nat /\ LessIn(p, h, x) <= Size(p, h)
         /\ UptoIn(p, h, x) \in Nat
  BY <1>6, Bounds DEF LessIn, UptoIn
<1>11. LessIn(p, l, v) <= Merged(p, l)
  <2>0. /\ LessIn(p, l, v) \in Nat /\ LessIn(p, l, v) <= Size(p, l)
        /\ Size(p, l) \in Nat
        /\ r # <<>> => LessIn(p, l, w) \in Nat
    BY <1>3, <1>4, <1>5, <1>6, <1>10
  <2>1. CASE r = <<>>
    <3>1. Merged(p, l) = Size(p, l) - 0
      BY <1>8, <2>1
    <3>. QED
      BY <2>0, <3>1
  <2>2. CASE r # <<>>
    <3>1. LessIn(p, l, v) <= LessIn(p, l, w)
      BY <1>3, <1>4, <1>5, <1>6, <2>2, Monotone DEF LessIn
    <3>2. LessIn(p, l, w) < Merged(p, l) + 1 /\ Merged(p, l) \in Int
      BY <1>8, <1>9, <2>0, <2>2
    <3>. QED
      BY <2>0, <2>2, <3>1, <3>2
  <2>. QED
    BY <2>1, <2>2
<1>12. \A h \in Child : Merged(p, h) \in Int
  <2>1. {k, l} = Child
    BY <1>2, <1>3 DEF Child
  <2>2. Merged(p, k) \in Int /\ Merged(p, l) \in Int
    BY <1>2, <1>3, <1>4, <1>6, <1>8
  <2>. QED
    BY <2>1, <2>2
<1>13. /\ Less(strings[p], 0, n[p], v) = LessIn(p, 1, v) + LessIn(p, 2, v)
       /\ Upto(strings[p], 0, n[p], v) = UptoIn(p, 1, v) + UptoIn(p, 2, v)
  <2>1. Size(p, 1) \in Nat /\ Size(p, 2) \in Nat
    BY <1>6 DEF Child
  <2>. QED
    BY <1>7, <2>1, Halving DEF LessIn, UptoIn
<1>14. /\ LessIn(p, 1, v) + LessIn(p, 2, v) < Merged(p, 1) + Merged(p, 2) + 1
       /\ UptoIn(p, 1, v) + UptoIn(p, 2, v) >= Merged(p, 1) + Merged(p, 2) + 1
  <2>1. (k = 1 /\ l = 2) \/ (k = 2 /\ l = 1)
    BY <1>2, <1>3 DEF Child
  <2>2. /\ LessIn(p, 1, v) \in Nat /\ LessIn(p, 2, v) \in Nat
        /\ UptoIn(p, 1, v) \in Nat /\ UptoIn(p, 2, v) \in Nat
        /\ Merged(p, 1) \in Int /\ Merged(p, 2) \in Int
    BY <1>4, <1>10, <1>12 DEF Child
  <2>3. CASE k = 1 /\ l = 2
    BY <1>9, <1>11, <2>2, <2>3
  <2>4. CASE k = 2 /\ l = 1
    BY <1>9, <1>11, <2>2, <2>4
  <2>. QED
    BY <2>1, <2>3, <2>4
<1>. QED
  BY <1>4, <1>13, <1>14 DEF Ranks, v, s, k

LEMMA SameCounts ==
  ASSUME NEW p, n'[p] = n[p], strings'[p] = strings[p]
  PROVE  \A k, v : /\ Size(p, k)' = Size(p, k)
                   /\ Less(strings'[p], Offset(p, k)', Size(p, k)', v) = LessIn(p, k, v)
                   /\ Upto(strings'[p], Offset(p, k)', Size(p, k)', v) = UptoIn(p, k, v)
<1>1. \A k : Size(p, k)' = Size(p, k) /\ Offset(p, k)' = Offset(p, k)
  BY DEF Size, Offset
<1>. QED
  BY <1>1 DEF LessIn, UptoIn, Less, Upto

\* The halves stay sorted when a line is merged.
LEMMA MergeHalves ==
  ASSUME Types, Types', NEW p \in Procs, Local(p), pc[p] = "merge", Halves(p),
         sub[p] # [k \in Child |-> <<>>],
         NEW k \in Child, k = Source(p), sub' = [sub EXCEPT ![p][k] = Tail(@)],
         pc'[p] = "merge", n'[p] = n[p], strings'[p] = strings[p]
  PROVE  Halves(p)'
<1>. DEFINE s == sub[p][k]
            v == Head(s)
            M(h) == IF h = k THEN Merged(p, h) + 1 ELSE Merged(p, h)
<1>1. n[p] \in Int /\ n[p] >= 2 /\ Len(strings[p]) = n[p]
  BY DEF Local, Types, Early, Child
<1>2. /\ k \in Child /\ s # <<>>
      /\ \A h \in Child : sub[p][h] # <<>> => v <= Head(sub[p][h])
  BY SourceIsLeast DEF Types
<1>3. s \in Seq(Int) /\ \A h \in Child : sub[p][h] \in Seq(Int)
  BY <1>2 DEF Types
<1>4. /\ v \in Int /\ v = s[1] /\ Len(s) \in Nat /\ 1 \in 1 .. Len(s)
      /\ Tail(s) \in Seq(Int) /\ Len(Tail(s)) = Len(s) - 1
      /\ \A j \in 1 .. Len(Tail(s)) : Tail(s)[j] = s[j + 1]
  BY <1>2, <1>3, HeadTailProperties, EmptySeq, LenProperties
<1>5. \A h \in Child : Size(p, h) \in Nat /\ Lines(strings[p], Offset(p, h), Size(p, h))
  BY <1>1, HalfLines
<1>6. /\ sub'[p][k] = Tail(s)
      /\ \A h \in Child \ {k} : sub'[p][h] = sub[p][h]
  BY <1>2 DEF Types
<1>7. \A h \in Child : Merged(p, h) \in Int /\ Merged(p, h)' = M(h)
  <2>1. \A h \in Child : Size(p, h)' = Size(p, h) /\ Len(sub[p][h]) \in Nat
    BY <1>3, SameCounts, LenProperties
  <2>2. /\ Merged(p, k) = Size(p, k) - Len(s)
        /\ Merged(p, k)' = Size(p, k) - Len(Tail(s))
    BY <1>2, <1>6, <2>1 DEF Merged
  <2>3. \A h \in Child \ {k} : Merged(p, h)' = Merged(p, h)
    BY <1>6, <2>1 DEF Merged
  <2>4. \A h \in Child : Merged(p, h) \in Int
    BY <1>5, <2>1 DEF Merged
  <2>5. Merged(p, k)' = Merged(p, k) + 1
    <3>. DEFINE x == Len(s)
                y == Len(Tail(s))
                z == Size(p, k)
    <3>1. x \in Nat /\ y = x - 1 /\ z \in Nat
      BY <1>2, <1>4, <1>5
    <3>. HIDE DEF x, y, z
    <3>2. z - y = (z - x) + 1
      BY <3>1
    <3>. QED
      BY <2>2, <3>2 DEF x, y, z
  <2>. QED
    BY <2>3, <2>4, <2>5
<1>8. \A h, x :
         /\ Less(strings'[p], Offset(p, h)', Size(p, h)', x) = LessIn(p, h, x)
         /\ Upto(strings'[p], Offset(p, h)', Size(p, h)', x) = UptoIn(p, h, x)
  BY SameCounts
<1>. HIDE DEF s, v
<1>9. /\ InPlace(p, k) /\ sub[p][k] = s
      /\ LessIn(p, k, v) < Merged(p, k) + 1 /\ UptoIn(p, k, v) >= Merged(p, k) + 1
      /\ \A h \in Child : InPlace(p, h) /\ UptoIn(p, h, v) >= Merged(p, h)
  BY <1>2, <1>4 DEF Halves, InPlace, s, v
<1>10. \A h \in Child, x \in Int : LessIn(p, h, x) \in Nat /\ UptoIn(p, h, x) \in Nat
  BY <1>5, Bounds DEF LessIn, UptoIn
<1>11. \A j \in 1 .. Len(Tail(s)) :
         /\ j \in Nat /\ j + 1 \in 1 .. Len(s) /\ Tail(s)[j] = s[j + 1] /\ s[j + 1] \in Int
         /\ LessIn(p, k, s[j + 1]) < Merged(p, k) + (j + 1)
         /\ UptoIn(p, k, s[j + 1]) >= Merged(p, k) + (j + 1)
  <2>. TAKE j \in 1 .. Len(Tail(s))
  <2>1. j \in Nat /\ j + 1 \in 1 .. Len(s)
    BY <1>4
  <2>. QED
    BY <1>3, <1>4, <1>9, <2>1, ElementOfSeq DEF InPlace
<1>12. ASSUME NEW h \in Child
       PROVE  InPlace(p, h)'
  <2>1. CASE h = k
    <3>1. ASSUME NEW j \in 1 .. Len(Tail(s))
          PROVE  /\ LessIn(p, k, s[j + 1]) < (Merged(p, k) + 1) + j
                 /\ UptoIn(p, k, s[j + 1]) >= (Merged(p, k) + 1) + j
      BY <1>2, <1>7, <1>10, <1>11
    <3>2. Merged(p, k)' = Merged(p, k) + 1
      BY <1>2, <1>7
    <3>3. ASSUME NEW j \in 1 .. Len(sub'[p][k])
          PROVE  /\ Less(strings'[p], Offset(p, k)', Size(p, k)', sub'[p][k][j]) < Merged(p, k)' + j
                 /\ Upto(strings'[p], Offset(p, k)', Size(p, k)', sub'[p][k][j]) >= Merged(p, k)' + j
      <4>1. j \in 1 .. Len(Tail(s)) /\ sub'[p][k][j] = s[j + 1]
        BY <1>6, <1>11
      <4>2. /\ LessIn(p, k, s[j + 1]) < (Merged(p, k) + 1) + j
            /\ UptoIn(p, k, s[j + 1]) >= (Merged(p, k) + 1) + j
        BY <3>1, <4>1
      <4>3. /\ Less(strings'[p], Offset(p, k)', Size(p, k)', s[j + 1]) = LessIn(p, k, s[j + 1])
            /\ Upto(strings'[p], Offset(p, k)', Size(p, k)', s[j + 1]) = UptoIn(p, k, s[j + 1])
        BY <1>8
      <4>. QED
        BY <3>2, <4>1, <4>2, <4>3, Zenon
    <3>. QED
      BY <2>1, <3>3 DEF InPlace, LessIn, UptoIn
  <2>2. CASE h # k
    <3>1. sub'[p][h] = sub[p][h] /\ Merged(p, h)' = Merged(p, h)
      BY <1>6, <1>7, <2>2
    <3>2. ASSUME NEW j \in 1 .. Len(sub'[p][h])
          PROVE  /\ Less(strings'[p], Offset(p, h)', Size(p, h)', sub'[p][h][j]) < Merged(p, h)' + j
                 /\ Upto(strings'[p], Offset(p, h)', Size(p, h)', sub'[p][h][j]) >= Merged(p, h)' + j
      <4>1. /\ LessIn(p, h, sub[p][h][j]) < Merged(p, h) + j
            /\ UptoIn(p, h, sub[p][h][j]) >= Merged(p, h) + j
        BY <1>9, <3>1 DEF InPlace
      <4>. QED
        BY <1>8, <3>1, <4>1, Zenon
    <3>. QED
      BY <3>2 DEF InPlace, LessIn, UptoIn
  <2>. QED
    BY <2>1, <2>2
<1>13. ASSUME NEW h \in Child
       PROVE  UptoIn(p, h, v) >= Merged(p, h)'
  BY <1>7, <1>9
<1>14. ASSUME NEW l \in Child, sub'[p][l] # <<>>
       PROVE  Head(sub'[p][l]) \in Int /\ v <= Head(sub'[p][l])
  <2>1. CASE l # k
    BY <1>2, <1>3, <1>6, <1>14, <2>1, HeadTailProperties DEF v
  <2>2. CASE l = k
    <3>. DEFINE r == Tail(s)
                w == s[1 + 1]
    <3>0. r \in Seq(Int) /\ r # <<>> /\ sub'[p][l] = r
      BY <1>4, <1>6, <1>14, <2>2
    <3>1. Head(r) = r[1] /\ 1 \in 1 .. Len(r)
      <4>. HIDE DEF r
      <4>. QED
        BY <3>0, HeadTailProperties, EmptySeq, LenProperties
    <3>2. /\ w \in Int /\ Head(sub'[p][l]) = w
          /\ UptoIn(p, k, w) >= Merged(p, k) + (1 + 1)
      BY <1>11, <3>0, <3>1
    <3>. HIDE DEF r, w
    <3>3. w < v => UptoIn(p, k, w) <= LessIn(p, k, v)
      BY <1>2, <1>4, <1>5, <3>2, Monotone DEF LessIn, UptoIn
    <3>4. /\ UptoIn(p, k, w) \in Nat /\ LessIn(p, k, v) \in Nat /\ Merged(p, k) \in Int
          /\ v \in Int
      BY <1>2, <1>4, <1>7, <1>10, <3>2
    <3>5. LessIn(p, k, v) < Merged(p, k) + 1
      BY <1>9
    <3>6. ~ (w < v)
      BY <3>2, <3>3, <3>4, <3>5
    <3>7. v <= w
      BY <3>2, <3>4, <3>6
    <3>. QED
      BY <3>2, <3>7
  <2>. QED
    BY <2>1, <2>2
<1>15. ASSUME NEW h \in Child, NEW l \in Child, sub'[p][l] # <<>>
       PROVE  Upto(strings'[p], Offset(p, h)', Size(p, h)', Head(sub'[p][l])) >= Merged(p, h)'
  <2>. DEFINE w == Head(sub'[p][l])
  <2>1. w \in Int /\ v <= w
    BY <1>14, <1>15
  <2>. HIDE DEF w
  <2>2. UptoIn(p, h, v) <= UptoIn(p, h, w)
    BY <1>4, <1>5, <2>1, Monotone DEF UptoIn
  <2>3. /\ UptoIn(p, h, v) \in Nat /\ UptoIn(p, h, w) \in Nat
        /\ Merged(p, h)' \in Int
    BY <1>4, <1>7, <1>10, <2>1
  <2>4. UptoIn(p, h, w) >= Merged(p, h)'
    BY <1>13, <2>2, <2>3
  <2>. QED
    BY <1>8, <2>4 DEF w
<1>. QED
  BY <1>12, <1>15 DEF Halves, UptoIn

\* A line that comes back from a child is in its place.
LEMMA CollectHalves ==
  ASSUME Types, Types', NEW p \in Procs, NEW k \in Child, NEW c \in Procs \ {Root},
         Parent(c) = p, Slot(c) = k, Link(p, k, c), Local(p), Local(p)',
         Halves(p), Ranked(c), pc[p] = Collect(k), stdout[c] # <<>>,
         sub' = [sub EXCEPT ![p][k] = Append(@, Head(stdout[c]))],
         n'[p] = n[p], strings'[p] = strings[p],
         pc'[p] \in {Collect(k), After(k)},
         pc'[p] = After(k) => ~ (Len(sub'[p][k]) < Size(p, k))
  PROVE  Halves(p)'
<1>. DEFINE s == sub[p][k]
            r == stdout[c]
            v == Head(r)
            t == strings[c]
<1>1. n[p] \in Int /\ n[p] >= 2 /\ Len(strings[p]) = n[p]
  BY DEF Local, Types, Forking, Early, Collect, Child
<1>2. /\ \A h \in Child : sub[p][h] \in Seq(Int) /\ Len(sub[p][h]) \in Nat
      /\ r \in Seq(Int) /\ t \in Seq(Int) /\ n[c] \in Int
  BY LenProperties DEF Types
<1>3. v \in Int /\ v = r[1] /\ Len(r) \in Nat /\ 1 \in 1 .. Len(r)
  BY <1>2, HeadTailProperties, EmptySeq, LenProperties
<1>4. /\ Append(s, v) \in Seq(Int) /\ Len(Append(s, v)) = Len(s) + 1
      /\ \A j \in 1 .. Len(s) : Append(s, v)[j] = s[j]
      /\ Append(s, v)[Len(s) + 1] = v
  BY <1>2, <1>3, AppendProperties
<1>5. \A h \in Child : Size(p, h) \in Nat /\ Lines(strings[p], Offset(p, h), Size(p, h))
  BY <1>1, HalfLines
<1>6. /\ sub'[p][k] = Append(s, v)
      /\ \A h \in Child \ {k} : sub'[p][h] = sub[p][h]
  BY DEF Types
<1>7. /\ Heard(c) /\ Heeded(c) = Len(s) /\ Printed(c) = Len(s) + Len(r)
  BY DEF Heard, Serving, Heeded, Printed
<1>. HIDE DEF s, r, v, t
<1>8. Len(s) \in Nat /\ Printed(c) > 0
  BY <1>2, <1>3, <1>7 DEF s
<1>9. /\ Ranks(t, 0, n[c], v, Len(s) + 1) /\ n[c] >= 1 /\ Len(t) = n[c]
  BY <1>3, <1>7, <1>8 DEF Ranked, r, t
<1>10. /\ n[c] = Size(p, k)
       /\ \A i \in 1 .. Size(p, k) : t[i] = strings[p][Offset(p, k) + i]
  BY <1>2, <1>9 DEF Link, t
<1>11. LessIn(p, k, v) < Len(s) + 1 /\ UptoIn(p, k, v) >= Len(s) + 1
  <2>. DEFINE m == Size(p, k)
  <2>1. \A j \in 1 .. m : t[0 + j] = strings[p][Offset(p, k) + j]
    BY <1>10
  <2>2. /\ Less(t, 0, m, v) = LessIn(p, k, v) /\ Upto(t, 0, m, v) = UptoIn(p, k, v)
    BY <2>1, SameLines DEF LessIn, UptoIn
  <2>. QED
    BY <1>9, <1>10, <2>2 DEF Ranks
<1>12. \A h \in Child : Merged(p, h) = 0 /\ Merged(p, h)' = 0
  <2>1. pc[p] # "merge"
    BY DEF Collect, Child
  <2>2. ASSUME pc'[p] = "merge", NEW h \in Child
        PROVE  Size(p, h) - Len(sub'[p][h]) = 0
    <3>1. k = 2 /\ pc'[p] = After(k)
      BY <2>2 DEF Collect, After, Child
    <3>2. CASE h = 1
      <4>1. Len(sub[p][1]) = Size(p, 1) /\ sub'[p][1] = sub[p][1]
        BY <1>6, <3>1 DEF Local, Forking, Child
      <4>2. Size(p, 1) \in Nat /\ Size(p, 1) - Size(p, 1) = 0
        BY <1>5 DEF Child
      <4>. QED
        BY ONLY <3>2, <4>1, <4>2
    <3>3. CASE h = 2
      <4>1. Size(p, 2)' = Size(p, 2) /\ 2 \in Child
        BY DEF Size, Child
      <4>2. Len(sub'[p][2]) <= Size(p, 2)
        BY <2>2, <4>1 DEF Local
      <4>3. Len(sub'[p][2]) \in Nat
        BY <1>4, <1>6, <1>8, <3>1
      <4>4. Len(sub'[p][2]) = Size(p, 2)
        BY <1>5, <3>1, <4>1, <4>2, <4>3
      <4>. QED
        BY <1>5, <3>3, <4>4
    <3>. QED
      BY <3>2, <3>3 DEF Child
  <2>3. \A h : Size(p, h)' = Size(p, h)
    BY DEF Size
  <2>. QED
    BY <2>1, <2>2, <2>3 DEF Merged
<1>13. \A h, x :
         /\ Less(strings'[p], Offset(p, h)', Size(p, h)', x) = LessIn(p, h, x)
         /\ Upto(strings'[p], Offset(p, h)', Size(p, h)', x) = UptoIn(p, h, x)
  BY SameCounts
<1>14. \A h \in Child : InPlace(p, h)
  BY DEF Halves, Collect, Child
<1>15. ASSUME NEW h \in Child, NEW j \in 1 .. Len(sub'[p][h])
       PROVE  /\ LessIn(p, h, sub'[p][h][j]) < 0 + j
              /\ UptoIn(p, h, sub'[p][h][j]) >= 0 + j
  <2>1. ASSUME j \in 1 .. Len(sub[p][h]), sub'[p][h][j] = sub[p][h][j]
        PROVE  /\ LessIn(p, h, sub'[p][h][j]) < 0 + j
               /\ UptoIn(p, h, sub'[p][h][j]) >= 0 + j
    BY <1>12, <1>14, <2>1 DEF InPlace
  <2>2. CASE h # k
    BY <1>6, <1>15, <2>1, <2>2
  <2>3. CASE h = k /\ j # Len(s) + 1
    <3>1. j \in 1 .. Len(s)
      BY <1>4, <1>6, <1>8, <1>15, <2>3
    <3>. QED
      BY <1>4, <1>6, <2>1, <2>3, <3>1 DEF s
  <2>4. CASE h = k /\ j = Len(s) + 1
    <3>1. sub'[p][h][j] = v /\ 0 + j = Len(s) + 1
      BY <1>4, <1>6, <1>8, <2>4
    <3>. QED
      BY <1>11, <2>4, <3>1
  <2>. QED
    BY <2>2, <2>3, <2>4
<1>16. \A h \in Child : InPlace(p, h)'
  BY <1>12, <1>13, <1>15 DEF InPlace, LessIn, UptoIn
<1>17. ASSUME NEW h \in Child, NEW l \in Child
       PROVE  Upto(strings'[p], Offset(p, h)', Size(p, h)', Head(sub'[p][l])) >= Merged(p, h)'
  <2>1. Upto(strings'[p], Offset(p, h)', Size(p, h)', Head(sub'[p][l])) \in Nat
    BY <1>5, <1>13, Bounds DEF UptoIn
  <2>. QED
    BY <1>12, <2>1
<1>. QED
  BY <1>16, <1>17 DEF Halves, UptoIn

LEMMA HalvesKept ==
  ASSUME NEW p, Halves(p), pc[p] # "failed",
         n'[p] = n[p], strings'[p] = strings[p], sub'[p] = sub[p],
         pc'[p] = "merge" <=> pc[p] = "merge"
  PROVE  Halves(p)'
<1>1. \A h, x :
        /\ Less(strings'[p], Offset(p, h)', Size(p, h)', x) = LessIn(p, h, x)
        /\ Upto(strings'[p], Offset(p, h)', Size(p, h)', x) = UptoIn(p, h, x)
  BY SameCounts
<1>2. \A h : Merged(p, h)' = Merged(p, h)
  BY DEF Merged, Size
<1>3. \A h \in Child : InPlace(p, h)'
  BY <1>1, <1>2 DEF Halves, InPlace, LessIn, UptoIn
<1>4. ASSUME pc[p] = "merge", NEW h \in Child, NEW l \in Child, sub[p][l] # <<>>
      PROVE  Upto(strings'[p], Offset(p, h)', Size(p, h)', Head(sub[p][l])) >= Merged(p, h)'
  BY <1>1, <1>2, <1>4 DEF Halves
<1>. QED
  BY <1>3, <1>4 DEF Halves, UptoIn

\* Nothing has come back yet, or all has been merged.
LEMMA NoHalves ==
  ASSUME NEW p, \A k \in Child : sub'[p][k] = <<>>, pc'[p] # "merge" \/ pc'[p] = "failed"
  PROVE  Halves(p)'
<1>1. Len(<<>>) = 0 /\ 1 .. 0 = {}
  BY EmptySeq
<1>. QED
  BY <1>1 DEF Halves, InPlace

LEMMA HalvesOther ==
  ASSUME NEW most, DeepEnough(most), Shape(most),
         NEW a \in Procs, ProcNext(a) \/ Kill(a), NEW p \in Procs, a # p, Halves(p)
  PROVE  Halves(p)'
<1>1. /\ n'[p] = n[p] /\ strings'[p] = strings[p] /\ sub'[p] = sub[p]
      /\ pc'[p] = pc[p] \/ (pc[p] = "unborn" /\ pc'[p] = "number")
  BY Effects, Birth DEF Shape
<1>2. CASE pc[p] = "failed"
  BY <1>1, <1>2 DEF Halves
<1>3. CASE pc[p] # "failed"
  BY <1>1, <1>3, HalvesKept
<1>. QED
  BY <1>2, <1>3

LEMMA HalvesSelf ==
  ASSUME NEW most, DeepEnough(most), Shape(most), Shape(most)',
         NEW p \in Procs, ProcNext(p) \/ Kill(p), Halves(p),
         \A c \in Procs : Ranked(c)
  PROVE  Halves(p)'
<1>1. Types /\ Types' /\ Local(p) /\ Local(p)'
  BY DEF Shape
<1>2. ASSUME pc'[p] = "failed"
      PROVE  Halves(p)'
  BY <1>2 DEF Halves
<1>3. pc[p] # "failed"
  BY <1>1, Effects DEF Ended
<1>4. CASE ReadNumber(p) \/ ReadLine(p)
  <2>1. \A k \in Child : sub[p][k] = <<>>
    BY <1>1, <1>4 DEF ReadNumber, ReadLine, At, Local, Leaf, Child
  <2>2. sub' = sub /\ pc'[p] # "merge"
    <3>1. CASE ReadNumber(p)
      BY <1>1, <3>1 DEF ReadNumber, Fail, Goto, Types
    <3>2. CASE ReadLine(p)
      BY <1>1, <3>2 DEF ReadLine, Fail, Goto, Types
    <3>. QED
      BY <1>4, <3>1, <3>2
  <2>. QED
    BY <2>1, <2>2, NoHalves
<1>5. CASE Kill(p)
  BY <1>1, <1>2, <1>5 DEF Kill, Fail, Goto, Types
<1>6. CASE PrintSingle(p)
  <2>1. /\ pc[p] # "merge" /\ pc'[p] # "merge"
        /\ UNCHANGED <<n, strings, sub>>
    BY <1>1, <1>6 DEF PrintSingle, At, Fail, Goto, Types
  <2>. QED
    BY <1>3, <2>1, HalvesKept
<1>7. ASSUME NEW k \in Child,
             ForkChild(p, k) \/ SendCount(p, k) \/ SendLine(p, k) \/ Await(p, k)
      PROVE  Halves(p)'
  <2>1. UNCHANGED <<n, strings, sub>> /\ pc[p] \in {Fork(k), Count(k), Feed(k), Wait(k)}
    BY <1>7 DEF ForkChild, SendCount, SendLine, Await, At
  <2>2. pc[p] \notin {"print", "merge", "collect2"}
    BY <2>1 DEF Fork, Count, Feed, Wait, Child
  <2>3. pc'[p] # "merge"
    BY <1>1, <2>2, MuteStep
  <2>. QED
    BY <1>3, <2>1, <2>2, <2>3, HalvesKept
<1>8. ASSUME NEW k \in Child, CollectLine(p, k)
      PROVE  Halves(p)'
  <2>. DEFINE c == ChildOf(p, k)
  <2>1. /\ c \in Procs \ {Root} /\ Parent(c) = p /\ Slot(c) = k /\ Link(p, k, c)
    BY <1>8, Busy DEF CollectLine, At, Forking
  <2>. HIDE DEF c
  <2>2. CASE Fail(p)
    BY <1>1, <1>2, <2>2 DEF Fail, Goto, Types
  <2>3. CASE /\ stdout[c] # <<>>
             /\ sub' = [sub EXCEPT ![p][k] = Append(@, Head(stdout[c]))]
             /\ Goto(p, IF Len(sub'[p][k]) < Size(p, k) THEN Collect(k) ELSE After(k))
    <3>1. /\ pc'[p] \in {Collect(k), After(k)}
          /\ pc'[p] = After(k) => ~ (Len(sub'[p][k]) < Size(p, k))
      <4>1. pc'[p] = IF Len(sub'[p][k]) < Size(p, k) THEN Collect(k) ELSE After(k)
        BY <1>1, <2>3 DEF Goto, Types
      <4>2. Collect(k) # After(k)
        BY DEF Collect, After, Child
      <4>. QED
        BY <4>1, <4>2
    <3>2. pc[p] = Collect(k) /\ n' = n /\ strings' = strings /\ Ranked(c)
      BY <1>8, <2>1 DEF CollectLine, At
    <3>. QED
      BY <1>1, <2>1, <2>3, <3>1, <3>2, CollectHalves
  <2>. QED
    BY <1>8, <2>2, <2>3 DEF CollectLine, c
<1>9. CASE Merge(p)
  <2>1. CASE Fail(p)
    BY <1>1, <1>2, <2>1 DEF Fail, Goto, Types
  <2>2. CASE /\ sub[p] = [k \in Child |-> <<>>] /\ Goto(p, "ok") /\ UNCHANGED sub
    <3>1. pc'[p] = "ok" /\ \A k \in Child : sub'[p][k] = <<>>
      BY <1>1, <2>2 DEF Goto, Types
    <3>. QED
      BY <3>1, NoHalves
  <2>3. CASE /\ sub[p] # [k \in Child |-> <<>>]
             /\ sub' = [sub EXCEPT ![p][Source(p)] = Tail(@)]
             /\ UNCHANGED pc
    <3>1. PICK k \in Child : k = Source(p)
      BY <1>1, <2>3, SourceIsLeast DEF Types
    <3>2. sub' = [sub EXCEPT ![p][k] = Tail(@)] /\ pc'[p] = "merge" /\ pc[p] = "merge"
          /\ n' = n /\ strings' = strings
      BY <1>9, <2>3, <3>1 DEF Merge, At
    <3>. QED
      BY <1>1, <2>3, <3>1, <3>2, MergeHalves
  <2>. QED
    BY <1>9, <2>1, <2>2, <2>3 DEF Merge
<1>. QED
  BY <1>4, <1>5, <1>6, <1>7, <1>8, <1>9 DEF ProcNext

LEMMA HeededType ==
  ASSUME Types, NEW c \in Procs
  PROVE  /\ Heeded(c) \in Nat /\ stdout[c] \in Seq(Int) /\ Len(stdout[c]) \in Nat
         /\ Printed(c) = Heeded(c) + Len(stdout[c])
<1>1. c # Root => sub[Parent(c)][Slot(c)] \in Seq(Int)
  BY ParentIsProc DEF Types
<1>2. Heeded(c) \in Nat
  BY <1>1, LenProperties DEF Heeded
<1>3. stdout[c] \in Seq(Int)
  BY DEF Types
<1>. QED
  BY <1>2, <1>3, LenProperties DEF Printed

LEMMA RankedKept ==
  ASSUME NEW c, Ranked(c), Heard(c), n'[c] = n[c], strings'[c] = strings[c],
         stdout'[c] = stdout[c], Heeded(c)' = Heeded(c)
  PROVE  Ranked(c)'
BY DEF Ranked, Printed, Ranks, Less, Upto

\* Nothing has been printed.
LEMMA NothingPrinted ==
  ASSUME Types', NEW c \in Procs, Printed(c)' = 0
  PROVE  Ranked(c)'
<1>1. /\ Heeded(c)' \in Nat /\ Len(stdout'[c]) \in Nat
      /\ Printed(c)' = Heeded(c)' + Len(stdout'[c])
  <2>1. c # Root => sub'[Parent(c)][Slot(c)] \in Seq(Int)
    BY ParentIsProc DEF Types
  <2>2. Heeded(c)' \in Nat
    BY <2>1, LenProperties DEF Heeded
  <2>3. stdout'[c] \in Seq(Int)
    BY DEF Types
  <2>. QED
    BY <2>2, <2>3, LenProperties DEF Printed
<1>2. Len(stdout'[c]) = 0
  BY <1>1
<1>3. 1 .. 0 = {} /\ ~ (Printed(c)' > 0)
  OBVIOUS
<1>. QED
  BY <1>2, <1>3 DEF Ranked

\* The line that is printed next is the one whose turn it is.
LEMMA RankedEmit ==
  ASSUME Types, NEW c \in Procs, Ranked(c), Heard(c), Heeded(c)' = Heeded(c),
         NEW v \in Int, stdout'[c] = Append(stdout[c], v),
         n'[c] = n[c], strings'[c] = strings[c], n[c] >= 1, Len(strings[c]) = n[c],
         Ranks(strings[c], 0, n[c], v, Printed(c) + 1)
  PROVE  Ranked(c)'
<1>. DEFINE s == stdout[c]
            t == strings[c]
            m == n[c]
            h == Heeded(c)
<1>1. h \in Nat /\ s \in Seq(Int) /\ Len(s) \in Nat /\ Printed(c) = h + Len(s)
  BY HeededType
<1>2. /\ Len(Append(s, v)) = Len(s) + 1
      /\ \A j \in 1 .. Len(s) : Append(s, v)[j] = s[j]
      /\ Append(s, v)[Len(s) + 1] = v
  BY <1>1, AppendProperties
<1>3. \A j \in 1 .. Len(s) : Ranks(t, 0, m, s[j], h + j)
  BY DEF Ranked
<1>. HIDE DEF s, t, m, h
<1>4. ASSUME NEW j \in 1 .. Len(Append(s, v))
      PROVE  Ranks(t, 0, m, Append(s, v)[j], h + j)
  <2>1. CASE j \in 1 .. Len(s)
    BY <1>2, <1>3, <2>1
  <2>2. CASE j \notin 1 .. Len(s)
    <3>1. j = Len(s) + 1
      BY <1>1, <1>2, <2>2
    <3>2. h + j = Printed(c) + 1
      BY <1>1, <3>1
    <3>. QED
      BY <1>2, <3>1, <3>2 DEF t, m
  <2>. QED
    BY <2>1, <2>2
<1>5. \A j \in 1 .. Len(stdout'[c]) :
        Ranks(strings'[c], 0, n'[c], stdout'[c][j], Heeded(c)' + j)
  BY <1>4 DEF s, t, m, h
<1>. QED
  BY <1>5 DEF Ranked, Ranks, Less, Upto

LEMMA RankedSelf ==
  ASSUME NEW most, DeepEnough(most), Shape(most), Shape(most)', Counting,
         NEW c \in Procs, ProcNext(c) \/ Kill(c), Halves(c), Ranked(c)
  PROVE  Ranked(c)'
<1>. SUFFICES ASSUME Heard(c)'
              PROVE  Ranked(c)'
  BY DEF Ranked
<1>1. Types /\ Types' /\ Counted(c) /\ Local(c)
  BY DEF Shape, Counting
<1>2. Heard(c) /\ Heeded(c)' = Heeded(c)
  BY <1>1, ParentStays
<1>3. CASE pc[c] \notin {"print", "merge"}
  <2>1. stdout'[c] = stdout[c]
    BY <1>1, <1>3, MuteStep
  <2>2. Printed(c) = 0
    BY <1>1, <1>2, <1>3, Effects DEF Counted, Ended
  <2>3. Printed(c)' = Printed(c)
    BY <1>2, <2>1 DEF Printed
  <2>. QED
    BY <1>1, <2>2, <2>3, NothingPrinted
<1>4. CASE pc[c] \in {"print", "merge"}
  <2>1. n[c] >= 1 /\ Len(strings[c]) = n[c] /\ n[c] \in Int
    BY <1>1, <1>4 DEF Local, Types, Early
  <2>2. PrintSingle(c) \/ Merge(c) \/ Kill(c)
    BY <1>4 DEF ProcNext, ReadNumber, ReadLine, ForkChild, SendCount, SendLine,
                Await, CollectLine, At, Fork, Count, Feed, Wait, Collect, Child
  <2>3. n' = n /\ strings' = strings
    BY <2>2 DEF PrintSingle, Merge, Kill
  <2>4. CASE stdout' = stdout
    BY <1>2, <2>3, <2>4, RankedKept
  <2>5. CASE PrintSingle(c) /\ Emit(c, strings[c][1])
    <3>. DEFINE t == strings[c]
                v == t[1]
    <3>1. pc[c] = "print" /\ n[c] = 1 /\ Printed(c) = 0
      BY <1>1, <1>2, <2>5 DEF PrintSingle, At, Local, Counted
    <3>2. v \in Int
      <4>1. t \in Seq(Int) /\ 1 \in 1 .. Len(t)
        BY <1>1, <2>1, <3>1 DEF Types
      <4>. QED
        BY <4>1, ElementOfSeq
    <3>3. stdout'[c] = Append(stdout[c], v)
      BY <1>1, <2>5 DEF Types, Emit
    <3>4. Ranks(t, 0, 1, v, 0 + 1)
      <4>. HIDE DEF t
      <4>1. \A j \in 1 .. 1 : t[0 + j] = v
        OBVIOUS
      <4>2. {j \in 1 .. 1 : t[0 + j] < v} = {} /\ {j \in 1 .. 1 : t[0 + j] <= v} = {1}
        BY <3>2, <4>1
      <4>3. Less(t, 0, 1, v) = 0 /\ Upto(t, 0, 1, v) = 1
        <5>. HIDE DEF v
        <5>1. Cardinality({}) = 0 /\ Cardinality({1}) = 1
          BY FS_EmptySet, FS_Singleton
        <5>. QED
          BY <4>2, <5>1 DEF Less, Upto
      <4>4. 0 < 0 + 1 /\ 1 >= 0 + 1
        OBVIOUS
      <4>. QED
        BY <4>3, <4>4 DEF Ranks
    <3>. HIDE DEF v
    <3>5. Ranks(strings[c], 0, n[c], v, Printed(c) + 1)
      BY <3>1, <3>4
    <3>. QED
      BY <1>1, <1>2, <2>1, <2>3, <3>2, <3>3, <3>5, RankedEmit
  <2>6. CASE /\ Merge(c) /\ sub[c] # [k \in Child |-> <<>>]
             /\ Emit(c, Head(sub[c][Source(c)]))
    <3>. DEFINE v == Head(sub[c][Source(c)])
                x == Len(sub[c][1])
                y == Len(sub[c][2])
    <3>1. pc[c] = "merge" /\ n[c] >= 2
      BY <1>1, <2>6 DEF Merge, At, Local, Child
    <3>2. /\ v \in Int
          /\ Ranks(strings[c], 0, n[c], v, Merged(c, 1) + Merged(c, 2) + 1)
      BY <1>1, <2>6, <3>1, NextLine
    <3>3. stdout'[c] = Append(stdout[c], v)
      BY <1>1, <2>6 DEF Types, Emit
    <3>4. Merged(c, 1) = Size(c, 1) - x /\ Merged(c, 2) = Size(c, 2) - y
      BY <3>1 DEF Merged
    <3>5. Printed(c) + x + y = n[c] /\ Printed(c) \in Nat
      BY <1>1, <1>2, <3>1, HeededType DEF Counted
    <3>6. Size(c, 1) \in Nat /\ Size(c, 2) \in Nat /\ Size(c, 1) + Size(c, 2) = n[c]
      BY <2>1, HalfSizes
    <3>7. x \in Nat /\ y \in Nat
      <4>0. sub[c] \in [Child -> Seq(Int)] /\ 1 \in Child /\ 2 \in Child
        BY <1>1 DEF Types, Child
      <4>1. sub[c][1] \in Seq(Int) /\ sub[c][2] \in Seq(Int)
        BY ONLY <4>0
      <4>2. Len(sub[c][1]) \in Nat /\ Len(sub[c][2]) \in Nat
        BY ONLY <4>1, LenProperties
      <4>. QED
        BY <4>2
    <3>. HIDE DEF v, x, y
    <3>8. Merged(c, 1) + Merged(c, 2) + 1 = Printed(c) + 1
      BY <3>4, <3>5, <3>6, <3>7
    <3>. QED
      BY <1>1, <1>2, <2>1, <2>3, <3>2, <3>3, <3>8, RankedEmit
  <2>. QED
    BY <2>2, <2>4, <2>5, <2>6 DEF PrintSingle, Merge, Kill
<1>. QED
  BY <1>3, <1>4

LEMMA RankedOther ==
  ASSUME NEW most, DeepEnough(most), Shape(most), Shape(most)', Counting,
         NEW a \in Procs, ProcNext(a) \/ Kill(a), NEW c \in Procs, a # c, Ranked(c)
  PROVE  Ranked(c)'
<1>1. Types /\ Types'
  BY DEF Shape
<1>. SUFFICES ASSUME Heard(c)'
              PROVE  Ranked(c)'
  BY DEF Ranked
<1>2. n'[c] = n[c] /\ strings'[c] = strings[c]
  BY <1>1, Effects
<1>3. CASE Printed(c)' = 0
  BY <1>1, <1>3, NothingPrinted
<1>4. CASE Heard(c) /\ stdout'[c] = stdout[c] /\ Heeded(c)' = Heeded(c)
  BY <1>2, <1>4, RankedKept
<1>5. CASE /\ Heard(c) /\ c # Root /\ stdout[c] # <<>>
           /\ stdout' = [stdout EXCEPT ![c] = Tail(@)]
           /\ sub' = [sub EXCEPT ![Parent(c)][Slot(c)] = Append(@, Head(stdout[c]))]
  <2>. DEFINE s == stdout[c]
              t == strings[c]
              h == Heeded(c)
  <2>1. /\ Printed(c)' = Printed(c) /\ Heeded(c)' = h + 1 /\ h \in Nat
        /\ stdout'[c] = Tail(s)
    BY <1>1, <1>5, PrintedKept
  <2>2. s \in Seq(Int) /\ s # <<>>
    BY <1>1, <1>5 DEF Types
  <2>3. /\ Len(s) \in Nat /\ Len(Tail(s)) = Len(s) - 1
        /\ \A j \in 1 .. Len(Tail(s)) : Tail(s)[j] = s[j + 1]
    BY <2>2, HeadTailProperties, LenProperties
  <2>4. /\ \A j \in 1 .. Len(s) : Ranks(t, 0, n[c], s[j], h + j)
        /\ Printed(c) > 0 => n[c] >= 1 /\ Len(t) = n[c]
    BY <1>5 DEF Ranked
  <2>. HIDE DEF s, t, h
  <2>5. ASSUME NEW j \in 1 .. Len(Tail(s))
        PROVE  Ranks(t, 0, n[c], Tail(s)[j], (h + 1) + j)
    <3>1. j \in Nat /\ j + 1 \in 1 .. Len(s)
      BY <2>3
    <3>2. h + (j + 1) = (h + 1) + j
      BY <2>1, <3>1
    <3>3. Ranks(t, 0, n[c], s[j + 1], h + (j + 1))
      BY <2>4, <3>1
    <3>. QED
      BY <2>3, <3>2, <3>3
  <2>6. \A j \in 1 .. Len(stdout'[c]) :
          Ranks(strings'[c], 0, n'[c], stdout'[c][j], Heeded(c)' + j)
    BY <1>2, <2>1, <2>5 DEF t
  <2>7. Printed(c)' > 0 => n'[c] >= 1 /\ Len(strings'[c]) = n'[c]
    BY <1>2, <2>1, <2>4 DEF t
  <2>. QED
    BY <2>6, <2>7 DEF Ranked, Ranks, Less, Upto
<1>. QED
  BY <1>3, <1>4, <1>5, Noticed

LEMMA RankingInit ==
  ASSUME NEW most, DeepEnough(most), Init
  PROVE  Ranking
<1>1. \A p \in Procs : /\ pc[p] # "merge" /\ stdout[p] = <<>>
                       /\ \A k \in Child : sub[p][k] = <<>>
  BY DEF Init
<1>2. Len(<<>>) = 0 /\ 1 .. 0 = {}
  BY EmptySeq
<1>3. ASSUME NEW p \in Procs
      PROVE  Halves(p)
  BY <1>1, <1>2 DEF Halves, InPlace
<1>4. ASSUME NEW c \in Procs
      PROVE  Ranked(c)
  <2>1. Heeded(c) = 0
    BY <1>1, <1>2, ParentIsProc DEF Heeded
  <2>2. ~ (Printed(c) > 0)
    BY <1>1, <1>2, <2>1 DEF Printed
  <2>. QED
    BY <1>1, <1>2, <2>2 DEF Ranked
<1>. QED
  BY <1>3, <1>4 DEF Ranking

LEMMA RankingStep ==
  ASSUME NEW most, DeepEnough(most), Shape(most), Shape(most)', Counting, Ranking,
         [Next]_vars
  PROVE  Ranking'
<1>1. \A p \in Procs : Halves(p) /\ Ranked(p)
  BY DEF Ranking
<1>2. ASSUME NEW a \in Procs, ProcNext(a) \/ Kill(a)
      PROVE  Ranking'
  <2>1. \A p \in Procs : Halves(p)'
    BY <1>1, <1>2, HalvesSelf, HalvesOther
  <2>2. \A c \in Procs : Ranked(c)'
    BY <1>1, <1>2, RankedSelf, RankedOther
  <2>. QED
    BY <2>1, <2>2 DEF Ranking
<1>3. CASE UNCHANGED vars
  <2>1. ASSUME NEW p \in Procs
        PROVE  Halves(p)'
    BY <1>1, <1>3, HalvesKept DEF vars, Halves
  <2>2. ASSUME NEW c \in Procs
        PROVE  Ranked(c)'
    BY <1>1, <1>3, RankedKept DEF vars, Ranked, Heard, Heeded
  <2>. QED
    BY <2>1, <2>2 DEF Ranking
<1>. QED
  BY <1>2, <1>3 DEF Next

LEMMA RankingAlways ==
  ASSUME NEW most, DeepEnough(most)
  PROVE  Spec => []Ranking
<1>1. Init => Ranking
  BY RankingInit
<1>2. Shape(most) /\ Shape(most)' /\ Counting /\ Ranking /\ [Next]_vars => Ranking'
  BY RankingStep
<1>3. Spec => []Shape(most) /\ []Counting
  BY ShapeAlways, CountingAlways
<1>. QED
  BY <1>1, <1>2, <1>3, PTL DEF Spec

(***************************************************************************)
(* Whatever fails or is killed, the lines that forksort has printed are    *)
(* the beginning of the sorted input: the i-th line has fewer than i lines *)
(* of the input before it, and at least i that do not come after it.       *)
(***************************************************************************)
THEOREM Sorted ==
  ASSUME NEW most, DeepEnough(most)
  PROVE  Spec => []OutputIsPrefix
<1>1. ASSUME Shape(most), Ranking, stdout[Root] # <<>>
      PROVE  SortedPrefix(stdout[Root], Asked)
  <2>. DEFINE s == stdout[Root]
              t == strings[Root]
              m == n[Root]
  <2>1. Types /\ Typed /\ Ranked(Root)
    BY <1>1, RootIsProc DEF Shape, Ranking
  <2>2. /\ s \in Seq(Int) /\ t \in Seq(Int) /\ m \in Int /\ input \in Seq(Int)
    BY <2>1, RootIsProc DEF Types
  <2>3. Len(s) \in Nat /\ Len(s) > 0 /\ Len(t) \in Nat /\ Len(input) \in Nat
    BY <1>1, <2>2, EmptySeq, LenProperties
  <2>4. /\ Heard(Root) /\ Heeded(Root) = 0 /\ Printed(Root) = 0 + Len(s)
    BY DEF Heard, Heeded, Printed
  <2>5. Printed(Root) > 0
    BY <2>3, <2>4
  <2>6. /\ \A j \in 1 .. Len(s) : Ranks(t, 0, m, s[j], 0 + j)
        /\ m >= 1 /\ Len(t) = m
    BY <2>1, <2>4, <2>5 DEF Ranked
  <2>7. t # <<>>
    BY <2>3, <2>6, EmptySeq
  <2>8. /\ m = input[1] /\ Len(t) < Len(input)
        /\ \A i \in 1 .. Len(t) : t[i] = input[i + 1]
    BY <2>1, <2>6, <2>7 DEF Typed
  <2>. HIDE DEF s, t, m
  <2>9. /\ Len(Asked) = m
        /\ \A i \in 1 .. m : Asked[i] = t[i]
    <3>1. \A i \in 2 .. m + 1 : input[i] \in Int
      <4>1. \A i \in 2 .. m + 1 : i \in 1 .. Len(input)
        BY <2>2, <2>3, <2>6, <2>8
      <4>. QED
        BY <2>2, <4>1, ElementOfSeq
    <3>2. /\ SubSeq(input, 2, m + 1) \in Seq(Int)
          /\ Len(SubSeq(input, 2, m + 1)) = m + 1 - 2 + 1
          /\ \A i \in 1 .. m + 1 - 2 + 1 : SubSeq(input, 2, m + 1)[i] = input[2 + i - 1]
      BY <2>2, <2>6, <3>1, SubSeqProperties
    <3>3. m + 1 - 2 + 1 = m /\ \A i \in 1 .. m : 2 + i - 1 = i + 1
      BY <2>2
    <3>4. Asked = SubSeq(input, 2, m + 1)
      BY <2>8 DEF Asked
    <3>. QED
      BY <2>6, <2>8, <3>2, <3>3, <3>4
  <2>10. ASSUME NEW j \in 1 .. Len(s)
         PROVE  /\ Cardinality({i \in 1 .. Len(Asked) : Asked[i] < s[j]}) < j
                /\ Cardinality({i \in 1 .. Len(Asked) : Asked[i] <= s[j]}) >= j
    <3>1. \A i \in 1 .. m : t[0 + i] = Asked[i]
      BY <2>9
    <3>2. /\ {i \in 1 .. m : t[0 + i] < s[j]} = {i \in 1 .. Len(Asked) : Asked[i] < s[j]}
          /\ {i \in 1 .. m : t[0 + i] <= s[j]} = {i \in 1 .. Len(Asked) : Asked[i] <= s[j]}
      BY <2>9, <3>1
    <3>3. Ranks(t, 0, m, s[j], j)
      BY <2>6
    <3>. QED
      BY <3>2, <3>3 DEF Ranks, Less, Upto
  <2>. QED
    BY <2>10 DEF SortedPrefix, s
<1>2. Shape(most) /\ Ranking => OutputIsPrefix
  BY <1>1 DEF OutputIsPrefix
<1>3. Spec => []Shape(most) /\ []Ranking
  BY ShapeAlways, RankingAlways
<1>. QED
  BY <1>2, <1>3, PTL

-----------------------------------------------------------------------------
(***************************************************************************)
(* Deadlock.                                                               *)
(***************************************************************************)
\* p runs.
Running(p) == pc[p] \notin Ended \cup {"unborn"}

\* p can do nothing by itself: its stdin is empty, the child it waits for has
\* not ended, or the pipe to which it writes is full.
Waits(p) ==
  \/ pc[p] \in {"number", "read"} /\ stdin[p] = <<>> /\ ~ EndOfFile(p)
  \/ \E k \in Child :
       /\ \/ pc[p] = Wait(k)
          \/ /\ pc[p] = Count(k) \/ (pc[p] = Feed(k) /\ sent[p] < Size(p, k))
             /\ Len(stdin[ChildOf(p, k)]) >= Capacity
       /\ pc[ChildOf(p, k)] \notin Ended
  \/ /\ pc[p] = "print" \/ (pc[p] = "merge" /\ \E k \in Child : sub[p][k] # <<>>)
     /\ p # Root /\ ~ ReaderGone(p) /\ Len(stdout[p]) >= Capacity

\* The processes that run do not all wait for each other.
NeverStuck ==
  (\E p \in Procs : Running(p)) => \E p \in Procs : Running(p) /\ ~ Waits(p)

\* One of the processes that run has no descendant that runs.
LEMMA Deepest ==
  ASSUME NEW r \in Procs, Running(r)
  PROVE  \E p \in Procs : Running(p) /\ \A q \in Procs : Running(q) => Len(q) <= Len(p)
<1>. DEFINE Below(p) == Depth - Len(p)
            T == {Below(p) : p \in {q \in Procs : Running(q)}}
<1>1. \A p \in Procs : Len(p) \in Nat /\ Below(p) \in Nat
  BY ProcIsSeq, ConstantsAssumption
<1>2. T \subseteq Nat /\ T # {}
  BY <1>1
<1>3. PICK x \in T : \A y \in T : ~ (<<y, x>> \in OpToRel(<, Nat))
  <2>. HIDE DEF T
  <2>. QED
    BY ONLY <1>2, NatLessThanWellFounded, WFMin
<1>4. \A y \in T : ~ (y < x)
  BY <1>2, <1>3 DEF OpToRel
<1>5. PICK p \in Procs : Running(p) /\ x = Below(p)
  OBVIOUS
<1>6. ASSUME NEW q \in Procs, Running(q)
      PROVE  Len(q) <= Len(p)
  <2>1. ~ (Below(q) < Below(p))
    BY <1>4, <1>5, <1>6
  <2>. QED
    BY <1>1, <2>1, ConstantsAssumption
<1>. QED
  BY <1>5, <1>6

LEMMA InTreeOfParent ==
  ASSUME NEW c \in Procs, c # Root
  PROVE  c \in Tree(Parent(c), Slot(c))
<1>. DEFINE p == Parent(c)
            k == Slot(c)
<1>1. /\ p \in Procs /\ p \in Seq(Child) /\ Len(p) \in Nat /\ k \in Child
      /\ c = ChildOf(p, k)
  BY ParentIsProc, ProcIsSeq
<1>. HIDE DEF p, k
<1>2. /\ Len(c) = Len(p) + 1 /\ c[Len(p) + 1] = k
      /\ \A i \in 1 .. Len(p) : c[i] = p[i]
  BY <1>1, AppendProperties DEF ChildOf
<1>3. c \in Tree(p, k)
  BY <1>1, <1>2 DEF Tree
<1>. QED
  BY <1>3 DEF p, k

\* The phases of different children differ.
LEMMA OnePhase ==
  ASSUME NEW k \in Child, NEW l \in Child, NEW x \in {Count(k), Feed(k)}
  PROVE  /\ x # Wait(l) /\ (x = Count(l) \/ x = Feed(l) => l = k)
         /\ x \notin {"number", "read", "print", "merge", "unborn"} \cup Ended
BY DEF Count, Feed, Wait, Child, Ended

\* A process that waits for its parent gets what it waits for.
LEMMA ParentWrites ==
  ASSUME NEW most, DeepEnough(most), Shape(most), NEW c \in Procs,
         stdin[c] = <<>>, ~ EndOfFile(c)
  PROVE  \E p \in Procs : Running(p) /\ ~ Waits(p)
<1>. DEFINE p == Parent(c)
            k == Slot(c)
<1>1. c # Root /\ pc[p] \in {Count(k), Feed(k)}
  BY DEF EndOfFile, Feeding, Slot, Count, Feed
<1>2. p \in Procs /\ k \in Child /\ ChildOf(p, k) = c
  BY <1>1, ParentIsProc
<1>. HIDE DEF p, k
<1>3. Len(stdin[c]) = 0 /\ Capacity \in Nat \ {0}
  BY EmptySeq, ConstantsAssumption
<1>4. ~ (Len(stdin[ChildOf(p, k)]) >= Capacity)
  BY ONLY <1>2, <1>3
<1>5. Running(p)
  BY <1>1, <1>2, OnePhase DEF Running
<1>6. ~ Waits(p)
  BY <1>1, <1>2, <1>4, OnePhase DEF Waits
<1>. QED
  BY <1>2, <1>5, <1>6

\* A pipe that holds what a process is to print is never full.
LEMMA PrintsFreely ==
  ASSUME NEW most, DeepEnough(most), \A d \in 1 .. Depth : most[d] <= Capacity,
         Shape(most), Counting, NEW c \in Procs, c # Root, ~ ReaderGone(c),
         pc[c] = "print" \/ (pc[c] = "merge" /\ \E k \in Child : sub[c][k] # <<>>)
  PROVE  Len(stdout[c]) < Capacity
<1>. DEFINE p == Parent(c)
            k == Slot(c)
<1>1. /\ p \in Procs /\ k \in Child /\ c \in Tree(p, k)
      /\ Types /\ Still(p) /\ Counted(c)
  BY ParentIsProc, InTreeOfParent DEF Shape, Counting
<1>2. pc[p] # "failed"
  BY DEF ReaderGone, Ended
<1>3. Heard(c)
  <2>1. ~ Quiet(c)
    BY DEF Quiet, Ended
  <2>2. ~ Silent(p, k)
    BY <1>1, <2>1 DEF Silent
  <2>. QED
    BY <1>1, <1>2, <2>2 DEF Still, Heard
<1>4. /\ Printed(c) = Heeded(c) + Len(stdout[c])
      /\ Heeded(c) \in Nat /\ Len(stdout[c]) \in Nat
  <2>1. sub[p][k] \in Seq(Int) /\ stdout[c] \in Seq(Int)
    BY <1>1 DEF Types
  <2>. QED
    BY <2>1, LenProperties DEF Printed, Heeded
<1>5. n[c] \in Int /\ n[c] <= Capacity /\ Capacity \in Nat \ {0}
  <2>1. Len(c) \in 1 .. Depth
    <3>1. c \in Seq(Child) /\ Len(c) \in 0 .. Depth
      BY ProcIsSeq
    <3>2. Len(c) # 0
      BY <3>1, EmptySeq DEF Root
    <3>. QED
      BY <3>1, <3>2, ConstantsAssumption
  <2>2. n[c] <= most[Len(c)] /\ n[c] \in Int
    BY <1>1 DEF Shape, Fits, Types
  <2>3. most[Len(c)] <= Capacity /\ most[Len(c)] \in Nat
    BY <2>1, ConstantsAssumption DEF DeepEnough
  <2>. QED
    BY <2>2, <2>3, ConstantsAssumption
<1>6. CASE pc[c] = "print"
  <2>1. Printed(c) = 0
    BY <1>1, <1>3, <1>6 DEF Counted
  <2>. QED
    BY <1>4, <1>5, <2>1
<1>7. CASE pc[c] = "merge" /\ \E l \in Child : sub[c][l] # <<>>
  <2>. DEFINE x == Len(sub[c][1])
              y == Len(sub[c][2])
  <2>1. Printed(c) + x + y = n[c]
    BY <1>1, <1>3, <1>7 DEF Counted
  <2>2. x \in Nat /\ y \in Nat /\ (x # 0 \/ y # 0)
    <3>1. sub[c][1] \in Seq(Int) /\ sub[c][2] \in Seq(Int)
      BY <1>1 DEF Types, Child
    <3>2. sub[c][1] # <<>> \/ sub[c][2] # <<>>
      BY <1>7 DEF Child
    <3>. QED
      BY <3>1, <3>2, LenProperties, EmptySeq
  <2>. HIDE DEF x, y
  <2>. QED
    BY <1>4, <1>5, <2>1, <2>2
<1>. QED
  BY <1>6, <1>7

(***************************************************************************)
(* forksort awaits a child before it reads what the child has printed, and *)
(* waits for ever for one whose lines do not fit into the pipe.  That is   *)
(* the only deadlock: if a pipe holds the lines of every process but the   *)
(* root, which prints to no pipe, some process can always go on until all  *)
(* have ended, whoever fails or is killed.                                 *)
(***************************************************************************)
THEOREM NoDeadlock ==
  ASSUME NEW most, DeepEnough(most), \A d \in 1 .. Depth : most[d] <= Capacity
  PROVE  Spec => []NeverStuck
<1>1. ASSUME Shape(most), Counting, NEW r \in Procs, Running(r)
      PROVE  \E p \in Procs : Running(p) /\ ~ Waits(p)
  <2>1. PICK p \in Procs : Running(p) /\ \A q \in Procs : Running(q) => Len(q) <= Len(p)
    BY <1>1, Deepest
  <2>2. CASE pc[p] \in {"number", "read"} /\ stdin[p] = <<>> /\ ~ EndOfFile(p)
    BY <1>1, <2>2, ParentWrites
  <2>3. ASSUME NEW k \in Child, pc[p] \in {Count(k), Feed(k), Wait(k)}
        PROVE  pc[ChildOf(p, k)] \in Ended
    <3>. DEFINE c == ChildOf(p, k)
    <3>1. c \in Procs /\ c # Root /\ Parent(c) = p /\ Link(p, k, c)
      BY <1>1, <2>3, Busy DEF Forking
    <3>2. pc[c] # "unborn"
      BY <2>3, <3>1 DEF Link, Serving
    <3>3. Len(p) = Len(c) - 1 /\ Len(c) \in Nat
      BY <3>1, ParentIsProc, ProcIsSeq
    <3>. HIDE DEF c
    <3>4. ~ Running(c)
      BY <2>1, <3>1, <3>3
    <3>5. pc[c] \in Ended
      BY <3>2, <3>4 DEF Running
    <3>. QED
      BY <3>5 DEF c
  <2>4. ASSUME pc[p] = "print" \/ (pc[p] = "merge" /\ \E k \in Child : sub[p][k] # <<>>),
               p # Root, ~ ReaderGone(p)
        PROVE  ~ (Len(stdout[p]) >= Capacity)
    <3>1. Len(stdout[p]) < Capacity
      BY <1>1, <2>4, PrintsFreely
    <3>2. stdout[p] \in Seq(Int) /\ Capacity \in Nat
      BY <1>1, ConstantsAssumption DEF Shape, Types
    <3>. QED
      BY <3>1, <3>2, LenProperties
  <2>. QED
    BY <2>1, <2>2, <2>3, <2>4 DEF Waits
<1>2. Shape(most) /\ Counting => NeverStuck
  BY <1>1 DEF NeverStuck
<1>3. Spec => []Shape(most) /\ []Counting
  BY ShapeAlways, CountingAlways
<1>. QED
  BY <1>2, <1>3, PTL

=============================================================================
