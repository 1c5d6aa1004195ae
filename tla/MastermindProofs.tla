-------------------------- MODULE MastermindProofs --------------------------
(***************************************************************************)
(* Proofs about Mastermind, for any number of slots that fits into a word, *)
(* any number of rounds, any arguments and draws, words of wrong parity,   *)
(* signals and a killed client; and about the score, for any guess and any *)
(* secret.                                                                 *)
(***************************************************************************)
EXTENDS Mastermind, MastermindRule, SequenceTheorems, FiniteSetTheorems, TLAPS

Bytes(w) == <<w % 256, w \div 256>>

\* The byte that the server sends for the word w in round r, if s is the secret.
Reply(w, s, r) ==
  Answer(w, s) + IF r = MAX_TRIES /\ CorrectGuesses(w, s) # SLOTS THEN GAME_LOST ELSE 0

\* Neither an error nor the secret: the game goes on to the next round.
GoesOn(w, s, r) ==
  ~ParityError(w) /\ r # MAX_TRIES /\ Red(GuessOf(w), s) # SLOTS

\* The documented exit code of a game that ends with the word w in round r.
OutcomeOf(w, s, r) ==
  IF ParityError(w)
  THEN IF r = MAX_TRIES THEN EXIT_MULTIPLE_ERRORS ELSE EXIT_PARITY_ERROR
  ELSE IF Red(GuessOf(w), s) = SLOTS THEN EXIT_SUCCESS ELSE EXIT_GAME_LOST

-----------------------------------------------------------------------------
\* A set of slots is finite.
LEMMA SlotSets ==
  /\ IsFiniteSet(Slots) /\ Cardinality(Slots) = SLOTS
  /\ \A T \in SUBSET Slots : IsFiniteSet(T) /\ Cardinality(T) \in 0 .. SLOTS
<1>1. IsFiniteSet(Slots) /\ Cardinality(Slots) = SLOTS
  BY FS_Interval, SlotsAssumption DEF Slots
<1>. QED
  BY <1>1, FS_Subset, FS_CardinalityType, SlotsAssumption

\* Slots are numbers.
LEMMA SlotsInt == \A j \in Slots : j \in Int /\ 0 <= j /\ j < SLOTS
<1>1. SLOTS \in Int
  BY SlotsAssumption
<1>. QED
  BY <1>1 DEF Slots

\* Two sets of slots without a common one.
LEMMA DisjointSlots ==
  ASSUME NEW A \in SUBSET Slots, NEW B \in SUBSET Slots, A \cap B = {}
  PROVE  Cardinality(A \cup B) = Cardinality(A) + Cardinality(B)
<1>1. IsFiniteSet(A) /\ IsFiniteSet(B) /\ Cardinality(A) \in Nat /\ Cardinality(B) \in Nat
  BY SlotSets
<1>2. Cardinality(A \cap B) = 0
  BY FS_EmptySet
<1>3. Cardinality(A \cup B) = Cardinality(A) + Cardinality(B) - Cardinality(A \cap B)
  BY <1>1, FS_Union
<1>. QED
  BY <1>1, <1>2, <1>3

-----------------------------------------------------------------------------
\* The elements of G before slot i, and those of them that find one of L pegs left.
Below(G, i) == {k \in G : k < i}

Served(G, L, i) == {j \in Below(G, i) : Cardinality(Below(G, j)) < L}

AreServed(G, L, i) ==
  Cardinality(Served(G, L, i)) =
    IF Cardinality(Below(G, i)) < L THEN Cardinality(Below(G, i)) ELSE L

\* One more slot.
LEMMA NextServed ==
  ASSUME NEW G \in SUBSET Slots, NEW L \in Nat, NEW i \in Slots, AreServed(G, L, i)
  PROVE  AreServed(G, L, i + 1)
<1>0. i \in Int /\ \A k \in G : k \in Int
  BY SlotsInt
<1>1. /\ Below(G, i) \in SUBSET Slots /\ Served(G, L, i) \in SUBSET Slots
      /\ i \notin Below(G, i) /\ i \notin Served(G, L, i)
  <2>1. \A k \in Below(G, i) : k \in G /\ k < i
    BY DEF Below
  <2>2. \A k \in Served(G, L, i) : k \in Below(G, i)
    BY DEF Served
  <2>3. ~(i < i)
    BY <1>0
  <2>. QED
    BY <2>1, <2>2, <2>3
<1>2. /\ IsFiniteSet(Below(G, i)) /\ IsFiniteSet(Served(G, L, i))
      /\ Cardinality(Below(G, i)) \in Nat /\ Cardinality(Served(G, L, i)) \in Nat
  BY <1>1, SlotSets
<1>3. CASE i \notin G
  <2>1. Below(G, i + 1) = Below(G, i)
    <3>1. ASSUME NEW k \in G PROVE k < i + 1 <=> k < i
      <4>1. k \in Int /\ k # i
        BY <1>0, <1>3
      <4>. QED
        BY ONLY <1>0, <4>1
    <3>. QED
      BY <3>1 DEF Below
  <2>. QED
    BY <2>1 DEF AreServed, Served
<1>4. CASE i \in G
  <2>1. Below(G, i + 1) = Below(G, i) \cup {i}
    <3>1. ASSUME NEW k \in G PROVE k < i + 1 <=> k < i \/ k = i
      <4>1. k \in Int
        BY <1>0
      <4>. QED
        BY ONLY <1>0, <4>1
    <3>. QED
      BY <1>4, <3>1 DEF Below
  <2>2. Cardinality(Below(G, i + 1)) = Cardinality(Below(G, i)) + 1
    BY <1>1, <1>2, <2>1, FS_AddElement
  <2>3. CASE Cardinality(Below(G, i)) < L
    <3>1. Served(G, L, i + 1) = Served(G, L, i) \cup {i}
      BY <2>1, <2>3 DEF Served
    <3>2. Cardinality(Served(G, L, i + 1)) = Cardinality(Served(G, L, i)) + 1
      BY <1>1, <1>2, <3>1, FS_AddElement
    <3>3. Cardinality(Served(G, L, i)) = Cardinality(Below(G, i))
      BY <2>3 DEF AreServed
    <3>. QED
      BY <1>2, <2>2, <2>3, <3>2, <3>3 DEF AreServed
  <2>4. CASE ~(Cardinality(Below(G, i)) < L)
    <3>1. Served(G, L, i + 1) = Served(G, L, i)
      BY <2>1, <2>4 DEF Served
    <3>2. Cardinality(Served(G, L, i)) = L
      BY <2>4 DEF AreServed
    <3>. QED
      BY <1>2, <2>2, <2>4, <3>1, <3>2 DEF AreServed
  <2>. QED
    BY <2>3, <2>4
<1>. QED
  BY <1>3, <1>4

(***************************************************************************)
(* Slots that take pegs from left to right: as many are served as there    *)
(* are pegs, or all of them.                                               *)
(***************************************************************************)
LEMMA FirstServed ==
  ASSUME NEW G \in SUBSET Slots, NEW L \in Nat
  PROVE  Cardinality({j \in G : Cardinality(Below(G, j)) < L}) =
           IF Cardinality(G) < L THEN Cardinality(G) ELSE L
<1>1. Below(G, 0) = {} /\ Served(G, L, 0) = {}
  BY SlotsInt DEF Below, Served
<1>2. AreServed(G, L, 0)
  BY <1>1, FS_EmptySet DEF AreServed
<1>3. AreServed(G, L, 1)
  <2>1. 0 \in Slots /\ 0 + 1 = 1
    BY SlotsAssumption DEF Slots
  <2>. QED
    BY <1>2, <2>1, NextServed
<1>4. SLOTS > 1 => AreServed(G, L, 2)
  <2>1. SLOTS > 1 => 1 \in Slots /\ 1 + 1 = 2
    BY SlotsAssumption DEF Slots
  <2>. QED
    BY <1>3, <2>1, NextServed
<1>5. SLOTS > 2 => AreServed(G, L, 3)
  <2>1. SLOTS > 2 => 2 \in Slots /\ 2 + 1 = 3 /\ SLOTS > 1
    BY SlotsAssumption DEF Slots
  <2>. QED
    BY <1>4, <2>1, NextServed
<1>6. SLOTS > 3 => AreServed(G, L, 4)
  <2>1. SLOTS > 3 => 3 \in Slots /\ 3 + 1 = 4 /\ SLOTS > 2
    BY SlotsAssumption DEF Slots
  <2>. QED
    BY <1>5, <2>1, NextServed
<1>7. SLOTS > 4 => AreServed(G, L, 5)
  <2>1. SLOTS > 4 => 4 \in Slots /\ 4 + 1 = 5 /\ SLOTS > 3
    BY SlotsAssumption DEF Slots
  <2>. QED
    BY <1>6, <2>1, NextServed
<1>8. AreServed(G, L, SLOTS)
  <2>1. \/ SLOTS = 1
        \/ SLOTS = 2 /\ SLOTS > 1
        \/ SLOTS = 3 /\ SLOTS > 2
        \/ SLOTS = 4 /\ SLOTS > 3
        \/ SLOTS = 5 /\ SLOTS > 4
    BY SlotsAssumption
  <2>. QED
    BY <1>3, <1>4, <1>5, <1>6, <1>7, <2>1
<1>9. Below(G, SLOTS) = G
  BY SlotsInt DEF Below
<1>. QED
  BY <1>8, <1>9 DEF AreServed, Served

-----------------------------------------------------------------------------
\* The elements of S whose colour is less than c.
UpToColor(S, f, c) == {x \in S : f[x] < c}

\* One more colour.
LEMMA NextColor ==
  ASSUME NEW S, NEW f \in [S -> Colors], IsFiniteSet(S),
         NEW T, NEW h \in [T -> Colors], IsFiniteSet(T),
         NEW c \in Colors,
         Cardinality({x \in S : f[x] = c}) = Cardinality({y \in T : h[y] = c}),
         Cardinality(UpToColor(S, f, c)) = Cardinality(UpToColor(T, h, c))
  PROVE  Cardinality(UpToColor(S, f, c + 1)) = Cardinality(UpToColor(T, h, c + 1))
<1>1. ASSUME NEW X, NEW k \in [X -> Colors], IsFiniteSet(X)
      PROVE  Cardinality(UpToColor(X, k, c + 1)) =
               Cardinality(UpToColor(X, k, c)) + Cardinality({x \in X : k[x] = c})
  <2>. DEFINE A == UpToColor(X, k, c)
              B == {x \in X : k[x] = c}
  <2>1. A \in SUBSET X /\ B \in SUBSET X
    BY DEF UpToColor
  <2>2. \A x \in X : k[x] \in Int
    BY DEF Colors, COLORS
  <2>3. UpToColor(X, k, c + 1) = A \cup B /\ A \cap B = {}
    BY <2>2 DEF UpToColor, Colors, COLORS
  <2>. HIDE DEF A, B
  <2>4. IsFiniteSet(A) /\ IsFiniteSet(B) /\ Cardinality(A) \in Nat /\ Cardinality(B) \in Nat
    BY <1>1, <2>1, FS_Subset, FS_CardinalityType
  <2>5. Cardinality(A \cup B) = Cardinality(A) + Cardinality(B) - Cardinality(A \cap B)
    BY <2>4, FS_Union
  <2>6. Cardinality(A \cap B) = 0
    BY <2>3, FS_EmptySet
  <2>. QED
    <3>1. Cardinality(A \cup B) = Cardinality(A) + Cardinality(B)
      BY <2>4, <2>5, <2>6
    <3>. QED
      BY <2>3, <3>1 DEF A, B
<1>. QED
  BY <1>1

\* Two sets with as many elements of each colour are of the same size.
LEMMA ByColor ==
  ASSUME NEW S, NEW f \in [S -> Colors], IsFiniteSet(S),
         NEW T, NEW h \in [T -> Colors], IsFiniteSet(T),
         \A c \in Colors :
           Cardinality({x \in S : f[x] = c}) = Cardinality({y \in T : h[y] = c})
  PROVE  Cardinality(S) = Cardinality(T)
<1>. DEFINE Same(c) == Cardinality(UpToColor(S, f, c)) = Cardinality(UpToColor(T, h, c))
<1>1. ASSUME NEW c \in Colors, Same(c) PROVE Same(c + 1)
  <2>1. Cardinality({x \in S : f[x] = c}) = Cardinality({y \in T : h[y] = c})
    OBVIOUS
  <2>2. Cardinality(UpToColor(S, f, c)) = Cardinality(UpToColor(T, h, c))
    BY <1>1
  <2>. QED
    BY <2>1, <2>2, NextColor
<1>2. Same(0)
  <2>1. UpToColor(S, f, 0) = {} /\ UpToColor(T, h, 0) = {}
    BY DEF UpToColor, Colors, COLORS
  <2>. QED
    BY <2>1
<1>3. Same(8)
  <2>. HIDE DEF Same
  <2>0. \A c \in 0 .. 7 : c \in Colors
    BY DEF Colors, COLORS
  <2>1. Same(0 + 1) BY <2>0, <1>1, <1>2
  <2>2. Same(1 + 1) BY <2>0, <1>1, <2>1
  <2>3. Same(2 + 1) BY <2>0, <1>1, <2>2
  <2>4. Same(3 + 1) BY <2>0, <1>1, <2>3
  <2>5. Same(4 + 1) BY <2>0, <1>1, <2>4
  <2>6. Same(5 + 1) BY <2>0, <1>1, <2>5
  <2>7. Same(6 + 1) BY <2>0, <1>1, <2>6
  <2>8. Same(7 + 1) BY <2>0, <1>1, <2>7
  <2>. QED
    BY <2>8
<1>4. UpToColor(S, f, 8) = S /\ UpToColor(T, h, 8) = T
  BY DEF UpToColor, Colors, COLORS
<1>. QED
  BY <1>3, <1>4

-----------------------------------------------------------------------------
\* The common pegs of one colour.
LEMMA CommonOfColor ==
  ASSUME NEW g, NEW s, NEW c \in Colors
  PROVE  Cardinality({p \in InCommon(g, s) : p[1] = c}) =
           IF PegsOf(g, c) < PegsOf(s, c) THEN PegsOf(g, c) ELSE PegsOf(s, c)
<1>. DEFINE m == IF PegsOf(g, c) < PegsOf(s, c) THEN PegsOf(g, c) ELSE PegsOf(s, c)
            T == {p \in InCommon(g, s) : p[1] = c}
            f == [i \in 1 .. m |-> <<c, i>>]
<1>1. PegsOf(g, c) \in 0 .. SLOTS /\ PegsOf(s, c) \in 0 .. SLOTS
  <2>1. {j \in Slots : g[j] = c} \in SUBSET Slots /\ {j \in Slots : s[j] = c} \in SUBSET Slots
    OBVIOUS
  <2>. QED
    BY <2>1, SlotSets DEF PegsOf
<1>2. m \in 0 .. SLOTS
  BY <1>1
<1>3. ASSUME NEW i \in Int PROVE i \in 1 .. m <=> i \in 1 .. SLOTS /\ i <= PegsOf(g, c) /\ i <= PegsOf(s, c)
  BY <1>1, SlotsAssumption
<1>. HIDE DEF m
<1>4. T = {<<c, i>> : i \in 1 .. m}
  <2>1. ASSUME NEW i \in 1 .. m PROVE <<c, i>> \in T
    BY <1>2, <1>3, SlotsAssumption DEF InCommon
  <2>2. ASSUME NEW p \in T PROVE p \in {<<c, i>> : i \in 1 .. m}
    <3>1. PICK d \in Colors, i \in 1 .. SLOTS :
            p = <<d, i>> /\ i <= PegsOf(g, d) /\ i <= PegsOf(s, d)
      BY DEF InCommon
    <3>2. d = c
      BY <3>1
    <3>. QED
      BY <1>3, <3>1, <3>2, SlotsAssumption
  <2>. QED
    BY <2>1, <2>2
<1>5. f \in Bijection(1 .. m, T)
  BY <1>4 DEF Bijection, Injection, Surjection, IsInjective
<1>6. ExistsBijection(1 .. m, T)
  BY <1>5 DEF ExistsBijection
<1>7. IsFiniteSet(1 .. m) /\ Cardinality(1 .. m) = m
  BY <1>2, FS_Interval, SlotsAssumption
<1>. QED
  BY <1>6, <1>7, FS_Bijection DEF m

(***************************************************************************)
(* compute_answer scores what the rule of the game says, for any sequence  *)
(* and any secret.                                                         *)
(***************************************************************************)
LEMMA ScoredInCommon ==
  ASSUME NEW g, NEW s \in Secrets
  PROVE  Red(g, s) + White(g, s) = Cardinality(InCommon(g, s))
<1>. DEFINE NotRed == {j \in Slots : g[j] # s[j]}
            Reds == {j \in Slots : g[j] = s[j]}
            Left(c) == Cardinality({k \in NotRed : s[k] = c})
            Before(j) == {k \in NotRed : k < j /\ g[k] = g[j]}
            Whites == {j \in NotRed : Cardinality(Before(j)) < Left(g[j])}
            Marked == Reds \cup Whites
<1>1. Cardinality(Marked) = Red(g, s) + White(g, s)
  <2>1. Red(g, s) = Cardinality(Reds)
    BY DEF Red
  <2>2. White(g, s) = Cardinality(Whites)
    BY DEF White
  <2>3. Reds \in SUBSET Slots /\ Whites \in SUBSET Slots /\ Reds \cap Whites = {}
    OBVIOUS
  <2>. HIDE DEF Reds, Whites
  <2>. QED
    BY <2>1, <2>2, <2>3, DisjointSlots
<1>2. ASSUME NEW j \in Marked PROVE g[j] \in Colors
  <2>1. CASE j \in Reds
    BY <2>1 DEF Secrets
  <2>2. CASE j \in Whites
    <3>1. {k \in NotRed : s[k] = g[j]} # {}
      <4>1. SUFFICES ASSUME {k \in NotRed : s[k] = g[j]} = {} PROVE FALSE
        OBVIOUS
      <4>2. Left(g[j]) = 0
        BY <4>1, FS_EmptySet
      <4>3. Before(j) \in SUBSET Slots
        OBVIOUS
      <4>4. Cardinality(Before(j)) \in Nat
        BY <4>3, SlotSets
      <4>. QED
        BY <2>2, <4>2, <4>4
    <3>. QED
      BY <3>1 DEF Secrets
  <2>. QED
    BY <1>2, <2>1, <2>2
<1>3. ASSUME NEW c \in Colors
      PROVE  Cardinality({j \in Marked : g[j] = c}) = Cardinality({p \in InCommon(g, s) : p[1] = c})
  <2>. DEFINE R == {j \in Reds : g[j] = c}
              G == {j \in NotRed : g[j] = c}
              K == {k \in NotRed : s[k] = c}
              W == {j \in G : Cardinality(Below(G, j)) < Cardinality(K)}
  <2>1. R \in SUBSET Slots /\ G \in SUBSET Slots /\ K \in SUBSET Slots /\ W \in SUBSET Slots
    OBVIOUS
  <2>2. R \cap G = {} /\ R \cap K = {} /\ R \cap W = {}
    OBVIOUS
  <2>3. {j \in Slots : g[j] = c} = R \cup G /\ {j \in Slots : s[j] = c} = R \cup K
    OBVIOUS
  <2>4. {j \in Marked : g[j] = c} = R \cup W
    <3>1. ASSUME NEW j \in G PROVE Before(j) = Below(G, j) /\ Left(g[j]) = Cardinality(K)
      BY DEF Below
    <3>2. {j \in Whites : g[j] = c} = W
      <4>1. ASSUME NEW j PROVE j \in Whites /\ g[j] = c <=> j \in W
        BY <3>1
      <4>. QED
        BY <4>1
    <3>. QED
      BY <3>2
  <2>. HIDE DEF Reds, Whites, NotRed, Marked, R, G, K
  <2>5. /\ Cardinality(R) \in Nat /\ Cardinality(G) \in Nat /\ Cardinality(K) \in Nat
    BY <2>1, SlotSets
  <2>6. PegsOf(g, c) = Cardinality(R) + Cardinality(G)
    BY <2>1, <2>2, <2>3, DisjointSlots DEF PegsOf
  <2>7. PegsOf(s, c) = Cardinality(R) + Cardinality(K)
    BY <2>1, <2>2, <2>3, DisjointSlots DEF PegsOf
  <2>8. Cardinality(W) = IF Cardinality(G) < Cardinality(K) THEN Cardinality(G) ELSE Cardinality(K)
    BY <2>1, <2>5, FirstServed
  <2>. HIDE DEF W
  <2>9. Cardinality({j \in Marked : g[j] = c}) = Cardinality(R) + Cardinality(W)
    BY <2>1, <2>2, <2>4, DisjointSlots
  <2>10. Cardinality({p \in InCommon(g, s) : p[1] = c}) =
           IF PegsOf(g, c) < PegsOf(s, c) THEN PegsOf(g, c) ELSE PegsOf(s, c)
    BY CommonOfColor
  <2>. QED
    BY <2>5, <2>6, <2>7, <2>8, <2>9, <2>10
<1>4. Marked \in SUBSET Slots
  OBVIOUS
<1>. HIDE DEF Marked
<1>5. IsFiniteSet(Marked)
  BY <1>4, SlotSets
<1>6. IsFiniteSet(InCommon(g, s)) /\ \A p \in InCommon(g, s) : p[1] \in Colors
  <2>1. IsFiniteSet(Colors) /\ IsFiniteSet(1 .. SLOTS)
    <3>1. 0 \in Int /\ 7 \in Int /\ 1 \in Int /\ SLOTS \in Int /\ Colors = 0 .. 7
      BY SlotsAssumption DEF Colors, COLORS
    <3>. QED
      BY <3>1, FS_Interval
  <2>2. IsFiniteSet(Colors \X (1 .. SLOTS))
    BY <2>1, FS_Product
  <2>3. InCommon(g, s) \in SUBSET (Colors \X (1 .. SLOTS))
    BY DEF InCommon
  <2>. QED
    BY <2>2, <2>3, FS_Subset
<1>7. Cardinality(Marked) = Cardinality(InCommon(g, s))
  <2>. DEFINE f == [j \in Marked |-> g[j]]
              h == [p \in InCommon(g, s) |-> p[1]]
  <2>1. f \in [Marked -> Colors] /\ h \in [InCommon(g, s) -> Colors]
    BY <1>2, <1>6
  <2>2. ASSUME NEW c \in Colors
        PROVE  Cardinality({x \in Marked : f[x] = c}) = Cardinality({y \in InCommon(g, s) : h[y] = c})
    <3>1. /\ {x \in Marked : f[x] = c} = {x \in Marked : g[x] = c}
          /\ {y \in InCommon(g, s) : h[y] = c} = {y \in InCommon(g, s) : y[1] = c}
      OBVIOUS
    <3>. QED
      BY <3>1, <1>3
  <2>. HIDE DEF f, h
  <2>. QED
    BY <1>5, <1>6, <2>1, <2>2, ByColor
<1>. QED
  BY <1>1, <1>7

\* Red and white count what guess and secret have in common.
THEOREM RuleOfTheGame == sample \in ScoreSamples => ScoreIsRule
BY ScoredInCommon DEF ScoreSamples, ScoreIsRule

-----------------------------------------------------------------------------
\* Red and white count slots.
LEMMA ScoreBound ==
  ASSUME NEW g, NEW s
  PROVE  Red(g, s) \in 0 .. SLOTS /\ White(g, s) \in 0 .. SLOTS
<1>2. ASSUME NEW T \in SUBSET Slots PROVE Cardinality(T) \in 0 .. SLOTS
  BY SlotSets
<1>3. Red(g, s) \in 0 .. SLOTS
  <2>1. {j \in Slots : g[j] = s[j]} \in SUBSET Slots
    OBVIOUS
  <2>. QED
    BY <2>1, <1>2 DEF Red
<1>4. White(g, s) \in 0 .. SLOTS
  <2>. DEFINE NotRed == {j \in Slots : g[j] # s[j]}
              Left(c) == Cardinality({k \in NotRed : s[k] = c})
              Before(j) == {k \in NotRed : k < j /\ g[k] = g[j]}
              Pegs == {j \in NotRed : Cardinality(Before(j)) < Left(g[j])}
  <2>1. Pegs \in SUBSET Slots
    OBVIOUS
  <2>2. White(g, s) = Cardinality(Pegs)
    BY DEF White
  <2>. QED
    BY <2>1, <2>2, <1>2
<1>. QED
  BY <1>3, <1>4

\* All pegs are red only for the secret itself.
LEMMA AllRed ==
  ASSUME NEW w, NEW s \in Secrets, Red(GuessOf(w), s) = SLOTS
  PROVE  GuessOf(w) = s
<1>. DEFINE T == {j \in Slots : GuessOf(w)[j] = s[j]}
<1>1. IsFiniteSet(Slots) /\ Cardinality(Slots) = SLOTS
  BY SlotSets
<1>2. T \in SUBSET Slots /\ Cardinality(T) = Cardinality(Slots)
  BY <1>1 DEF Red
<1>3. T = Slots
  BY <1>1, <1>2, FS_Subset
<1>4. \A j \in Slots : GuessOf(w)[j] = s[j]
  BY <1>3
<1>. QED
  BY <1>4 DEF GuessOf, Secrets

(***************************************************************************)
(* The fields of the byte do not run into each other (compute_answer, and  *)
(* what client.c and the end of the server's loop read from the byte).     *)
(***************************************************************************)
LEMMA AnswerDecodes ==
  ASSUME NEW w, NEW s, NEW lost \in {0, GAME_LOST}
  PROVE  /\ Answer(w, s) + lost \in Byte
         /\ ParityErr(Answer(w, s) + lost) <=> ParityError(w)
         /\ GameLost(Answer(w, s) + lost) <=> lost # 0
         /\ RedOf(Answer(w, s) + lost) = Red(GuessOf(w), s)
         /\ (Answer(w, s) + lost) % GAME_LOST = Answer(w, s)
<1>. DEFINE red == Red(GuessOf(w), s)
            white == White(GuessOf(w), s)
            parity == IF ParityError(w) THEN PARITY_ERR ELSE 0
            byte == Answer(w, s) + lost
<1>1. red \in 0 .. 5 /\ white \in 0 .. 5
  BY ScoreBound, SlotsAssumption
<1>2. Answer(w, s) = red + 8 * white + parity
  BY DEF Answer
<1>3. parity \in {0, 64} /\ (parity = 64 <=> ParityError(w))
  BY DEF PARITY_ERR
<1>4. lost \in {0, 128}
  BY DEF GAME_LOST
<1>. HIDE DEF red, white, parity
<1>5. byte = red + 8 * white + parity + lost
  BY <1>1, <1>2, <1>3, <1>4
<1>. HIDE DEF byte
<1>6. byte \in Byte
  BY <1>1, <1>3, <1>4, <1>5 DEF Byte
<1>7. ParityErr(byte) <=> ParityError(w)
  BY <1>1, <1>3, <1>4, <1>5 DEF ParityErr, PARITY_ERR
<1>8. GameLost(byte) <=> lost # 0
  BY <1>1, <1>3, <1>4, <1>5 DEF GameLost, GAME_LOST
<1>9. RedOf(byte) = red
  BY <1>1, <1>3, <1>4, <1>5 DEF RedOf
<1>10. byte % GAME_LOST = Answer(w, s)
  BY <1>1, <1>2, <1>3, <1>4, <1>5 DEF GAME_LOST
<1>. QED
  BY <1>6, <1>7, <1>8, <1>9, <1>10 DEF red, byte

\* Whatever compute_answer answers, also in the last round, reads as it was meant.
THEOREM ResponsesDecode == sample \in ScoreSamples => ResponseDecodes
<1>1. ASSUME NEW b \in Byte PROVE b < 256
  BY DEF Byte
<1>. QED
  BY <1>1, AnswerDecodes DEF ResponseDecodes

\* A reply reads as it was meant.
LEMMA ReplyDecodes ==
  ASSUME NEW w, NEW s, NEW r
  PROVE  /\ Reply(w, s, r) \in Byte
         /\ ParityErr(Reply(w, s, r)) <=> ParityError(w)
         /\ GameLost(Reply(w, s, r)) <=> r = MAX_TRIES /\ CorrectGuesses(w, s) # SLOTS
         /\ RedOf(Reply(w, s, r)) = Red(GuessOf(w), s)
         /\ Reply(w, s, r) % GAME_LOST = Answer(w, s)
<1>. DEFINE lost == IF r = MAX_TRIES /\ CorrectGuesses(w, s) # SLOTS THEN GAME_LOST ELSE 0
<1>1. lost \in {0, GAME_LOST}
  OBVIOUS
<1>2. lost # 0 <=> r = MAX_TRIES /\ CorrectGuesses(w, s) # SLOTS
  BY DEF GAME_LOST
<1>3. Reply(w, s, r) = Answer(w, s) + lost
  BY DEF Reply
<1>. HIDE DEF lost
<1>. QED
  BY <1>1, <1>2, <1>3, AnswerDecodes

\* The server goes on in the rounds that the reply lets it, and so does the client.
LEMMA ReplyGoesOn ==
  ASSUME NEW w, NEW s, NEW r
  PROVE  /\ GoesOn(w, s, r) <=> /\ ~GameLost(Reply(w, s, r)) /\ ~ParityErr(Reply(w, s, r))
                                /\ CorrectGuesses(w, s) # SLOTS
         /\ GoesOn(w, s, r) <=> /\ ~GameLost(Reply(w, s, r)) /\ ~ParityErr(Reply(w, s, r))
                                /\ RedOf(Reply(w, s, r)) # SLOTS
BY ReplyDecodes, SlotsAssumption DEF GoesOn, CorrectGuesses

\* Each program makes the same exit code of the reply.
LEMMA ReplyOutcome ==
  ASSUME NEW w, NEW s, NEW r, ~GoesOn(w, s, r)
  PROVE  /\ OutcomeOf(w, s, r) =
              IF ParityErr(Reply(w, s, r))
              THEN IF GameLost(Reply(w, s, r)) THEN EXIT_MULTIPLE_ERRORS ELSE EXIT_PARITY_ERROR
              ELSE IF GameLost(Reply(w, s, r)) THEN EXIT_GAME_LOST ELSE EXIT_SUCCESS
         /\ OutcomeOf(w, s, r) \in Outcomes
BY ReplyDecodes, SlotsAssumption DEF GoesOn, CorrectGuesses, OutcomeOf, Outcomes,
   ExitCodes, EXIT_SUCCESS, EXIT_FAILURE, EXIT_PARITY_ERROR, EXIT_GAME_LOST,
   EXIT_MULTIPLE_ERRORS


\* What client.c sends is a word, and so is one with the other parity.
LEMMA WordsAreWords ==
  ASSUME NEW n \in RandomNumbers, NEW flip \in {0, 1}
  PROVE  (GenerateRandomNumber(n) + flip * PARITY) % 65536 \in Word
<1>. DEFINE T == {i \in 0 .. SLOTS * SHIFT_WIDTH - 1 : Bit(n, i) = 1}
<1>1. IsFiniteSet(0 .. SLOTS * SHIFT_WIDTH - 1)
  BY FS_Interval, SlotsAssumption DEF SHIFT_WIDTH
<1>2. Cardinality(T) \in Nat
  BY <1>1, FS_Subset, FS_CardinalityType
<1>3. ClientParity(n) \in 0 .. 1
  BY <1>2 DEF ClientParity, Parity
<1>4. n \in Int
  BY DEF RandomNumbers
<1>5. GenerateRandomNumber(n) + flip * PARITY \in Int
  BY <1>3, <1>4 DEF GenerateRandomNumber, PARITY
<1>6. ASSUME NEW m \in Int PROVE m % 65536 \in Word
  <2>1. m % 65536 \in Int /\ 0 <= m % 65536 /\ m % 65536 <= MaxWord /\ MaxWord \in Int
    BY DEF MaxWord
  <2>. QED
    BY <2>1 DEF Word
<1>. QED
  BY <1>5, <1>6

\* The two bytes of a word are bytes, and the server puts them together again.
LEMMA BytesOfWord ==
  ASSUME NEW w \in Word
  PROVE  /\ Bytes(w) \in Seq(Byte) /\ Len(Bytes(w)) = 2
         /\ 256 * Bytes(w)[2] + Bytes(w)[1] = w
<1>1. w \in Int /\ 0 <= w /\ w <= 65535
  <2>1. w \in Int /\ 0 <= w /\ w <= MaxWord
    BY DEF Word
  <2>2. MaxWord = 65535
    BY DEF MaxWord
  <2>. QED
    BY <2>1, <2>2
<1>2. w % 256 \in Int /\ 0 <= w % 256 /\ w % 256 < 256
  BY <1>1
<1>3. w \div 256 \in Int
  BY <1>1
<1>4. w \div 256 >= 0
  BY <1>1
<1>5. w \div 256 <= 255
  BY <1>1
<1>6. w % 256 \in Byte /\ w \div 256 \in Byte
  <2>1. w % 256 <= 256 - 1 /\ w \div 256 <= 256 - 1
    BY <1>2, <1>3, <1>5
  <2>. QED
    BY <1>2, <1>3, <1>4, <2>1 DEF Byte
<1>7. 256 * (w \div 256) + (w % 256) = w
  BY <1>1
<1>8. Bytes(w)[1] = w % 256 /\ Bytes(w)[2] = w \div 256 /\ Len(Bytes(w)) = 2
  BY DEF Bytes
<1>9. Bytes(w) \in Seq(Byte)
  BY <1>6 DEF Bytes
<1>. QED
  BY <1>7, <1>8, <1>9

\* recv() moves bytes from the connection to the request and loses none.
LEMMA ReceivedBytes ==
  ASSUME NEW s \in Seq(Byte), NEW t \in Seq(Byte), NEW n \in 1 .. Len(t)
  PROVE  /\ s \o SubSeq(t, 1, n) \in Seq(Byte)
         /\ Len(s \o SubSeq(t, 1, n)) = Len(s) + n
         /\ SubSeq(t, n + 1, Len(t)) \in Seq(Byte)
         /\ (s \o SubSeq(t, 1, n)) \o SubSeq(t, n + 1, Len(t)) = s \o t
<1>1. Len(t) \in Nat /\ Len(s) \in Nat
  BY LenProperties
<1>2. SubSeq(t, 1, n) \in Seq(Byte) /\ Len(SubSeq(t, 1, n)) = n
  BY <1>1, ElementOfSeq, SubSeqProperties
<1>3. SubSeq(t, n + 1, Len(t)) \in Seq(Byte)
  BY <1>1, ElementOfSeq, SubSeqProperties
<1>4. SubSeq(t, 1, n) \o SubSeq(t, n + 1, Len(t)) = SubSeq(t, 1, Len(t))
  BY <1>1, ConcatAdjacentSubSeq
<1>. DEFINE taken == SubSeq(t, 1, n)
            left  == SubSeq(t, n + 1, Len(t))
<1>5. taken \o left = t
  BY <1>4, SubSeqFull
<1>. HIDE DEF taken, left
<1>6. (s \o taken) \o left = s \o (taken \o left)
  <2>1. taken \in Seq(Byte) /\ left \in Seq(Byte)
    BY <1>2, <1>3 DEF taken, left
  <2>. QED
    BY SMTT(20), <2>1
<1>7. s \o taken \in Seq(Byte) /\ Len(s \o taken) = Len(s) + n
  BY <1>2, ConcatProperties DEF taken
<1>8. (s \o taken) \o left = s \o t
  BY ONLY <1>5, <1>6
<1>. QED
  BY <1>3, <1>7, <1>8 DEF taken, left

\* A request of two bytes leaves nothing of the word under way.
LEMMA WholeWord ==
  ASSUME NEW s \in Seq(Byte), NEW t \in Seq(Byte), NEW w \in Word,
         s \o t = Bytes(w), Len(s) = 2
  PROVE  s = Bytes(w) /\ t = <<>>
<1>1. Len(s \o t) = 2
  BY BytesOfWord
<1>2. Len(t) = 0
  BY <1>1, ConcatProperties, LenProperties
<1>3. t = <<>>
  BY <1>2, EmptySeq
<1>. QED
  BY <1>3, ConcatEmptySeq

-----------------------------------------------------------------------------
(***************************************************************************)
(* How the two programs and the two byte streams belong together.          *)
(***************************************************************************)
\* A process has an exit code when it is done, and an error ends the rounds.
Progress ==
  /\ mpc = "done" <=> sexit # Running
  /\ cpc = "done" <=> cexit # Running
  /\ mpc # "done" => ret = EXIT_SUCCESS
  /\ mpc \in {"recv", "answer", "send", "judge"} => round <= MAX_TRIES
  /\ mpc = "answer" => Len(request) = 2
  /\ mpc = "recv" => Len(request) # 2

\* Nothing is under way before the connection.
Unconnected ==
  /\ ~connected => /\ mpc \in {"start", "accept", "done"} /\ cpc \in {"start", "done"}
                   /\ cexit \notin Outcomes /\ toServer = <<>> /\ toClient = <<>>
  /\ mpc = "start" \/ cpc = "start" => ~connected
  /\ mpc \in {"start", "accept"} => round = 1
  /\ cpc = "start" => cround = 1

\* The server has come to the round of the client, or will by its judgement.
Ready ==
  \/ /\ mpc = "judge" /\ cround = round + 1
     /\ ~GameLost(buffer) /\ ~ParityErr(buffer) /\ correct # SLOTS
  \/ mpc \in {"accept", "loop"} /\ cround = round
  \/ mpc = "recv" /\ cround = round /\ request = <<>>

\* The server has sent its reply to the client's word.
Answered ==
  \/ /\ mpc = "judge" /\ round = cround
     /\ buffer = Reply(word, secret, cround) /\ correct = CorrectGuesses(word, secret)
  \/ /\ mpc \in {"loop", "recv", "done"} /\ round = cround + 1
     /\ GoesOn(word, secret, cround) /\ (mpc = "recv" => request = <<>>)
  \/ /\ mpc = "done" /\ round = cround
     /\ ~GoesOn(word, secret, cround) /\ sexit = OutcomeOf(word, secret, cround)

\* The server has all or a part of the word and has not sent the reply.
Asked ==
  /\ round = cround /\ toClient = <<>>
  /\ \/ mpc = "recv" /\ request \o toServer = Bytes(word)
     \/ mpc = "answer" /\ request = Bytes(word) /\ toServer = <<>>
     \/ /\ mpc = "send" /\ toServer = <<>>
        /\ buffer = Reply(word, secret, round) /\ correct = CorrectGuesses(word, secret)

Sending ==
  cpc = "send" => /\ toClient = <<>>
                  /\ mpc # "done" => Ready /\ toServer = <<>>

Waiting ==
  cpc = "recv" =>
    \/ Asked
    \/ Ready /\ toServer = Bytes(word) /\ toClient = <<>>
    \/ mpc = "done" /\ toClient = <<>>
    \/ /\ Answered /\ toClient = <<Reply(word, secret, cround)>>
       /\ mpc # "done" => toServer = <<>>

Checking ==
  cpc = "check" => /\ Answered /\ toClient = <<>>
                   /\ response = Reply(word, secret, cround)
                   /\ mpc # "done" => toServer = <<>>

Finished ==
  cexit \in Outcomes => /\ Answered /\ ~GoesOn(word, secret, cround)
                        /\ cexit = OutcomeOf(word, secret, cround)

Exchange == Progress /\ Unconnected /\ Sending /\ Waiting /\ Checking /\ Finished

-----------------------------------------------------------------------------
LEMMA InitType == GameInit => GameTypeOK /\ Exchange
<1>. SUFFICES ASSUME GameInit PROVE GameTypeOK /\ Exchange
  OBVIOUS
<1>. USE DEF GameInit, Running
<1>1. secret \in Secrets
  BY DEF Secrets, Colors, COLORS
<1>2. 0 \in Word /\ 0 \in Byte /\ -1 \in Int
  BY DEF Word, MaxWord, Byte
<1>3. EXIT_SUCCESS \in ExitCodes /\ 1 \in 1 .. MAX_TRIES + 1 /\ 0 \in -1 .. SLOTS
  BY SlotsAssumption, GameAssumption DEF ExitCodes
<1>4. GameTypeOK
  <2>1. mpc = "start" /\ cpc = "start" /\ serverPort \in Int /\ cround \in Nat
    OBVIOUS
  <2>5. quit \in BOOLEAN /\ connected \in BOOLEAN
    OBVIOUS
  <2>2. /\ round \in 1 .. MAX_TRIES + 1 /\ ret \in ExitCodes /\ correct \in -1 .. SLOTS
        /\ buffer \in Byte /\ word \in Word /\ response \in Byte
    BY <1>2, <1>3
  <2>3. sexit \in ExitCodes \cup {Running} /\ cexit \in ExitCodes \cup {Running, Signalled}
    OBVIOUS
  <2>4. /\ request \in Seq(Byte) /\ toServer \in Seq(Byte) /\ toClient \in Seq(Byte)
        /\ Len(request) <= 2
    OBVIOUS
  <2>. QED
    BY <1>1, <2>1, <2>2, <2>3, <2>4, <2>5 DEF GameTypeOK
<1>5. Exchange
  BY DEF Exchange, Progress, Unconnected, Sending, Waiting, Checking, Finished,
     Outcomes, ExitCodes, EXIT_SUCCESS, EXIT_FAILURE, EXIT_PARITY_ERROR,
     EXIT_GAME_LOST, EXIT_MULTIPLE_ERRORS
<1>. QED
  BY <1>4, <1>5

\* parse_args turns the letters into colours.
LEMMA SecretRead ==
  ASSUME NEW arg, ValidSecret(arg)
  PROVE  [j \in Slots |-> ColorOf(arg[j + 1])] \in Secrets
<1>1. ASSUME NEW j \in Slots PROVE ColorOf(arg[j + 1]) \in Colors
  <2>1. j + 1 \in 1 .. SLOTS
    BY SlotsAssumption DEF Slots
  <2>2. \E c \in Colors : arg[j + 1] = Letters[c + 1]
    BY <2>1 DEF ValidSecret
  <2>. QED
    BY <2>2 DEF ColorOf
<1>. QED
  BY <1>1 DEF Secrets

\* compute_answer leaves the reply to the request in the buffer.
LEMMA ComputesReply ==
  ASSUME ComputeAnswer
  PROVE  /\ buffer' = Reply(Request, secret, round)
         /\ correct' = CorrectGuesses(Request, secret)
         /\ buffer' \in Byte /\ correct' \in -1 .. SLOTS
<1>1. /\ buffer' = Reply(Request, secret, round)
      /\ correct' = CorrectGuesses(Request, secret)
  BY DEF ComputeAnswer, Reply
<1>2. CorrectGuesses(Request, secret) \in -1 .. SLOTS
  BY ScoreBound, SlotsAssumption DEF CorrectGuesses
<1>. QED
  BY <1>1, <1>2, ReplyDecodes

\* What the client makes of a response, in terms of its two errors.
LEMMA ClientJudges ==
  ASSUME Check
  PROVE  /\ ~ParityErr(response) /\ ~GameLost(response) /\ RedOf(response) # SLOTS =>
              cpc' = "send" /\ cround' = cround + 1 /\ cexit' = cexit
         /\ ParityErr(response) \/ GameLost(response) \/ RedOf(response) = SLOTS =>
              /\ cpc' = "done" /\ cround' = cround
              /\ cexit' = IF ParityErr(response)
                          THEN IF GameLost(response) THEN EXIT_MULTIPLE_ERRORS
                               ELSE EXIT_PARITY_ERROR
                          ELSE IF GameLost(response) THEN EXIT_GAME_LOST ELSE EXIT_SUCCESS
<1>. USE DEF Check, ClientExit, Running, EXIT_SUCCESS, EXIT_PARITY_ERROR,
             EXIT_GAME_LOST, EXIT_MULTIPLE_ERRORS
<1>1. CASE ParityErr(response) /\ GameLost(response)   BY <1>1
<1>2. CASE ParityErr(response) /\ ~GameLost(response)  BY <1>2
<1>3. CASE ~ParityErr(response) /\ GameLost(response)  BY <1>3
<1>4. CASE ~ParityErr(response) /\ ~GameLost(response) BY <1>4
<1>. QED
  BY <1>1, <1>2, <1>3, <1>4

\* Every action keeps the types.
LEMMA StepType == GameTypeOK /\ Exchange /\ [GameNext]_gameVars => GameTypeOK'
<1>. SUFFICES ASSUME GameTypeOK, Exchange, [GameNext]_gameVars PROVE GameTypeOK'
  OBVIOUS
<1>. USE DEF GameTypeOK, serverVars, clientVars, network, ServerExit, ClientExit
<1>0. /\ EXIT_SUCCESS \in ExitCodes /\ EXIT_FAILURE \in ExitCodes
      /\ EXIT_PARITY_ERROR \in ExitCodes /\ EXIT_GAME_LOST \in ExitCodes
      /\ EXIT_MULTIPLE_ERRORS \in ExitCodes
  BY DEF ExitCodes
<1>1. CASE ParseArgs
  <2>1. PICK port \in Ports, arg \in SecretArgs :
          IF ValidPort(port) /\ ValidSecret(arg)
          THEN /\ mpc' = "accept" /\ serverPort' = port
               /\ secret' = [j \in Slots |-> ColorOf(arg[j + 1])]
               /\ UNCHANGED sexit
          ELSE ServerExit(EXIT_FAILURE) /\ UNCHANGED <<serverPort, secret>>
    BY <1>1 DEF ParseArgs
  <2>2. secret' \in Secrets
    BY <2>1, SecretRead
  <2>3. serverPort' \in Int
    BY <2>1, GameAssumption
  <2>. QED
    BY <1>1, <1>0, <2>1, <2>2, <2>3 DEF ParseArgs
<1>2. CASE Accept
  BY <1>2 DEF Accept
<1>3. CASE Loop
  BY <1>3, <1>0 DEF Loop
<1>4. CASE ReadFromClient
  <2>1. PICK n \in 1 .. Len(toServer) :
          /\ Len(request) + n <= 2
          /\ request' = request \o SubSeq(toServer, 1, n)
          /\ toServer' = SubSeq(toServer, n + 1, Len(toServer))
    BY <1>4 DEF ReadFromClient
  <2>2. request' \in Seq(Byte) /\ Len(request') <= 2 /\ toServer' \in Seq(Byte)
    BY <2>1, ReceivedBytes
  <2>. QED
    BY <1>4, <2>2 DEF ReadFromClient
<1>5. CASE ReceiveNothing
  BY <1>5, <1>0 DEF ReceiveNothing
<1>6. CASE ComputeAnswer
  BY <1>6, ComputesReply DEF ComputeAnswer
<1>7. CASE SendAnswer
  <2>1. toClient' \in Seq(Byte)
    <3>1. Append(toClient, buffer) \in Seq(Byte)
      BY AppendProperties
    <3>. QED
      BY <1>7, <3>1 DEF SendAnswer
  <2>2. sexit' \in ExitCodes \cup {Running} /\ mpc' \in {"judge", "done"}
    BY <1>7, <1>0 DEF SendAnswer
  <2>3. UNCHANGED <<round, ret, quit, secret, request, buffer, correct, serverPort,
                   clientVars, connected, toServer>>
    BY <1>7 DEF SendAnswer
  <2>. QED
    BY <2>1, <2>2, <2>3
<1>8. CASE Judge
  <2>1. ret' \in ExitCodes
    BY <1>8, <1>0 DEF Judge
  <2>2. round' \in 1 .. MAX_TRIES + 1
    BY <1>8, GameAssumption DEF Judge, Exchange, Progress
  <2>. QED
    BY <1>8, <2>1, <2>2 DEF Judge
<1>9. CASE HandleSignal
  BY <1>9, <1>0 DEF HandleSignal
<1>10. CASE ConnectToServer
  BY <1>10, <1>0 DEF ConnectToServer
<1>11. CASE SendGuess
  <2>1. word' \in Word
    BY <1>11, WordsAreWords, GameAssumption DEF SendGuess
  <2>2. toServer' \in Seq(Byte)
    BY <1>11, <2>1, BytesOfWord, ConcatProperties DEF SendGuess, Bytes
  <2>. QED
    BY <1>11, <2>1, <2>2 DEF SendGuess
<1>12. CASE ReceiveResponse
  BY <1>12, HeadTailProperties DEF ReceiveResponse
<1>13. CASE ConnectionLost
  BY <1>13, <1>0 DEF ConnectionLost
<1>14. CASE Check
  <2>1. /\ cpc' \in {"send", "done"} /\ cround' \in {cround, cround + 1}
        /\ cexit' = cexit \/ cexit' \in ExitCodes
    BY <1>14, <1>0, ClientJudges
  <2>2. UNCHANGED <<serverVars, word, response, network>>
    BY <1>14 DEF Check
  <2>3. cround' \in Nat
    BY <2>1
  <2>4. cexit' \in ExitCodes \cup {Running, Signalled}
    BY <2>1
  <2>. QED
    BY <2>1, <2>2, <2>3, <2>4
<1>15. CASE KillClient
  BY <1>15 DEF KillClient
<1>16. CASE UNCHANGED gameVars
  BY <1>16 DEF gameVars
<1>. QED
  BY <1>1, <1>2, <1>3, <1>4, <1>5, <1>6, <1>7, <1>8, <1>9, <1>10, <1>11, <1>12,
     <1>13, <1>14, <1>15, <1>16 DEF GameNext, ServerNext, ClientNext

\* Every action keeps the facts about the exit codes.
LEMMA StepProgress == GameTypeOK /\ Exchange /\ [GameNext]_gameVars => Progress'
<1>. SUFFICES ASSUME GameTypeOK, Exchange, [GameNext]_gameVars PROVE Progress'
  OBVIOUS
<1>. USE DEF Exchange, Progress, serverVars, clientVars, network, ServerExit, ClientExit
<1>0. Running \notin ExitCodes /\ ret \in ExitCodes /\ EXIT_FAILURE \in ExitCodes /\ Signalled # Running
  BY DEF GameTypeOK, ExitCodes, Running, Signalled, EXIT_SUCCESS, EXIT_FAILURE,
         EXIT_PARITY_ERROR, EXIT_GAME_LOST, EXIT_MULTIPLE_ERRORS
<1>1. CASE ParseArgs
  BY <1>1, <1>0 DEF ParseArgs
<1>2. CASE Accept
  BY <1>2 DEF Accept
<1>3. CASE Loop
  BY <1>3, <1>0 DEF Loop
<1>4. CASE ReadFromClient
  BY <1>4 DEF ReadFromClient
<1>5. CASE ReceiveNothing
  BY <1>5, <1>0 DEF ReceiveNothing
<1>6. CASE ComputeAnswer
  BY <1>6 DEF ComputeAnswer
<1>7. CASE SendAnswer
  BY <1>7, <1>0 DEF SendAnswer
<1>8. CASE Judge
  <2>1. ret' \in ExitCodes
    BY <1>8, StepType DEF GameTypeOK
  <2>2. mpc' # "done" => ret' = ret
    BY <1>8 DEF Judge
  <2>. QED
    BY <1>8, <1>0, <2>1, <2>2 DEF Judge
<1>9. CASE HandleSignal
  BY <1>9, <1>0 DEF HandleSignal
<1>10. CASE ConnectToServer
  BY <1>10, <1>0 DEF ConnectToServer
<1>11. CASE SendGuess
  BY <1>11 DEF SendGuess
<1>12. CASE ReceiveResponse
  BY <1>12 DEF ReceiveResponse
<1>13. CASE ConnectionLost
  BY <1>13, <1>0 DEF ConnectionLost
<1>14. CASE Check
  <2>1. UNCHANGED <<serverVars, word, response, network>>
    BY <1>14 DEF Check
  <2>2. cpc' = "done" <=> cexit' # Running
    BY <1>14, ClientJudges DEF Running, EXIT_SUCCESS, EXIT_PARITY_ERROR,
       EXIT_GAME_LOST, EXIT_MULTIPLE_ERRORS, Check
  <2>. QED
    BY <2>1, <2>2
<1>15. CASE KillClient
  BY <1>15, <1>0 DEF KillClient
<1>16. CASE UNCHANGED gameVars
  BY <1>16 DEF gameVars
<1>. QED
  BY <1>1, <1>2, <1>3, <1>4, <1>5, <1>6, <1>7, <1>8, <1>9, <1>10, <1>11, <1>12,
     <1>13, <1>14, <1>15, <1>16 DEF GameNext, ServerNext, ClientNext

\* Every action keeps the facts about the time before the connection.
LEMMA StepUnconnected == GameTypeOK /\ Exchange /\ [GameNext]_gameVars => Unconnected'
<1>. SUFFICES ASSUME GameTypeOK, Exchange, [GameNext]_gameVars PROVE Unconnected'
  OBVIOUS
<1>. USE DEF Exchange, Progress, Unconnected, serverVars, clientVars, network,
             ServerExit, ClientExit
<1>0. Signalled \notin Outcomes /\ EXIT_FAILURE \notin Outcomes /\ Running \notin Outcomes
  BY DEF Outcomes, ExitCodes, Running, Signalled, EXIT_SUCCESS, EXIT_FAILURE,
         EXIT_PARITY_ERROR, EXIT_GAME_LOST, EXIT_MULTIPLE_ERRORS
<1>1. CASE ParseArgs          BY <1>1 DEF ParseArgs
<1>2. CASE Accept             BY <1>2 DEF Accept
<1>3. CASE Loop               BY <1>3 DEF Loop
<1>4. CASE ReadFromClient     BY <1>4 DEF ReadFromClient
<1>5. CASE ReceiveNothing     BY <1>5 DEF ReceiveNothing
<1>6. CASE ComputeAnswer      BY <1>6 DEF ComputeAnswer
<1>7. CASE SendAnswer         BY <1>7 DEF SendAnswer
<1>8. CASE Judge              BY <1>8 DEF Judge
<1>9. CASE HandleSignal       BY <1>9 DEF HandleSignal
<1>10. CASE ConnectToServer   BY <1>10, <1>0 DEF ConnectToServer
<1>11. CASE SendGuess         BY <1>11 DEF SendGuess
<1>12. CASE ReceiveResponse
  BY <1>12 DEF ReceiveResponse
<1>13. CASE ConnectionLost    BY <1>13 DEF ConnectionLost
<1>14. CASE Check
  <2>1. UNCHANGED <<serverVars, word, response, network>> /\ cpc = "check"
    BY <1>14 DEF Check
  <2>2. cpc' \in {"send", "done"}
    BY <1>14, ClientJudges
  <2>. QED
    BY <2>1, <2>2
<1>15. CASE KillClient        BY <1>15, <1>0 DEF KillClient
<1>16. CASE UNCHANGED gameVars BY <1>16 DEF gameVars
<1>. QED
  BY <1>1, <1>2, <1>3, <1>4, <1>5, <1>6, <1>7, <1>8, <1>9, <1>10, <1>11, <1>12,
     <1>13, <1>14, <1>15, <1>16 DEF GameNext, ServerNext, ClientNext

Rounds == Sending /\ Waiting /\ Checking /\ Finished

(***************************************************************************)
(* The server's reply follows from the word of the client in this round,   *)
(* and its judgement from the reply.                                       *)
(***************************************************************************)
LEMMA ServerRounds == GameTypeOK /\ Exchange /\ (ServerNext \/ HandleSignal) => Rounds'
<1>. SUFFICES ASSUME GameTypeOK, Exchange, ServerNext \/ HandleSignal PROVE Rounds'
  OBVIOUS
<1>. USE DEF Exchange, Rounds, Sending, Waiting, Checking, Finished, serverVars,
             clientVars, network, ServerExit
<1>1. CASE ParseArgs
  BY <1>1 DEF ParseArgs, Unconnected
<1>2. CASE Accept
  BY <1>2 DEF Accept, Ready, Answered, Asked
<1>3. CASE Loop
  BY <1>3 DEF Loop, Ready, Answered, Asked
<1>4. CASE ReadFromClient
  <2>1. PICK n \in 1 .. Len(toServer) :
          /\ request' = request \o SubSeq(toServer, 1, n)
          /\ toServer' = SubSeq(toServer, n + 1, Len(toServer))
    BY <1>4 DEF ReadFromClient
  <2>2. /\ request' \in Seq(Byte) /\ toServer' \in Seq(Byte)
        /\ request' \o toServer' = request \o toServer
    BY <2>1, ReceivedBytes DEF GameTypeOK
  <2>3. cpc # "send" /\ cpc # "check" /\ cexit \notin Outcomes
    BY <1>4 DEF ReadFromClient, Answered
  <2>4. ASSUME cpc = "recv" PROVE request \o toServer = Bytes(word) /\ round = cround /\ toClient = <<>>
    <3>1. CASE Asked
      BY <1>4, <3>1 DEF Asked, ReadFromClient
    <3>2. CASE Ready /\ toServer = Bytes(word) /\ toClient = <<>>
      <4>1. request = <<>> /\ round = cround
        BY <1>4, <3>2 DEF Ready, ReadFromClient
      <4>. QED
        BY <3>2, <4>1, ConcatEmptySeq DEF GameTypeOK
    <3>. QED
      BY <1>4, <2>4, <3>1, <3>2 DEF ReadFromClient
  <2>5. ASSUME cpc = "recv" PROVE Asked'
    <3>1. CASE Len(request') = 2
      <4>1. request' = Bytes(word) /\ toServer' = <<>>
        <5>1. request' \o toServer' = Bytes(word) /\ word \in Word
          BY <2>2, <2>4, <2>5 DEF GameTypeOK
        <5>. QED
          BY <2>2, <3>1, <5>1, WholeWord
      <4>. QED
        BY <1>4, <2>4, <2>5, <3>1, <4>1 DEF Asked, ReadFromClient
    <3>2. CASE Len(request') # 2
      BY <1>4, <2>2, <2>4, <2>5, <3>2 DEF Asked, ReadFromClient
    <3>. QED
      BY <3>1, <3>2
  <2>. QED
    BY <1>4, <2>3, <2>5 DEF ReadFromClient
<1>5. CASE ReceiveNothing
  BY <1>5 DEF ReceiveNothing, Answered
<1>6. CASE ComputeAnswer
  <2>1. cpc # "send" /\ cpc # "check" /\ cexit \notin Outcomes
    BY <1>6 DEF ComputeAnswer, Answered, Ready
  <2>2. ASSUME cpc = "recv" PROVE Asked'
    <3>1. Asked
      BY <1>6, <2>2 DEF ComputeAnswer, Answered, Ready
    <3>2. Request = word
      BY <1>6, <3>1, BytesOfWord DEF Asked, ComputeAnswer, Request, GameTypeOK
    <3>3. buffer' = Reply(word, secret, round) /\ correct' = CorrectGuesses(word, secret)
      BY <1>6, <3>2, ComputesReply
    <3>. QED
      BY <1>6, <3>1, <3>3 DEF Asked, ComputeAnswer
  <2>. QED
    BY <1>6, <2>1, <2>2 DEF ComputeAnswer
<1>7. CASE SendAnswer
  <2>1. cpc # "send" /\ cpc # "check" /\ cexit \notin Outcomes
    BY <1>7 DEF SendAnswer, Answered, Ready
  <2>2. ASSUME cpc = "recv" PROVE Answered' /\ toClient' = <<Reply(word, secret, cround)>> /\ toServer' = <<>>
    <3>1. Asked
      BY <1>7, <2>2 DEF SendAnswer, Answered, Ready
    <3>2. mpc' = "judge" /\ toClient' = <<buffer>>
      BY <1>7, <2>2, <3>1 DEF SendAnswer, Asked
    <3>. QED
      BY <1>7, <3>1, <3>2 DEF SendAnswer, Asked, Answered
  <2>. QED
    BY <1>7, <2>1, <2>2 DEF SendAnswer
<1>8. CASE Judge
  <2>1. CASE Ready
    <3>1. /\ mpc' = "loop" /\ round' = round + 1
          /\ UNCHANGED <<quit, secret, request, correct, sexit, clientVars, network>>
      BY <1>8, <2>1 DEF Judge, Ready
    <3>2. Ready'
      BY <1>8, <2>1, <3>1 DEF Judge, Ready
    <3>3. ~Answered /\ ~Asked
      BY <1>8, <2>1 DEF Judge, Ready, Answered, Asked, GameTypeOK
    <3>. QED
      BY <1>8, <3>1, <3>2, <3>3 DEF Judge
  <2>2. CASE Answered
    <3>1. /\ round = cround /\ buffer = Reply(word, secret, cround)
          /\ correct = CorrectGuesses(word, secret) /\ ret = EXIT_SUCCESS
      BY <1>8, <2>2 DEF Judge, Answered, Progress
    <3>2. GoesOn(word, secret, cround) => mpc' = "loop" /\ round' = round + 1
      BY <1>8, <3>1, ReplyGoesOn DEF Judge
    <3>3. ~GoesOn(word, secret, cround) =>
            mpc' = "done" /\ round' = round /\ sexit' = OutcomeOf(word, secret, cround)
      <4>. SUFFICES ASSUME ~GoesOn(word, secret, cround)
                    PROVE  /\ mpc' = "done" /\ round' = round
                           /\ sexit' = OutcomeOf(word, secret, cround)
        OBVIOUS
      <4>1. mpc' = "done" /\ round' = round /\ sexit' = ret'
        BY <1>8, <3>1, ReplyGoesOn DEF Judge
      <4>2. ret' = OutcomeOf(word, secret, cround)
        BY <1>8, <3>1, ReplyOutcome DEF Judge, EXIT_SUCCESS, EXIT_PARITY_ERROR
      <4>. QED
        BY <4>1, <4>2
    <3>4. Answered'
      BY <1>8, <3>1, <3>2, <3>3 DEF Judge, Answered, GameTypeOK
    <3>5. ~Ready /\ ~Asked
      BY <1>8, <3>1 DEF Judge, Ready, Asked, GameTypeOK
    <3>. QED
      BY <1>8, <3>4, <3>5 DEF Judge
  <2>3. CASE ~Ready /\ ~Answered
    BY <1>8, <2>3 DEF Judge, Asked
  <2>. QED
    BY <2>1, <2>2, <2>3
<1>9. CASE HandleSignal
  BY <1>9 DEF HandleSignal, Ready, Answered, Asked, Unconnected
<1>. QED
  BY <1>1, <1>2, <1>3, <1>4, <1>5, <1>6, <1>7, <1>8, <1>9 DEF ServerNext

(***************************************************************************)
(* The client asks when the server is ready, and goes on or ends on the    *)
(* reply to the word it has sent last.                                     *)
(***************************************************************************)
LEMMA ClientRounds == GameTypeOK /\ Exchange /\ (ClientNext \/ KillClient) => Rounds'
<1>. SUFFICES ASSUME GameTypeOK, Exchange, ClientNext \/ KillClient PROVE Rounds'
  OBVIOUS
<1>. USE DEF Exchange, Rounds, Sending, Waiting, Checking, Finished, serverVars,
             clientVars, network, ClientExit
<1>0. Signalled \notin Outcomes /\ EXIT_FAILURE \notin Outcomes /\ Running \notin Outcomes
  BY DEF Outcomes, ExitCodes, Running, Signalled, EXIT_SUCCESS, EXIT_FAILURE,
         EXIT_PARITY_ERROR, EXIT_GAME_LOST, EXIT_MULTIPLE_ERRORS
<1>1. CASE ConnectToServer
  BY <1>1, <1>0 DEF ConnectToServer, Unconnected, Ready, Progress
<1>2. CASE SendGuess
  <2>1. toClient = <<>> /\ cexit \notin Outcomes
    BY <1>2, <1>0 DEF SendGuess, Progress
  <2>2. mpc # "done" => Ready' /\ toServer' = Bytes(word')
    <3>1. word' \in Word
      BY <1>2, StepType DEF GameTypeOK, GameNext, ClientNext
    <3>. QED
      BY <1>2, <3>1, BytesOfWord, ConcatEmptySeq DEF SendGuess, Ready, Bytes
  <2>. QED
    BY <1>2, <2>1, <2>2 DEF SendGuess
<1>3. CASE ReceiveResponse
  <2>1. /\ Answered /\ toClient = <<Reply(word, secret, cround)>>
        /\ mpc # "done" => toServer = <<>>
    BY <1>3 DEF ReceiveResponse, Asked
  <2>2. response' = Reply(word, secret, cround) /\ toClient' = <<>>
    BY <1>3, <2>1 DEF ReceiveResponse
  <2>3. Answered' /\ cexit \notin Outcomes
    BY <1>3, <1>0, <2>1 DEF ReceiveResponse, Answered, Progress
  <2>. QED
    BY <1>3, <2>1, <2>2, <2>3 DEF ReceiveResponse
<1>4. CASE ConnectionLost
  BY <1>4, <1>0 DEF ConnectionLost
<1>5. CASE Check
  <2>0. /\ UNCHANGED <<serverVars, word, response, network>> /\ cpc = "check"
        /\ Answered /\ response = Reply(word, secret, cround) /\ toClient = <<>>
        /\ cexit \notin Outcomes
    BY <1>5, <1>0 DEF Check, Progress
  <2>1. CASE GoesOn(word, secret, cround)
    <3>1. cpc' = "send" /\ cround' = cround + 1 /\ cexit' = cexit
      BY <1>5, <2>0, <2>1, ReplyGoesOn, ClientJudges
    <3>2. mpc # "done" => Ready'
      BY <2>0, <2>1, <3>1, ReplyGoesOn DEF Answered, Ready, GameTypeOK
    <3>. QED
      BY <2>0, <3>1, <3>2, <1>5
  <2>2. CASE ~GoesOn(word, secret, cround)
    <3>1. /\ cpc' = "done" /\ cround' = cround
          /\ cexit' = OutcomeOf(word, secret, cround)
      BY <1>5, <2>0, <2>2, ReplyGoesOn, ReplyOutcome, ClientJudges
    <3>2. Answered'
      BY <2>0, <3>1 DEF Answered
    <3>. QED
      BY <2>0, <2>2, <3>1, <3>2
  <2>. QED
    BY <2>1, <2>2
<1>6. CASE KillClient
  BY <1>6, <1>0 DEF KillClient
<1>. QED
  BY <1>1, <1>2, <1>3, <1>4, <1>5, <1>6 DEF ClientNext

-----------------------------------------------------------------------------
\* The invariant holds from the start and after every step.
LEMMA StepExchange == GameTypeOK /\ Exchange /\ [GameNext]_gameVars => Exchange'
<1>. SUFFICES ASSUME GameTypeOK, Exchange, [GameNext]_gameVars PROVE Exchange'
  OBVIOUS
<1>1. Rounds'
  <2>1. CASE ServerNext \/ HandleSignal BY <2>1, ServerRounds
  <2>2. CASE ClientNext \/ KillClient   BY <2>2, ClientRounds
  <2>3. CASE UNCHANGED gameVars
    BY <2>3 DEF Exchange, Rounds, gameVars, serverVars, clientVars, network, Sending, Waiting,
       Checking, Finished, Ready, Answered, Asked
  <2>. QED
    BY <2>1, <2>2, <2>3 DEF GameNext
<1>. QED
  BY <1>1, StepProgress, StepUnconnected DEF Rounds, Exchange

\* The programs and the connection stay in step, whatever signal or kill comes.
LEMMA ExchangeAlways == GameSpec => [](GameTypeOK /\ Exchange)
<1>1. GameTypeOK /\ Exchange /\ [GameNext]_gameVars => (GameTypeOK /\ Exchange)'
  BY StepType, StepExchange
<1>. QED
  BY <1>1, InitType, PTL DEF GameSpec

\* Every variable keeps its type.
THEOREM TypeCorrect == GameSpec => []GameTypeOK
BY ExchangeAlways, PTL

\* The byte that the client reads answers the word it has sent last.
THEOREM InStep == GameSpec => []AnswersInStep
<1>1. Exchange => AnswersInStep
  BY ReplyDecodes DEF Exchange, Checking, AnswersInStep
<1>. QED
  BY <1>1, ExchangeAlways, PTL

(***************************************************************************)
(* When the client ends with an outcome of the game, the server ends with  *)
(* the same exit code after the same number of rounds.                     *)
(***************************************************************************)
THEOREM SameExit == GameSpec => []SameOutcome
<1>1. GameTypeOK /\ Exchange => SameOutcome
  BY DEF GameTypeOK, Exchange, Finished, Answered, SameOutcome
<1>. QED
  BY <1>1, ExchangeAlways, PTL

\* The exit code of the client tells the truth about its last word.
THEOREM Justified == GameSpec => []OutcomeJustified
<1>1. GameTypeOK /\ Exchange => OutcomeJustified
  <2>. SUFFICES ASSUME GameTypeOK, Exchange PROVE OutcomeJustified
    OBVIOUS
  <2>. USE DEF Exchange, Finished, GoesOn, OutcomeOf, Outcomes, ExitCodes, EXIT_SUCCESS,
           EXIT_FAILURE, EXIT_PARITY_ERROR, EXIT_GAME_LOST, EXIT_MULTIPLE_ERRORS
  <2>1. cexit = EXIT_SUCCESS => GuessOf(word) = secret /\ ~ParityError(word)
    <3>1. cexit = EXIT_SUCCESS => Red(GuessOf(word), secret) = SLOTS /\ ~ParityError(word)
      OBVIOUS
    <3>. QED
      BY <3>1, AllRed DEF GameTypeOK
  <2>2. cexit \in {EXIT_PARITY_ERROR, EXIT_MULTIPLE_ERRORS} <=>
          cexit \in Outcomes /\ ParityError(word)
    OBVIOUS
  <2>3. cexit \in {EXIT_GAME_LOST, EXIT_MULTIPLE_ERRORS} => cround = MAX_TRIES
    OBVIOUS
  <2>. QED
    BY <2>1, <2>2, <2>3 DEF OutcomeJustified
<1>. QED
  BY <1>1, ExchangeAlways, PTL

-----------------------------------------------------------------------------
(***************************************************************************)
(* Deadlock.                                                               *)
(***************************************************************************)
\* accept() or recv() keeps the server from going on, or it has ended.
ServerWaits ==
  \/ mpc = "accept" /\ ~connected
  \/ mpc = "recv" /\ toServer = <<>> /\ cpc # "done"
  \/ mpc = "done"

\* recv() keeps the client from going on, or it has ended.
ClientWaits ==
  \/ cpc = "start" /\ mpc = "start"
  \/ cpc = "recv" /\ toClient = <<>> /\ mpc # "done"
  \/ cpc = "done"

\* Once a client has connected, one of the two can go on until both have ended.
NeverStuck ==
  connected /\ ~ (mpc = "done" /\ cpc = "done") => ~ ServerWaits \/ ~ ClientWaits

(***************************************************************************)
(* Server and client are never both blocked in recv(), also if the server  *)
(* has got half of a word, sent words of wrong parity or a signal in       *)
(* between (server.c:146, client.c:204).                                   *)
(***************************************************************************)
THEOREM NoDeadlock == GameSpec => []NeverStuck
<1>1. ASSUME GameTypeOK, Exchange, mpc = "recv", toServer = <<>>, cpc = "recv", toClient = <<>>
      PROVE  FALSE
  <2>1. request \in Seq(Byte) /\ Len(request) # 2 /\ word \in Word
    BY <1>1 DEF GameTypeOK, Exchange, Progress
  <2>2. Len(Bytes(word)) = 2 /\ Bytes(word) # <<>>
    BY <2>1, BytesOfWord
  <2>3. Asked
    BY <1>1, <2>2 DEF Exchange, Waiting, Answered
  <2>4. request \o <<>> = Bytes(word)
    BY <1>1, <2>3 DEF Asked
  <2>5. request = Bytes(word)
    BY <2>1, <2>4, ConcatEmptySeq
  <2>. QED
    BY <2>1, <2>2, <2>5
<1>2. GameTypeOK /\ Exchange => NeverStuck
  BY <1>1 DEF NeverStuck, ServerWaits, ClientWaits, Exchange, Unconnected
<1>. QED
  BY <1>2, ExchangeAlways, PTL

=============================================================================
