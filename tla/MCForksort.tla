----------------------------- MODULE MCForksort -----------------------------
(***************************************************************************)
(* Instances of Forksort: complete inputs with every order of few lines,   *)
(* and inputs whose number is wrong or zero.                               *)
(***************************************************************************)
EXTENDS Forksort

Numbered(m, Keys) == {<<m>> \o s : s \in [1 .. m -> Keys]}

MCFour == Numbered(4, 1 .. 3)

MCWrong == {<<>>, <<0>>, <<-1, 1>>, <<3, 2, 1>>, <<1, 2, 1>>}

MCInputs == MCFour \cup Numbered(3, 1 .. 3) \cup Numbered(1, {1}) \cup MCWrong

MCFew == Numbered(3, 1 .. 2) \cup MCWrong

MCFive == {<<5, 3, 1, 2, 5, 4>>}

\* Of m lines at the root a process at depth d gets m / 2^d at most, rounded up.
ASSUME TreeAssumption ==
  \E m \in 1 .. 5 : DeepEnough([d \in 0 .. Depth |-> (m + 2 ^ d - 1) \div 2 ^ d])

=============================================================================
