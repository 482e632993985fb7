----------------------------- MODULE MCAttempts -----------------------------
(* A session with two requests at a time, two creation inputs of which one   *)
(* expires, two decision forms and one admission attempt typed two ways.     *)
EXTENDS Attempts, TLC

SomeTexts == {"plain", "padded"}

\* Surrounding blanks are cut.
Trimmed == [x \in SomeTexts |-> IF x = "padded" THEN "plain" ELSE x]

\* Tabs and operations are only compared for equality.
Symmetry == Permutations(Tab) \cup Permutations(Operation)
=============================================================================
