---- MODULE MCTranslations ----
EXTENDS Translations, TLC
CONSTANTS v1, v2
Kinds == v1 :> "visit" @@ v2 :> "each"
Alike == [d \in Docs |-> CHOOSE s \in Sources : TRUE]
Edited == [r \in Reviews |-> 2]
Sym == Permutations(Docs) \cup Permutations(Reviews)
====
