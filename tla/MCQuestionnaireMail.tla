------------------------- MODULE MCQuestionnaireMail -------------------------
(***************************************************************************)
(* Small instance of the questionnaires with their mails.                  *)
(***************************************************************************)
EXTENDS QuestionnaireMail, TLC

CONSTANTS w1, w2, q1, q2, c1, c2

Mails2 == 1 .. 2
TwoWorkers == {w1, w2}
TwoQuestionnaires == {q1, q2}
TwoClerks == {c1, c2}

AllFaults == FaultKinds

Symmetry ==
  Permutations(TwoWorkers) \cup Permutations(TwoQuestionnaires) \cup Permutations(TwoClerks)

=============================================================================
