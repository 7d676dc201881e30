----------------------------- MODULE MCMutilate -----------------------------
EXTENDS Mutilate

CONSTANTS a1, a2, m

MCAgents == {a1, a2}

T(x, y, z) == [p \in {a1, a2, m} |-> IF p = m THEN x ELSE IF p = a1 THEN y ELSE z]
Plain == [agents |-> <<a1>>, threads |-> T(0, 1, 1), warmup |-> FALSE, loadonly |-> FALSE,
          noload |-> TRUE, blocking |-> TRUE, binary |-> FALSE, sasl |-> FALSE,
          moderate |-> FALSE, update |-> {"SET"}, lambda |-> FALSE]
Mixed == [Plain EXCEPT !.update = {"GET", "SET"}, !.lambda = TRUE, !.noload = FALSE]

MCConfigs ==
  {[Plain EXCEPT !.threads = T(1, 1, 1), !.warmup = TRUE, !.noload = FALSE],
   [Plain EXCEPT !.agents = <<a1, a2>>],
   [Plain EXCEPT !.threads = T(0, 2, 1), !.blocking = FALSE],
   [Mixed EXCEPT !.moderate = TRUE],
   [Mixed EXCEPT !.binary = TRUE, !.sasl = TRUE],
   [Plain EXCEPT !.threads = T(1, 1, 1), !.loadonly = TRUE, !.noload = FALSE]}

\* A master without threads and a warm-up, and an agent without threads.
Threadless ==
  {[Plain EXCEPT !.warmup = TRUE],
   [Plain EXCEPT !.threads = T(1, 0, 1)]}
=============================================================================
