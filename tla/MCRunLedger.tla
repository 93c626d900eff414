---------------------------- MODULE MCRunLedger ----------------------------
(* RunLedger for TLC: two tasks, small amounts. *)
EXTENDS RunLedger, TLC

Cost(tokens, cny) == [d \in Elastic |-> IF d = "tokens" THEN tokens ELSE cny]

Caps(root, task) == [l \in Ledger |-> IF l = Root THEN root ELSE task]

\* Tokens, seconds and calls; a request is estimated at 2 tokens and may turn
\* out to use 1 or 3.
BasicDim == {"tokens", "seconds", "calls"}
BasicEstimate == {Cost(2, 0)}
BasicReceipt == {Cost(1, 0), Cost(3, 0)}
BasicLimit == Caps([tokens |-> 5, seconds |-> 2, calls |-> 3],
                   [tokens |-> 4, seconds |-> 2, calls |-> 2])

\* The same with a money limit: 2 fen reserved, 1 or 3 charged.
MoneyDim == BasicDim \cup {"money_cny"}
MoneyEstimate == {Cost(2, 2)}
MoneyReceipt == {Cost(1, 1), Cost(3, 3)}
MoneyLimit == Caps([tokens |-> 7, seconds |-> 2, calls |-> 3, money_cny |-> 4],
                   [tokens |-> 6, seconds |-> 2, calls |-> 2, money_cny |-> 4])

\* One second for the whole run, so that a task waits for the other's hold, and
\* one call per task, so that the bound on the requests never stops a task.
LiveLimit == Caps([tokens |-> 7, seconds |-> 1, calls |-> 2, money_cny |-> 2],
                  [tokens |-> 6, seconds |-> 1, calls |-> 1, money_cny |-> 4])

Symmetry == Permutations(Task)
=============================================================================
