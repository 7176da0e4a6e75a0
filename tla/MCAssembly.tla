------------------------------ MODULE MCAssembly ------------------------------
(* A message of ours in two parts; another member's, cut in two ways, beside  *)
(* the beginning of a second one; and a part of somebody nobody authorised.   *)
EXTENDS Assembly

Part(from, mid, seq, total, exp) ==
  [from |-> from, mid |-> mid, seq |-> seq, total |-> total, exp |-> exp, size |-> 1]

Ours == {Part("us", "m", 1, 2, 0), Part("us", "m", 2, 2, 0)}
Theirs == {Part("x", "m", 1, 2, 1), Part("x", "m", 2, 2, 1), Part("x", "m", 3, 3, 0),
           Part("x", "n", 1, 2, 0), Part("x", "k", 1, 1, 1), Part("z", "m", 1, 2, 0)}

\* A message sent, and sent again with a later deadline.
Retried == {Part("x", "m", 1, 2, 1), Part("x", "m", 2, 2, 1),
            Part("x", "m", 1, 2, 2), Part("x", "m", 2, 2, 2)}
None == {}
=============================================================================
