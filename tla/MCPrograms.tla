----------------------------- MODULE MCPrograms -----------------------------
(* Programs of four iterators over list 1: two sources, one built over them, *)
(* and one over that and a source again.  Some are held, the others          *)
(* temporary.                                                                *)
EXTENDS Integers, Sequences

Node(kind, on, a, b, c) == [kind |-> kind, on |-> on, named |-> TRUE, a |-> a, b |-> b, c |-> c]
Sources == {Node("list", <<>>, 1, 0, 0), Node("reversed", <<>>, 1, 0, 0),
            Node("range", <<>>, 3, 0, -2), Node("generator", <<>>, 2, 0, 0)}
Firsts == {Node("enumerate", <<1>>, 0, 0, 0), Node("zip", <<1, 2>>, 0, 0, 0),
           Node("zip", <<1, 1, 2>>, 0, 0, 0), Node("chain", <<1, 2>>, 0, 0, 0),
           Node("islice", <<1>>, 1, 3, 1), Node("islice", <<1>>, 0, 2, 2)}
Seconds == {Node("enumerate", <<3>>, 0, 0, 0), Node("zip", <<3, 2>>, 0, 0, 0),
            Node("chain", <<2, 3, 1>>, 0, 0, 0), Node("islice", <<3>>, 1, 4, 2)}
Iterations ==
  {[i \in 1..4 |-> [<<a, b, c, d>>[i] EXCEPT !.named = i \in named]] :
     a \in Sources, b \in Sources, c \in Firsts, d \in Seconds, named \in {{2, 4}, {1, 3, 4}}}
=============================================================================
