--------------------------- MODULE MCSessionIndex ---------------------------
(* A small instance of SessionIndex: two harnesses, the first with two sessions *)
(* that meet at one instant and a turn without text. *)
EXTENDS SessionIndex

CONSTANTS h1, h2

Order == <<h1, h2>>
Turn(h, s, t, u) == [harness |-> h, session |-> s, time |-> t, usable |-> u]
SmallLog ==
    {Turn(h1, 1, 2, TRUE), Turn(h1, 1, 3, FALSE), Turn(h1, 2, 2, TRUE),
     Turn(h1, 2, 1, TRUE), Turn(h2, 3, 1, TRUE)}

=============================================================================
