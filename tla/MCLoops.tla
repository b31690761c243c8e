------------------------------- MODULE MCLoops -------------------------------
(* Small instances of LuaLoopTiers for TLC.                                  *)
EXTENDS LuaLoopTiers

I(n) == [kind |-> "int", half |-> 2 * n]
F(h) == [kind |-> "float", half |-> h]
NaN == [kind |-> "nan", half |-> 0]
Other == [kind |-> "other", half |-> 0]
For(i, l, s) == [index |-> i, limit |-> l, step |-> s]

Straight2 == [next |-> <<{2}, {3}>>, guards |-> {2}, exits |-> {2}, add |-> 1]
Choice == [next |-> <<{2, 4}, {3}, {5}, {5}>>, guards |-> {1, 3}, exits |-> {}, add |-> 4]
Even == [next |-> <<{2, 3}, {4}, {4}>>, guards |-> {2}, exits |-> {}, add |-> 3]

MCBodies == {Straight2, Choice, Even}

\* Width 3: integers from -4 to 3, whose doubles go from -8 to 6.
MCInf == 16
MCInputs ==
  {For(I(1), I(3), I(1)), For(I(3), I(-4), I(-3)), For(I(2), F(15), I(1)), For(I(0), F(5), I(1)),
   For(I(1), F(-5), I(-1)), For(I(1), NaN, I(1)), For(I(1), F(-MCInf), I(1)),
   For(F(1), I(3), F(2)), For(I(0), F(MCInf), F(1)), For(F(-3), F(MCInf - 1), F(MCInf)),
   For(I(2), I(1), I(1)), For(I(1), I(3), I(0)), For(I(1), Other, I(1))}

=============================================================================
