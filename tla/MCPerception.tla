------------------------------ MODULE MCPerception ------------------------------
\* Values for TLC: points on both sides of each edge of the field of view, of a
\* sector and of each threshold; and a field of view without width.
EXTENDS Perception

P(b, r, q) == [bearing |-> b, range |-> r, quality |-> q]

MCScenes ==
    {[min |-> -45, max |-> 45, points |->
        {P(0, 500, 15), P(9, 2000, 15), P(20, 500, 15), P(45, 500, 15), P(315, 500, 15),
         P(46, 500, 15), P(333, 2001, 15), P(0, 500, 14), P(0, 0, 15)}],
     [min |-> 0, max |-> 0, points |-> {P(0, 500, 15), P(1, 500, 15), P(0, 500, 14)}]}
================================================================================
