----------------------------- MODULE MCDataRoot -----------------------------
(* Finite instance of DataRoot: a print of this station and one brought in,*)
(* the key of this station and a foreign one.                              *)
EXTENDS DataRoot

CONSTANTS p1, p2, k1, k2

Plain == [fp |-> None, key |-> None, rows |-> {}, markers |-> {}, facts |-> {}]

\* A backup of another station, and one made before SQLite by this identity.
MCElsewhere ==
  {[Plain EXCEPT !.fp = k2, !.key = k2, !.rows = {<<p2, k2>>}, !.facts = {p2}],
   [Plain EXCEPT !.fp = k1, !.key = k1, !.rows = {<<p2, k1>>}, !.facts = None],
   [Plain EXCEPT !.key = k2, !.rows = {<<p2, k2>>}, !.facts = {p2}]}

MCPackage == {[key |-> k2, rows |-> {<<p2, k2>>}]}

MCPerUser == [Plain EXCEPT !.fp = k2, !.key = k2, !.rows = {<<p2, k2>>}, !.facts = {p2}]
=============================================================================
