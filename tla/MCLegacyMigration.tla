-------------------------- MODULE MCLegacyMigration --------------------------
(* Finite instances of LegacyMigration: the rows, their codes, and which    *)
(* histories hold them.                                                     *)
EXTENDS LegacyMigration

CONSTANTS a, b, z1, z2, p1, p2, g1

MCCodeOf == [r \in Row |-> IF r = g1 THEN b ELSE a]

\* p1 and p2 are prints of the same code; z2 is a later, longer ZIP.
MCContains == [z \in Zip |-> IF z = z1 THEN {p1} ELSE Row]
MCReadable == [z \in Zip |-> IF z = z1 THEN {a} ELSE {a, b}]

\* The native print falls between the two legacy ones.
MCTime == [f \in PrintRow \cup {Native} |->
             CASE f = p1 -> 1 [] f = Native -> 2 [] OTHER -> 3]

=============================================================================
