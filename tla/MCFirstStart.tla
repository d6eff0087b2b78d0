----------------------------- MODULE MCFirstStart ----------------------------
(* Finite instance of FirstStart: one user with data of 4.x, without a       *)
(* database, one with the archive of an earlier 5.x, one with nothing;       *)
(* backups of a finished installation, of an unfinished wizard and of a      *)
(* later version of the program.                                             *)
EXTENDS FirstStart

CONSTANTS u1, u2, u3

Filled(v) == [Empty EXCEPT !.version = v, !.shape = [x \in Table |-> v],
                           !.row = v > 0]

MCPerUser ==
  [[u \in User |-> None] EXCEPT
     ![u1] = [Empty EXCEPT !.files = TRUE],
     ![u2] = [Filled(1) EXCEPT !.facts = TRUE, !.profile = TRUE]]

MCBackups == {[Filled(Schema) EXCEPT !.facts = TRUE, !.profile = TRUE],
              [Filled(2) EXCEPT !.files = TRUE, !.marker = TRUE],
              [Filled(Schema + 1) EXCEPT !.facts = TRUE]}

=============================================================================
