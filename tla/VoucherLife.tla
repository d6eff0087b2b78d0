------------------------------ MODULE VoucherLife ------------------------------
(***************************************************************************)
(* What the archive promises of one voucher, without the tasks, the lists, *)
(* the dialogs and the crashes that keep the promise: its life on the      *)
(* controller and on paper, the row that follows it, the one request that  *)
(* may be pending, and a book of how it ended that nothing takes back.     *)
(***************************************************************************)
VARIABLES
  place,    \* "unborn", then "there", then "gone": on the controller
  mine,     \* a DELETE of this station took it away
  row,      \* "none", "present", "suspect" or "absent": in the archive
  paper,    \* "blank", "printed", or printed and "seen" in a list since
  request,  \* the outcomes that requests are pending for
  book      \* what the archive has written of its end

life == <<place, mine, row, paper, request, book>>

LifeInit ==
  /\ place = "unborn" /\ mine = FALSE /\ row = "none" /\ paper = "blank"
  /\ request = {} /\ book = {}

InRow == row \in {"present", "suspect"}

Born ==
  /\ place = "unborn" /\ place' = "there"
  /\ UNCHANGED <<mine, row, paper, request, book>>

TakenByOthers ==
  /\ place = "there" /\ place' = "gone"
  /\ UNCHANGED <<mine, row, paper, request, book>>

\* The reason is in the archive first; a list may have closed the request.
TakenByStation ==
  /\ request # {} \/ "not applied" \in book
  /\ place = "there" /\ place' = "gone" /\ mine' = TRUE
  /\ UNCHANGED <<row, paper, request, book>>

PrintRecorded ==
  /\ row # "none" /\ paper' = "printed"
  /\ UNCHANGED <<place, mine, row, request, book>>

\* A list that holds the voucher, a stale one included, closes its request.
Listed ==
  /\ place # "unborn" /\ row' = "present"
  /\ paper' = IF paper = "blank" THEN "blank" ELSE "seen"
  /\ request' = {}
  /\ book' = IF request = {} THEN book ELSE book \cup {"not applied"}
  /\ UNCHANGED <<place, mine>>

\* A list that omits the voucher only raises a suspicion.
Omitted ==
  /\ row = "present" /\ row' = "suspect"
  /\ UNCHANGED <<place, mine, paper, request, book>>

\* A voucher made by mistake has not been printed.
AskDeletion ==
  /\ InRow /\ request = {} /\ paper = "blank" /\ request' = {"deleted"}
  /\ UNCHANGED <<place, mine, row, paper, book>>

\* A printed voucher is revoked once, and was listed after its print.
AskRevocation ==
  /\ InRow /\ request = {} /\ paper = "seen" /\ "revoked" \notin book
  /\ request' = {"revoked"}
  /\ UNCHANGED <<place, mine, row, paper, book>>

\* The row leaves after the voucher, on this station's own DELETE or when a
\* suspicion is confirmed, with the outcome that was asked for, if any.
Ended ==
  /\ place = "gone"
  /\ row = "suspect" \/ (row = "present" /\ mine /\ request # {})
  /\ row' = "absent" /\ request' = {}
  /\ book' = book \cup (IF request = {} THEN {"detected"} ELSE request)
  /\ UNCHANGED <<place, mine, paper>>

LifeNext ==
  \/ Born \/ TakenByOthers \/ TakenByStation \/ PrintRecorded \/ Listed \/ Omitted
  \/ AskDeletion \/ AskRevocation \/ Ended

LifeSpec == LifeInit /\ [][LifeNext]_life

-----------------------------------------------------------------------------

\* What follows for a reader of the archive: a row is absent only of a voucher
\* that is gone; at most one request is pending, on a row that refreshes still
\* examine; a deletion awaits its outcome only while no list has shown the
\* print; an outcome in the book is true; and a removal by this station is
\* never without a request or an entry.
Consistent ==
  /\ row = "absent" => place = "gone"
  /\ request \in {{}, {"deleted"}, {"revoked"}}
  /\ request # {} => InRow
  /\ "revoked" \in request => paper # "blank"
  /\ "deleted" \in request => paper # "seen"
  /\ book # {} /\ book # {"not applied"} => place = "gone"
  /\ mine => place = "gone" /\ (request # {} \/ book # {})

=============================================================================
