------------------------------ MODULE PrintLedger ------------------------------
(***************************************************************************)
(* What the print audit promises, without the crash marker, the two stores *)
(* and the windows that keep the promise: a ledger of the documents on     *)
(* paper, entered in the order of printing, each once, in which at most    *)
(* the last document is missing.                                           *)
(***************************************************************************)
EXTENDS Naturals, Sequences

CONSTANT Job  \* numbers of print jobs, in the order they are prepared

VARIABLES
  paper,  \* jobs the printer has put on paper
  ledger  \* jobs the archive has recorded, oldest first

ledgerVars == <<paper, ledger>>

Entered == {ledger[i] : i \in 1..Len(ledger)}

LedgerInit == paper = {} /\ ledger = <<>>

\* A document is printed only when every earlier one has been entered.
Send ==
  /\ paper = Entered
  /\ \E j \in Job : (\A k \in paper : k < j) /\ paper' = paper \cup {j}
  /\ UNCHANGED ledger

Enter ==
  /\ \E j \in paper \ Entered : ledger' = Append(ledger, j)
  /\ UNCHANGED paper

LedgerNext == Send \/ Enter

LedgerSpec == LedgerInit /\ [][LedgerNext]_ledgerVars

=============================================================================
