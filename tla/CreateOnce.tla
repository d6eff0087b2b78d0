------------------------------ MODULE CreateOnce ------------------------------
(***************************************************************************)
(* What the station promises of the creations it sends, without the files, *)
(* lists, tasks and crashes that keep the promise: a creation is not sent  *)
(* while the outcome of the last one is pending, and what a request made   *)
(* ends up among the station's own vouchers unless the operator answered   *)
(* for it.                                                                 *)
(***************************************************************************)
EXTENDS Naturals

CONSTANT Voucher

VARIABLES
  sent,     \* creations sent, numbered in their order
  pending,  \* those without a known outcome
  wire,     \* those the controller may still execute
  there,    \* vouchers on the controller
  maker,    \* the creation that made a voucher, 0 for another station
  given,    \* vouchers named by a 201 reply
  claimed,  \* vouchers the operator took for the station's own
  decided,  \* creations the operator has answered for
  own       \* vouchers counted as the station's own, or named to be

book == <<sent, pending, wire, there, maker, given, claimed, decided, own>>

OnceInit ==
  /\ sent = 0 /\ pending = {} /\ wire = {}
  /\ there = {} /\ maker = [v \in Voucher |-> 0]
  /\ given = {} /\ claimed = {} /\ decided = {} /\ own = {}

Made(S, p) ==
  /\ S \subseteq Voucher \ there /\ there' = there \cup S
  /\ maker' = [v \in Voucher |-> IF v \in S THEN p ELSE maker[v]]

GivenBy(p) == {v \in given : maker[v] = p}

\* Another station makes vouchers.
Foreign ==
  /\ \E S \in SUBSET (Voucher \ there) : there' = there \cup S
  /\ UNCHANGED <<sent, pending, wire, maker, given, claimed, decided, own>>

\* Nothing is sent while an outcome is pending.
Send == pending = {} /\ sent' = sent + 1

Confirmed ==
  /\ Send /\ pending' = {sent'}
  /\ \E S \in SUBSET Voucher : Made(S, sent') /\ given' = given \cup S
  /\ UNCHANGED <<wire, claimed, decided, own>>

Refused ==
  /\ Send
  /\ UNCHANGED <<pending, wire, there, maker, given, claimed, decided, own>>

Unanswered ==
  /\ Send /\ pending' = {sent'}
  /\ \/ \E S \in SUBSET Voucher : Made(S, sent') /\ UNCHANGED wire
     \/ wire' \in {wire, wire \cup {sent'}} /\ UNCHANGED <<there, maker>>
  /\ UNCHANGED <<given, claimed, decided, own>>

\* A creation without an answer is executed in the end.
Executed ==
  /\ \E p \in wire, S \in SUBSET Voucher : Made(S, p) /\ wire' = wire \ {p}
  /\ UNCHANGED <<sent, pending, given, claimed, decided, own>>

\* Only an answer of the controller is recorded, with all it named.
Recorded ==
  /\ \E p \in pending : /\ GivenBy(p) # {}
                        /\ own' = own \cup GivenBy(p) /\ pending' = {}
  /\ UNCHANGED <<sent, wire, there, maker, given, claimed, decided>>

\* The operator answers for the last creation, or for one that was prepared
\* and never sent, and takes vouchers of the controller for its own or none.
Answered ==
  /\ decided' \in {decided, decided \cup ({sent} \ {0})}
  /\ pending \subseteq decided' /\ pending' = {}
  /\ \E S \in SUBSET there : claimed' = claimed \cup S /\ own' = own \cup S
  /\ UNCHANGED <<sent, wire, there, maker, given>>

OnceNext ==
  \/ Foreign \/ Confirmed \/ Refused \/ Unanswered \/ Executed
  \/ Recorded \/ Answered

OnceSpec == OnceInit /\ [][OnceNext]_book

-----------------------------------------------------------------------------

\* What follows for a reader of the archive: only the last creation may be
\* pending; no voucher the station caused to exist is forgotten, whether its
\* reply came or not; and no voucher is counted as own without a reason.
Accounted ==
  /\ pending \subseteq {sent} /\ given \cup claimed \subseteq there
  /\ \A v \in there :
       maker[v] # 0 => v \in own \/ maker[v] \in pending \cup decided
  /\ own \subseteq given \cup claimed

=============================================================================
