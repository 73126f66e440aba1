--------------------------- MODULE LeaveDecision ---------------------------
(***************************************************************************)
(* What the approval of a leave request promises, whatever the number of   *)
(* approvers looking at it: the first decision stands, nobody decides      *)
(* their own request, and days are charged at most once, after a decision. *)
(* Leave implements it: RADEMICS_ERP_SPEC.md section 25, "Two approvers    *)
(* act simultaneously: first write wins".                                  *)
(***************************************************************************)
CONSTANTS Users, NoOne, Requests, Owner

VARIABLES
  decidedBy,  \* [Requests -> Users \cup {NoOne}]
  charges     \* the charges in the ledger: [row : Nat, request : Requests]

Init ==
  /\ decidedBy = [r \in Requests |-> NoOne]
  /\ charges = {}

\* The first decision, by somebody else than the requester.
Decide(r, a) ==
  /\ decidedBy[r] = NoOne /\ a # Owner[r]
  /\ decidedBy' = [decidedBy EXCEPT ![r] = a]
  /\ UNCHANGED charges

\* The paid days of a decided request reach the ledger, once, and no charge is
\* ever taken back out of it.
Charge(r) ==
  /\ decidedBy[r] # NoOne
  /\ \A c \in charges : c.request # r
  /\ \E c \in charges' : c.request = r /\ charges' = charges \cup {c}
  /\ UNCHANGED decidedBy

Next == \E r \in Requests : Charge(r) \/ \E a \in Users : Decide(r, a)

Spec == Init /\ [][Next]_<<decidedBy, charges>>
=============================================================================
