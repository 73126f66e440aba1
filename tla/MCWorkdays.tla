----------------------------- MODULE MCWorkdays -----------------------------
(***************************************************************************)
(* Small instances of Workdays: months of two days, of five ticks each,    *)
(* with the shift in the middle three.                                      *)
(***************************************************************************)
EXTENDS WorkdaysProperties

CONSTANTS emp, hr, r1, r2, c1, c2

Idling == [in |-> 2, out |-> 5, idle |-> {<<2, 4>>}]
Late == [in |-> 2, out |-> 4, idle |-> {}]
MCDayShapes == (0 :> {Idling}) @@ (1 :> {Late, NoRow})
MCMaxLocks == (0 :> 1) @@ (1 :> 0)
MCCorrections == {[kind |-> "POWER_CUT", day |-> 0, in |-> 2, out |-> 3],
                  [kind |-> "CORRECTION", day |-> 0, in |-> 1, out |-> Open]}
MCLeaves == {[user |-> emp, from |-> 1, to |-> 2, half |-> FALSE, paid |-> 4, unpaid |-> 0]}
MCMay == (c1 :> {"create", "decide", "export"}) @@ (c2 :> {"create", "decide", "leave", "nightly"})
\* Explored: races of two requests; one request with a lock, a holiday or a leave; or these three
\* without a request.
MCOthers ==
  {x \in {"lock", "holiday", "leave"} :
     CASE x = "lock"    -> \E m \in Months : payroll[m].locks > 0
       [] x = "holiday" -> holidays # {}
       [] x = "leave"   -> \E l \in Leaves : leave[l].status # "PENDING"}
MCFocus ==
  \/ MCOthers = {}
  \/ Cardinality(MCOthers) = 1 /\ \E r \in Requests : request[r] = NoRow
  \/ \A r \in Requests : request[r] = NoRow
MCSymmetry == Permutations(Requests)
=============================================================================
