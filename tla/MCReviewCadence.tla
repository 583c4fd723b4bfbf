-------------------------- MODULE MCReviewCadence ---------------------------
(* Two requests for one customer, from one location, where they compete   *)
(* for its hour too, or from two.                                          *)
EXTENDS ReviewCadence, TLC

CONSTANTS Home, Branch, Ann, First, Second

(* Two messages for each, or one. *)
OneLocation == [r \in Requests |-> Home]
OneFollowUp == [r \in Requests |-> 2]
SameCustomer == [r \in Requests |-> Ann]
TwoLocations == (First :> Home) @@ (Second :> Branch)
NoFollowUp == [r \in Requests |-> 1]

=============================================================================
