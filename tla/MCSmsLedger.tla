---------------------------- MODULE MCSmsLedger -----------------------------
(* Three attempts of two segments and one of three, and an allowance of    *)
(* seven: not all of them fit, and two settlements can each be on one side *)
(* of a threshold.                                                         *)
EXTENDS SmsLedger, TLC

CONSTANTS Short1, Short2, Short3, Long1

MCLedgerSegments ==
  (Short1 :> 2) @@ (Short2 :> 2) @@ (Short3 :> 2) @@ (Long1 :> 3)

=============================================================================
