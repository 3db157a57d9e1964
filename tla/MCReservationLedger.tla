------------------------- MODULE MCReservationLedger -------------------------
(***************************************************************************)
(* ReservationLedger on a small instance: one ticket type with two units,  *)
(* two seats, three logical operations and room for three reservations.    *)
(***************************************************************************)
EXTENDS ReservationLedger, TLC

CONSTANTS t1, s1, s2, op1, op2, op3, r1, r2, r3

MCTotal == t1 :> 2

Symmetry == Permutations({s1, s2}) \cup Permutations({op1, op2, op3}) \cup Permutations({r1, r2, r3})

================================================================================
