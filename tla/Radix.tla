------------------------------- MODULE Radix --------------------------------
(***************************************************************************)
(* Positional numbers, shared by what the code writes as bytes and what it *)
(* masks to bits.                                                          *)
(***************************************************************************)
EXTENDS Integers

(* The powers of a base up to its width-th.                                *)
Powers(base, width) ==
    LET power[n \in 0..width] == IF n = 0 THEN 1 ELSE base * power[n - 1]
    IN  power
=============================================================================
