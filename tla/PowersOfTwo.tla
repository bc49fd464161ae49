----------------------------- MODULE PowersOfTwo -----------------------------
(***************************************************************************)
(* The masks and limits of words of w bits.  The powers of two are a table *)
(* that is filled by doubling: unlike the operator ^ of Naturals it can be *)
(* reasoned about.                                                         *)
(***************************************************************************)
EXTENDS Naturals

\* The function n |-> 2^n on 0 .. w
PowersUpTo(w) ==
    LET power[n \in 0 .. w] == IF n = 0 THEN 1 ELSE 2 * power[n - 1] IN power
=============================================================================
