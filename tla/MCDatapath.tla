----------------------------- MODULE MCDatapath -----------------------------
(***************************************************************************)
(* All pairs of words of four bits, the least power of two that has both   *)
(* halves of a shift amount and room for a product; every encoding with up *)
(* to two operand bits.                                                    *)
(***************************************************************************)
EXTENDS DatapathLaws

=============================================================================
