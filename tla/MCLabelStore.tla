----------------------------- MODULE MCLabelStore -----------------------------
(* Small instances of LabelStore for TLC. *)
EXTENDS LabelStore

CONSTANTS a, b, c, d

MCInitial == <<a>>

===============================================================================
