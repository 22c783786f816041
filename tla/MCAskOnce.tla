----------------------------- MODULE MCAskOnce -----------------------------
(* Small instances of AskOnce for TLC: the plans are those of MCAskService. *)
EXTENDS AskOnce, MCAskService
=============================================================================
