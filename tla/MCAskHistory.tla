--------------------------- MODULE MCAskHistory ----------------------------
(* Small instances of AskHistory for TLC: the plans are those of           *)
(* MCAskService.                                                           *)
EXTENDS AskHistory, MCAskService
=============================================================================
