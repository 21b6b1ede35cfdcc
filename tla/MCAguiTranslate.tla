--------------------------- MODULE MCAguiTranslate ----------------------------
(* A small instance of AguiTranslate for TLC: the bounds are in the cfg. *)
EXTENDS AguiTranslate
===============================================================================
