------------------------- MODULE MCHaikunetParser -------------------------
(* Two names and programs of up to thirteen tokens, the end of a first     *)
(* line among them: a definition with an array, or one followed by another *)
(* or, on one line, by an intent with an action and a condition.           *)
EXTENDS HaikunetParser
=============================================================================
