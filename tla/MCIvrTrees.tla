----------------------------- MODULE MCIvrTrees -----------------------------
(* Two requests on three names, of the kind "Sales EU", "Sales (EU)", whose  *)
(* pattern matches the former's header and not its own, and "Sales (EU",     *)
(* which is no pattern. A valid tree with a string for a key, one with the   *)
(* same key as a number, one that misses an application, and a handwritten   *)
(* section of the first name.                                                *)
EXTENDS IvrTrees, TLC

CONSTANTS plain, grouped, unclosed, text, number, broken, byHand

MCExts == (text :> {1}) @@ (number :> {1}) @@ (broken :> {1}) @@ (byHand :> {1})

MCChecked == [MCExts EXCEPT ![number] = {}]

MCErases == (plain :> {plain}) @@ (grouped :> {plain}) @@ (unclosed :> None)

MCHandwritten == {[name |-> plain, tree |-> byHand]}

MCSymmetry == Permutations(Requests)
=============================================================================
