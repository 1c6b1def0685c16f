----------------------------- MODULE MCFrontEnd -----------------------------
(* An instance of FrontEnd for TLC: a word, phones given by the text (of    *)
(* different lengths), an item that is skipped, and the end of a phrase.    *)
EXTENDS FrontEnd

MCKinds == {[type |-> "WORDGRAPH", len |-> 3], [type |-> "PHONEME", len |-> 1],
            [type |-> "OTHER", len |-> 1],
            [type |-> "FLUSH", len |-> 0]}
=============================================================================
