----------------------------- MODULE MCBackEnd -----------------------------
(* An instance of BackEnd for TLC: texts of a few items, chosen so that     *)
(* windows and stores run over, voicing changes in and between phones, and  *)
(* each command is given at least once.                                     *)
EXTENDS BackEnd
LOCAL INSTANCE Functions

Kind(type) == [type |-> type, len |-> 1]
Phone(frames, isVoiced) == [type |-> "PHONE", len |-> 1, frames |-> frames, voiced |-> isVoiced]
SEND == Kind("SEND")
V == Phone(<<1, 1>>, TRUE)
U == Phone(<<1>>, FALSE)
V1 == Phone(<<1>>, TRUE)
BOUND == Kind("BOUND")

Numbered(kinds) == [i \in DOMAIN kinds |->
    [n |-> i, type |-> kinds[i].type, len |-> kinds[i].len,
     frames |-> IF kinds[i].type = "PHONE" THEN kinds[i].frames ELSE <<>>,
     voiced |-> kinds[i].type = "PHONE" /\ kinds[i].voiced]]

MCTexts == {Numbered(kinds) : kinds \in {
    <<BOUND, V, BOUND, U, SEND, U>>,
    <<V, U, V, SEND>>,
    <<V1, U, V1, SEND, U, U, U, SEND>>,
    <<V, BOUND, Kind("MODIFIER"), BOUND, SEND>>,
    <<Kind("SAVE"), V, SEND, Kind("UNSAVE")>>,
    <<Kind("PLAY"), Kind("IGNSIG_START"), V, Kind("IGNSIG_END"), U, Kind("TERM")>>,
    <<U, SEND, Kind("SAVE"), Kind("PLAY"), V, SEND>>}}
MCNextTexts == {Numbered(<<U, V, SEND>>)}
MCItems == UNION {Range(t) : t \in MCTexts \union MCNextTexts}
=============================================================================
