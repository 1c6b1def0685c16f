-------------------------- MODULE MCResourceManager --------------------------
(***************************************************************************)
(* A small system: the default resource and two others, one of them with a  *)
(* name the too long name is cut to, two voices and one definition at a     *)
(* time, knowledge bases that two resources share.                          *)
(***************************************************************************)
EXTENDS ResourceManager, TLC

CONSTANTS h1, h2, h3, ta, sg, def, long

MCNames == {def, ta, sg}
MCTruncated == [n \in {long} |-> ta]
MCKbsOf == [n \in MCNames |-> CASE n = def -> {"ids"}
                                [] n = ta -> {"lex", "pdf"}
                                [] n = sg -> {"pdf"}]
Symmetric == Permutations({h1, h2, h3})
=============================================================================
