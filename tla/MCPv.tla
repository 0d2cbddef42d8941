-------------------------------- MODULE MCPv --------------------------------
(* One letter is enough: the properties tell apart a free cell, a letter    *)
(* and its upper-case form.  The code never compares two letters.           *)
EXTENDS Pv, TLC

CONSTANTS a, upA

MCLetters == {a}
MCtoupper == a :> upA
=============================================================================
