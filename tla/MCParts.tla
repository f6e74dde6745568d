------------------------------ MODULE MCParts ------------------------------
(***************************************************************************)
(* The instance of Parts that TLC checks.                                  *)
(***************************************************************************)
EXTENDS Parts

\* Two boundaries, scaled: 20 % around them are 8 to 12 and 16 to 24.
TwoBoundaries == <<10, 20>>

=============================================================================
