----------------------------- MODULE MCLaunchpad -----------------------------
(* Apps a and b; titles and keys sort them differently.                     *)
EXTENDS Launchpad

CONSTANTS a, b

TitleOrder == <<b, a>>
KeyOrder == <<a, b>>
=============================================================================
