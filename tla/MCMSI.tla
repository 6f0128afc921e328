------------------------------- MODULE MCMSI -------------------------------
(* Instances of MSI for TLC.                                               *)
EXTENDS MSI

AB == {"a", "b"}
OneText == {<<"a">>}
TwoTexts == {<<"a">>, <<"b">>}
NoPages == {}
Zeros == {Zeroed}
=============================================================================
