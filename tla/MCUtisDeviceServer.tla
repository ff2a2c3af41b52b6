------------------------- MODULE MCUtisDeviceServer -------------------------
(* Configurations of UtisDeviceServer for TLC.                             *)
EXTENDS UtisDeviceServer

\* Two compatible devices; two that exclude each other.
DistinctNames == {<<"MWS600", "VD920G">>, <<"RD3000B", "RD3000C">>}

\* The same, and a device listed twice, a missing entry, no device at all.
AnyNames == DistinctNames \cup {<<"MWS600", "MWS600">>, <<"-1", "VD920G">>, <<>>}
=============================================================================
