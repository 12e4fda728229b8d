--------------------------- MODULE MCAddressCache ---------------------------
(***************************************************************************)
(* Two entries for three devices and the device itself.                    *)
(***************************************************************************)
EXTENDS AddressCache

OneOrForever == {1, FOREVER}
OneTwoSeconds == {1, 2}
=============================================================================
