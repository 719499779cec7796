------------------------------- MODULE MCMove -------------------------------
(***************************************************************************)
(* Instances of Move for TLC.                                              *)
(***************************************************************************)
EXTENDS Move

CONSTANTS http, ipxe    \* an HTTPBootConfig and an IPXEBootConfig

HTTPFirst == <<http, ipxe>>
OnlyIPXE == <<ipxe>>
=============================================================================
