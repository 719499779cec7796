--------------------------- MODULE MCBootPipeline ---------------------------
(***************************************************************************)
(* Instances of BootPipeline for TLC.                                      *)
(***************************************************************************)
EXTENDS BootPipeline, TLC

CONSTANTS b1,                       \* one ServerBootConfiguration
          ipxe, http,               \* its IPXE and HTTP children
          both, pxeOnly, ukiOnly, broken    \* images, by what they hold

\* The PXE reconciler finds a kernel and an initrd, the HTTP one a UKI.
MCOutcome ==
  [k \in Kinds |-> [i \in Images |->
     CASE i = both    -> "ok"
       [] i = broken  -> "unusable"
       [] i = pxeOnly -> IF k = "IPXE" THEN "ok" ELSE "unusable"
       [] i = ukiOnly -> IF k = "HTTP" THEN "ok" ELSE "noKernel"]]

KindOfPXE == (ipxe :> "IPXE")
KindOfHTTP == (http :> "HTTP")
KindOfBoth == (ipxe :> "IPXE") @@ (http :> "HTTP")

AllOwnedByB1 == [c \in Configs |-> b1]

\* With both reconcilers the graph for the temporal properties is large, and a
\* user changes the image of an SBC only to one that both can use.  The other
\* changes are in the runs with one reconciler; here an SBC starts with any
\* image, or is created with it.
ImagesAreRepaired ==
  \A b \in SBCs :
    LET old == Stored(sbc[b])
        new == Stored(sbc'[b])
    IN  old.exists /\ new.exists /\ new.image # old.image => new.image = both

RepairSpec == Init /\ [][Next /\ ImagesAreRepaired]_vars /\ Fairness
=============================================================================
