----------------------- MODULE MCBootConfigController -----------------------
(***************************************************************************)
(* An instance of BootConfigController for TLC: a config of either kind,   *)
(* of which one exists at a time, and the secret it refers to.  The two    *)
(* controllers share nothing but the secret, so that configs that exist    *)
(* together would only multiply the states: `only` says which it is.       *)
(***************************************************************************)
EXTENDS BootConfigController, TLC

CONSTANTS h1,   \* an HTTPBootConfig
          i1    \* an IPXEBootConfig

KindOfBoth == (h1 :> "HTTP") @@ (i1 :> "IPXE")

VARIABLE only    \* the config that may exist

MCInit ==
  /\ Init
  /\ only \in Configs
  /\ \A c \in Configs \ {only} : ~Stored(cfg[c]).exists

\* Two edits, or one and a fault.
MCNext ==
  /\ Next
  /\ UNCHANGED only
  /\ edits' + faults' <= 2
  /\ \A c \in Configs \ {only} : cfg'[c] = cfg[c]

MCSpec == MCInit /\ [][MCNext]_<<vars, only>> /\ Fairness
=============================================================================
