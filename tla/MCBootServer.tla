---------------------------- MODULE MCBootServer ----------------------------
(***************************************************************************)
(* Instances of BootServer for TLC.                                        *)
(***************************************************************************)
EXTENDS BootServer, TLC

CONSTANTS
  workload, maintenance, orphan,          \* configs of SBCs of the machine
  lowerIPXE, upperIPXE, lowerHTTP, mixedHTTP,  \* configs by spelling and kind
  single,                                 \* the only config of the machine
  workloadSBC, maintenanceSBC, otherSBC,  \* ServerBootConfigurations
  machine,                                \* its Server
  ignition, script,                       \* secrets
  a1, a2,                                 \* addresses
  r1, r2                                  \* requests

IPXE(uuid, owner, secret, custom) ==
  [kind |-> "IPXE", uuid |-> uuid, addresses |-> {}, owner |-> owner,
   ignition |-> secret, script |-> custom]
HTTP(uuid, addresses) ==
  [kind |-> "HTTP", uuid |-> uuid, addresses |-> addresses, owner |-> NoRef,
   ignition |-> ignition, script |-> NoRef]

AllConfigs ==
  (workload :> IPXE("lower", workloadSBC, NoRef, NoRef)) @@
  (maintenance :> IPXE("lower", maintenanceSBC, NoRef, NoRef)) @@
  (orphan :> IPXE("lower", otherSBC, NoRef, NoRef)) @@
  (lowerIPXE :> IPXE("lower", NoRef, ignition, script)) @@
  (upperIPXE :> IPXE("upper", NoRef, NoRef, NoRef)) @@
  (lowerHTTP :> HTTP("lower", {a1})) @@
  (mixedHTTP :> HTTP("mixed", {a1, a2})) @@
  (single :> IPXE("lower", NoRef, ignition, NoRef))
ObjectOf == [c \in Configs |-> AllConfigs[c]]

OneMachine ==
  (workloadSBC :> machine) @@ (maintenanceSBC :> machine) @@ (otherSBC :> machine)
NoServer == <<>>

(***************************************************************************)
(* Three scenarios of one run.                                             *)
(*   select      an iPXE script is asked for; there may be the children of *)
(*               two ServerBootConfigurations of the machine and a config  *)
(*               that an earlier one left behind; one thing changes        *)
(*   spelling    every endpoint is called; there are configs of either     *)
(*               kind and different spellings of the UUID, two of them     *)
(*               change; no Server exists and the secrets stay             *)
(*   conditions  two requests for script or ignition of a single config    *)
(*               record what they deliver; two things change               *)
(***************************************************************************)
VARIABLE scenario

Scenarios ==
  [select     |-> [configs |-> {workload, maintenance, orphan}, requests |-> {r1},
                   paths |-> {"ipxe"}, changes |-> 1],
   spelling   |-> [configs |-> {lowerIPXE, upperIPXE, lowerHTTP, mixedHTTP},
                   requests |-> {r1}, paths |-> Paths, changes |-> 2],
   conditions |-> [configs |-> {single}, requests |-> {r1, r2},
                   paths |-> {"ipxe", "ignition"}, changes |-> 2]]

MCInit ==
  /\ scenario \in DOMAIN Scenarios
  /\ secrets \in IF scenario = "conditions"
                 THEN {[s \in Secrets |-> IF s = ignition THEN v ELSE "data"] : v \in SecretVal}
                 ELSE {[s \in Secrets |-> "data"]}
  /\ sbcs \in IF scenario = "select" THEN SUBSET SBCs ELSE {{}}
  /\ servers \in [Servers -> IF scenario = "select" THEN ServerVal \cup {Gone} ELSE {Gone}]
  /\ Init
  /\ \A c \in Configs \ Scenarios[scenario].configs : ~Exists(c)

MCNext ==
  LET s == Scenarios[scenario]
      more == changes < s.changes
  IN /\ UNCHANGED scenario
     /\ \/ \E r \in s.requests : Handle(r) \/ \E path \in s.paths : Arrive(r, path)
        \/ more /\ \E c \in s.configs \cap Configs : ChangeConfig(c)
        \/ \E c \in s.configs \cap Configs : Deliver(c)
        \/ StartCaches
        \/ /\ more /\ ChangeOther
           /\ \/ scenario = "select" /\ UNCHANGED secrets
              \/ /\ scenario = "conditions" /\ UNCHANGED <<sbcs, servers>>
                 /\ secrets'[script] = secrets[script]

MCSpec == MCInit /\ [][MCNext]_<<vars, scenario>>
=============================================================================
