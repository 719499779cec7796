-------------------------- MODULE BootConfigStatus --------------------------
(***************************************************************************)
(* What the two leaf reconcilers promise about the objects on the API      *)
(* server, whatever they do to keep it: users own the spec, the reconciler *)
(* owns status.state.  It writes nothing else, it writes Ready or Error,   *)
(* it never brings back an object that is gone, and once users leave an    *)
(* object alone its state becomes right and stays so.                      *)
(*                                                                         *)
(* A verdict may be late and wrong by the time it is written: Kubernetes   *)
(* promises no more.                                                       *)
(***************************************************************************)
CONSTANTS Configs, Secrets, NoRef, Payloads

VARIABLES object,   \* the boot configs
          content   \* the ignition secrets

vars == <<object, content>>

Refs == Secrets \cup {NoRef}
Contents == {"absent", "noKey", "ignition"}
Verdicts == {"Ready", "Error"}

Objects == [exists: BOOLEAN, deleting: BOOLEAN, ref: Refs, payload: Payloads,
            state: Verdicts \cup {""}]

\* The state an object deserves.
Deserved(c) ==
  IF object[c].ref = NoRef \/ content[object[c].ref] = "ignition" THEN "Ready" ELSE "Error"

Init == object \in [Configs -> Objects] /\ content \in [Secrets -> Contents]

\* A user creates, edits or deletes an object, and leaves the state of one that
\* exists before and after as it is.
EditSpec(c) ==
  \E v \in Objects :
    /\ v.state = IF object[c].exists /\ v.exists THEN object[c].state ELSE ""
    /\ object' = [object EXCEPT ![c] = v]
    /\ UNCHANGED content

EditSecret(s) ==
  \E v \in Contents : content' = [content EXCEPT ![s] = v] /\ UNCHANGED object

\* The reconciler reports.
Report(c) ==
  /\ object[c].exists
  /\ \E v \in Verdicts : object' = [object EXCEPT ![c].state = v]
  /\ UNCHANGED content

Next ==
  \/ \E c \in Configs : EditSpec(c) \/ Report(c)
  \/ \E s \in Secrets : EditSecret(s)

Spec == Init /\ [][Next]_vars

Promise ==
  \A c \in Configs :
    <>[](object[c].exists /\ ~object[c].deleting => object[c].state = Deserved(c))
=============================================================================
