----------------------------- MODULE VolumeKeys -----------------------------
(***************************************************************************)
(* What the encryption of volumes promises to an instance of the database: *)
(* its key is generated once, its volume is formatted with that key, and   *)
(* as long as the key has not been given up, nobody changes or deletes it, *)
(* whether the volume is formatted already or not.                         *)
(***************************************************************************)
CONSTANTS Instances, Keys, NoKey

VARIABLES
  key,     \* the key in the secret of each instance
  volume,  \* the key with which its volume is formatted
  lost     \* the instances whose key has been given up

kvars == <<key, volume, lost>>

Init ==
  /\ key = [i \in Instances |-> NoKey] /\ volume = key
  /\ lost = {}

Generate(i) ==
  /\ key[i] = NoKey /\ i \notin lost
  /\ \E k \in Keys : key' = [key EXCEPT ![i] = k]
  /\ UNCHANGED <<volume, lost>>

Format(i) ==
  /\ volume[i] = NoKey /\ key[i] # NoKey
  /\ volume' = [volume EXCEPT ![i] = key[i]]
  /\ UNCHANGED <<key, lost>>

(* Some keys are given up, and any of those given up may be deleted. *)
GiveUp ==
  /\ lost \subseteq lost' /\ lost' \subseteq Instances
  /\ \E deleted \in SUBSET lost' :
       key' = [i \in Instances |-> IF i \in deleted THEN NoKey ELSE key[i]]
  /\ UNCHANGED volume

(* A key that has been given up may be replaced by another one. *)
Replace(i) ==
  /\ i \in lost
  /\ \E k \in Keys : key' = [key EXCEPT ![i] = k]
  /\ UNCHANGED <<volume, lost>>

Next ==
  \/ \E i \in Instances : Generate(i) \/ Format(i) \/ Replace(i)
  \/ GiveUp

Spec == Init /\ [][Next]_kvars
=============================================================================
