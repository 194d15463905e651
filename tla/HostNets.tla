------------------------------ MODULE HostNets ------------------------------
(***************************************************************************)
(* What the clone-network pools of a host promise together, however many   *)
(* state directories the operators use: a host index has one owner at a    *)
(* time, devices exist at it only while it is owned, and it changes hands  *)
(* only after every device of the last owner is gone.                      *)
(***************************************************************************)
CONSTANTS Indices, Rooms, NoRoom

VARIABLES
    owner,   \* the room each host index belongs to
    builder  \* the rooms whose devices stand at each host index

Init ==
    /\ owner = [i \in Indices |-> NoRoom]
    /\ builder = [i \in Indices |-> {}]

Reserve(i, r) ==
    /\ owner[i] = NoRoom /\ builder[i] = {}
    /\ owner' = [owner EXCEPT ![i] = r]
    /\ UNCHANGED builder

Build(i) ==
    /\ owner[i] # NoRoom
    /\ builder' = [builder EXCEPT ![i] = {owner[i]}]
    /\ UNCHANGED owner

Clear(i) ==
    /\ builder' = [builder EXCEPT ![i] = {}]
    /\ UNCHANGED owner

Release(i) ==
    /\ builder[i] = {}
    /\ owner' = [owner EXCEPT ![i] = NoRoom]
    /\ UNCHANGED builder

(* The host reboots: devices and owner markers live in memory.             *)
Reboot ==
    /\ owner' = [i \in Indices |-> NoRoom]
    /\ builder' = [i \in Indices |-> {}]

Next ==
    \/ \E i \in Indices :
         (\E r \in Rooms : Reserve(i, r)) \/ Build(i) \/ Clear(i) \/ Release(i)
    \/ Reboot

Spec == Init /\ [][Next]_<<owner, builder>>
=============================================================================
