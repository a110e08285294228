-------------------------- MODULE ConnectionBoard --------------------------
(***************************************************************************)
(* What the status reported by the service promises about tunnels, however *)
(* requests and tunnel events interleave: a tunnel is shown as connected   *)
(* only after it announced itself and before its withdrawal is processed,  *)
(* and a withdrawn tunnel is never shown again.                            *)
(***************************************************************************)

CONSTANTS Tunnels, \* the tunnels that may ever be created
          Nobody   \* shown when no tunnel is connected

VARIABLES shown,   \* the tunnel the status reports as connected, or Nobody
          stage    \* per tunnel: "new", "announced" or "withdrawn"

vars == <<shown, stage>>

TypeOK ==
    /\ shown \in Tunnels \cup {Nobody}
    /\ stage \in [Tunnels -> {"new", "announced", "withdrawn"}]

Init ==
    /\ shown = Nobody
    /\ stage = [t \in Tunnels |-> "new"]

\* A tunnel reports that it is up, and the board shows it instead of anything else.
Announce(t) ==
    /\ stage[t] = "new"
    /\ stage' = [stage EXCEPT ![t] = "announced"]
    /\ shown' = t

\* A tunnel reports that it is down: whatever the board showed is cleared.
Withdraw(t) ==
    /\ stage[t] = "announced"
    /\ stage' = [stage EXCEPT ![t] = "withdrawn"]
    /\ shown' = Nobody

\* The board is cleared for another reason: a request, an error, a new connection.
Clear ==
    /\ shown' = Nobody
    /\ UNCHANGED stage

Next ==
    \/ \E t \in Tunnels : Announce(t) \/ Withdraw(t)
    \/ Clear

Spec == Init /\ [][Next]_vars
=============================================================================
