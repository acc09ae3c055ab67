--------------------------- MODULE TunnelPresence ---------------------------
(***************************************************************************)
(* What the Manager promises to those who look tunnels up by key: a key    *)
(* leads to one tunnel or to none; a tunnel that was displaced or          *)
(* withdrawn is never led to again; a tunnel leaves its key without a      *)
(* successor only when it is dead.                                         *)
(*                                                                         *)
(* This is the abstract specification that TunnelSessions implements.      *)
(***************************************************************************)
CONSTANTS Session, Key, NoSession

VARIABLES
  current,  \* Key -> the tunnel a lookup leads to
  spent,    \* the tunnels that can not be presented (any more)
  dead      \* the tunnels whose connection is closed

vars == <<current, spent, dead>>

Init ==
  /\ current = [k \in Key |-> NoSession]
  /\ spent = {}
  /\ dead = {}

(* A new tunnel takes the key over, whoever had it. *)
Present(s, k) ==
  /\ s \notin spent
  /\ current' = [current EXCEPT ![k] = s]
  /\ spent' = spent \cup {s}
  /\ UNCHANGED dead

(* A dead tunnel is taken off its key. *)
Withdraw(k) ==
  /\ current[k] \in dead
  /\ current' = [current EXCEPT ![k] = NoSession]
  /\ UNCHANGED <<spent, dead>>

Die(S) ==
  /\ dead' = dead \cup S
  /\ UNCHANGED <<current, spent>>

(* A tunnel fails before it was ever presented. *)
GiveUp(s) ==
  /\ spent' = spent \cup {s}
  /\ UNCHANGED <<current, dead>>

(* Everything goes at once. *)
Restart(S) ==
  /\ \A k \in Key : current[k] # NoSession => current[k] \in dead \cup S
  /\ current' = [k \in Key |-> NoSession]
  /\ dead' = dead \cup S
  /\ spent \subseteq spent' /\ spent' \subseteq Session

Next ==
  \/ \E s \in Session, k \in Key : Present(s, k)
  \/ \E k \in Key : Withdraw(k)
  \/ \E S \in SUBSET Session : Die(S)
  \/ \E s \in Session : GiveUp(s)
  \/ \E S \in SUBSET Session : Restart(S)

Spec == Init /\ [][Next]_vars
=============================================================================
