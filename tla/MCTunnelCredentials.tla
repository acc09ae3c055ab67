------------------------ MODULE MCTunnelCredentials -------------------------
(* Instances of TunnelCredentials for TLC. *)
EXTENDS TunnelCredentials, TLC

SessionSymmetry == Permutations(Session)

(* What a tunnel held when it was closed can only be forgotten: no handler *)
(* looks at it again.                                                      *)
Kept == {s \in Session : pc[s] # "done" /\ s \notin closed}

(* What can be told of a cookie: once no jar holds it, that it was drawn.  *)
Told(k) ==
  IF cookie[k] # NoCookie /\ \A s \in Kept : k \notin jar[s]
  THEN "gone" ELSE cookie[k]

(* The variables as far as any step or property can tell them apart. *)
CredView ==
  <<vars, now, [s \in Kept |-> <<cred[s], jar[s]>>],
    [k \in Secret |-> Told(k)], updaterVars, requestVars>>
=============================================================================
