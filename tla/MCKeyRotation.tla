--------------------------- MODULE MCKeyRotation ---------------------------
(* Finite instances of KeyRotation: the joiners are interchangeable. *)
EXTENDS KeyRotation, TLC

Sym == Permutations(Client \ {Creator})

\* Either somebody stays outside, or one has entered and the two others race for
\* the last place, before anybody leaves.
LastPlace ==
  \/ \E d \in Client : phase[d] = "out"
  \/ /\ requests = 0
     /\ \A d \in Client : phase[d] # "gone"
     /\ \E d \in Client \ {Creator} :
          phase[d] = "member" /\ \A e \in Client \ {Creator, d} : born[e] > 1
=============================================================================
