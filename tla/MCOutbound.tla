----------------------------- MODULE MCOutbound -----------------------------
(* Two instances of Outbound in one: a pair of members under heavy traffic,  *)
(* and a room that outlives its creator.                                     *)
EXTENDS Outbound

CONSTANTS a, b, c

\* Only a and b are there: any frames, and connections that fail.
Pair == hpc[c] = "enter" /\ conn[c] = "up" /\ due[c] = {}

\* c enters after a has handed the room to b and left; b stays, nobody's
\* connection fails and only membership frames are sent.
Succession ==
  /\ hpc[c] # "enter" => hpc[a] = "gone"
  /\ hpc[b] # "gone"
  /\ \A d \in Client :
       conn[d] \in {"up", "ended"} /\ \A f \in due[d] : f.k \notin {"chat", "direct"}

PairOrSuccession == Pair \/ Succession
=============================================================================
