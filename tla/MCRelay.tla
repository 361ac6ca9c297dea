------------------------------ MODULE MCRelay ------------------------------
(* Finite instances of Relay.  One constant per cast of connections. *)
EXTENDS RelayInv, TLC

CONSTANTS c1, c2, c3, r1, r2, r3, t1, t2, s1

Create(s) == [kind |-> "create", sess |-> s, tok |-> None]
RedeemOf(t, s) == [kind |-> "redeem", sess |-> s, tok |-> t]
Other == [kind |-> "other", sess |-> None, tok |-> None]

\* c1 creates, the others redeem either token; no session ids.
HelloJoin ==
  c1 :> {Create(None)} @@ c2 :> {RedeemOf(t1, None), RedeemOf(t2, None)}
    @@ c3 :> {RedeemOf(t1, None), RedeemOf(t2, None)}

\* Browser tabs that share one session id: creating, or redeeming c1's invite.
HelloSession ==
  c1 :> {Create(s1)} @@ c2 :> {Create(s1), RedeemOf(t1, s1)}
    @@ c3 :> {Create(s1), RedeemOf(t1, s1)}

\* A creator and a joiner, the joiner possibly with a useless token.
HelloPair ==
  c1 :> {Create(s1), Other} @@ c2 :> {RedeemOf(t1, None), RedeemOf(None, None)}

SymJoin == Permutations({c2, c3}) \cup Permutations({t1, t2})
SymSession == Permutations({c2, c3}) \cup Permutations({r1, r2, r3})
=============================================================================
