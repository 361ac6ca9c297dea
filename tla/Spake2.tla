------------------------------- MODULE Spake2 -------------------------------
(***************************************************************************)
(* SPAKE2 as the browser computes it: start, finish, the transcript, the   *)
(* key confirmation and the password scalar.                               *)
(*                                                                         *)
(* The group of P-256 is cyclic, so a point is written as its logarithm to *)
(* the base point: adding points adds numbers modulo Order, multiplying a  *)
(* point by a scalar multiplies them.  Hash, HKDF and HMAC are injective,  *)
(* so the transcript TT stands for Ke, Ka and the confirmation keys.       *)
(***************************************************************************)
EXTENDS Integers

CONSTANTS
  Order,         \* of the group
  M, N,          \* the fixed points of the two roles
  Mhf,           \* Mhf[c][h]: scrypt of code c salted with handshake id h
  None

ASSUME OrderAssumption == Order \in Nat /\ Order > 2
ASSUME SeedAssumption == M \in 1 .. Order - 1 /\ N \in 1 .. Order - 1 /\ M # N

Role == {"A", "B"}  \* owner, joiner
Other(r) == IF r = "A" THEN "B" ELSE "A"
Point == 0 .. Order - 1

\* mul: the identity for a zero scalar, which the library would reject.
Mul(p, k) == (p * k) % Order

Seed(r) == IF r = "A" THEN M ELSE N

\* deriveW: both sides salt the code with the handshake id they share.
DeriveW(c, h) == Mhf[c][h] % Order

\* No collision of two codes: as unlikely as guessing one.
ASSUME MhfAssumption ==
  \A c, d \in DOMAIN Mhf : DOMAIN Mhf[c] = DOMAIN Mhf[d] /\
    \A h \in DOMAIN Mhf[c] : c # d => DeriveW(c, h) # DeriveW(d, h)

\* start: w*M + x of the owner, w*N + y of the joiner.
Start(r, w, x) == (Mul(Seed(r), w) + x) % Order

\* The peer's message without its blinding, and the shared element K.
Unblinded(r, w, peer) == (peer - Mul(Seed(Other(r)), w)) % Order
SharedK(r, w, x, peer) == Mul(Unblinded(r, w, peer), x)

\* randomScalar: never zero.  The scalars (a few in 2^256) that make our message
\* the identity, or the peer's K under another code, are left out: the library
\* throws when it encodes the identity.
RandomScalar(r, w, h) ==
  {x \in 1 .. Order - 1 :
     /\ Start(r, w, x) # 0
     /\ \A c \in DOMAIN Mhf : Unblinded(Other(r), DeriveW(c, h), Start(r, w, x)) # 0}

\* TT: every field has its length in front (lv), so that no two different lists
\* of fields are encoded alike.
TT(h, pA, pB, K, w) == [id |-> h, pA |-> pA, pB |-> pB, K |-> K, w |-> w]

\* finish: pA and pB in the order of the roles, whatever our own role is.
Finish(r, h, w, x, own, peer) ==
  TT(h, IF r = "A" THEN own ELSE peer, IF r = "A" THEN peer ELSE own,
     SharedK(r, w, x, peer), w)

\* cA and cB: a MAC over the transcript under the key of the role.
Confirm(r, tt) == [by |-> r, tt |-> tt]

\* verifyPeer of role r.
VerifyNothing(r, tt, c) == TRUE  \* mutant: every confirmation is accepted
VerifyPeer(r, tt, c) == c = Confirm(Other(r), tt)
=============================================================================
