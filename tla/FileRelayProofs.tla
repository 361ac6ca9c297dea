--------------------------- MODULE FileRelayProofs ---------------------------
(***************************************************************************)
(* Proofs about FileRelay, for any number of senders, transfers and bytes: *)
(* Hub.inflight is exact, accepted bytes stay within the cap, and a chunk  *)
(* is relayed only inside a transfer.                                      *)
(*                                                                         *)
(* The first two parts are about sums: SumFunction is a recursive function *)
(* that takes the elements of a set in some fixed order.  It is shown to   *)
(* exist and to be independent of that order by induction on finite sets,  *)
(* which is put as a statement about a set P of sets so that no operator   *)
(* has to be instantiated.                                                 *)
(***************************************************************************)
EXTENDS FileRelay, FiniteSetTheorems, WellFoundedInduction, TLAPS

-----------------------------------------------------------------------------
(* Induction. *)

\* A set of numbers has a smallest element.
LEMMA NatMin ==
  ASSUME NEW S \in SUBSET Nat, S # {}
  PROVE  \E n \in S : \A m \in S : n <= m
<1> DEFINE R == OpToRel(<, Nat)
<1>1. IsWellFoundedOn(R, Nat)
  BY NatLessThanWellFounded
<1>2. \A m, n \in Nat : <<m, n>> \in R <=> m < n
  BY DEF OpToRel
<1> HIDE DEF R
<1>3. PICK n \in S : \A m \in S : ~(<<m, n>> \in R)
  BY <1>1, WFMin
<1>4. ASSUME NEW m \in S PROVE n <= m
  <2>1. ~(m < n)
    BY <1>2, <1>3
  <2>2. QED BY <2>1
<1>5. QED BY <1>4

\* Induction on numbers, for a set P of them.
LEMMA NatSetInduction ==
  ASSUME NEW P, 0 \in P, \A n \in Nat : n \in P => n + 1 \in P
  PROVE  Nat \subseteq P
<1> SUFFICES ASSUME NEW u \in Nat, u \notin P PROVE FALSE
  OBVIOUS
<1> DEFINE Bad == {n \in Nat : n \notin P}
<1>1. Bad \in SUBSET Nat /\ Bad # {}
  OBVIOUS
<1>2. PICK n \in Bad : \A m \in Bad : n <= m
  BY <1>1, NatMin
<1>3. n \in Nat /\ n # 0 /\ n \notin P
  BY <1>2
<1>4. n - 1 \in Nat /\ n - 1 \notin Bad
  BY <1>2, <1>3
<1>5. QED BY <1>3, <1>4

\* Induction on the subsets of a finite set, for a set P of them.
LEMMA SubsetInduction ==
  ASSUME NEW S, IsFiniteSet(S), NEW P,
         \A T \in SUBSET S : (\A x \in T : T \ {x} \in P) => T \in P
  PROVE  SUBSET S \subseteq P
<1> SUFFICES ASSUME NEW U \in SUBSET S, U \notin P PROVE FALSE
  OBVIOUS
<1> DEFINE C == {Cardinality(T) : T \in {T \in SUBSET S : T \notin P}}
<1>1. \A T \in SUBSET S : IsFiniteSet(T) /\ Cardinality(T) \in Nat
  BY FS_Subset, FS_CardinalityType
<1>2. C \in SUBSET Nat /\ C # {}
  BY <1>1
<1>3. PICK n \in C : \A m \in C : n <= m
  BY <1>2, NatMin
<1>4. PICK T \in SUBSET S : T \notin P /\ n = Cardinality(T)
  BY <1>3
<1>5. ASSUME NEW x \in T PROVE T \ {x} \in P
  <2>1. Cardinality(T \ {x}) = Cardinality(T) - 1 /\ Cardinality(T) \in Nat
    BY <1>1, FS_RemoveElement
  <2>2. ASSUME T \ {x} \notin P PROVE Cardinality(T \ {x}) \in C
    BY <2>2
  <2> HIDE DEF C
  <2>3. QED BY <1>3, <1>4, <2>1, <2>2
<1>6. QED BY <1>4, <1>5

-----------------------------------------------------------------------------
(* Sums. *)

\* The element that a fold takes out of s first.
Pick(s) == CHOOSE x \in s : TRUE

\* g adds up f over every subset of S, in the order of Pick.
IsFold(f, S, g) ==
  g = [s \in SUBSET S |-> IF s = {} THEN 0 ELSE f[Pick(s)] + g[s \ {Pick(s)}]]

\* A set that is not empty has something to pick.
LEMMA PickIn == \A s : s # {} => Pick(s) \in s
  BY DEF Pick

\* SumFunction is such a fold, if there is one.
LEMMA SumIsFold ==
  ASSUME NEW f
  PROVE  SumFunction(f) = (CHOOSE g : IsFold(f, DOMAIN f, g))[DOMAIN f]
  BY DEF SumFunction, SumFunctionOnSet, FoldFunctionOnSet, MapThenFoldSet, IsFold, Pick

\* Over a finite set there is one.
LEMMA FoldExists ==
  ASSUME NEW f, NEW S, IsFiniteSet(S)
  PROVE  \E g : IsFold(f, S, g)
<1> DEFINE Upto(n) == {s \in SUBSET S : Cardinality(s) <= n}
           Part(n, g) == g = [s \in Upto(n) |-> IF s = {} THEN 0
                                               ELSE f[Pick(s)] + g[s \ {Pick(s)}]]
<1>1. \A s \in SUBSET S : IsFiniteSet(s) /\ Cardinality(s) \in Nat
  BY FS_Subset, FS_CardinalityType
<1>2. \A s \in SUBSET S :
        s # {} => Pick(s) \in s /\ Cardinality(s \ {Pick(s)}) = Cardinality(s) - 1
  BY <1>1, FS_RemoveElement, PickIn
<1>3. \E g : Part(0, g)
  <2>1. \A s \in Upto(0) : s = {}
    BY <1>1, FS_EmptySet
  <2>2. WITNESS [s \in Upto(0) |-> 0]
  <2>3. QED BY <2>1
<1>4. ASSUME NEW n \in Nat, NEW g, Part(n, g)
      PROVE  \E h : Part(n + 1, h)
  <2> DEFINE h == [s \in Upto(n + 1) |-> IF s = {} THEN 0
                                         ELSE f[Pick(s)] + g[s \ {Pick(s)}]]
  <2>1. ASSUME NEW s \in Upto(n + 1), s # {}
        PROVE  h[s \ {Pick(s)}] = g[s \ {Pick(s)}]
    <3> DEFINE t == s \ {Pick(s)}
    <3>1. t \in Upto(n) /\ t \in Upto(n + 1)
      BY <1>1, <1>2, <2>1
    <3>2. g[t] = IF t = {} THEN 0 ELSE f[Pick(t)] + g[t \ {Pick(t)}]
      BY <1>4, <3>1
    <3>3. h[t] = IF t = {} THEN 0 ELSE f[Pick(t)] + g[t \ {Pick(t)}]
      BY <3>1
    <3>4. QED BY <3>2, <3>3
  <2>2. h = [s \in Upto(n + 1) |-> IF s = {} THEN 0 ELSE f[Pick(s)] + g[s \ {Pick(s)}]]
    OBVIOUS
  <2>3. Part(n + 1, h)
    <3> HIDE DEF Upto, h
    <3>1. \A s \in Upto(n + 1) : (IF s = {} THEN 0 ELSE f[Pick(s)] + g[s \ {Pick(s)}]) =
                                 (IF s = {} THEN 0 ELSE f[Pick(s)] + h[s \ {Pick(s)}])
      BY <2>1
    <3>2. QED BY <2>2, <3>1
  <2>4. QED BY <2>3
<1>5. \A n \in Nat : \E g : Part(n, g)
  <2> DEFINE P == {n \in Nat : \E g : Part(n, g)}
  <2> HIDE DEF Part
  <2>1. 0 \in P /\ \A n \in Nat : n \in P => n + 1 \in P
    BY <1>3, <1>4
  <2> HIDE DEF P
  <2>2. Nat \subseteq P
    BY <2>1, NatSetInduction
  <2>3. QED BY <2>2 DEF P
<1>6. Upto(Cardinality(S)) = SUBSET S
  BY <1>1, FS_Subset
<1>7. PICK g : Part(Cardinality(S), g)
  BY <1>1, <1>5
<1>8. QED BY <1>6, <1>7 DEF IsFold

\* Two folds agree where their functions do.
LEMMA FoldsAgree ==
  ASSUME NEW f, NEW e, NEW S, NEW T, NEW g, NEW h, IsFiniteSet(S),
         IsFold(f, S, g), IsFold(e, T, h), S \subseteq T, \A x \in S : f[x] = e[x]
  PROVE  g[S] = h[S]
<1> DEFINE P == {s \in SUBSET S : g[s] = h[s]}
<1>1. ASSUME NEW s \in SUBSET S, \A x \in s : s \ {x} \in P
      PROVE  s \in P
  <2>1. g[s] = IF s = {} THEN 0 ELSE f[Pick(s)] + g[s \ {Pick(s)}]
    BY DEF IsFold
  <2>2. h[s] = IF s = {} THEN 0 ELSE e[Pick(s)] + h[s \ {Pick(s)}]
    BY DEF IsFold
  <2>3. QED BY <1>1, <2>1, <2>2, PickIn
<1> HIDE DEF P
<1>2. SUBSET S \subseteq P
  BY <1>1, SubsetInduction
<1>3. QED BY <1>2 DEF P

\* A fold stays in any set of numbers that is closed under addition.
LEMMA FoldType ==
  ASSUME NEW f, NEW S, NEW V, IsFiniteSet(S), NEW g, IsFold(f, S, g),
         0 \in V, \A a, b \in V : a + b \in V, \A x \in S : f[x] \in V
  PROVE  \A s \in SUBSET S : g[s] \in V
<1> DEFINE P == {s \in SUBSET S : g[s] \in V}
<1>1. ASSUME NEW s \in SUBSET S, \A x \in s : s \ {x} \in P
      PROVE  s \in P
  <2>1. g[s] = IF s = {} THEN 0 ELSE f[Pick(s)] + g[s \ {Pick(s)}]
    BY DEF IsFold
  <2>2. CASE s = {}
    BY <2>1, <2>2
  <2>3. CASE s # {}
    <3>1. Pick(s) \in s
      BY <2>3, PickIn
    <3>2. f[Pick(s)] \in V /\ g[s \ {Pick(s)}] \in V
      BY <1>1, <3>1
    <3>3. QED BY <2>1, <2>3, <3>2
  <2>4. QED BY <2>2, <2>3
<1> HIDE DEF P
<1>2. SUBSET S \subseteq P
  BY <1>1, SubsetInduction
<1>3. QED BY <1>2 DEF P

\* The order does not matter: any element may be taken out first.
LEMMA FoldAnyOrder ==
  ASSUME NEW f, NEW S, IsFiniteSet(S), NEW g, IsFold(f, S, g), \A x \in S : f[x] \in Int,
         NEW z \in S
  PROVE  g[S] = f[z] + g[S \ {z}]
<1> DEFINE P == {s \in SUBSET S : \A x \in s : g[s] = f[x] + g[s \ {x}]}
<1>0. \A s \in SUBSET S : g[s] \in Int
  <2>1. 0 \in Int /\ \A a, b \in Int : a + b \in Int
    OBVIOUS
  <2>2. QED BY <2>1, FoldType
<1>1. ASSUME NEW s \in SUBSET S, \A x \in s : s \ {x} \in P
      PROVE  s \in P
  <2>1. ASSUME NEW x \in s PROVE g[s] = f[x] + g[s \ {x}]
    <3> DEFINE y == Pick(s)
    <3>1. y \in s
      BY PickIn
    <3>2. g[s] = f[y] + g[s \ {y}]
      BY DEF IsFold
    <3> HIDE DEF y
    <3>3. CASE x # y
      <4> DEFINE r == g[(s \ {x}) \ {y}]
      <4>1. r \in Int /\ f[x] \in Int /\ f[y] \in Int
        BY <1>0, <3>1
      <4>2. (s \ {y}) \ {x} = (s \ {x}) \ {y}
        OBVIOUS
      <4>3. g[s \ {y}] = f[x] + r
        BY <1>1, <3>1, <3>3, <4>2
      <4>4. g[s \ {x}] = f[y] + r
        BY <1>1, <3>1, <3>3
      <4> HIDE DEF r
      <4>5. g[s] = f[y] + (f[x] + r)
        BY <3>2, <4>3
      <4>6. f[y] + (f[x] + r) = f[x] + (f[y] + r)
        BY <4>1
      <4>7. QED BY <4>4, <4>5, <4>6
    <3>4. QED BY <3>2, <3>3
  <2>2. QED BY <2>1
<1> HIDE DEF P
<1>2. SUBSET S \subseteq P
  BY <1>1, SubsetInduction
<1>3. QED BY <1>2 DEF P

\* The fold behind a sum over a finite domain.
LEMMA SumFold ==
  ASSUME NEW f, IsFiniteSet(DOMAIN f)
  PROVE  \E g : IsFold(f, DOMAIN f, g) /\ SumFunction(f) = g[DOMAIN f]
<1> DEFINE g == CHOOSE h : IsFold(f, DOMAIN f, h)
<1>1. IsFold(f, DOMAIN f, g)
  BY FoldExists
<1>2. QED BY <1>1, SumIsFold

\* Sums of integers are integers, sums of naturals are naturals.
LEMMA SumType ==
  ASSUME NEW f, IsFiniteSet(DOMAIN f)
  PROVE  /\ (\A x \in DOMAIN f : f[x] \in Int) => SumFunction(f) \in Int
         /\ (\A x \in DOMAIN f : f[x] \in Nat) => SumFunction(f) \in Nat
<1>1. PICK g : IsFold(f, DOMAIN f, g) /\ SumFunction(f) = g[DOMAIN f]
  BY SumFold
<1>2. 0 \in Int /\ \A a, b \in Int : a + b \in Int
  OBVIOUS
<1>3. 0 \in Nat /\ \A a, b \in Nat : a + b \in Nat
  OBVIOUS
<1>4. ASSUME \A x \in DOMAIN f : f[x] \in Int PROVE SumFunction(f) \in Int
  <2>1. \A s \in SUBSET DOMAIN f : g[s] \in Int
    BY <1>1, <1>2, <1>4, FoldType
  <2>2. QED BY <1>1, <2>1
<1>5. ASSUME \A x \in DOMAIN f : f[x] \in Nat PROVE SumFunction(f) \in Nat
  <2>1. \A s \in SUBSET DOMAIN f : g[s] \in Nat
    BY <1>1, <1>3, <1>5, FoldType
  <2>2. QED BY <1>1, <2>1
<1>6. QED BY <1>4, <1>5

\* The sum over nothing.
LEMMA SumEmpty ==
  ASSUME NEW f, DOMAIN f = {}
  PROVE  SumFunction(f) = 0
<1>1. IsFiniteSet(DOMAIN f)
  BY FS_EmptySet
<1>2. PICK g : IsFold(f, DOMAIN f, g) /\ SumFunction(f) = g[DOMAIN f]
  BY <1>1, SumFold
<1>3. QED BY <1>2 DEF IsFold

\* One summand taken out.
LEMMA SumRemove ==
  ASSUME NEW f, IsFiniteSet(DOMAIN f), \A y \in DOMAIN f : f[y] \in Int, NEW x \in DOMAIN f
  PROVE  SumFunction(f) = f[x] + SumFunction(Restrict(f, DOMAIN f \ {x}))
<1> DEFINE D == DOMAIN f
           r == Restrict(f, D \ {x})
<1>1. DOMAIN r = D \ {x} /\ \A y \in D \ {x} : r[y] = f[y]
  BY DEF Restrict
<1>2. IsFiniteSet(D \ {x})
  BY FS_RemoveElement
<1> HIDE DEF r
<1>3. PICK g : IsFold(f, D, g) /\ SumFunction(f) = g[D]
  BY SumFold
<1>4. PICK h : IsFold(r, D \ {x}, h) /\ SumFunction(r) = h[D \ {x}]
  BY <1>1, <1>2, SumFold
<1>5. g[D] = f[x] + g[D \ {x}]
  <2>1. IsFiniteSet(D) /\ (\A y \in D : f[y] \in Int) /\ x \in D /\ IsFold(f, D, g)
    BY <1>3
  <2> HIDE DEF D
  <2>2. QED BY <2>1, FoldAnyOrder
<1>6. h[D \ {x}] = g[D \ {x}]
  BY <1>1, <1>2, <1>3, <1>4, FoldsAgree
<1>7. QED BY <1>3, <1>4, <1>5, <1>6 DEF r

\* A sum is determined by its summands.
LEMMA SumSame ==
  ASSUME NEW f, NEW e, IsFiniteSet(DOMAIN f), DOMAIN e = DOMAIN f,
         \A x \in DOMAIN f : e[x] = f[x]
  PROVE  SumFunction(e) = SumFunction(f)
<1>1. PICK g : IsFold(f, DOMAIN f, g) /\ SumFunction(f) = g[DOMAIN f]
  BY SumFold
<1>2. PICK h : IsFold(e, DOMAIN f, h) /\ SumFunction(e) = h[DOMAIN f]
  BY SumFold
<1>3. QED BY <1>1, <1>2, FoldsAgree

\* One summand changed, or added.
LEMMA SumUpdate ==
  ASSUME NEW f, NEW e, NEW x, IsFiniteSet(DOMAIN f), DOMAIN e = DOMAIN f \cup {x},
         \A y \in DOMAIN f \ {x} : e[y] = f[y],
         \A y \in DOMAIN f : f[y] \in Int, e[x] \in Int
  PROVE  SumFunction(e) =
           (SumFunction(f) - (IF x \in DOMAIN f THEN f[x] ELSE 0)) + e[x]
<1> DEFINE r == Restrict(e, DOMAIN e \ {x})
           q == Restrict(f, DOMAIN f \ {x})
<1>1. /\ DOMAIN r = DOMAIN f \ {x} /\ DOMAIN q = DOMAIN f \ {x}
      /\ \A y \in DOMAIN f \ {x} : r[y] = f[y] /\ q[y] = f[y]
  BY DEF Restrict
<1>2. IsFiniteSet(DOMAIN e) /\ IsFiniteSet(DOMAIN f \ {x})
  BY FS_AddElement, FS_RemoveElement
<1>3. SumFunction(e) = e[x] + SumFunction(r)
  BY <1>2, SumRemove
<1>4. x \in DOMAIN f => SumFunction(f) = f[x] + SumFunction(q)
  BY SumRemove
<1> HIDE DEF r, q
<1>5. SumFunction(r) = SumFunction(q) /\ SumFunction(q) \in Int
  BY <1>1, <1>2, SumSame, SumType
<1>6. CASE x \in DOMAIN f
  BY <1>3, <1>4, <1>5, <1>6
<1>7. CASE x \notin DOMAIN f
  <2>1. DOMAIN q = DOMAIN f
    BY <1>1, <1>7
  <2>2. SumFunction(q) = SumFunction(f)
    BY <1>1, <2>1, SumSame
  <2>3. QED BY <1>3, <1>5, <1>7, <2>2
<1>8. QED BY <1>6, <1>7

-----------------------------------------------------------------------------
(* The invariant. *)

\* The running transfers of every connection are finitely many, only a handler
\* on its way to a rollback holds a reservation, and one that is done holds
\* nothing.
MapsOK ==
  /\ transfers = [c \in Conn |-> transfers[c]]
  /\ \A c \in Conn : /\ IsFiniteSet(DOMAIN transfers[c])
                     /\ transfers[c] \in [DOMAIN transfers[c] -> 0 .. MaxFileBytes]
                     /\ now[c].n # 0 => fpc[c] = "rollback"
                     /\ fpc[c] \in {"rollback", "abort"} => now[c].x \in Transfer
                     /\ fpc[c] = "done" => DOMAIN transfers[c] = {}

\* The others saw every running transfer start, and no end of it.
Announced ==
  \A c \in Conn : \A x \in DOMAIN transfers[c] : last[c][x] \in {"start", "chunk"}

Inv == TypeInv /\ MapsOK /\ Announced /\ ExactAccounting /\ AcceptedWithinCap

\* A reservation is a size.
LEMMA ReservationType ==
  ASSUME TypeInv
  PROVE  \A c \in Conn : now[c].n \in Nat
<1> SUFFICES ASSUME NEW c \in Conn PROVE now[c].n \in Nat
  OBVIOUS
<1>1. now[c] \in [x : Transfer \cup {None}, n : ChunkSize \cup {0}]
  BY DEF TypeInv
<1>2. now[c].n \in ChunkSize \cup {0}
  BY <1>1
<1>3. ChunkSize \cup {0} \subseteq Nat
  BY SizesAssumption
<1>4. QED BY <1>2, <1>3, Zenon

\* The summands of the two totals are naturals, so the totals are.
LEMMA Totals ==
  ASSUME TypeInv, MapsOK
  PROVE  /\ \A c \in Conn : SumFunction(transfers[c]) \in Nat
         /\ TotalCounted \in Nat /\ TotalReserved \in Nat
<1>1. ASSUME NEW c \in Conn PROVE SumFunction(transfers[c]) \in Nat
  <2>1. \A x \in DOMAIN transfers[c] : transfers[c][x] \in Nat
    BY CapsAssumption DEF TypeInv
  <2>2. QED BY <2>1, SumType DEF MapsOK
<1>2. TotalCounted \in Nat
  <2> DEFINE f == [c \in Conn |-> SumFunction(transfers[c])]
  <2>1. DOMAIN f = Conn /\ \A c \in Conn : f[c] \in Nat
    BY <1>1
  <2> HIDE DEF f
  <2>2. SumFunction(f) \in Nat
    BY <2>1, ConnAssumption, SumType
  <2>3. QED BY <2>2 DEF f, TotalCounted
<1>3. TotalReserved \in Nat
  <2> DEFINE f == [c \in Conn |-> now[c].n]
  <2>1. DOMAIN f = Conn /\ \A c \in Conn : f[c] \in Nat
    BY ReservationType
  <2> HIDE DEF f
  <2>2. SumFunction(f) \in Nat
    BY <2>1, ConnAssumption, SumType
  <2>3. QED BY <2>2 DEF f, TotalReserved
<1>4. QED BY <1>1, <1>2, <1>3

\* A step of one connection moves the total by what it does to that connection.
LEMMA CountedMoves ==
  ASSUME TypeInv, MapsOK, NEW c \in Conn, SumFunction(transfers'[c]) \in Int,
         \A d \in Conn \ {c} : transfers'[d] = transfers[d]
  PROVE  TotalCounted' =
           (TotalCounted - SumFunction(transfers[c])) + SumFunction(transfers'[c])
<1> DEFINE f == [d \in Conn |-> SumFunction(transfers[d])]
           e == [d \in Conn |-> SumFunction(transfers'[d])]
<1>1. /\ DOMAIN f = Conn /\ DOMAIN e = Conn /\ f[c] = SumFunction(transfers[c])
      /\ e[c] = SumFunction(transfers'[c]) /\ \A d \in Conn \ {c} : e[d] = f[d]
  OBVIOUS
<1>2. \A d \in Conn : f[d] \in Int
  BY Totals
<1> HIDE DEF f, e
<1>3. SumFunction(e) = (SumFunction(f) - f[c]) + e[c]
  <2>1. Conn = Conn \cup {c}
    OBVIOUS
  <2>2. QED BY <1>1, <1>2, <2>1, ConnAssumption, SumUpdate
<1>4. TotalCounted = SumFunction(f) /\ TotalCounted' = SumFunction(e)
  BY DEF TotalCounted, f, e
<1>5. QED BY <1>1, <1>3, <1>4

\* The same for the reservations.
LEMMA ReservedMoves ==
  ASSUME TypeInv, MapsOK, NEW c \in Conn, now'[c].n \in Int,
         \A d \in Conn \ {c} : now'[d].n = now[d].n
  PROVE  TotalReserved' = (TotalReserved - now[c].n) + now'[c].n
<1> DEFINE f == [d \in Conn |-> now[d].n]
           e == [d \in Conn |-> now'[d].n]
<1>1. /\ DOMAIN f = Conn /\ DOMAIN e = Conn /\ f[c] = now[c].n
      /\ e[c] = now'[c].n /\ \A d \in Conn \ {c} : e[d] = f[d]
  OBVIOUS
<1>2. \A d \in Conn : f[d] \in Int
  BY ReservationType
<1> HIDE DEF f, e
<1>3. SumFunction(e) = (SumFunction(f) - f[c]) + e[c]
  <2>1. Conn = Conn \cup {c}
    OBVIOUS
  <2>2. QED BY <1>1, <1>2, <2>1, ConnAssumption, SumUpdate
<1>4. TotalReserved = SumFunction(f) /\ TotalReserved' = SumFunction(e)
  BY DEF TotalReserved, f, e
<1>5. QED BY <1>1, <1>3, <1>4

-----------------------------------------------------------------------------
(* The steps.  TypeInv, MapsOK and Announced do not need the totals. *)

\* What SetBytes does to the transfers of its connection.
LEMMA SetBytesMoves ==
  ASSUME TypeInv, MapsOK, NEW c \in Conn, NEW x \in Transfer, NEW n \in 0 .. MaxFileBytes,
         SetBytes(c, x, n)
  PROVE  /\ transfers' = [d \in Conn |-> transfers'[d]]
         /\ \A d \in Conn \ {c} : transfers'[d] = transfers[d]
         /\ DOMAIN transfers'[c] = DOMAIN transfers[c] \cup {x}
         /\ transfers'[c] \in [DOMAIN transfers'[c] -> 0 .. MaxFileBytes]
         /\ IsFiniteSet(DOMAIN transfers'[c])
         /\ SumFunction(transfers'[c]) =
              (SumFunction(transfers[c]) - Counted(c, x)) + n
         /\ Counted(c, x) \in Nat
<1> DEFINE f == transfers[c]
           e == [y \in DOMAIN f \cup {x} |-> IF y = x THEN n ELSE f[y]]
<1>1. transfers' = [transfers EXCEPT ![c] = e]
  BY DEF SetBytes
<1>2. \A d \in Conn : transfers'[d] = IF d = c THEN e ELSE transfers[d]
  BY <1>1 DEF MapsOK
<1>3. /\ DOMAIN e = DOMAIN f \cup {x} /\ e[x] = n /\ \A y \in DOMAIN f \ {x} : e[y] = f[y]
      /\ \A y \in DOMAIN f : f[y] \in 0 .. MaxFileBytes
      /\ e \in [DOMAIN e -> 0 .. MaxFileBytes]
  BY DEF TypeInv
<1>4. IsFiniteSet(DOMAIN f) /\ IsFiniteSet(DOMAIN e)
  BY <1>3, FS_AddElement DEF MapsOK
<1>5. transfers' = [d \in Conn |-> transfers'[d]]
  BY <1>1 DEF MapsOK
<1> HIDE DEF e
<1>6. SumFunction(e) = (SumFunction(f) - (IF x \in DOMAIN f THEN f[x] ELSE 0)) + n
  <2>1. (\A y \in DOMAIN f : f[y] \in Int) /\ e[x] \in Int
    BY <1>3, CapsAssumption
  <2>2. QED BY <1>3, <1>4, <2>1, SumUpdate
<1>7. Counted(c, x) = (IF x \in DOMAIN f THEN f[x] ELSE 0) /\ Counted(c, x) \in Nat
  BY <1>3, CapsAssumption DEF Counted, Running
<1>8. QED BY <1>2, <1>3, <1>4, <1>5, <1>6, <1>7

\* What finishFile does to them.
LEMMA FinishMoves ==
  ASSUME TypeInv, MapsOK, NEW c \in Conn, NEW x, FinishFile(c, x)
  PROVE  /\ transfers' = [d \in Conn |-> transfers'[d]]
         /\ \A d \in Conn \ {c} : transfers'[d] = transfers[d]
         /\ DOMAIN transfers'[c] = DOMAIN transfers[c] \ {x}
         /\ transfers'[c] \in [DOMAIN transfers'[c] -> 0 .. MaxFileBytes]
         /\ IsFiniteSet(DOMAIN transfers'[c])
         /\ SumFunction(transfers'[c]) = SumFunction(transfers[c]) - Counted(c, x)
         /\ Counted(c, x) \in Nat
<1> DEFINE f == transfers[c]
           e == Restrict(f, DOMAIN f \ {x})
<1>1. transfers' = [transfers EXCEPT ![c] = e]
  BY DEF FinishFile
<1>2. \A d \in Conn : transfers'[d] = IF d = c THEN e ELSE transfers[d]
  BY <1>1 DEF MapsOK
<1>3. /\ DOMAIN e = DOMAIN f \ {x} /\ \A y \in DOMAIN f \ {x} : e[y] = f[y]
      /\ \A y \in DOMAIN f : f[y] \in 0 .. MaxFileBytes
      /\ e \in [DOMAIN e -> 0 .. MaxFileBytes]
  BY DEF TypeInv, Restrict
<1>4. IsFiniteSet(DOMAIN f) /\ IsFiniteSet(DOMAIN e)
  BY <1>3, FS_RemoveElement DEF MapsOK
<1>5. transfers' = [d \in Conn |-> transfers'[d]]
  BY <1>1 DEF MapsOK
<1>6. (\A y \in DOMAIN f : f[y] \in Int) /\ (\A y \in DOMAIN e : e[y] \in Int)
  BY <1>3, CapsAssumption
<1>7. x \in DOMAIN f => SumFunction(f) = f[x] + SumFunction(e)
  BY <1>4, <1>6, SumRemove
<1> HIDE DEF e
<1>8. x \notin DOMAIN f => SumFunction(e) = SumFunction(f)
  BY <1>3, <1>4, SumSame
<1>9. /\ Counted(c, x) = (IF x \in DOMAIN f THEN f[x] ELSE 0) /\ Counted(c, x) \in Nat
  BY <1>3, CapsAssumption DEF Counted, Running
<1>10. SumFunction(e) \in Int /\ SumFunction(f) \in Int
  BY <1>4, <1>6, SumType
<1>11. SumFunction(e) = SumFunction(f) - Counted(c, x)
  BY <1>7, <1>8, <1>9, <1>10
<1>12. QED BY <1>2, <1>3, <1>4, <1>5, <1>9, <1>11

\* A step that leaves the transfers and reservations alone moves no total.
LEMMA TotalsStay ==
  /\ UNCHANGED transfers => TotalCounted' = TotalCounted
  /\ UNCHANGED now => TotalReserved' = TotalReserved
  BY DEF TotalCounted, TotalReserved

\* Fields of the chunk in hand, before and after.
LEMMA NowType ==
  ASSUME TypeInv, NEW c \in Conn, NEW x \in Transfer \cup {None}, NEW n \in ChunkSize \cup {0},
         now' = [now EXCEPT ![c] = [x |-> x, n |-> n]]
  PROVE  /\ now' \in [Conn -> [x : Transfer \cup {None}, n : ChunkSize \cup {0}]]
         /\ now'[c].x = x /\ now'[c].n = n
         /\ \A d \in Conn \ {c} : now'[d] = now[d]
  BY DEF TypeInv

\* A relayed frame is the latest of its transfer, and of no other.
LEMMA RelayedMoves ==
  ASSUME TypeInv, NEW c \in Conn, NEW x \in Transfer,
         NEW g \in {"start", "chunk", "end", "abort"}, Relayed(c, x, g)
  PROVE  /\ last' \in [Conn -> [Transfer -> {"none", "start", "chunk", "end", "abort"}]]
         /\ last'[c][x] = g
         /\ \A d \in Conn, y \in Transfer : d # c \/ y # x => last'[d][y] = last[d][y]
<1> DEFINE Frame == {"none", "start", "chunk", "end", "abort"}
<1>1. last \in [Conn -> [Transfer -> Frame]] /\ g \in Frame
  BY DEF TypeInv
<1> HIDE DEF Frame
<1> DEFINE row == [last[c] EXCEPT ![x] = g]
<1>2. last' = [last EXCEPT ![c] = row]
  BY DEF Relayed
<1>3. row \in [Transfer -> Frame] /\ row[x] = g /\ \A y \in Transfer \ {x} : row[y] = last[c][y]
  BY <1>1
<1> HIDE DEF row
<1>4. last' \in [Conn -> [Transfer -> Frame]] /\ last'[c] = row
      /\ \A d \in Conn \ {c} : last'[d] = last[d]
  BY <1>1, <1>2, <1>3
<1>5. QED BY <1>3, <1>4 DEF Frame

\* A step that keeps the map of every other connection keeps the maps typed.
LEMMA MapsMove ==
  ASSUME TypeInv, NEW c \in Conn,
         \A d \in Conn \ {c} : transfers'[d] = transfers[d],
         DOMAIN transfers'[c] \subseteq Transfer,
         transfers'[c] \in [DOMAIN transfers'[c] -> 0 .. MaxFileBytes]
  PROVE  \A d \in Conn : /\ DOMAIN transfers'[d] \subseteq Transfer
                         /\ \A y \in DOMAIN transfers'[d] :
                              transfers'[d][y] \in 0 .. MaxFileBytes
<1> TAKE d \in Conn
<1>1. CASE d = c
  BY <1>1
<1>2. CASE d # c
  BY <1>2 DEF TypeInv
<1>3. QED BY <1>1, <1>2

\* file_start
LEMMA FileStartInv ==
  ASSUME Inv, NEW c \in Conn, NEW x \in Transfer, FileStart(c, x)
  PROVE  Inv'
<1> USE DEF Inv
<1>1. /\ SetBytes(c, x, 0) /\ leaked' = leaked + Counted(c, x) /\ fpc[c] = "read"
      /\ last' = [last EXCEPT ![c][x] = "start"] /\ UNCHANGED <<fpc, now, inflight, kicked>>
  BY DEF FileStart, Relayed
<1>2. 0 \in 0 .. MaxFileBytes
  BY CapsAssumption
<1>3. /\ transfers' = [d \in Conn |-> transfers'[d]]
      /\ \A d \in Conn \ {c} : transfers'[d] = transfers[d]
      /\ DOMAIN transfers'[c] = DOMAIN transfers[c] \cup {x}
      /\ transfers'[c] \in [DOMAIN transfers'[c] -> 0 .. MaxFileBytes]
      /\ IsFiniteSet(DOMAIN transfers'[c])
      /\ SumFunction(transfers'[c]) = (SumFunction(transfers[c]) - Counted(c, x)) + 0
      /\ Counted(c, x) \in Nat
  BY <1>1, <1>2, SetBytesMoves
<1>4. /\ last' \in [Conn -> [Transfer -> {"none", "start", "chunk", "end", "abort"}]]
      /\ last'[c][x] = "start"
      /\ \A d \in Conn, y \in Transfer : d # c \/ y # x => last'[d][y] = last[d][y]
  BY <1>1, RelayedMoves DEF Relayed
<1>5. \A d \in Conn : /\ DOMAIN transfers[d] \subseteq Transfer
                      /\ d # c => DOMAIN transfers'[d] = DOMAIN transfers[d]
  BY <1>3 DEF TypeInv
<1>6. DOMAIN transfers'[c] = DOMAIN transfers[c] \cup {x}
  BY <1>3
<1>7. \A d \in Conn : /\ DOMAIN transfers'[d] \subseteq Transfer
                      /\ \A y \in DOMAIN transfers'[d] :
                           transfers'[d][y] \in 0 .. MaxFileBytes
  <2>1. DOMAIN transfers'[c] \subseteq Transfer
    BY <1>5, <1>6
  <2>2. QED BY <1>3, <2>1, MapsMove
<1>8. TypeInv'
  BY <1>1, <1>3, <1>4, <1>7 DEF TypeInv
<1>9. MapsOK'
  BY <1>1, <1>3 DEF MapsOK
<1>10. Announced'
  <2> SUFFICES ASSUME NEW d \in Conn, NEW y \in DOMAIN transfers'[d]
               PROVE  last'[d][y] \in {"start", "chunk"}
    BY DEF Announced
  <2>1. CASE d = c /\ y = x
    BY <2>1, <1>4
  <2>2. CASE d # c \/ y # x
    <3>1. y \in DOMAIN transfers[d] /\ y \in Transfer
      BY <2>2, <1>5, <1>6
    <3>2. last'[d][y] = last[d][y]
      BY <2>2, <3>1, <1>4
    <3>3. QED BY <3>1, <3>2 DEF Announced
  <2>3. QED BY <2>1, <2>2
<1>11. /\ TotalCounted \in Nat /\ TotalReserved \in Nat /\ SumFunction(transfers[c]) \in Nat
      /\ leaked \in Nat
  BY Totals DEF TypeInv
<1>12. TotalCounted' = TotalCounted - Counted(c, x)
  BY <1>3, <1>11, CountedMoves
<1>13. TotalReserved' = TotalReserved
  BY <1>1, TotalsStay
<1>14. ExactAccounting' /\ AcceptedWithinCap'
  BY <1>1, <1>3, <1>11, <1>12, <1>13, CapsAssumption DEF ExactAccounting, AcceptedWithinCap, TypeInv
<1>15. QED BY <1>8, <1>9, <1>10, <1>14

\* An accepted chunk.
LEMMA ChunkInv ==
  ASSUME Inv, NEW c \in Conn, NEW x \in Transfer, NEW n \in ChunkSize, Chunk(c, x, n)
  PROVE  Inv'
<1> USE DEF Inv
<1>1. /\ SetBytes(c, x, Counted(c, x) + n) /\ inflight' = inflight + n /\ fpc[c] = "read"
      /\ last' = [last EXCEPT ![c][x] = "chunk"] /\ UNCHANGED <<fpc, now, kicked, leaked>>
      /\ x \in DOMAIN transfers[c] /\ ~(Counted(c, x) + n > MaxFileBytes)
      /\ ~(inflight + n > MaxInflightBytes)
  BY DEF Chunk, Relayed, Running, TooLarge, OverCap
<1>2. n \in Nat /\ Counted(c, x) \in Nat /\ Counted(c, x) + n \in 0 .. MaxFileBytes
  BY <1>1, CapsAssumption, SizesAssumption DEF Counted, Running, TypeInv
<1>3. /\ transfers' = [d \in Conn |-> transfers'[d]]
      /\ \A d \in Conn \ {c} : transfers'[d] = transfers[d]
      /\ DOMAIN transfers'[c] = DOMAIN transfers[c] \cup {x}
      /\ transfers'[c] \in [DOMAIN transfers'[c] -> 0 .. MaxFileBytes]
      /\ IsFiniteSet(DOMAIN transfers'[c])
      /\ SumFunction(transfers'[c]) =
           (SumFunction(transfers[c]) - Counted(c, x)) + (Counted(c, x) + n)
  BY <1>1, <1>2, SetBytesMoves
<1>4. /\ last' \in [Conn -> [Transfer -> {"none", "start", "chunk", "end", "abort"}]]
      /\ last'[c][x] = "chunk"
      /\ \A d \in Conn, y \in Transfer : d # c \/ y # x => last'[d][y] = last[d][y]
  BY <1>1, RelayedMoves DEF Relayed
<1>5. \A d \in Conn : /\ DOMAIN transfers[d] \subseteq Transfer
                      /\ d # c => DOMAIN transfers'[d] = DOMAIN transfers[d]
  BY <1>3 DEF TypeInv
<1>6. DOMAIN transfers'[c] = DOMAIN transfers[c] \cup {x}
  BY <1>3
<1>7. \A d \in Conn : /\ DOMAIN transfers'[d] \subseteq Transfer
                      /\ \A y \in DOMAIN transfers'[d] :
                           transfers'[d][y] \in 0 .. MaxFileBytes
  <2>1. DOMAIN transfers'[c] \subseteq Transfer
    BY <1>5, <1>6
  <2>2. QED BY <1>3, <2>1, MapsMove
<1>8. TypeInv'
  BY <1>1, <1>2, <1>3, <1>4, <1>7 DEF TypeInv
<1>9. MapsOK'
  BY <1>1, <1>3 DEF MapsOK
<1>10. Announced'
  <2> SUFFICES ASSUME NEW d \in Conn, NEW y \in DOMAIN transfers'[d]
               PROVE  last'[d][y] \in {"start", "chunk"}
    BY DEF Announced
  <2>1. CASE d = c /\ y = x
    BY <2>1, <1>4
  <2>2. CASE d # c \/ y # x
    <3>1. y \in DOMAIN transfers[d] /\ y \in Transfer
      BY <2>2, <1>5, <1>6
    <3>2. last'[d][y] = last[d][y]
      BY <2>2, <3>1, <1>4
    <3>3. QED BY <3>1, <3>2 DEF Announced
  <2>3. QED BY <2>1, <2>2
<1>11. /\ TotalCounted \in Nat /\ TotalReserved \in Nat /\ SumFunction(transfers[c]) \in Nat
      /\ leaked \in Nat
  BY Totals DEF TypeInv
<1>12. TotalCounted' = TotalCounted + n
  BY <1>2, <1>3, <1>11, CountedMoves
<1>13. TotalReserved' = TotalReserved
  BY <1>1, TotalsStay
<1>14. ExactAccounting' /\ AcceptedWithinCap'
  BY <1>1, <1>2, <1>11, <1>12, <1>13, CapsAssumption DEF ExactAccounting, AcceptedWithinCap, TypeInv
<1>15. QED BY <1>8, <1>9, <1>10, <1>14

\* A chunk that is rejected, for its file or for the server: the reservation.
LEMMA RejectInv ==
  ASSUME Inv, NEW c \in Conn, NEW x \in Transfer, NEW n \in ChunkSize,
         ChunkTooLarge(c, x, n) \/ ChunkOverCap(c, x, n)
  PROVE  Inv'
<1> USE DEF Inv
<1>1. PICK m \in {0, n}, l \in {"abort", "rollback"} :
        /\ m # 0 => l = "rollback"
        /\ fpc[c] = "read" /\ fpc' = [fpc EXCEPT ![c] = l]
        /\ now' = [now EXCEPT ![c] = [x |-> x, n |-> m]]
        /\ inflight' = inflight + m /\ UNCHANGED <<transfers, kicked, last, leaked>>
  BY DEF ChunkTooLarge, ChunkOverCap, Goto, TypeInv
<1>2. m \in Nat /\ m \in ChunkSize \cup {0} /\ now[c].n = 0
  BY <1>1, SizesAssumption DEF MapsOK
<1>3. /\ now' \in [Conn -> [x : Transfer \cup {None}, n : ChunkSize \cup {0}]]
      /\ now'[c].x = x /\ now'[c].n = m
      /\ \A d \in Conn \ {c} : now'[d] = now[d]
  BY <1>1, <1>2, NowType
<1>4. TypeInv'
  BY <1>1, <1>2, <1>3 DEF TypeInv
<1>5. MapsOK'
  BY <1>1, <1>3 DEF MapsOK, TypeInv
<1>6. Announced'
  BY <1>1 DEF Announced
<1>7. TotalCounted \in Nat /\ TotalReserved \in Nat /\ leaked \in Nat
  BY Totals DEF TypeInv
<1>8. TotalReserved' = TotalReserved + m
  BY <1>2, <1>3, <1>7, ReservedMoves
<1>9. TotalCounted' = TotalCounted
  BY <1>1, TotalsStay
<1>10. ExactAccounting' /\ AcceptedWithinCap'
  BY <1>1, <1>2, <1>7, <1>8, <1>9 DEF ExactAccounting, AcceptedWithinCap, TypeInv
<1>11. QED BY <1>4, <1>5, <1>6, <1>10

\* The reservation is taken back.
LEMMA RollbackInv ==
  ASSUME Inv, NEW c \in Conn, Rollback(c)
  PROVE  Inv'
<1> USE DEF Inv
<1> DEFINE x == now[c].x
<1>1. /\ fpc[c] = "rollback" /\ fpc' = [fpc EXCEPT ![c] = "abort"]
      /\ inflight' = inflight - now[c].n /\ UNCHANGED <<transfers, kicked, last, leaked>>
      /\ now' = [now EXCEPT ![c].n = 0]
  BY DEF Rollback, Goto
<1>2. now[c].n \in Nat /\ x \in Transfer
  BY <1>1, ReservationType DEF MapsOK
<1>3. /\ now' \in [Conn -> [x : Transfer \cup {None}, n : ChunkSize \cup {0}]]
      /\ now'[c].x = x /\ now'[c].n = 0
      /\ \A d \in Conn \ {c} : now'[d] = now[d]
  BY <1>1 DEF TypeInv
<1>4. TypeInv'
  BY <1>1, <1>2, <1>3 DEF TypeInv
<1>5. MapsOK'
  BY <1>1, <1>2, <1>3 DEF MapsOK, TypeInv
<1>6. Announced'
  BY <1>1 DEF Announced
<1>7. TotalCounted \in Nat /\ TotalReserved \in Nat /\ leaked \in Nat
  BY Totals DEF TypeInv
<1>8. TotalReserved' = TotalReserved - now[c].n
  BY <1>2, <1>3, <1>7, ReservedMoves
<1>9. TotalCounted' = TotalCounted
  BY <1>1, TotalsStay
<1>10. ExactAccounting' /\ AcceptedWithinCap'
  BY <1>1, <1>2, <1>7, <1>8, <1>9 DEF ExactAccounting, AcceptedWithinCap, TypeInv
<1>11. QED BY <1>4, <1>5, <1>6, <1>10

\* finishFile, with what its callers do to the rest: the handler goes back to
\* reading or to the release, without a reservation.
LEMMA FinishInv ==
  ASSUME Inv, NEW c \in Conn, NEW x \in Transfer, FinishFile(c, x),
         fpc' \in [Conn -> {"read", "rollback", "abort", "release", "done"}],
         now' \in [Conn -> [x : Transfer \cup {None}, n : ChunkSize \cup {0}]],
         last' \in [Conn -> [Transfer -> {"none", "start", "chunk", "end", "abort"}]],
         fpc'[c] \in {"read", "release"}, now[c].n = 0, now'[c].n = 0,
         \A d \in Conn \ {c} : now'[d] = now[d] /\ fpc'[d] = fpc[d],
         \A d \in Conn, y \in Transfer : d # c \/ y # x => last'[d][y] = last[d][y],
         UNCHANGED <<kicked, leaked>>
  PROVE  Inv'
<1> USE DEF Inv
<1>1. /\ transfers' = [d \in Conn |-> transfers'[d]]
      /\ \A d \in Conn \ {c} : transfers'[d] = transfers[d]
      /\ DOMAIN transfers'[c] = DOMAIN transfers[c] \ {x}
      /\ transfers'[c] \in [DOMAIN transfers'[c] -> 0 .. MaxFileBytes]
      /\ IsFiniteSet(DOMAIN transfers'[c])
      /\ SumFunction(transfers'[c]) = SumFunction(transfers[c]) - Counted(c, x)
      /\ Counted(c, x) \in Nat
  BY FinishMoves
<1>2. inflight' = inflight - Counted(c, x)
  BY DEF FinishFile
<1>3. \A d \in Conn : /\ DOMAIN transfers[d] \subseteq Transfer
                      /\ d # c => DOMAIN transfers'[d] = DOMAIN transfers[d]
  BY <1>1 DEF TypeInv
<1>4. \A d \in Conn : /\ DOMAIN transfers'[d] \subseteq Transfer
                      /\ \A y \in DOMAIN transfers'[d] :
                           transfers'[d][y] \in 0 .. MaxFileBytes
  <2>1. DOMAIN transfers'[c] \subseteq Transfer
    BY <1>1, <1>3
  <2>2. QED BY <1>1, <2>1, MapsMove
<1>5. TypeInv'
  BY <1>1, <1>2, <1>4 DEF TypeInv
<1>6. MapsOK'
  <2> SUFFICES ASSUME NEW d \in Conn
               PROVE  /\ IsFiniteSet(DOMAIN transfers'[d])
                      /\ transfers'[d] \in [DOMAIN transfers'[d] -> 0 .. MaxFileBytes]
                      /\ now'[d].n # 0 => fpc'[d] = "rollback"
                      /\ fpc'[d] \in {"rollback", "abort"} => now'[d].x \in Transfer
                      /\ fpc'[d] = "done" => DOMAIN transfers'[d] = {}
    BY <1>1 DEF MapsOK
  <2>1. CASE d = c
    BY <1>1, <2>1
  <2>2. CASE d # c
    <3>1. transfers'[d] = transfers[d] /\ now'[d] = now[d] /\ fpc'[d] = fpc[d]
      BY <1>1, <2>2
    <3>2. QED BY <3>1 DEF MapsOK
  <2>3. QED BY <2>1, <2>2
<1>7. Announced'
  <2> SUFFICES ASSUME NEW d \in Conn, NEW y \in DOMAIN transfers'[d]
               PROVE  last'[d][y] \in {"start", "chunk"}
    BY DEF Announced
  <2>1. y \in DOMAIN transfers[d] /\ y \in Transfer /\ (d # c \/ y # x)
    BY <1>1, <1>3
  <2>2. last'[d][y] = last[d][y]
    BY <2>1
  <2>3. QED BY <2>1, <2>2 DEF Announced
<1>8. /\ TotalCounted \in Nat /\ TotalReserved \in Nat /\ SumFunction(transfers[c]) \in Nat
      /\ leaked \in Nat /\ inflight \in Int
  BY Totals DEF TypeInv
<1>9. TotalCounted' = TotalCounted - Counted(c, x)
  <2>1. SumFunction(transfers'[c]) \in Int
    BY <1>1, <1>8
  <2>2. TotalCounted' =
          (TotalCounted - SumFunction(transfers[c])) + SumFunction(transfers'[c])
    BY <1>1, <2>1, CountedMoves
  <2>3. QED BY <1>1, <1>8, <2>1, <2>2
<1>10. TotalReserved' = TotalReserved
  <2>1. now'[c].n \in Int /\ \A d \in Conn \ {c} : now'[d].n = now[d].n
    OBVIOUS
  <2>2. TotalReserved' = (TotalReserved - now[c].n) + now'[c].n
    BY <2>1, ReservedMoves
  <2>3. QED BY <1>8, <2>2
<1>11. ExactAccounting' /\ AcceptedWithinCap'
  BY <1>1, <1>2, <1>8, <1>9, <1>10, CapsAssumption DEF ExactAccounting, AcceptedWithinCap
<1>12. QED BY <1>5, <1>6, <1>7, <1>11

\* file_end and file_abort
LEMMA FileEndInv ==
  ASSUME Inv, NEW c \in Conn, NEW x \in Transfer, FileEnd(c, x)
  PROVE  Inv'
<1>1. PICK g \in {"end", "abort"} : Relayed(c, x, g)
  BY DEF FileEnd
<1>2. /\ last' \in [Conn -> [Transfer -> {"none", "start", "chunk", "end", "abort"}]]
      /\ \A d \in Conn, y \in Transfer : d # c \/ y # x => last'[d][y] = last[d][y]
  BY <1>1, RelayedMoves DEF Inv
<1>3. FinishFile(c, x) /\ fpc[c] = "read" /\ UNCHANGED <<fpc, now, kicked, leaked>>
  BY DEF FileEnd
<1>4. now[c].n = 0 /\ now'[c].n = 0
  BY <1>3 DEF Inv, MapsOK
<1>5. /\ fpc' \in [Conn -> {"read", "rollback", "abort", "release", "done"}]
      /\ now' \in [Conn -> [x : Transfer \cup {None}, n : ChunkSize \cup {0}]]
  BY <1>3 DEF Inv, TypeInv
<1>6. fpc'[c] \in {"read", "release"} /\ \A d \in Conn \ {c} : now'[d] = now[d] /\ fpc'[d] = fpc[d]
  BY <1>3
<1>7. QED BY <1>2, <1>3, <1>4, <1>5, <1>6, FinishInv

\* abortFile, by which a kicked sender's handler ends.
LEMMA AbortInv ==
  ASSUME Inv, NEW c \in Conn, Abort(c)
  PROVE  Inv'
<1> DEFINE x == now[c].x
<1>1. /\ fpc[c] = "abort" /\ FinishFile(c, x) /\ now' = [now EXCEPT ![c] = Idle]
      /\ UNCHANGED <<kicked, leaked>>
  BY DEF Abort
<1>2. x \in Transfer /\ now[c].n = 0
  BY <1>1 DEF Inv, MapsOK
<1>3. /\ now' \in [Conn -> [x : Transfer \cup {None}, n : ChunkSize \cup {0}]]
      /\ now'[c].n = 0 /\ \A d \in Conn \ {c} : now'[d] = now[d]
  <2>1. None \in Transfer \cup {None} /\ 0 \in ChunkSize \cup {0}
    OBVIOUS
  <2>2. QED BY <1>1, <2>1, NowType DEF Idle, Inv
<1>4. PICK l \in {"read", "release"} : fpc' = [fpc EXCEPT ![c] = l]
  BY DEF Abort, Goto
<1>5. /\ fpc' \in [Conn -> {"read", "rollback", "abort", "release", "done"}]
      /\ fpc'[c] \in {"read", "release"} /\ \A d \in Conn \ {c} : fpc'[d] = fpc[d]
  BY <1>4 DEF Inv, TypeInv
<1> HIDE DEF x
<1>6. /\ last' \in [Conn -> [Transfer -> {"none", "start", "chunk", "end", "abort"}]]
      /\ \A d \in Conn, y \in Transfer : d # c \/ y # x => last'[d][y] = last[d][y]
  <2>1. UNCHANGED last \/ Relayed(c, x, "abort")
    BY DEF Abort, x
  <2>2. CASE UNCHANGED last
    BY <2>2 DEF Inv, TypeInv
  <2>3. CASE Relayed(c, x, "abort")
    BY <1>2, <2>3, RelayedMoves DEF Inv
  <2>4. QED BY <2>1, <2>2, <2>3
<1>7. QED BY <1>1, <1>2, <1>3, <1>5, <1>6, FinishInv

\* The deferred release of one transfer of a sender that left.
LEMMA ReleaseInv ==
  ASSUME Inv, NEW c \in Conn, Release(c)
  PROVE  Inv'
<1>1. PICK x \in DOMAIN transfers[c] : FinishFile(c, x)
  BY DEF Release
<1>2. x \in Transfer
  BY DEF Inv, TypeInv
<1>3. fpc[c] = "release" /\ UNCHANGED <<fpc, now, kicked, last, leaked>>
  BY DEF Release
<1>4. now[c].n = 0 /\ now'[c].n = 0
  BY <1>3 DEF Inv, MapsOK
<1>5. /\ fpc' \in [Conn -> {"read", "rollback", "abort", "release", "done"}]
      /\ now' \in [Conn -> [x : Transfer \cup {None}, n : ChunkSize \cup {0}]]
      /\ last' \in [Conn -> [Transfer -> {"none", "start", "chunk", "end", "abort"}]]
  BY <1>3 DEF Inv, TypeInv
<1>6. /\ fpc'[c] \in {"read", "release"}
      /\ \A d \in Conn \ {c} : now'[d] = now[d] /\ fpc'[d] = fpc[d]
      /\ \A d \in Conn, y \in Transfer : d # c \/ y # x => last'[d][y] = last[d][y]
  BY <1>3
<1>7. QED BY <1>1, <1>2, <1>3, <1>4, <1>5, <1>6, FinishInv

\* Steps that touch neither transfers nor reservations, and stuttering.
LEMMA QuietInv ==
  ASSUME Inv, UNCHANGED <<transfers, now, inflight, last, leaked>>,
         kicked' \subseteq Conn,
         \/ UNCHANGED fpc
         \/ \E c \in Conn, l \in {"release", "done"} :
              /\ fpc[c] \in {"read", "release"} /\ fpc' = [fpc EXCEPT ![c] = l]
              /\ l = "done" => DOMAIN transfers[c] = {}
  PROVE  Inv'
<1>1. TypeInv'
  BY DEF Inv, TypeInv
<1>2. \A d \in Conn : \/ fpc'[d] = fpc[d]
                      \/ /\ fpc[d] \in {"read", "release"} /\ fpc'[d] \in {"release", "done"}
                         /\ fpc'[d] = "done" => DOMAIN transfers[d] = {}
  BY DEF Inv, TypeInv
<1>3. MapsOK'
  BY <1>2 DEF Inv, MapsOK
<1>4. Announced'
  BY DEF Inv, Announced
<1>5. ExactAccounting' /\ AcceptedWithinCap'
  BY TotalsStay DEF Inv, ExactAccounting, AcceptedWithinCap
<1>6. QED BY <1>1, <1>3, <1>4, <1>5 DEF Inv

LEMMA NextInv ==
  ASSUME Inv, [Next]_vars
  PROVE  Inv'
<1>1. ASSUME NEW c \in Conn, NEW x \in Transfer, FileStart(c, x) \/ FileEnd(c, x)
      PROVE  Inv'
  BY <1>1, FileStartInv, FileEndInv
<1>2. ASSUME NEW c \in Conn, NEW x \in Transfer, NEW n \in ChunkSize,
             ChunkTooLarge(c, x, n) \/ Chunk(c, x, n) \/ ChunkOverCap(c, x, n)
      PROVE  Inv'
  BY <1>2, ChunkInv, RejectInv
<1>3. ASSUME NEW c \in Conn, Rollback(c) \/ Abort(c) \/ Release(c)
      PROVE  Inv'
  BY <1>3, RollbackInv, AbortInv, ReleaseInv
<1>4. ASSUME NEW c \in Conn, Kick(c) \/ Disconnect(c) \/ Released(c)
      PROVE  Inv'
  <2>1. UNCHANGED <<transfers, now, inflight, last, leaked>> /\ kicked' \subseteq Conn
    BY <1>4 DEF Kick, Disconnect, Released, Inv, TypeInv
  <2>2. \/ UNCHANGED fpc
        \/ \E d \in Conn, l \in {"release", "done"} :
             /\ fpc[d] \in {"read", "release"} /\ fpc' = [fpc EXCEPT ![d] = l]
             /\ l = "done" => DOMAIN transfers[d] = {}
    BY <1>4 DEF Kick, Disconnect, Released, Goto
  <2>3. QED BY <2>1, <2>2, QuietInv
<1>5. CASE UNCHANGED vars
  BY <1>5, QuietInv DEF vars, Inv, TypeInv
<1>6. QED BY <1>1, <1>2, <1>3, <1>4, <1>5 DEF Next, AllGone

\* No transfers and no reservations sum to nothing.
LEMMA ZeroSum ==
  ASSUME NEW S, IsFiniteSet(S)
  PROVE  SumFunction([s \in S |-> 0]) = 0
<1> DEFINE f == [s \in S |-> 0]
<1>1. IsFiniteSet(DOMAIN f) /\ \A s \in DOMAIN f : f[s] = 0
  OBVIOUS
<1> HIDE DEF f
<1>2. PICK g : IsFold(f, DOMAIN f, g) /\ SumFunction(f) = g[DOMAIN f]
  BY <1>1, SumFold
<1>3. 0 \in {0} /\ (\A a, b \in {0} : a + b \in {0}) /\ \A s \in DOMAIN f : f[s] \in {0}
  BY <1>1
<1>4. \A s \in SUBSET DOMAIN f : g[s] \in {0}
  BY <1>1, <1>2, <1>3, FoldType
<1>5. QED BY <1>2, <1>4 DEF f

LEMMA InitInv == Init => Inv
<1> SUFFICES ASSUME Init PROVE Inv
  OBVIOUS
<1>1. TypeInv
  BY DEF Init, TypeInv, Idle
<1>2. MapsOK /\ Announced
  BY FS_EmptySet DEF Init, MapsOK, Announced, Idle
<1>3. TotalCounted = 0
  <2>1. \A c \in Conn : SumFunction(transfers[c]) = 0
    BY SumEmpty DEF Init
  <2>2. [c \in Conn |-> SumFunction(transfers[c])] = [c \in Conn |-> 0]
    BY <2>1
  <2>3. QED BY <2>2, ZeroSum, ConnAssumption DEF TotalCounted
<1>4. TotalReserved = 0
  <2>1. [c \in Conn |-> now[c].n] = [c \in Conn |-> 0]
    BY DEF Init, Idle
  <2>2. QED BY <2>1, ZeroSum, ConnAssumption DEF TotalReserved
<1>5. ExactAccounting /\ AcceptedWithinCap
  BY <1>3, <1>4, CapsAssumption DEF Init, ExactAccounting, AcceptedWithinCap
<1>6. QED BY <1>1, <1>2, <1>5 DEF Inv

-----------------------------------------------------------------------------
(* The theorems. *)

\* The inductive invariant: every step of handleFile, abortFile and finishFile moves
\* the shared counter and the maps of the senders together.
THEOREM RelayInvariant == Spec => []Inv
<1>1. Init => Inv
  BY InitInv
<1>2. Inv /\ [Next]_vars => Inv'
  BY NextInv
<1>3. QED BY <1>1, <1>2, PTL DEF Spec

\* The counters keep their types, and no transfer counts more than MaxFileBytes.
THEOREM TransfersTyped == Spec => []TypeInv
<1>1. Inv => TypeInv
  BY DEF Inv
<1>2. QED BY <1>1, RelayInvariant, PTL

\* Hub.inflight is the sum of what the running transfers of all connections
\* counted, the reservations waiting for their rollback and the bytes lost to
\* repeated file_starts, for any number of senders and whatever interleaves.
THEOREM InflightIsExact == Spec => []ExactAccounting
<1>1. Inv => ExactAccounting
  BY DEF Inv
<1>2. QED BY <1>1, RelayInvariant, PTL

\* So a rollback or a release never drives the counter below zero, ...
THEOREM InflightNotNegative == Spec => [](inflight >= 0)
<1>1. Inv => inflight >= 0
  <2> SUFFICES ASSUME Inv PROVE inflight >= 0
    OBVIOUS
  <2>1. TotalCounted \in Nat /\ TotalReserved \in Nat /\ leaked \in Nat
    BY Totals DEF Inv, TypeInv
  <2>2. QED BY <2>1 DEF Inv, ExactAccounting
<1>2. QED BY <1>1, RelayInvariant, PTL

\* ... and when the goroutine of every sender has ended, by a close, a panic or
\* a kick, all is given back except what repeated file_starts lost.
THEOREM AllGivenBack == Spec => []((\A c \in Conn : fpc[c] = "done") => inflight = leaked)
<1>1. Inv => ((\A c \in Conn : fpc[c] = "done") => inflight = leaked)
  <2> SUFFICES ASSUME Inv, \A c \in Conn : fpc[c] = "done" PROVE inflight = leaked
    OBVIOUS
  <2>1. TotalCounted = 0
    <3>1. \A c \in Conn : SumFunction(transfers[c]) = 0
      BY SumEmpty DEF Inv, MapsOK
    <3>2. [c \in Conn |-> SumFunction(transfers[c])] = [c \in Conn |-> 0]
      BY <3>1
    <3>3. QED BY <3>2, ZeroSum, ConnAssumption DEF TotalCounted
  <2>2. TotalReserved = 0
    <3>1. \A c \in Conn : now[c].n = 0
      BY DEF Inv, MapsOK
    <3>2. [c \in Conn |-> now[c].n] = [c \in Conn |-> 0]
      BY <3>1
    <3>3. QED BY <3>2, ZeroSum, ConnAssumption DEF TotalReserved
  <2>3. QED BY <2>1, <2>2 DEF Inv, TypeInv, ExactAccounting
<1>2. QED BY <1>1, RelayInvariant, PTL

\* The accepted bytes of all running transfers together stay within the cap,
\* although every sender adds first and tests afterwards.
THEOREM CapHolds == Spec => []AcceptedWithinCap
<1>1. Inv => AcceptedWithinCap
  BY DEF Inv
<1>2. QED BY <1>1, RelayInvariant, PTL

\* No step of handleFile relays a chunk of a transfer that the other members did
\* not see start or whose end they saw.
THEOREM ChunksInsideTransfers == Spec => ChunkInsideTransfer
<1> DEFINE Inside == \A c \in Conn, x \in Transfer :
                       last'[c][x] = "chunk" => last[c][x] \in {"start", "chunk"}
<1>1. Inv /\ [Next]_vars => [Inside]_vars
  <2> SUFFICES ASSUME Inv, Next, NEW d \in Conn, NEW y \in Transfer, last'[d][y] = "chunk"
               PROVE  last[d][y] \in {"start", "chunk"}
    OBVIOUS
  <2>1. UNCHANGED last => last[d][y] \in {"start", "chunk"}
    OBVIOUS
  <2>2. ASSUME NEW c \in Conn, NEW x \in Transfer,
               NEW g \in {"start", "end", "abort"}, Relayed(c, x, g)
        PROVE  last[d][y] \in {"start", "chunk"}
    <3>1. /\ last'[c][x] = g
          /\ \A e \in Conn, z \in Transfer : e # c \/ z # x => last'[e][z] = last[e][z]
      BY <2>2, RelayedMoves DEF Inv
    <3>2. QED BY <3>1
  <2>3. ASSUME NEW c \in Conn, NEW x \in Transfer, NEW n \in ChunkSize, Chunk(c, x, n)
        PROVE  last[d][y] \in {"start", "chunk"}
    <3>1. /\ last'[c][x] = "chunk"
          /\ \A e \in Conn, z \in Transfer : e # c \/ z # x => last'[e][z] = last[e][z]
      BY <2>3, RelayedMoves DEF Inv, Chunk
    <3>2. last[c][x] \in {"start", "chunk"}
      BY <2>3 DEF Inv, Announced, Chunk, Running
    <3>3. QED BY <3>1, <3>2
  <2>4. ASSUME NEW c \in Conn, Abort(c)
        PROVE  last[d][y] \in {"start", "chunk"}
    <3>1. now[c].x \in Transfer
      BY <2>4 DEF Abort, Inv, MapsOK
    <3>2. UNCHANGED last \/ Relayed(c, now[c].x, "abort")
      BY <2>4 DEF Abort
    <3>3. QED BY <3>1, <3>2, <2>1, <2>2
  <2>5. ASSUME NEW c \in Conn, NEW x \in Transfer, FileStart(c, x) \/ FileEnd(c, x)
        PROVE  last[d][y] \in {"start", "chunk"}
    BY <2>5, <2>2 DEF FileStart, FileEnd
  <2>6. QED
    BY <2>1, <2>3, <2>4, <2>5 DEF Next, ChunkTooLarge, ChunkOverCap, Rollback, Kick,
       Disconnect, Release, Released, AllGone, vars
<1>2. QED BY <1>1, RelayInvariant, PTL DEF Spec, ChunkInsideTransfer
=============================================================================
