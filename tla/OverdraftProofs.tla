-------------------------- MODULE OverdraftProofs --------------------------
(***************************************************************************)
(* Proofs that nothing overdraws an account but the two hazards Overdraft  *)
(* notes, for any accounts, requests, prices and number of calls.          *)
(*                                                                         *)
(* All is said of one account, so that what the others do costs nothing.   *)
(* NotOverdrawn is not inductive: a Commit that has deleted its row will   *)
(* still bill it, and a Reserve that has settled on a charge will still    *)
(* insert it.  So the invariant counts what an account is exposed to, its  *)
(* rows and what commits under way have in hand (Exposure), against its    *)
(* balance (Solvent), and says that what a Reserve is about to insert is   *)
(* covered by what it leaves free (Covered).  Reserve decides by a balance *)
(* it has read before, which is behind the one there is (SeenBehind), and  *)
(* by all the account is exposed to, since no commit of it is under way.   *)
(* HoldsInv is what makes the exposure of a request one row; a row that    *)
(* runs out is exposure no more unless a commit has it in hand already.    *)
(*                                                                         *)
(* Balances are sums over finite sets.  What such a sum does when a member *)
(* joins, leaves or changes comes first, each by a least counterexample.   *)
(***************************************************************************)
EXTENDS BillingProofs, Overdraft, FiniteSetTheorems

-----------------------------------------------------------------------------
(* A set of naturals has a least one.                                       *)
LEMMA LeastNatural ==
  ASSUME NEW T \in SUBSET Nat, T # {}
  PROVE  \E n \in T : \A m \in T : n <= m
<1> DEFINE R == OpToRel(<, Nat)
<1>1. IsWellFoundedOn(R, Nat)
  BY NatLessThanWellFounded
<1>2. \A m, n \in Nat : m < n => <<m, n>> \in R
  BY DEF OpToRel
<1> HIDE DEF R
<1>3. PICK n \in T : \A m \in T : <<m, n>> \notin R
  BY <1>1, WFMin
<1>4. ASSUME NEW m \in T PROVE n <= m
  <2>1. m \in Nat /\ n \in Nat
    OBVIOUS
  <2>2. ~(m < n)
    BY <1>2, <1>3, <2>1
  <2> QED
    BY <2>1, <2>2
<1> QED BY <1>4

ChosenOf(s) == CHOOSE x \in s : TRUE

UpTo(S, n) == {s \in SUBSET S : Cardinality(s) <= n}

(* it adds up F over the sets of D.  *)
AddsUp(it, F, D) ==
  it = [s \in D |-> IF s = {} THEN 0 ELSE F[ChosenOf(s)] + it[s \ {ChosenOf(s)}]]

(* A sum is what a function that adds up over all subsets says of the set.  *)
LEMMA SumDef ==
  ASSUME NEW F, NEW S
  PROVE  SumFunctionOnSet(F, S) = (CHOOSE it : AddsUp(it, F, SUBSET S))[S]
BY DEF SumFunctionOnSet, FoldFunctionOnSet, MapThenFoldSet, AddsUp, ChosenOf

(* A finite set without one of its members is a smaller one.                *)
LEMMA OneLess ==
  ASSUME NEW S, IsFiniteSet(S), NEW s \in SUBSET S, s # {}
  PROVE  /\ ChosenOf(s) \in s
         /\ Cardinality(s) \in Nat \ {0}
         /\ s \ {ChosenOf(s)} \in SUBSET S
         /\ Cardinality(s \ {ChosenOf(s)}) = Cardinality(s) - 1
<1>1. ChosenOf(s) \in s
  BY DEF ChosenOf
<1>2. IsFiniteSet(s)
  BY FS_Subset
<1>3. Cardinality(s) \in Nat /\ Cardinality(s) # 0
  BY <1>2, FS_CardinalityType, FS_EmptySet
<1> QED
  BY <1>1, <1>2, <1>3, FS_RemoveElement

(* Some function adds up over the subsets of at most n members.             *)
LEMMA AdderUpTo ==
  ASSUME NEW F, NEW S, IsFiniteSet(S)
  PROVE  \A n \in Nat : \E it : AddsUp(it, F, UpTo(S, n))
<1> DEFINE Bad == {n \in Nat : ~\E it : AddsUp(it, F, UpTo(S, n))}
<1> SUFFICES ASSUME Bad # {} PROVE FALSE
  OBVIOUS
<1> PICK n \in Bad : \A m \in Bad : n <= m
  BY LeastNatural
<1> n \in Nat /\ ~\E it : AddsUp(it, F, UpTo(S, n))
  OBVIOUS
<1> \A s \in SUBSET S : Cardinality(s) \in Nat
  BY FS_Subset, FS_CardinalityType
<1>1. CASE n = 0
  <2>1. ASSUME NEW s \in UpTo(S, 0) PROVE s = {}
    BY FS_Subset, FS_EmptySet DEF UpTo
  <2>2. AddsUp([s \in UpTo(S, 0) |-> 0], F, UpTo(S, 0))
    BY <2>1 DEF AddsUp
  <2> QED
    BY <1>1, <2>2
<1>2. CASE n # 0
  <2>1. n - 1 \in Nat /\ n - 1 \notin Bad
    BY <1>2
  <2> PICK less : AddsUp(less, F, UpTo(S, n - 1))
    BY <2>1
  <2> DEFINE it == [s \in UpTo(S, n) |->
                      IF Cardinality(s) <= n - 1 THEN less[s]
                      ELSE F[ChosenOf(s)] + less[s \ {ChosenOf(s)}]]
             step == [s \in UpTo(S, n) |->
                      IF s = {} THEN 0 ELSE F[ChosenOf(s)] + it[s \ {ChosenOf(s)}]]
  <2>2. ASSUME NEW s \in UpTo(S, n), s = {} PROVE it[s] = 0
    BY <2>1, <2>2, FS_EmptySet DEF AddsUp, UpTo
  <2>3. ASSUME NEW s \in UpTo(S, n), s # {}
        PROVE  it[s] = F[ChosenOf(s)] + it[s \ {ChosenOf(s)}]
    <3> DEFINE t == s \ {ChosenOf(s)}
    <3>1. /\ t \in SUBSET S
          /\ Cardinality(s) \in Nat \ {0} /\ Cardinality(s) <= n
          /\ Cardinality(t) = Cardinality(s) - 1
      BY <2>3, OneLess DEF UpTo
    <3>2. t \in UpTo(S, n) /\ Cardinality(t) <= n - 1 /\ t \in UpTo(S, n - 1)
      BY <3>1 DEF UpTo
    <3> HIDE DEF t
    <3>3. it[t] = less[t]
      BY <3>2
    <3>4. CASE Cardinality(s) <= n - 1
      <4>1. s \in UpTo(S, n - 1)
        BY <3>4 DEF UpTo
      <4>2. less[s] = F[ChosenOf(s)] + less[s \ {ChosenOf(s)}]
        BY <2>3, <4>1 DEF AddsUp
      <4> QED
        BY <3>3, <3>4, <4>2 DEF t
    <3>5. CASE ~(Cardinality(s) <= n - 1)
      BY <3>3, <3>5 DEF t
    <3> QED
      BY <3>4, <3>5
  <2>4. it = step
    BY <2>2, <2>3
  <2>5. AddsUp(it, F, UpTo(S, n))
    BY <2>4 DEF AddsUp
  <2> QED
    BY <2>5
<1> QED
  BY <1>1, <1>2

(* So some function adds up over all of them, and gives the sum.            *)
LEMMA Adder ==
  ASSUME NEW F, NEW S, IsFiniteSet(S)
  PROVE  \E it : /\ AddsUp(it, F, SUBSET S)
                 /\ it[S] = SumFunctionOnSet(F, S)
<1>1. Cardinality(S) \in Nat
  BY FS_CardinalityType
<1>2. UpTo(S, Cardinality(S)) = SUBSET S
  BY FS_Subset DEF UpTo
<1>3. \E it : AddsUp(it, F, UpTo(S, Cardinality(S)))
  BY <1>1, AdderUpTo
<1> QED
  BY <1>2, <1>3, SumDef

(* Of a set of subsets of a finite set, one has the fewest members.         *)
LEMMA LeastSet ==
  ASSUME NEW S, IsFiniteSet(S), NEW B \in SUBSET (SUBSET S), B # {}
  PROVE  \E s \in B : \A t \in SUBSET S : t \in B => Cardinality(s) <= Cardinality(t)
<1>1. \A t \in SUBSET S : Cardinality(t) \in Nat
  BY FS_Subset, FS_CardinalityType
<1> DEFINE T == {Cardinality(t) : t \in B}
<1>2. T \in SUBSET Nat /\ T # {}
  BY <1>1
<1>3. PICK n \in T : \A m \in T : n <= m
  BY <1>2, LeastNatural
<1> QED
  BY <1>3

(* What adds up depends on the values of the members only.                  *)
LEMMA AddersAgree ==
  ASSUME NEW F, NEW G, NEW S, NEW T \in SUBSET S, IsFiniteSet(S), NEW it, NEW jt,
         AddsUp(it, F, SUBSET S), AddsUp(jt, G, SUBSET T),
         \A x \in T : F[x] = G[x]
  PROVE  it[T] = jt[T]
<1> DEFINE Bad == {s \in SUBSET T : it[s] # jt[s]}
<1> SUFFICES ASSUME Bad # {} PROVE FALSE
  OBVIOUS
<1>0. IsFiniteSet(T)
  BY FS_Subset
<1>1. PICK s \in Bad : \A t \in SUBSET T : t \in Bad => Cardinality(s) <= Cardinality(t)
  BY <1>0, LeastSet
<1>2. s # {}
  BY DEF AddsUp
<1> DEFINE t == s \ {ChosenOf(s)}
<1>3. /\ ChosenOf(s) \in T /\ t \in SUBSET T /\ Cardinality(s) \in Nat
      /\ Cardinality(t) = Cardinality(s) - 1
  BY <1>0, <1>2, OneLess
<1>4. it[t] = jt[t]
  BY <1>1, <1>3
<1>5. it[s] = F[ChosenOf(s)] + it[t] /\ jt[s] = G[ChosenOf(s)] + jt[t]
  BY <1>2 DEF AddsUp
<1> QED
  BY <1>3, <1>4, <1>5

(* Nothing adds up to zero.                                                 *)
LEMMA SumEmpty == ASSUME NEW F PROVE SumFunctionOnSet(F, {}) = 0
<1>1. IsFiniteSet({})
  BY FS_EmptySet
<1>2. PICK it : AddsUp(it, F, SUBSET {}) /\ it[{}] = SumFunctionOnSet(F, {})
  BY <1>1, Adder
<1> QED
  BY <1>2 DEF AddsUp

(* A sum is one member more than the sum of the others.                     *)
LEMMA SumStep ==
  ASSUME NEW F, NEW S, IsFiniteSet(S), S # {}
  PROVE  SumFunctionOnSet(F, S)
           = F[ChosenOf(S)] + SumFunctionOnSet(F, S \ {ChosenOf(S)})
<1> PICK T \in SUBSET S : T = S \ {ChosenOf(S)}
  OBVIOUS
<1>1. IsFiniteSet(T)
  BY FS_Subset
<1>2. PICK it : AddsUp(it, F, SUBSET S) /\ it[S] = SumFunctionOnSet(F, S)
  BY Adder
<1>3. PICK jt : AddsUp(jt, F, SUBSET T) /\ jt[T] = SumFunctionOnSet(F, T)
  BY <1>1, Adder
<1>4. it[T] = jt[T]
  <2>1. \A G : (G = F /\ AddsUp(jt, G, SUBSET T)) => it[T] = jt[T]
    BY <1>2, AddersAgree
  <2> QED
    BY <1>3, <2>1
<1>5. it[S] = F[ChosenOf(S)] + it[T]
  BY <1>2 DEF AddsUp
<1> QED
  BY <1>2, <1>3, <1>4, <1>5

(* Sums of the same values are the same.                                    *)
LEMMA SumSame ==
  ASSUME NEW F, NEW G, NEW S, IsFiniteSet(S), \A x \in S : F[x] = G[x]
  PROVE  SumFunctionOnSet(F, S) = SumFunctionOnSet(G, S)
<1>1. PICK it : AddsUp(it, F, SUBSET S) /\ it[S] = SumFunctionOnSet(F, S)
  BY Adder
<1>2. PICK jt : AddsUp(jt, G, SUBSET S) /\ jt[S] = SumFunctionOnSet(G, S)
  BY Adder
<1> QED
  BY <1>1, <1>2, AddersAgree

(* A sum of integers is an integer.                                         *)
LEMMA SumInt ==
  ASSUME NEW F, NEW S, IsFiniteSet(S), \A x \in S : F[x] \in Int
  PROVE  SumFunctionOnSet(F, S) \in Int
<1> DEFINE Bad == {s \in SUBSET S : SumFunctionOnSet(F, s) \notin Int}
<1> SUFFICES ASSUME Bad # {} PROVE FALSE
  OBVIOUS
<1>1. PICK s \in Bad : \A t \in SUBSET S : t \in Bad => Cardinality(s) <= Cardinality(t)
  BY LeastSet
<1>2. s # {}
  BY SumEmpty
<1> DEFINE t == s \ {ChosenOf(s)}
<1>3. /\ ChosenOf(s) \in S /\ t \in SUBSET S /\ Cardinality(s) \in Nat
      /\ Cardinality(t) = Cardinality(s) - 1
  BY <1>2, OneLess
<1>4. SumFunctionOnSet(F, t) \in Int
  BY <1>1, <1>3
<1>5. SumFunctionOnSet(F, s) = F[ChosenOf(s)] + SumFunctionOnSet(F, t)
  BY <1>2, SumStep, FS_Subset
<1> QED
  BY <1>3, <1>4, <1>5

(* It does not matter which member is taken off.                            *)
LEMMA SumRemove ==
  ASSUME NEW F, NEW S, IsFiniteSet(S), \A x \in S : F[x] \in Int, NEW x \in S
  PROVE  SumFunctionOnSet(F, S) = F[x] + SumFunctionOnSet(F, S \ {x})
<1> DEFINE Bad == {s \in SUBSET S : \E y \in s :
                     SumFunctionOnSet(F, s) # F[y] + SumFunctionOnSet(F, s \ {y})}
<1> SUFFICES ASSUME Bad # {} PROVE FALSE
  OBVIOUS
<1>1. PICK s \in Bad : \A t \in SUBSET S : t \in Bad => Cardinality(s) <= Cardinality(t)
  BY LeastSet
<1>2. PICK y \in s : SumFunctionOnSet(F, s) # F[y] + SumFunctionOnSet(F, s \ {y})
  OBVIOUS
<1> DEFINE z == ChosenOf(s)
<1>3. IsFiniteSet(s) /\ s # {} /\ s \in SUBSET S /\ z \in s
  BY <1>2, FS_Subset, OneLess
<1>4. SumFunctionOnSet(F, s) = F[z] + SumFunctionOnSet(F, s \ {z})
  BY <1>3, SumStep
<1> HIDE DEF z
<1>5. y # z
  BY <1>2, <1>4
<1>6. ASSUME NEW u \in s PROVE s \ {u} \notin Bad
  <2>1. Cardinality(s \ {u}) = Cardinality(s) - 1 /\ Cardinality(s) \in Nat
    BY <1>3, FS_RemoveElement, FS_CardinalityType
  <2> QED
    BY <1>1, <1>3, <2>1
<1>7. SumFunctionOnSet(F, s \ {z}) = F[y] + SumFunctionOnSet(F, (s \ {z}) \ {y})
  BY <1>3, <1>5, <1>6
<1>8. SumFunctionOnSet(F, s \ {y}) = F[z] + SumFunctionOnSet(F, (s \ {y}) \ {z})
  BY <1>3, <1>5, <1>6
<1>9. SumFunctionOnSet(F, (s \ {y}) \ {z}) = SumFunctionOnSet(F, (s \ {z}) \ {y})
  <2>1. (s \ {y}) \ {z} = (s \ {z}) \ {y}
    OBVIOUS
  <2> QED
    BY <2>1
<1>10. F[y] \in Int /\ F[z] \in Int /\ SumFunctionOnSet(F, (s \ {z}) \ {y}) \in Int
  BY <1>3, SumInt, FS_Subset
<1> QED
  BY <1>2, <1>4, <1>7, <1>8, <1>9, <1>10

(* A member that joins adds its value.                                      *)
LEMMA SumAdd ==
  ASSUME NEW F, NEW S, IsFiniteSet(S), NEW x, x \notin S,
         \A y \in S \union {x} : F[y] \in Int
  PROVE  SumFunctionOnSet(F, S \union {x}) = F[x] + SumFunctionOnSet(F, S)
<1>1. IsFiniteSet(S \union {x}) /\ (S \union {x}) \ {x} = S
  BY FS_AddElement
<1> QED
  BY <1>1, SumRemove

(* A member that changes changes the sum by as much.                        *)
LEMMA SumUpdate ==
  ASSUME NEW F, NEW G, NEW S, IsFiniteSet(S), NEW x \in S,
         \A y \in S : F[y] \in Int /\ G[y] \in Int,
         \A y \in S \ {x} : F[y] = G[y]
  PROVE  SumFunctionOnSet(G, S) = SumFunctionOnSet(F, S) - F[x] + G[x]
<1> DEFINE T == S \ {x}
<1>1. IsFiniteSet(T)
  BY FS_Subset
<1>2. SumFunctionOnSet(F, T) = SumFunctionOnSet(G, T) /\ SumFunctionOnSet(F, T) \in Int
  BY <1>1, SumSame, SumInt
<1>3. /\ SumFunctionOnSet(F, S) = F[x] + SumFunctionOnSet(F, T)
      /\ SumFunctionOnSet(G, S) = G[x] + SumFunctionOnSet(G, T)
  BY SumRemove
<1> QED
  BY <1>2, <1>3

(* Values that are each at most as large add up to at most as much.         *)
LEMMA SumAtMost ==
  ASSUME NEW F, NEW G, NEW S, IsFiniteSet(S),
         \A x \in S : F[x] \in Int /\ G[x] \in Int /\ F[x] <= G[x]
  PROVE  SumFunctionOnSet(F, S) <= SumFunctionOnSet(G, S)
<1> DEFINE Bad == {s \in SUBSET S : ~(SumFunctionOnSet(F, s) <= SumFunctionOnSet(G, s))}
<1> SUFFICES ASSUME Bad # {} PROVE FALSE
  OBVIOUS
<1>1. PICK s \in Bad : \A t \in SUBSET S : t \in Bad => Cardinality(s) <= Cardinality(t)
  BY LeastSet
<1>2. s # {}
  BY SumEmpty
<1> DEFINE t == s \ {ChosenOf(s)}
<1>3. /\ ChosenOf(s) \in S /\ t \in SUBSET S /\ Cardinality(s) \in Nat
      /\ Cardinality(t) = Cardinality(s) - 1
  BY <1>2, OneLess
<1>4. SumFunctionOnSet(F, t) <= SumFunctionOnSet(G, t)
  BY <1>1, <1>3
<1>5. /\ SumFunctionOnSet(F, s) = F[ChosenOf(s)] + SumFunctionOnSet(F, t)
      /\ SumFunctionOnSet(G, s) = G[ChosenOf(s)] + SumFunctionOnSet(G, t)
  BY <1>2, SumStep, FS_Subset
<1>6. SumFunctionOnSet(F, t) \in Int /\ SumFunctionOnSet(G, t) \in Int
  BY <1>3, SumInt, FS_Subset
<1> QED
  BY <1>3, <1>4, <1>5, <1>6

(* One that is smaller by d makes the sum smaller by d.                     *)
LEMMA SumGap ==
  ASSUME NEW F, NEW G, NEW S, IsFiniteSet(S),
         \A y \in S : F[y] \in Int /\ G[y] \in Int /\ F[y] <= G[y],
         NEW x \in S, NEW d \in Int, F[x] + d <= G[x]
  PROVE  SumFunctionOnSet(F, S) + d <= SumFunctionOnSet(G, S)
<1> DEFINE T == S \ {x}
<1>1. IsFiniteSet(T)
  BY FS_Subset
<1>2. SumFunctionOnSet(F, T) <= SumFunctionOnSet(G, T)
  BY <1>1, SumAtMost
<1>3. SumFunctionOnSet(F, T) \in Int /\ SumFunctionOnSet(G, T) \in Int
  BY <1>1, SumInt
<1>4. /\ SumFunctionOnSet(F, S) = F[x] + SumFunctionOnSet(F, T)
      /\ SumFunctionOnSet(G, S) = G[x] + SumFunctionOnSet(G, T)
  BY SumRemove
<1> QED
  BY <1>2, <1>3, <1>4

(* Members of value zero do not count.                                      *)
LEMMA SumWiden ==
  ASSUME NEW F, NEW S, IsFiniteSet(S), NEW T \in SUBSET S,
         \A x \in S : F[x] \in Int, \A x \in S \ T : F[x] = 0
  PROVE  SumFunctionOnSet(F, S) = SumFunctionOnSet(F, T)
<1> DEFINE Bad == {s \in SUBSET S : T \subseteq s /\ SumFunctionOnSet(F, s) # SumFunctionOnSet(F, T)}
<1> SUFFICES ASSUME Bad # {} PROVE FALSE
  OBVIOUS
<1>1. PICK s \in Bad : \A t \in SUBSET S : t \in Bad => Cardinality(s) <= Cardinality(t)
  BY LeastSet
<1>2. PICK x \in s : x \notin T
  OBVIOUS
<1>3. IsFiniteSet(s) /\ Cardinality(s \ {x}) = Cardinality(s) - 1 /\ Cardinality(s) \in Nat
  BY FS_Subset, FS_RemoveElement, FS_CardinalityType
<1>4. SumFunctionOnSet(F, s \ {x}) = SumFunctionOnSet(F, T)
  BY <1>1, <1>2, <1>3
<1>5. SumFunctionOnSet(F, s) = F[x] + SumFunctionOnSet(F, s \ {x})
  BY <1>3, SumRemove
<1>6. SumFunctionOnSet(F, s \ {x}) \in Int
  BY <1>3, SumInt, FS_Subset
<1> QED
  BY <1>2, <1>4, <1>5, <1>6

-----------------------------------------------------------------------------
(* What an account is exposed to: its rows that have not run out, and, once *)
(* such a row is gone, the commits that have read it and can still bill the *)
(* request.                                                                 *)
OnRow(r, a) ==
  reservations[r] # None /\ reservations[r].account = a /\ ~reservations[r].expired

Hands(r, a) ==
  {c \in Calls : pc[c] \in Committing /\ request[c] = r /\ hold[c].account = a}

Exposing(r, a) ==
  IF OnRow(r, a) THEN reservations[r]
  ELSE IF ~Billed(r) /\ Hands(r, a) # {} THEN hold[CHOOSE c \in Hands(r, a) : TRUE]
  ELSE None

Exposed(a, type) ==
  [r \in Requests |-> IF Exposing(r, a) # None /\ Exposing(r, a).type = type
                      THEN Exposing(r, a).amount ELSE 0]

Exposure(a, type) == SumFunctionOnSet(Exposed(a, type), Requests)

Balance(a) == BalanceAt(a, Len(events))
FreeReal(a) == Balance(a).real - Exposure(a, "pay_as_you_go")
FreePrepaid(a) == Balance(a).prepaid - Exposure(a, "prepaid")

DefaultRow(row) == row # None /\ row.type = "pay_as_you_go" /\ row.amount = DefaultPrice

DefaultBilled(a) ==
  \E i \in DOMAIN events : events[i].account = a /\ events[i].amount = -DefaultPrice

DefaultExposed(a) ==
  DefaultBilled(a) \/ \E r \in Requests : DefaultRow(Exposing(r, a))

-----------------------------------------------------------------------------
(* The invariant.                                                           *)

(* Commits of one request that have read rows of the account have read the  *)
(* same terms, and so has the row if it is still there, or there again.     *)
HoldsAgree(a) ==
  \A c \in Calls : Holds(c, a) =>
    /\ OnRow(request[c], a) => hold[c] = reservations[request[c]]
    /\ \A d \in Hands(request[c], a) : hold[d] = hold[c]

(* The row a commit has deleted does not come back while it bills.          *)
DeletedStays(a) ==
  \A c \in Calls : pc[c] = "bill" /\ hold[c].account = a => ~OnRow(request[c], a)

(* A call of Reserve is about to insert a row of its own account.           *)
InsertsOwn ==
  \A c \in Calls : pc[c] = "insert" => hold[c].account = account[c] /\ ~hold[c].expired

(* The balance a call of Reserve has read is at most the one there is now.  *)
Behind(a, n) ==
  /\ n \in 0..Len(events)
  /\ BalanceAt(a, n).real <= Balance(a).real
  /\ BalanceAt(a, n).prepaid <= Balance(a).prepaid

SeenBehind(a) ==
  \A c \in Calls : pc[c] = "reservations" /\ account[c] = a => Behind(a, seen[c])

(* What a call of Reserve is about to insert is covered.                    *)
Affordable(row) ==
  \/ row.type = "prepaid" /\ FreePrepaid(row.account) >= row.amount
  \/ row.type = "pay_as_you_go" /\ FreeReal(row.account) >= row.amount
  \/ DefaultRow(row) /\ FreeReal(row.account) > 0

Covered(a) ==
  \A c \in Calls : pc[c] = "insert" /\ account[c] = a => Affordable(hold[c])

(* Counting commits under way, the account is not overdrawn.                *)
Solvent(a) ==
  /\ FreePrepaid(a) >= 0
  /\ \/ FreeReal(a) >= 0
     \/ FreeReal(a) > -DefaultPrice /\ DefaultExposed(a)

HoldsInv(a) == HoldsAgree(a) /\ DeletedStays(a) /\ InsertsOwn
BudgetInv(a) == SeenBehind(a) /\ Covered(a) /\ Solvent(a)

-----------------------------------------------------------------------------
(* The amounts of the first n events of a list that are of the account and  *)
(* of one of the types.                                                     *)
Picked(es, a, types, n) == {i \in 1..n : es[i].account = a /\ es[i].type \in types}
AmountsOf(es) == [i \in DOMAIN es |-> es[i].amount]
TotalOf(es, a, types, n) == SumFunctionOnSet(AmountsOf(es), Picked(es, a, types, n))

(* The events picked are finitely many, with integer amounts.               *)
LEMMA PickedType ==
  ASSUME NEW es \in Seq(Events), NEW a, NEW types, NEW n \in 0..Len(es)
  PROVE  /\ IsFiniteSet(Picked(es, a, types, n))
         /\ \A i \in Picked(es, a, types, n) :
              i \in 1..Len(es) /\ AmountsOf(es)[i] = es[i].amount /\ AmountsOf(es)[i] \in Int
         /\ TotalOf(es, a, types, n) \in Int
<1>1. Len(es) \in Nat /\ DOMAIN es = 1..Len(es) /\ \A i \in 1..Len(es) : es[i] \in Events
  BY LenProperties
<1>2. IsFiniteSet(Picked(es, a, types, n))
  <2>1. IsFiniteSet(1..n)
    BY <1>1, FS_Interval
  <2>2. Picked(es, a, types, n) \subseteq 1..n
    BY DEF Picked
  <2> QED
    BY <2>1, <2>2, FS_Subset
<1>3. \A i \in Picked(es, a, types, n) : i \in 1..Len(es)
  BY <1>1 DEF Picked
<1>4. \A i \in 1..Len(es) : AmountsOf(es)[i] = es[i].amount /\ AmountsOf(es)[i] \in Int
  BY <1>1 DEF AmountsOf, Events
<1> QED
  BY <1>2, <1>3, <1>4, SumInt DEF TotalOf

(* Balances are integers.                                                   *)
LEMMA BalanceInt ==
  ASSUME TypeOK, NEW a \in Accounts, NEW n \in 0..Len(events)
  PROVE  BalanceAt(a, n).real \in Int /\ BalanceAt(a, n).prepaid \in Int
<1>1. ASSUME NEW types PROVE Total(a, types, n) \in Int
  <2>1. events \in Seq(Events)
    BY DEF TypeOK
  <2>2. TotalOf(events, a, types, n) \in Int
    BY <2>1, PickedType
  <2> QED
    BY <2>2 DEF Total, TotalOf, Picked, AmountsOf
<1>2. Opening[a].real \in Int /\ Opening[a].prepaid \in Int
  BY OpeningIsBalance
<1> QED
  BY <1>1, <1>2 DEF BalanceAt

(* An event that is added counts from then on, if it is one of those summed *)
(* up; what the earlier events add up to is what it was.                    *)
LEMMA TotalAppend ==
  ASSUME NEW es \in Seq(Events), NEW e \in Events, NEW a, NEW types
  PROVE  /\ \A n \in 0..Len(es) :
              TotalOf(Append(es, e), a, types, n) = TotalOf(es, a, types, n)
         /\ TotalOf(Append(es, e), a, types, Len(es) + 1) = TotalOf(es, a, types, Len(es)) +
              IF e.account = a /\ e.type \in types THEN e.amount ELSE 0
<1> PICK fs : fs = Append(es, e)
  OBVIOUS
<1> PICK len \in Nat : len = Len(es)
  BY LenProperties
<1>1. /\ fs \in Seq(Events) /\ Len(fs) = len + 1
      /\ \A i \in 1..len : fs[i] = es[i]
      /\ fs[len + 1] = e
  BY AppendProperties
<1>2. ASSUME NEW n \in 0..len
      PROVE  TotalOf(fs, a, types, n) = TotalOf(es, a, types, n)
  <2>1. Picked(fs, a, types, n) = Picked(es, a, types, n)
    BY <1>1 DEF Picked
  <2>2. IsFiniteSet(Picked(es, a, types, n))
    BY PickedType
  <2>3. ASSUME NEW i \in Picked(es, a, types, n) PROVE AmountsOf(fs)[i] = AmountsOf(es)[i]
    <3>1. DOMAIN fs = 1..(len + 1)
      BY <1>1, LenProperties
    <3>2. i \in 1..len /\ AmountsOf(es)[i] = es[i].amount
      BY PickedType
    <3>3. AmountsOf(fs)[i] = fs[i].amount
      BY <3>1, <3>2 DEF AmountsOf
    <3> QED
      BY <1>1, <3>2, <3>3
  <2> QED
    BY <2>1, <2>2, <2>3, SumSame DEF TotalOf
<1>3. \A i \in Picked(fs, a, types, len + 1) : AmountsOf(fs)[i] \in Int
  <2>1. len + 1 \in 0..Len(fs)
    BY <1>1
  <2> QED
    BY <1>1, <2>1, PickedType
<1>4. AmountsOf(fs)[len + 1] = e.amount /\ e.amount \in Int
  <2>1. DOMAIN fs = 1..(len + 1)
    BY <1>1, LenProperties
  <2> QED
    BY <1>1, <2>1 DEF AmountsOf, Events
<1>5. /\ IsFiniteSet(Picked(fs, a, types, len))
      /\ \A i \in Picked(fs, a, types, len) : AmountsOf(fs)[i] \in Int
      /\ len + 1 \notin Picked(fs, a, types, len)
      /\ TotalOf(fs, a, types, len) = TotalOf(es, a, types, len)
      /\ TotalOf(fs, a, types, len) \in Int
  <2>1. len \in 0..Len(fs) /\ len \in 0..len
    BY <1>1
  <2>2. len + 1 \notin Picked(fs, a, types, len)
    BY DEF Picked
  <2> QED
    BY <1>1, <1>2, <2>1, <2>2, PickedType
<1>6. CASE e.account = a /\ e.type \in types
  <2>1. Picked(fs, a, types, len + 1) = Picked(fs, a, types, len) \union {len + 1}
    BY <1>1, <1>6 DEF Picked
  <2> QED
    BY <1>1, <1>2, <1>4, <1>5, <1>6, <2>1, SumAdd DEF TotalOf
<1>7. CASE ~(e.account = a /\ e.type \in types)
  <2>1. Picked(fs, a, types, len + 1) = Picked(fs, a, types, len)
    BY <1>1, <1>7 DEF Picked
  <2> QED
    BY <1>1, <1>2, <1>5, <1>7, <2>1 DEF TotalOf
<1> QED
  BY <1>2, <1>6, <1>7

-----------------------------------------------------------------------------
(* What a request exposes an account to: its row, else what a commit has in *)
(* hand, unless the request is billed.                                      *)
ExposingForms(r, a) ==
  /\ OnRow(r, a) => Exposing(r, a) = reservations[r]
  /\ \A c \in Hands(r, a) : ~OnRow(r, a) /\ ~Billed(r) => Exposing(r, a) = hold[c]
  /\ ~OnRow(r, a) /\ (Billed(r) \/ Hands(r, a) = {}) => Exposing(r, a) = None

AgreedExposing == \A a : HoldsAgree(a) => \A r : ExposingForms(r, a)

(* So it is, whichever of its commits is chosen.                            *)
LEMMA ExposingIs == AgreedExposing
<1> SUFFICES ASSUME NEW a, HoldsAgree(a), NEW r PROVE ExposingForms(r, a)
  BY DEF AgreedExposing
<1>1. ASSUME NEW c \in Hands(r, a), ~OnRow(r, a), ~Billed(r)
      PROVE  Exposing(r, a) = hold[c]
  <2> PICK d \in Hands(r, a) : d = CHOOSE x \in Hands(r, a) : TRUE
    OBVIOUS
  <2>1. Exposing(r, a) = hold[d]
    BY <1>1 DEF Exposing
  <2>2. hold[d] = hold[c]
    BY DEF HoldsAgree, Hands, Holds
  <2> QED
    BY <2>1, <2>2
<1> QED BY <1>1 DEF Exposing, ExposingForms

(* The same, after a step.                                                  *)
LEMMA ExposingThen == AgreedExposing'
BY ExposingIs, PTL

(* A step that puts no row there and takes none in hand exposes no more.    *)
LEMMA ExposesNoMore ==
  ASSUME NEW r, NEW a, HoldsAgree(a), HoldsAgree(a)',
         OnRow(r, a)' => OnRow(r, a) /\ reservations'[r] = reservations[r],
         Billed(r) => Billed(r)',
         \A c \in Hands(r, a)' : OnRow(r, a)' \/ (c \in Hands(r, a) /\ hold'[c] = hold[c])
  PROVE  Exposing(r, a)' \in {Exposing(r, a), None}
<1>1. CASE OnRow(r, a)'
  BY <1>1, ExposingIs, ExposingThen DEF AgreedExposing, ExposingForms
<1>2. CASE ~OnRow(r, a)' /\ (Billed(r)' \/ Hands(r, a)' = {})
  BY <1>2, ExposingThen DEF AgreedExposing, ExposingForms
<1>3. CASE ~OnRow(r, a)' /\ ~Billed(r)' /\ Hands(r, a)' # {}
  <2>1. PICK c \in Hands(r, a)' : TRUE
    BY <1>3
  <2>2. Exposing(r, a)' = hold[c] /\ c \in Hands(r, a)
    BY <1>3, ExposingThen DEF AgreedExposing, ExposingForms
  <2>3. CASE OnRow(r, a)
    <3>1. hold[c] = reservations[r]
      BY <2>2, <2>3 DEF HoldsAgree, Hands, Holds
    <3> QED
      BY <2>2, <2>3, <3>1, ExposingIs DEF AgreedExposing, ExposingForms
  <2>4. CASE ~OnRow(r, a)
    BY <1>3, <2>2, <2>4, ExposingIs DEF AgreedExposing, ExposingForms
  <2> QED
    BY <2>3, <2>4
<1> QED
  BY <1>1, <1>2, <1>3

(* A step that leaves the row and the commits in progress leaves it.        *)
LEMMA ExposesTheSame ==
  ASSUME NEW r, NEW a, HoldsAgree(a), HoldsAgree(a)',
         OnRow(r, a)' <=> OnRow(r, a),
         OnRow(r, a) => reservations'[r] = reservations[r],
         Billed(r)' <=> Billed(r),
         Hands(r, a)' = Hands(r, a), \A c \in Hands(r, a) : hold'[c] = hold[c]
  PROVE  Exposing(r, a)' = Exposing(r, a)
<1>1. CASE OnRow(r, a)
  BY <1>1, ExposingIs, ExposingThen DEF AgreedExposing, ExposingForms
<1>2. CASE ~OnRow(r, a) /\ (Billed(r) \/ Hands(r, a) = {})
  BY <1>2, ExposingIs, ExposingThen DEF AgreedExposing, ExposingForms
<1>3. CASE ~OnRow(r, a) /\ ~Billed(r) /\ Hands(r, a) # {}
  <2>1. PICK c \in Hands(r, a) : TRUE
    BY <1>3
  <2> QED
    BY <1>3, <2>1, ExposingIs, ExposingThen DEF AgreedExposing, ExposingForms
<1> QED
  BY <1>1, <1>2, <1>3

(* What is exposed is a row, so an amount.                                  *)
LEMMA ExposingType ==
  ASSUME TypeOK, ArgumentsInv, NEW r \in Requests, NEW a
  PROVE  Exposing(r, a) \in Rows \union {None}
<1>1. \A c \in Hands(r, a) : hold[c] \in Rows
  BY DEF Hands, ArgumentsInv, Holding
<1>2. reservations[r] \in Rows \union {None}
  BY DEF TypeOK
<1> QED
  BY <1>1, <1>2 DEF Exposing

(* What a row holds.                                                        *)
LEMMA RowAmount ==
  ASSUME NEW row \in Rows
  PROVE  row.amount \in Nat /\ row.type \in ChargeTypes /\ row.account \in Accounts
BY PricesAreAmounts DEF Rows, Amounts

(* What is free, billed and exposed are integers.                           *)
FreeTypes ==
  \A a \in Accounts :
    /\ FreeReal(a) \in Int /\ FreePrepaid(a) \in Int
    /\ Balance(a).real \in Int /\ Balance(a).prepaid \in Int
    /\ \A type \in ChargeTypes :
         Exposure(a, type) \in Int /\ \A r \in Requests : Exposed(a, type)[r] \in Nat

(* So they are.                                                             *)
LEMMA FreeType == TypeOK /\ ArgumentsInv => FreeTypes
<1> SUFFICES ASSUME TypeOK, ArgumentsInv, NEW a \in Accounts
             PROVE  /\ FreeReal(a) \in Int /\ FreePrepaid(a) \in Int
                    /\ Balance(a).real \in Int /\ Balance(a).prepaid \in Int
                    /\ \A type \in ChargeTypes :
                         /\ Exposure(a, type) \in Int
                         /\ \A r \in Requests : Exposed(a, type)[r] \in Nat
  BY DEF FreeTypes
<1>1. ASSUME NEW type PROVE \A r \in Requests : Exposed(a, type)[r] \in Nat
  BY ExposingType, RowAmount DEF Exposed
<1>2. ASSUME NEW type PROVE Exposure(a, type) \in Int
  BY <1>1, SumInt, RequestIdsAreFinite DEF Exposure
<1>3. Len(events) \in 0..Len(events)
  BY LenProperties DEF TypeOK
<1>4. Balance(a).real \in Int /\ Balance(a).prepaid \in Int
  BY <1>3, BalanceInt DEF Balance
<1> QED
  BY <1>1, <1>2, <1>4 DEF FreeReal, FreePrepaid

(* The same, after a step.                                                  *)
LEMMA FreeTypeThen == (TypeOK /\ ArgumentsInv)' => FreeTypes'
BY FreeType, PTL

-----------------------------------------------------------------------------
(* A step keeps an account solvent: no less is free, and a charge at the    *)
(* default price stays exposed or billed, or what it held is free again.    *)
Keeps(a) ==
  /\ FreePrepaid(a)' >= FreePrepaid(a)
  /\ FreeReal(a)' >= FreeReal(a)
  /\ DefaultExposed(a) =>
       DefaultExposed(a)' \/ FreeReal(a)' >= FreeReal(a) + DefaultPrice

(* An account that is kept stays solvent.                                   *)
LEMMA KeepsSolvent ==
  ASSUME FreeTypes, FreeTypes', NEW a \in Accounts, Solvent(a), Keeps(a)
  PROVE  Solvent(a)'
<1>1. /\ FreeReal(a) \in Int /\ FreePrepaid(a) \in Int
      /\ FreeReal(a)' \in Int /\ FreePrepaid(a)' \in Int
      /\ DefaultPrice \in Nat
  BY PricesAreAmounts DEF FreeTypes
<1> QED
  BY <1>1 DEF Solvent, Keeps

(* So does every step that exposes no more and takes nothing off.           *)
LEMMA NoMoreKeeps ==
  ASSUME FreeTypes, FreeTypes', NEW a \in Accounts,
         \A r \in Requests : Exposing(r, a)' \in {Exposing(r, a), None},
         Balance(a)'.real >= Balance(a).real,
         Balance(a)'.prepaid >= Balance(a).prepaid,
         DefaultBilled(a) => DefaultBilled(a)'
  PROVE  Keeps(a)
<1>1. ASSUME NEW type \in ChargeTypes
      PROVE  /\ \A r \in Requests : Exposed(a, type)'[r] <= Exposed(a, type)[r]
             /\ Exposure(a, type)' <= Exposure(a, type)
  <2> PICK F, G : F = Exposed(a, type) /\ G = Exposed(a, type)'
    OBVIOUS
  <2>1. \A r \in Requests : F[r] \in Nat /\ G[r] \in Nat
    BY DEF FreeTypes
  <2>2. ASSUME NEW r \in Requests PROVE G[r] <= F[r]
    <3>1. F[r] = IF Exposing(r, a) # None /\ Exposing(r, a).type = type
                 THEN Exposing(r, a).amount ELSE 0
      BY DEF Exposed
    <3>2. G[r] = IF Exposing(r, a)' # None /\ Exposing(r, a)'.type = type
                 THEN Exposing(r, a)'.amount ELSE 0
      BY DEF Exposed
    <3>3. CASE Exposing(r, a)' = Exposing(r, a)
      BY <2>1, <3>1, <3>2, <3>3
    <3>4. CASE Exposing(r, a)' = None
      BY <2>1, <3>2, <3>4
    <3> QED
      BY <3>3, <3>4
  <2>3. SumFunctionOnSet(G, Requests) <= SumFunctionOnSet(F, Requests)
    BY <2>1, <2>2, SumAtMost, RequestIdsAreFinite
  <2> QED
    BY <2>2, <2>3 DEF Exposure
<1>2. /\ "pay_as_you_go" \in ChargeTypes /\ "prepaid" \in ChargeTypes
      /\ FreePrepaid(a)' >= FreePrepaid(a) /\ FreeReal(a)' >= FreeReal(a)
  <2>1. "pay_as_you_go" \in ChargeTypes /\ "prepaid" \in ChargeTypes
    BY DEF ChargeTypes
  <2> QED
    BY <1>1, <2>1 DEF FreeTypes, FreeReal, FreePrepaid
<1>3. ASSUME DefaultExposed(a), ~DefaultExposed(a)'
      PROVE  FreeReal(a)' >= FreeReal(a) + DefaultPrice
  <2>1. PICK r \in Requests : DefaultRow(Exposing(r, a)) /\ ~DefaultRow(Exposing(r, a)')
    BY <1>3 DEF DefaultExposed
  <2>2. Exposing(r, a)' = None
    BY <2>1
  <2> PICK F, G : F = Exposed(a, "pay_as_you_go") /\ G = Exposed(a, "pay_as_you_go")'
    OBVIOUS
  <2>3. F[r] = DefaultPrice /\ G[r] = 0
    BY <2>1, <2>2 DEF Exposed, DefaultRow
  <2>4. \A s \in Requests : F[s] \in Nat /\ G[s] \in Nat /\ G[s] <= F[s]
    BY <1>1, <1>2 DEF FreeTypes
  <2>5. SumFunctionOnSet(G, Requests) + DefaultPrice <= SumFunctionOnSet(F, Requests)
    BY <2>3, <2>4, SumGap, RequestIdsAreFinite, PricesAreAmounts
  <2>6. Exposure(a, "pay_as_you_go")' + DefaultPrice <= Exposure(a, "pay_as_you_go")
    BY <2>5 DEF Exposure
  <2> QED
    BY <1>2, <2>6, PricesAreAmounts DEF FreeTypes, FreeReal
<1> QED
  BY <1>2, <1>3 DEF Keeps

-----------------------------------------------------------------------------
(* The rows and the commits under way, step by step.                        *)
Shrinks ==
  /\ \A r \in Requests :
       \/ reservations'[r] \in {reservations[r], None}
       \/ reservations'[r] # None /\ reservations'[r].expired
  /\ \A c \in Calls : pc'[c] \in Committing =>
       pc[c] \in Committing /\ request'[c] = request[c] /\ hold'[c] = hold[c]

(* A commit that finds its row has its terms in hand.                       *)
Takes(c) ==
  /\ pc[c] = "read" /\ pc' = [pc EXCEPT ![c] = "delete"]
  /\ request[c] \in Requests /\ reservations[request[c]] # None
  /\ hold' = [hold EXCEPT ![c] = reservations[request[c]]]
  /\ UNCHANGED <<reservations, events, account, request, seen>>

(* An INSERT of Reserve that finds no row for its request.                  *)
Inserts(c) ==
  /\ pc[c] = "insert" /\ pc' = [pc EXCEPT ![c] = "ok"]
  /\ request[c] \in Requests /\ reservations[request[c]] = None
  /\ reservations' = [reservations EXCEPT ![request[c]] = hold[c]]
  /\ UNCHANGED <<events, account, request, seen, hold>>

(* Every step takes rows and commits away (a row that runs out is there     *)
(* still, but counts no more), takes a row in hand or inserts one.          *)
LEMMA RowSteps ==
  ASSUME TypeOK, ArgumentsInv, [Next]_vars
  PROVE  Shrinks \/ \E c \in Calls : Takes(c) \/ Inserts(c)
<1> USE DEF TypeOK, Committing, Goto, database
<1>1. ASSUME NEW c \in Calls, Serve(c)
      PROVE  Shrinks \/ Takes(c) \/ Inserts(c)
  <2>1. CASE Lookup(c)
    BY <2>1 DEF Lookup, Shrinks
  <2>2. CASE LookupError(c) \/ ReadBalance(c)
    BY <2>2 DEF LookupError, ReadBalance, Shrinks
  <2>3. CASE ReadReservations(c)
    <3>1. /\ \E charge : Settle(c, charge)
          /\ UNCHANGED <<reservations, request>>
      BY <2>3 DEF ReadReservations
    <3>2. /\ pc' = [pc EXCEPT ![c] = "insufficient"] \/ pc' = [pc EXCEPT ![c] = "insert"]
          /\ \A d \in Calls : d # c => hold'[d] = hold[d]
      BY <3>1 DEF Settle
    <3> QED
      BY <3>1, <3>2 DEF Shrinks
  <2>4. CASE Insert(c)
    <3>1. CASE reservations[request[c]] # None
      BY <2>4, <3>1 DEF Insert, Shrinks
    <3>2. CASE reservations[request[c]] = None
      BY <2>4, <3>2 DEF Insert, Inserts, ArgumentsInv, Running
    <3> QED
      BY <3>1, <3>2
  <2>5. CASE CommitRead(c)
    <3>1. CASE reservations[request[c]] = None
      BY <2>5, <3>1 DEF CommitRead, Shrinks
    <3>2. CASE reservations[request[c]] # None
      BY <2>5, <3>2 DEF CommitRead, Takes, ArgumentsInv, Running
    <3> QED
      BY <3>1, <3>2
  <2>6. CASE CommitDelete(c)
    BY <2>6 DEF CommitDelete, Shrinks
  <2>7. CASE CommitBill(c)
    BY <2>7 DEF CommitBill, Shrinks
  <2>8. CASE Rollback(c)
    BY <2>8 DEF Rollback, Shrinks
  <2> QED
    BY <1>1, <2>1, <2>2, <2>3, <2>4, <2>5, <2>6, <2>7, <2>8 DEF Serve
<1>2. ASSUME NEW c \in Calls, NEW a \in Accounts, NEW r \in Requests, StartReserve(c, a, r)
      PROVE  Shrinks
  BY <1>2 DEF StartReserve, Start, Shrinks
<1>3. ASSUME NEW c \in Calls, NEW r \in Requests, StartCommit(c, r) \/ StartRollback(c, r)
      PROVE  Shrinks
  BY <1>3 DEF StartCommit, StartRollback, Start, Shrinks
<1>4. ASSUME NEW c \in Calls, Abort(c) \/ Return(c)
      PROVE  Shrinks
  BY <1>4 DEF Abort, Return, Shrinks
<1>5. CASE Environment
  <2>1. ASSUME NEW a \in Accounts, NEW n \in Topups, Topup(a, n) PROVE Shrinks
    BY <2>1 DEF Topup, Shrinks
  <2>2. ASSUME NEW r \in Requests, Expire(r) PROVE Shrinks
    <3>1. reservations[r] \in Rows
      BY <2>2 DEF Expire
    <3> PICK row \in Rows : row = [reservations[r] EXCEPT !.expired = TRUE]
      BY <3>1 DEF Rows
    <3>2. row # None /\ row.expired
      BY <3>1, NoneIsNothing DEF Rows
    <3>3. reservations' = [reservations EXCEPT ![r] = row]
      BY <2>2 DEF Expire
    <3> QED
      BY <2>2, <3>2, <3>3 DEF Expire, Shrinks
  <2> QED
    BY <1>5, <2>1, <2>2 DEF Environment
<1>6. CASE UNCHANGED vars
  BY <1>6 DEF vars, Shrinks
<1> QED
  BY <1>1, <1>2, <1>3, <1>4, <1>5, <1>6 DEF Next

(* The events only change by a commit that bills or by a top-up.            *)
Bills(c) ==
  /\ pc[c] = "bill" /\ pc' = [pc EXCEPT ![c] = "ok"]
  /\ request[c] \in Requests /\ hold[c] \in Rows /\ ~Billed(request[c])
  /\ events' = Append(events, UsageEvent(request[c], hold[c]))
  /\ UNCHANGED <<reservations, account, request, seen, hold>>

TopsUp(a, n) ==
  /\ events' = Append(events, TopupEvent(a, n))
  /\ UNCHANGED <<reservations, pc, account, request, seen, hold>>

(* Every step that changes the events is one of these.                      *)
LEMMA EventSteps ==
  ASSUME TypeOK, ArgumentsInv, [Next]_vars
  PROVE  \/ UNCHANGED events
         \/ \E c \in Calls : Bills(c)
         \/ \E a \in Accounts, n \in Topups : TopsUp(a, n)
<1>1. ASSUME NEW c \in Calls, CommitBill(c), ~Billed(request[c]) PROVE Bills(c)
  BY <1>1 DEF CommitBill, Bills, Goto, ArgumentsInv, Running, Holding, Committing
<1>2. ASSUME NEW a \in Accounts, NEW n \in Topups, Topup(a, n) PROVE TopsUp(a, n)
  BY <1>2 DEF Topup, TopsUp
<1> QED
  BY <1>1, <1>2
  DEF Next, Environment, vars, database, Serve, StartReserve, StartCommit, StartRollback, Start,
      Lookup, LookupError, ReadBalance, ReadReservations, Insert, CommitRead, CommitDelete,
      CommitBill, Rollback, Abort, Return, Expire

(* Calls reach the statements between the checks of Reserve one by one.     *)
LEMMA ReserveSteps ==
  ASSUME TypeOK, ArgumentsInv, [Next]_vars, NEW c \in Calls
  PROVE  /\ pc'[c] = "bill" =>
              \/ pc[c] = "bill"
              \/ pc[c] = "delete" /\ reservations'[request'[c]] = None
         /\ pc'[c] = "reservations" =>
              \/ pc[c] = "reservations" /\ account'[c] = account[c] /\ seen'[c] = seen[c]
              \/ UNCHANGED events /\ account'[c] \in Accounts /\ seen'[c] = Len(events)
         /\ pc'[c] = "insert" =>
              \/ pc[c] = "insert" /\ account'[c] = account[c] /\ hold'[c] = hold[c]
              \/ ReadReservations(c)
<1> USE DEF TypeOK, ArgumentsInv, Settling, Running, Answers, Goto, database
<1> DEFINE Claim ==
      /\ pc'[c] = "bill" =>
           \/ pc[c] = "bill"
           \/ pc[c] = "delete" /\ reservations'[request'[c]] = None
      /\ pc'[c] = "reservations" =>
           \/ pc[c] = "reservations" /\ account'[c] = account[c] /\ seen'[c] = seen[c]
           \/ UNCHANGED events /\ account'[c] \in Accounts /\ seen'[c] = Len(events)
      /\ pc'[c] = "insert" =>
           \/ pc[c] = "insert" /\ account'[c] = account[c] /\ hold'[c] = hold[c]
           \/ ReadReservations(c)
<1> SUFFICES Claim
  OBVIOUS
<1>1. ASSUME NEW d \in Calls, Serve(d) PROVE Claim
  <2>1. CASE Lookup(d) \/ LookupError(d)
    BY <2>1 DEF Lookup, LookupError
  <2>2. CASE ReadBalance(d)
    BY <2>2 DEF ReadBalance
  <2>3. CASE ReadReservations(d)
    <3>1. /\ \E charge : Settle(d, charge)
          /\ seen' = [seen EXCEPT ![d] = 0]
          /\ UNCHANGED <<reservations, events, account, request>>
      BY <2>3 DEF ReadReservations
    <3>2. /\ pc' = [pc EXCEPT ![d] = "insufficient"] \/ pc' = [pc EXCEPT ![d] = "insert"]
          /\ \A e \in Calls : e # d => hold'[e] = hold[e]
      BY <3>1 DEF Settle
    <3> QED
      BY <2>3, <3>1, <3>2
  <2>4. CASE Insert(d)
    BY <2>4 DEF Insert
  <2>5. CASE CommitRead(d)
    BY <2>5 DEF CommitRead
  <2>6. CASE CommitDelete(d)
    BY <2>6 DEF CommitDelete
  <2>7. CASE CommitBill(d)
    BY <2>7 DEF CommitBill
  <2>8. CASE Rollback(d)
    BY <2>8 DEF Rollback
  <2> QED
    BY <1>1, <2>1, <2>2, <2>3, <2>4, <2>5, <2>6, <2>7, <2>8 DEF Serve
<1>2. ASSUME NEW d \in Calls, NEW a \in Accounts, NEW r \in Requests, StartReserve(d, a, r)
      PROVE  Claim
  BY <1>2 DEF StartReserve, Start
<1>3. ASSUME NEW d \in Calls, NEW r \in Requests, StartCommit(d, r) \/ StartRollback(d, r)
      PROVE  Claim
  BY <1>3 DEF StartCommit, StartRollback, Start
<1>4. ASSUME NEW d \in Calls, Abort(d) \/ Return(d)
      PROVE  Claim
  BY <1>4 DEF Abort, Return
<1>5. CASE Environment
  BY <1>5 DEF Environment, Topup, Expire
<1>6. CASE UNCHANGED vars
  BY <1>6 DEF vars
<1> QED
  BY <1>1, <1>2, <1>3, <1>4, <1>5, <1>6 DEF Next

-----------------------------------------------------------------------------
(* The invariant about rows and commits.                                    *)
LEMMA HoldsShrink ==
  ASSUME TypeOK, ArgumentsInv, NEW a, HoldsAgree(a), Shrinks
  PROVE  HoldsAgree(a)'
<1> USE DEF Shrinks
<1>1. ASSUME NEW r \in Requests, OnRow(r, a)'
      PROVE  OnRow(r, a) /\ reservations'[r] = reservations[r]
  BY <1>1 DEF OnRow
<1>2. ASSUME NEW c \in Calls, Holds(c, a)'
      PROVE  /\ Holds(c, a) /\ request'[c] = request[c] /\ hold'[c] = hold[c]
             /\ request[c] \in Requests
  BY <1>2 DEF Holds, ArgumentsInv, Running, Committing
<1>3. ASSUME NEW c \in Calls, Holds(c, a)', OnRow(request[c], a)'
      PROVE  hold'[c] = reservations'[request'[c]]
  <2>1. OnRow(request[c], a) /\ reservations'[request[c]] = reservations[request[c]]
    BY <1>1, <1>2, <1>3
  <2> QED
    BY <1>2, <1>3, <2>1 DEF HoldsAgree
<1>4. ASSUME NEW c \in Calls, Holds(c, a)', NEW d \in Hands(request[c], a)'
      PROVE  hold'[d] = hold'[c]
  <2>1. d \in Calls /\ Holds(d, a)' /\ request'[d] = request'[c]
    BY <1>4 DEF Hands, Holds
  <2>2. d \in Hands(request[c], a)
    BY <1>2, <1>4, <2>1 DEF Hands, Holds
  <2> QED
    BY <1>2, <1>4, <2>1, <2>2 DEF HoldsAgree
<1> QED
  BY <1>3, <1>4 DEF HoldsAgree

(* A commit that reads its row in time takes the terms all others have.     *)
LEMMA HoldsTake ==
  ASSUME TypeOK, ArgumentsInv, NEW a, HoldsAgree(a), ~CommitsLate(a)',
         NEW c \in Calls, Takes(c)
  PROVE  HoldsAgree(a)'
<1> USE DEF Takes, TypeOK
<1> PICK row \in Rows : row = reservations[request[c]] /\ row # None
  BY NoneIsNothing
<1>1. \A r : OnRow(r, a)' <=> OnRow(r, a)
  BY DEF OnRow
<1>2. /\ hold'[c] = row /\ request'[c] = request[c] /\ reservations' = reservations
      /\ Holds(c, a)' => OnRow(request[c], a)
  BY DEF OnRow, Holds, CommitsLate
<1>3. ASSUME NEW d \in Calls, Holds(d, a)', d # c
      PROVE  Holds(d, a) /\ request'[d] = request[d] /\ hold'[d] = hold[d]
  BY <1>3 DEF Holds
<1>4. ASSUME NEW d \in Calls, Holds(d, a)', OnRow(request[d], a)'
      PROVE  hold'[d] = reservations'[request'[d]]
  <2>1. CASE d = c
    BY <1>2, <2>1
  <2>2. CASE d # c
    BY <1>1, <1>2, <1>3, <1>4, <2>2 DEF HoldsAgree
  <2> QED
    BY <2>1, <2>2
<1>5. ASSUME NEW d \in Calls, Holds(d, a)', NEW e \in Hands(request[d], a)'
      PROVE  hold'[e] = hold'[d]
  <2>1. e \in Calls /\ Holds(e, a)' /\ request'[e] = request'[d]
    BY <1>5 DEF Hands, Holds
  <2>2. CASE d # c /\ e # c
    <3>1. e \in Hands(request[d], a)
      BY <1>3, <1>5, <2>1, <2>2 DEF Hands, Holds
    <3> QED
      BY <1>3, <1>5, <2>1, <2>2, <3>1 DEF HoldsAgree
  <2>3. CASE d = c \/ e = c
    <3>1. OnRow(request[d], a)' /\ OnRow(request[e], a)'
      BY <1>1, <1>2, <1>5, <2>1, <2>3
    <3> QED
      BY <1>4, <1>5, <2>1, <3>1
  <2> QED
    BY <2>2, <2>3
<1> QED
  BY <1>4, <1>5 DEF HoldsAgree

(* A row inserted is of an account no commit under way is of.               *)
LEMMA HoldsInsert ==
  ASSUME TypeOK, ArgumentsInv, InsertsOwn, NEW a, HoldsAgree(a), ~Overlapped(a),
         NEW c \in Calls, Inserts(c)
  PROVE  /\ HoldsAgree(a)'
         /\ account[c] = a => Hands(request[c], a) = {}
<1> USE DEF Inserts, TypeOK
<1>1. /\ hold[c] \in Rows /\ hold[c] # None
      /\ hold[c].account = account[c] /\ ~hold[c].expired
  BY NoneIsNothing DEF ArgumentsInv, Holding, InsertsOwn
<1>2. ASSUME NEW d \in Calls, Holds(d, a) PROVE account[c] # a
  BY <1>2 DEF Overlapped, Deciding, Holds, Committing
<1>3. \A d \in Calls : Holds(d, a)' =>
         Holds(d, a) /\ request'[d] = request[d] /\ hold'[d] = hold[d]
  BY DEF Holds, Committing
<1>4. ASSUME NEW d \in Calls, Holds(d, a)', OnRow(request[d], a)'
      PROVE  hold'[d] = reservations'[request'[d]]
  <2>1. Holds(d, a) /\ account[c] # a /\ request[d] \in Requests
    BY <1>2, <1>3, <1>4 DEF Holds, ArgumentsInv, Running, Committing
  <2>2. request[d] # request[c]
    BY <1>1, <1>3, <1>4, <2>1 DEF OnRow
  <2>3. OnRow(request[d], a) /\ reservations'[request[d]] = reservations[request[d]]
    BY <1>3, <1>4, <2>1, <2>2 DEF OnRow
  <2> QED
    BY <1>3, <1>4, <2>1, <2>3 DEF HoldsAgree
<1>5. ASSUME NEW d \in Calls, Holds(d, a)', NEW e \in Hands(request[d], a)'
      PROVE  hold'[e] = hold'[d]
  <2>1. e \in Calls /\ Holds(e, a)' /\ request'[e] = request'[d]
    BY <1>5 DEF Hands, Holds
  <2>2. e \in Hands(request[d], a)
    BY <1>3, <1>5, <2>1 DEF Hands, Holds
  <2> QED
    BY <1>3, <1>5, <2>1, <2>2 DEF HoldsAgree
<1> QED
  BY <1>2, <1>4, <1>5 DEF HoldsAgree, Hands, Holds

(* A call of Reserve always inserts what it has settled on.                 *)
LEMMA InsertsOwnStep ==
  ASSUME TypeOK, ArgumentsInv, InsertsOwn, [Next]_vars
  PROVE  InsertsOwn'
<1> SUFFICES ASSUME NEW d \in Calls, pc'[d] = "insert"
             PROVE  hold'[d].account = account'[d] /\ ~hold'[d].expired
  BY DEF InsertsOwn
<1>1. CASE pc[d] = "insert" /\ account'[d] = account[d] /\ hold'[d] = hold[d]
  BY <1>1 DEF InsertsOwn
<1>2. CASE ReadReservations(d)
  <2>1. UNCHANGED account /\ \E charge : Settle(d, charge)
    BY <1>2 DEF ReadReservations
  <2>2. PICK charge : Settle(d, charge)
    BY <2>1
  <2>3. hold' = [hold EXCEPT ![d] = [account |-> account[d], type |-> charge.type,
                                     amount |-> charge.amount, expired |-> FALSE]]
    BY <2>2 DEF Settle, Goto, TypeOK
  <2> QED
    BY <2>1, <2>3 DEF TypeOK
<1> QED
  BY <1>1, <1>2, ReserveSteps

(* So every step keeps rows and hands of the account in agreement.          *)
LEMMA HoldsStep ==
  ASSUME TypeOK, ArgumentsInv, NEW a, HoldsInv(a), ~Overlapped(a), ~CommitsLate(a)',
         [Next]_vars
  PROVE  HoldsInv(a)'
<1>1. HoldsAgree(a)' /\ InsertsOwn'
  BY RowSteps, HoldsShrink, HoldsTake, HoldsInsert, InsertsOwnStep DEF HoldsInv
<1>2. ASSUME NEW d \in Calls, pc'[d] = "bill", hold'[d].account = a
      PROVE  ~OnRow(request[d], a)'
  <2>1. \/ pc[d] = "bill"
        \/ pc[d] = "delete" /\ reservations'[request'[d]] = None
    BY <1>2, ReserveSteps
  <2>2. CASE pc[d] = "bill"
    <3>1. CASE Shrinks
      <4>1. request'[d] = request[d] /\ hold'[d] = hold[d] /\ request[d] \in Requests
        BY <1>2, <2>2, <3>1 DEF Shrinks, Committing, ArgumentsInv, Running
      <4>2. ~OnRow(request[d], a)
        BY <1>2, <2>2, <4>1 DEF HoldsInv, DeletedStays
      <4> QED
        BY <3>1, <4>1, <4>2 DEF Shrinks, OnRow
    <3>2. ASSUME NEW c \in Calls, Takes(c) PROVE ~OnRow(request[d], a)'
      BY <1>2, <2>2, <3>2 DEF Takes, OnRow, TypeOK, HoldsInv, DeletedStays
    <3>3. ASSUME NEW c \in Calls, Inserts(c) PROVE ~OnRow(request[d], a)'
      <4>1. /\ hold[c].account = account[c] /\ c # d /\ request[d] \in Requests
            /\ UNCHANGED <<hold, request>> /\ ~OnRow(request[d], a)
        BY <1>2, <2>2, <3>3
        DEF Inserts, HoldsInv, InsertsOwn, DeletedStays, ArgumentsInv, Running
      <4>2. account[c] # a
        BY <1>2, <2>2, <3>3, <4>1
        DEF Inserts, Overlapped, Deciding, Holds, Committing
      <4> QED
        BY <3>3, <4>1, <4>2 DEF Inserts, OnRow, TypeOK
    <3> QED
      BY <3>1, <3>2, <3>3, RowSteps
  <2> QED
    BY <2>1, <2>2 DEF OnRow
<1> QED
  BY <1>1, <1>2 DEF HoldsInv, DeletedStays

-----------------------------------------------------------------------------
(* What an event that is added changes.                                     *)
LEMMA EventAdded ==
  ASSUME TypeOK, NEW e \in Events, events' = Append(events, e)
  PROVE  /\ \A r : Billed(r)' <=> Billed(r) \/ r = e.request
         /\ \A a : DefaultBilled(a)' <=>
                     DefaultBilled(a) \/ (e.account = a /\ e.amount = -DefaultPrice)
         /\ Len(events') = Len(events) + 1
         /\ \A a : \A n \in 0..Len(events) :
              /\ BalanceAt(a, n)'.real = BalanceAt(a, n).real
              /\ BalanceAt(a, n)'.prepaid = BalanceAt(a, n).prepaid
         /\ \A a \in Accounts :
              /\ Balance(a)'.real = Balance(a).real +
                   IF e.account = a /\ e.type \in {"pay_as_you_go", "balance_topup"}
                   THEN e.amount ELSE 0
              /\ Balance(a)'.prepaid = Balance(a).prepaid +
                   IF e.account = a /\ e.type \in {"prepaid_usage"} THEN e.amount ELSE 0
<1> PICK len \in Nat : len = Len(events)
  BY LenProperties DEF TypeOK
<1>1. /\ events \in Seq(Events) /\ events' \in Seq(Events)
      /\ Len(events') = len + 1
      /\ DOMAIN events = 1..len /\ DOMAIN events' = 1..(len + 1)
      /\ \A i \in 1..len : events'[i] = events[i]
      /\ events'[len + 1] = e
  BY AppendProperties, LenProperties DEF TypeOK
<1>2. ASSUME NEW r PROVE Billed(r)' <=> Billed(r) \/ r = e.request
  BY <1>1 DEF Billed
<1>3. ASSUME NEW a
      PROVE  DefaultBilled(a)' <=>
               DefaultBilled(a) \/ (e.account = a /\ e.amount = -DefaultPrice)
  BY <1>1 DEF DefaultBilled
<1>4. ASSUME NEW a, NEW types, NEW n \in 0..len
      PROVE  /\ Total(a, types, n) = TotalOf(events, a, types, n)
             /\ Total(a, types, n)' = TotalOf(events', a, types, n)
             /\ Total(a, types, Len(events))' = TotalOf(events', a, types, Len(events'))
  BY DEF Total, TotalOf, Picked, AmountsOf
<1>5. ASSUME NEW a, NEW types
      PROVE  /\ \A n \in 0..len : Total(a, types, n)' = Total(a, types, n)
             /\ Total(a, types, Len(events))' = Total(a, types, len) +
                  IF e.account = a /\ e.type \in types THEN e.amount ELSE 0
  <2>1. /\ \A n \in 0..len : TotalOf(events', a, types, n) = TotalOf(events, a, types, n)
        /\ TotalOf(events', a, types, len + 1) = TotalOf(events, a, types, len) +
             IF e.account = a /\ e.type \in types THEN e.amount ELSE 0
    BY <1>1, TotalAppend
  <2>2. len \in 0..len
    OBVIOUS
  <2> QED
    BY <1>1, <1>4, <2>1, <2>2
<1>6. ASSUME NEW a, NEW n \in 0..len
      PROVE  /\ BalanceAt(a, n)'.real = BalanceAt(a, n).real
             /\ BalanceAt(a, n)'.prepaid = BalanceAt(a, n).prepaid
  <2>1. \A types : Total(a, types, n)' = Total(a, types, n)
    BY <1>5
  <2> QED
    BY <2>1 DEF BalanceAt
<1>7. ASSUME NEW a \in Accounts
      PROVE  /\ Balance(a)'.real = Balance(a).real +
                  IF e.account = a /\ e.type \in {"pay_as_you_go", "balance_topup"}
                  THEN e.amount ELSE 0
             /\ Balance(a)'.prepaid = Balance(a).prepaid +
                  IF e.account = a /\ e.type \in {"prepaid_usage"} THEN e.amount ELSE 0
  <2>1. ASSUME NEW types PROVE Total(a, types, len) \in Int
    <3>1. len \in 0..Len(events)
      OBVIOUS
    <3> QED
      BY <1>1, <1>4, <3>1, PickedType
  <2>2. Opening[a].real \in Int /\ Opening[a].prepaid \in Int /\ e.amount \in Int
    BY OpeningIsBalance DEF Events
  <2> QED
    BY <1>5, <2>1, <2>2, SMTT(60) DEF Balance, BalanceAt
<1> QED
  BY <1>1, <1>2, <1>3, <1>6, <1>7

(* A request stays billed.                                                  *)
LEMMA BilledStays ==
  ASSUME TypeOK, ArgumentsInv, [Next]_vars, NEW r, Billed(r)
  PROVE  Billed(r)'
<1>1. ASSUME NEW c \in Calls, Bills(c) PROVE Billed(r)'
  BY <1>1, EventAdded, UsageEventType DEF Bills
<1>2. ASSUME NEW a \in Accounts, NEW n \in Topups, TopsUp(a, n) PROVE Billed(r)'
  BY <1>2, EventAdded, TopupEventType DEF TopsUp
<1> QED
  BY <1>1, <1>2, EventSteps DEF Billed

-----------------------------------------------------------------------------
(* What each kind of step exposes an account to.                            *)
LEMMA ShrinkExposes ==
  ASSUME TypeOK, ArgumentsInv, [Next]_vars, Shrinks,
         NEW r \in Requests, NEW a, HoldsInv(a), HoldsInv(a)'
  PROVE  Exposing(r, a)' \in {Exposing(r, a), None}
<1>1. OnRow(r, a)' => OnRow(r, a) /\ reservations'[r] = reservations[r]
  BY DEF Shrinks, OnRow
<1>2. \A c \in Hands(r, a)' : c \in Hands(r, a) /\ hold'[c] = hold[c]
  BY DEF Shrinks, Hands
<1> QED
  BY <1>1, <1>2, BilledStays, ExposesNoMore DEF HoldsInv

(* Taking a row in hand exposes to no more.                                 *)
LEMMA TakeExposes ==
  ASSUME TypeOK, ArgumentsInv, [Next]_vars, NEW d \in Calls, Takes(d),
         NEW r \in Requests, NEW a, HoldsInv(a), HoldsInv(a)', ~CommitsLate(a)'
  PROVE  Exposing(r, a)' \in {Exposing(r, a), None}
<1>1. OnRow(r, a)' => OnRow(r, a) /\ reservations'[r] = reservations[r]
  BY DEF Takes, OnRow
<1>2. ASSUME NEW c \in Hands(r, a)'
      PROVE  OnRow(r, a)' \/ (c \in Hands(r, a) /\ hold'[c] = hold[c])
  <2>1. c \in Calls /\ pc'[c] \in Committing /\ request'[c] = r /\ hold'[c].account = a
    BY DEF Hands
  <2>2. CASE c = d
    BY <2>1, <2>2 DEF Takes, OnRow, TypeOK, CommitsLate, Holds
  <2>3. CASE c # d
    BY <2>1, <2>3 DEF Takes, Hands, TypeOK
  <2> QED
    BY <2>2, <2>3
<1> QED
  BY <1>1, <1>2, BilledStays, ExposesNoMore DEF HoldsInv

(* An INSERT exposes its account to its row, where nothing was.             *)
LEMMA InsertExposes ==
  ASSUME TypeOK, ArgumentsInv, [Next]_vars, NEW c \in Calls, Inserts(c),
         NEW r \in Requests, NEW a, HoldsInv(a), HoldsInv(a)', ~Overlapped(a)
  PROVE  /\ r # request[c] \/ a # account[c] => Exposing(r, a)' = Exposing(r, a)
         /\ r = request[c] /\ a = account[c] =>
              Exposing(r, a) = None /\ Exposing(r, a)' = hold[c]
<1>1. /\ hold[c] \in Rows /\ hold[c] # None
      /\ hold[c].account = account[c] /\ ~hold[c].expired
  BY NoneIsNothing DEF Inserts, ArgumentsInv, Holding, HoldsInv, InsertsOwn
<1>2. CASE r # request[c] \/ a # account[c]
  <2>1. /\ OnRow(r, a)' <=> OnRow(r, a)
        /\ OnRow(r, a) => reservations'[r] = reservations[r]
    BY <1>1, <1>2 DEF Inserts, OnRow, TypeOK
  <2>2. Hands(r, a)' = Hands(r, a) /\ UNCHANGED hold
    BY DEF Inserts, Hands, TypeOK, Committing
  <2>3. Billed(r)' <=> Billed(r)
    BY DEF Inserts, Billed
  <2> QED
    BY <1>2, <2>1, <2>2, <2>3, ExposesTheSame DEF HoldsInv
<1>3. CASE r = request[c] /\ a = account[c]
  <2>1. Hands(r, a) = {} /\ ~OnRow(r, a)
    BY <1>3, HoldsInsert DEF Inserts, OnRow, HoldsInv
  <2>2. OnRow(r, a)' /\ reservations'[r] = hold[c]
    BY <1>1, <1>3 DEF Inserts, OnRow, TypeOK
  <2> QED
    BY <1>3, <2>1, <2>2, ExposingIs, ExposingThen DEF HoldsInv, AgreedExposing, ExposingForms
<1> QED
  BY <1>2, <1>3

(* Billing a request ends what its account was exposed to for it.           *)
LEMMA BillExposes ==
  ASSUME TypeOK, ArgumentsInv, [Next]_vars, NEW c \in Calls, Bills(c),
         NEW r \in Requests, NEW a, HoldsInv(a), HoldsInv(a)'
  PROVE  /\ r # request[c] => Exposing(r, a)' = Exposing(r, a)
         /\ r = request[c] => Exposing(r, a)' \in {Exposing(r, a), None}
         /\ r = request[c] /\ a = hold[c].account =>
              Exposing(r, a) = hold[c] /\ Exposing(r, a)' = None
<1>1. \A s : Billed(s)' <=> Billed(s) \/ s = request[c]
  BY EventAdded, UsageEventType DEF Bills, UsageEvent
<1>2. Shrinks
  BY DEF Bills, Shrinks, Committing, TypeOK
<1>3. r = request[c] => Exposing(r, a)' \in {Exposing(r, a), None}
  BY <1>2, ShrinkExposes
<1>4. CASE r # request[c]
  <2>1. Hands(r, a)' = Hands(r, a)
    BY <1>4 DEF Bills, Hands, Committing, TypeOK
  <2>2. OnRow(r, a)' <=> OnRow(r, a)
    BY DEF Bills, OnRow
  <2> QED
    BY <1>1, <1>4, <2>1, <2>2, ExposesTheSame DEF HoldsInv, Bills
<1>5. CASE r = request[c] /\ a = hold[c].account
  <2>1. c \in Hands(r, a) /\ ~OnRow(r, a) /\ ~Billed(r)
    BY <1>5 DEF Bills, Hands, Committing, HoldsInv, DeletedStays
  <2>2. ~OnRow(r, a)' /\ Billed(r)'
    BY <1>1, <1>5, <2>1 DEF Bills, OnRow
  <2> QED
    BY <1>5, <2>1, <2>2, ExposingIs, ExposingThen DEF HoldsInv, AgreedExposing, ExposingForms
<1> QED
  BY <1>3, <1>4, <1>5

-----------------------------------------------------------------------------
(* What each kind of step leaves free.                                      *)
LEMMA QuietKeeps ==
  ASSUME TypeOK, FreeTypes, FreeTypes', NEW a \in Accounts,
         \A r \in Requests : Exposing(r, a)' \in {Exposing(r, a), None},
         UNCHANGED events \/ \E b \in Accounts, n \in Topups : TopsUp(b, n)
  PROVE  Keeps(a)
<1>1. CASE UNCHANGED events
  <2>1. Balance(a)' = Balance(a) /\ (DefaultBilled(a)' <=> DefaultBilled(a))
    BY <1>1 DEF Balance, BalanceAt, Total, DefaultBilled
  <2> QED
    BY <2>1, NoMoreKeeps DEF FreeTypes
<1>2. ASSUME NEW b \in Accounts, NEW n \in Topups, TopsUp(b, n) PROVE Keeps(a)
  <2>1. TopupEvent(b, n) \in Events /\ TopupEvent(b, n).amount = n /\ n \in Nat
    BY TopupEventType, TopupsArePositive DEF TopupEvent
  <2>2. events' = Append(events, TopupEvent(b, n))
    BY <1>2 DEF TopsUp
  <2> PICK e \in Events : e = TopupEvent(b, n) /\ e.amount \in Nat
    BY <2>1
  <2>3. Balance(a).real \in Int /\ Balance(a).prepaid \in Int
    BY DEF FreeTypes
  <2>4. /\ Balance(a)'.real >= Balance(a).real /\ Balance(a)'.prepaid >= Balance(a).prepaid
        /\ DefaultBilled(a) => DefaultBilled(a)'
    BY <2>2, <2>3, EventAdded
  <2> QED
    BY <2>4, NoMoreKeeps
<1> QED
  BY <1>1, <1>2

(* Billing moves an amount from what is exposed to what is billed.          *)
LEMMA BillKeeps ==
  ASSUME TypeOK, ArgumentsInv, FreeTypes, FreeTypes', [Next]_vars,
         NEW c \in Calls, Bills(c), NEW a \in Accounts, HoldsInv(a), HoldsInv(a)'
  PROVE  Keeps(a)
<1> PICK r \in Requests, row \in Rows : r = request[c] /\ row = hold[c]
  BY DEF Bills
<1> DEFINE e == UsageEvent(r, row)
<1>1. /\ e \in Events /\ e.account = row.account /\ e.amount = -row.amount
      /\ e.type = EventType(row.type) /\ row.amount \in Nat /\ row.type \in ChargeTypes
      /\ events' = Append(events, e)
  BY UsageEventType, RowAmount DEF Bills, UsageEvent
<1> HIDE DEF e
<1>2. /\ Balance(a)'.real = Balance(a).real -
           IF row.account = a /\ row.type = "pay_as_you_go" THEN row.amount ELSE 0
      /\ Balance(a)'.prepaid = Balance(a).prepaid -
           IF row.account = a /\ row.type = "prepaid" THEN row.amount ELSE 0
      /\ DefaultBilled(a)' <=>
           DefaultBilled(a) \/ (row.account = a /\ row.amount = DefaultPrice)
  <2>1. /\ Balance(a)'.real = Balance(a).real +
             IF e.account = a /\ e.type \in {"pay_as_you_go", "balance_topup"}
             THEN e.amount ELSE 0
        /\ Balance(a)'.prepaid = Balance(a).prepaid +
             IF e.account = a /\ e.type \in {"prepaid_usage"} THEN e.amount ELSE 0
        /\ DefaultBilled(a)' <=>
             DefaultBilled(a) \/ (e.account = a /\ e.amount = -DefaultPrice)
    BY <1>1, EventAdded
  <2>2. Balance(a).real \in Int /\ Balance(a).prepaid \in Int /\ DefaultPrice \in Nat
    BY PricesAreAmounts DEF FreeTypes
  <2>3. /\ e.type \in {"pay_as_you_go", "balance_topup"} <=> row.type = "pay_as_you_go"
        /\ e.type \in {"prepaid_usage"} <=> row.type = "prepaid"
    BY <1>1 DEF EventType, ChargeTypes
  <2> QED
    BY <1>1, <2>1, <2>2, <2>3
<1>3. CASE row.account # a
  <2>1. \A s \in Requests : Exposing(s, a)' \in {Exposing(s, a), None}
    BY BillExposes
  <2> QED
    BY <1>2, <1>3, <2>1, NoMoreKeeps DEF FreeTypes
<1>4. CASE row.account = a
  <2>1. /\ Exposing(r, a) = row /\ row # None /\ Exposing(r, a)' = None
        /\ \A s \in Requests \ {r} : Exposing(s, a)' = Exposing(s, a)
    BY <1>4, BillExposes, NoneIsNothing
  <2>2. ASSUME NEW type \in ChargeTypes
        PROVE  Exposure(a, type)' = Exposure(a, type) -
                 IF row.type = type THEN row.amount ELSE 0
    <3> PICK F, G : F = Exposed(a, type) /\ G = Exposed(a, type)'
      OBVIOUS
    <3>1. \A s \in Requests : F[s] \in Nat /\ G[s] \in Nat
      BY DEF FreeTypes
    <3>2. /\ F[r] = IF row.type = type THEN row.amount ELSE 0
          /\ G[r] = 0
          /\ \A s \in Requests \ {r} : F[s] = G[s]
      BY <2>1 DEF Exposed
    <3>3. SumFunctionOnSet(G, Requests) = SumFunctionOnSet(F, Requests) - F[r] + G[r]
      BY <3>1, <3>2, SumUpdate, RequestIdsAreFinite
    <3>4. Exposure(a, type) \in Int
      BY DEF FreeTypes
    <3> QED
      BY <1>1, <3>2, <3>3, <3>4 DEF Exposure
  <2>3. FreeReal(a)' = FreeReal(a) /\ FreePrepaid(a)' = FreePrepaid(a)
    <3>1. /\ Exposure(a, "pay_as_you_go")' = Exposure(a, "pay_as_you_go") -
               IF row.type = "pay_as_you_go" THEN row.amount ELSE 0
          /\ Exposure(a, "prepaid")' = Exposure(a, "prepaid") -
               IF row.type = "prepaid" THEN row.amount ELSE 0
          /\ Exposure(a, "pay_as_you_go") \in Int /\ Exposure(a, "prepaid") \in Int
      BY <2>2 DEF ChargeTypes, FreeTypes
    <3>2. Balance(a).real \in Int /\ Balance(a).prepaid \in Int
      BY DEF FreeTypes
    <3> QED
      BY <1>1, <1>2, <1>4, <3>1, <3>2 DEF FreeReal, FreePrepaid
  <2>4. DefaultExposed(a) => DefaultExposed(a)'
    <3>1. ASSUME NEW s \in Requests, DefaultRow(Exposing(s, a)) PROVE DefaultExposed(a)'
      <4>1. CASE s = r
        BY <1>2, <1>4, <2>1, <3>1, <4>1 DEF DefaultRow, DefaultExposed
      <4>2. CASE s # r
        BY <2>1, <3>1, <4>2 DEF DefaultExposed
      <4> QED
        BY <4>1, <4>2
    <3> QED
      BY <1>2, <3>1 DEF DefaultExposed
  <2> QED
    BY <2>3, <2>4, PricesAreAmounts DEF Keeps, FreeTypes
<1> QED
  BY <1>3, <1>4

(* An INSERT for another account keeps the account.                         *)
LEMMA InsertKeeps ==
  ASSUME TypeOK, ArgumentsInv, FreeTypes, FreeTypes', [Next]_vars,
         NEW c \in Calls, Inserts(c), NEW a \in Accounts, a # account[c],
         HoldsInv(a), HoldsInv(a)', ~Overlapped(a)
  PROVE  Keeps(a)
<1>1. \A r \in Requests : Exposing(r, a)' \in {Exposing(r, a), None}
  BY InsertExposes
<1>2. UNCHANGED events
  BY DEF Inserts
<1> QED
  BY <1>1, <1>2, QuietKeeps

(* The row an account pays for was affordable when it was settled on, and   *)
(* nothing has made it less so.                                             *)
LEMMA InsertSolvent ==
  ASSUME TypeOK, ArgumentsInv, FreeTypes, FreeTypes', [Next]_vars,
         NEW c \in Calls, Inserts(c), NEW a \in Accounts, a = account[c],
         HoldsInv(a), HoldsInv(a)', Covered(a), Solvent(a), ~Overlapped(a)
  PROVE  Solvent(a)'
<1> PICK r \in Requests, row \in Rows : r = request[c] /\ row = hold[c]
  BY DEF Inserts, ArgumentsInv, Holding
<1>1. /\ a = row.account /\ row # None /\ row.amount \in Nat /\ row.type \in ChargeTypes
      /\ Affordable(row)
  BY RowAmount, NoneIsNothing DEF Inserts, HoldsInv, InsertsOwn, Covered
<1>2. /\ Exposing(r, a) = None /\ Exposing(r, a)' = row
      /\ \A s \in Requests \ {r} : Exposing(s, a)' = Exposing(s, a)
  <2>1. Exposing(r, a) = None /\ Exposing(r, a)' = row
    BY InsertExposes
  <2>2. ASSUME NEW s \in Requests \ {r} PROVE Exposing(s, a)' = Exposing(s, a)
    BY InsertExposes
  <2> QED
    BY <2>1, <2>2
<1>3. ASSUME NEW type \in ChargeTypes
      PROVE  Exposure(a, type)' = Exposure(a, type) + IF row.type = type THEN row.amount ELSE 0
  <2> PICK F, G : F = Exposed(a, type) /\ G = Exposed(a, type)'
    OBVIOUS
  <2>1. \A s \in Requests : F[s] \in Nat /\ G[s] \in Nat
    BY DEF FreeTypes
  <2>2. /\ F[r] = 0
        /\ G[r] = IF row.type = type THEN row.amount ELSE 0
        /\ \A s \in Requests \ {r} : F[s] = G[s]
    BY <1>1, <1>2 DEF Exposed
  <2>3. SumFunctionOnSet(G, Requests) = SumFunctionOnSet(F, Requests) - F[r] + G[r]
    BY <2>1, <2>2, SumUpdate, RequestIdsAreFinite
  <2>4. Exposure(a, type) \in Int
    BY DEF FreeTypes
  <2> QED
    BY <1>1, <2>2, <2>3, <2>4 DEF Exposure
<1>4. Balance(a)' = Balance(a) /\ (DefaultBilled(a)' <=> DefaultBilled(a))
  BY DEF Inserts, Balance, BalanceAt, Total, DefaultBilled
<1>5. /\ FreePrepaid(a)' = FreePrepaid(a) - IF row.type = "prepaid" THEN row.amount ELSE 0
      /\ FreeReal(a)' = FreeReal(a) - IF row.type = "pay_as_you_go" THEN row.amount ELSE 0
      /\ FreePrepaid(a) \in Int /\ FreeReal(a) \in Int
  BY <1>1, <1>3, <1>4 DEF ChargeTypes, FreeTypes, FreeReal, FreePrepaid
<1>6. DefaultExposed(a) => DefaultExposed(a)'
  <2>1. ASSUME NEW s \in Requests, DefaultRow(Exposing(s, a)) PROVE DefaultExposed(a)'
    <3>1. s # r
      BY <1>2, <2>1 DEF DefaultRow
    <3> QED
      BY <1>2, <2>1, <3>1 DEF DefaultExposed
  <2> QED
    BY <1>4, <2>1 DEF DefaultExposed
<1>7. DefaultRow(row) => DefaultExposed(a)'
  BY <1>2 DEF DefaultExposed
<1>8. Solvent(a)
  OBVIOUS
<1>9. CASE row.type = "prepaid"
  BY <1>1, <1>5, <1>6, <1>8, <1>9 DEF Affordable, Solvent, DefaultRow
<1>10. CASE row.type = "pay_as_you_go"
  <2>1. FreePrepaid(a)' >= 0
    BY <1>5, <1>8, <1>10 DEF Solvent
  <2>2. CASE FreeReal(a) >= row.amount
    BY <1>1, <1>5, <1>10, <2>1, <2>2 DEF Solvent
  <2>3. CASE DefaultRow(row) /\ FreeReal(a) > 0
    BY <1>1, <1>5, <1>7, <1>10, <2>1, <2>3 DEF Solvent, DefaultRow
  <2> QED
    BY <1>1, <1>10, <2>2, <2>3 DEF Affordable
<1> QED
  BY <1>1, <1>9, <1>10 DEF ChargeTypes

-----------------------------------------------------------------------------
(* What Reserve counts is part of what the account is exposed to.           *)
RowAmounts(a, type) ==
  [r \in Requests |-> IF r \in ActiveReservations(a, type) THEN reservations[r].amount ELSE 0]

(* What Reserve counts, as a sum over all requests.                         *)
LEMMA ReservedIs ==
  ASSUME TypeOK, NEW a, NEW type
  PROVE  /\ Reserved(a, type) = SumFunctionOnSet(RowAmounts(a, type), Requests)
         /\ \A r \in Requests : RowAmounts(a, type)[r] \in Nat
<1> DEFINE A == ActiveReservations(a, type)
           F == [r \in A |-> reservations[r].amount]
           G == RowAmounts(a, type)
<1>1. A \in SUBSET Requests /\ \A r \in A : reservations[r] \in Rows
  BY DEF ActiveReservations, TypeOK
<1>2. IsFiniteSet(A)
  BY <1>1, RequestIdsAreFinite, FS_Subset
<1>3. /\ \A r \in Requests : G[r] \in Nat
      /\ \A r \in Requests \ A : G[r] = 0
      /\ \A r \in A : F[r] = G[r]
  BY <1>1, RowAmount DEF RowAmounts
<1>4. Reserved(a, type) = SumFunctionOnSet(F, A)
  BY DEF Reserved
<1> HIDE DEF A, F, G
<1>5. SumFunctionOnSet(F, A) = SumFunctionOnSet(G, A)
  BY <1>2, <1>3, SumSame
<1>6. SumFunctionOnSet(G, Requests) = SumFunctionOnSet(G, A)
  BY <1>1, <1>3, SumWiden, RequestIdsAreFinite
<1> QED
  BY <1>3, <1>4, <1>5, <1>6 DEF G

(* It is at most what the account is exposed to; without a commit under way *)
(* it is all of that; and a charge at the default price in a commit's hands *)
(* is not in it.                                                            *)
LEMMA ReservedExposed ==
  ASSUME TypeOK, FreeTypes, NEW a \in Accounts, NEW type \in ChargeTypes
  PROVE  /\ Reserved(a, type) \in Int
         /\ Reserved(a, type) <= Exposure(a, type)
         /\ \A r \in Requests :
              type = "pay_as_you_go" /\ DefaultRow(Exposing(r, a)) /\ ~OnRow(r, a) =>
                Reserved(a, type) + DefaultPrice <= Exposure(a, type)
         /\ (\A r \in Requests : Hands(r, a) = {}) => Reserved(a, type) = Exposure(a, type)
<1> PICK F, G : F = RowAmounts(a, type) /\ G = Exposed(a, type)
  OBVIOUS
<1>1. \A r \in Requests : F[r] \in Nat /\ G[r] \in Nat
  BY ReservedIs DEF FreeTypes
<1>2. ASSUME NEW r \in Requests
      PROVE  /\ OnRow(r, a) => F[r] = G[r]
             /\ ~OnRow(r, a) => F[r] = 0
  <2>1. OnRow(r, a) => Exposing(r, a) = reservations[r]
    BY DEF Exposing
  <2>2. r \in ActiveReservations(a, type) <=> OnRow(r, a) /\ reservations[r].type = type
    BY DEF ActiveReservations, OnRow
  <2> QED
    BY <2>1, <2>2 DEF RowAmounts, Exposed, OnRow
<1>3. /\ Reserved(a, type) = SumFunctionOnSet(F, Requests)
      /\ Exposure(a, type) = SumFunctionOnSet(G, Requests)
      /\ Reserved(a, type) \in Int
  <2>1. SumFunctionOnSet(F, Requests) \in Int
    BY <1>1, SumInt, RequestIdsAreFinite
  <2> QED
    BY <2>1, ReservedIs DEF Exposure
<1>4. \A r \in Requests : F[r] <= G[r]
  BY <1>1, <1>2
<1>5. Reserved(a, type) <= Exposure(a, type)
  BY <1>1, <1>3, <1>4, SumAtMost, RequestIdsAreFinite
<1>6. ASSUME NEW r \in Requests, type = "pay_as_you_go", DefaultRow(Exposing(r, a)), ~OnRow(r, a)
      PROVE  Reserved(a, type) + DefaultPrice <= Exposure(a, type)
  <2>1. F[r] = 0 /\ G[r] = DefaultPrice
    BY <1>2, <1>6 DEF Exposed, DefaultRow
  <2>2. DefaultPrice \in Nat
    BY PricesAreAmounts
  <2> QED
    BY <1>1, <1>3, <1>4, <2>1, <2>2, SumGap, RequestIdsAreFinite
<1>7. ASSUME \A r \in Requests : Hands(r, a) = {}
      PROVE  Reserved(a, type) = Exposure(a, type)
  <2>1. ASSUME NEW r \in Requests, ~OnRow(r, a) PROVE G[r] = 0
    BY <1>7, <2>1 DEF Exposed, Exposing
  <2>2. \A r \in Requests : F[r] = G[r]
    BY <1>2, <2>1
  <2> QED
    BY <1>3, <2>2, SumSame, RequestIdsAreFinite
<1> QED
  BY <1>3, <1>5, <1>6, <1>7

(* The charge Reserve settles on is affordable: the balance it has seen is  *)
(* behind the one there is, and no commit of the account is under way, so   *)
(* that the reservations it counts are all the account is exposed to.       *)
LEMMA SettlesAffordable ==
  ASSUME TypeOK, ArgumentsInv, FreeTypes, NEW c \in Calls,
         SeenBehind(account[c]), ~Overlapped(account[c]),
         ReadReservations(c), pc'[c] = "insert"
  PROVE  /\ hold'[c] \in Rows /\ UNCHANGED <<reservations, events>>
         /\ Affordable(hold'[c])
<1> PICK a \in Accounts : a = account[c]
  BY DEF ReadReservations, ArgumentsInv, Settling
<1>1. pc[c] = "reservations" /\ UNCHANGED <<reservations, events>>
  BY DEF ReadReservations, database
<1> PICK available : available = AvailableAt(a, seen[c])
  OBVIOUS
<1> PICK priced \in BOOLEAN : Settle(c, Price(priced, available))
  BY DEF ReadReservations
<1> PICK charge : charge = Price(priced, available)
  OBVIOUS
<1>2. /\ charge # None
      /\ hold' = [hold EXCEPT ![c] = [account |-> a, type |-> charge.type,
                                      amount |-> charge.amount, expired |-> FALSE]]
  BY DEF Settle, Goto, TypeOK
<1>3. charge \in [type : ChargeTypes, amount : Amounts]
  BY <1>2, PriceType
<1> PICK row \in Rows : /\ row = hold'[c] /\ row.account = a
                        /\ row.type = charge.type /\ row.amount = charge.amount
  <2> DEFINE new == [account |-> a, type |-> charge.type,
                     amount |-> charge.amount, expired |-> FALSE]
  <2>1. new \in Rows /\ new.account = a
        /\ new.type = charge.type /\ new.amount = charge.amount
    BY <1>3 DEF Rows
  <2>2. hold'[c] = new
    BY <1>2 DEF TypeOK
  <2> QED
    BY <2>1, <2>2
<1>4. \A r \in Requests : Hands(r, a) = {}
  BY <1>1 DEF Overlapped, Deciding, Holds, Hands, Committing
<1>5. /\ available.real = BalanceAt(a, seen[c]).real - Exposure(a, "pay_as_you_go")
      /\ available.prepaid = BalanceAt(a, seen[c]).prepaid - Exposure(a, "prepaid")
  <2>1. /\ Reserved(a, "pay_as_you_go") = Exposure(a, "pay_as_you_go")
        /\ Reserved(a, "prepaid") = Exposure(a, "prepaid")
    BY <1>4, ReservedExposed DEF ChargeTypes
  <2> QED
    BY <2>1 DEF AvailableAt
<1>6. /\ BalanceAt(a, seen[c]).real <= Balance(a).real
      /\ BalanceAt(a, seen[c]).prepaid <= Balance(a).prepaid
      /\ seen[c] \in 0..Len(events)
  BY <1>1 DEF SeenBehind, Behind
<1>7. /\ available.real \in Int /\ available.real <= FreeReal(a) /\ FreeReal(a) \in Int
      /\ available.prepaid \in Int /\ available.prepaid <= FreePrepaid(a)
      /\ FreePrepaid(a) \in Int
  <2>1. /\ BalanceAt(a, seen[c]).real \in Int /\ BalanceAt(a, seen[c]).prepaid \in Int
        /\ Balance(a).real \in Int /\ Balance(a).prepaid \in Int
        /\ Exposure(a, "pay_as_you_go") \in Int /\ Exposure(a, "prepaid") \in Int
    BY <1>6, BalanceInt DEF FreeTypes, ChargeTypes
  <2> QED
    BY <1>5, <1>6, <2>1, SMTT(60) DEF FreeReal, FreePrepaid
<1>8. \/ charge.type = "prepaid" /\ available.prepaid >= charge.amount
      \/ charge.type = "pay_as_you_go" /\ available.real >= charge.amount
      \/ charge.type = "pay_as_you_go" /\ charge.amount = DefaultPrice /\ available.real > 0
  BY <1>2 DEF Price, Charge
<1>9. charge.amount \in Int /\ row # None
  BY <1>3, NoneIsNothing, PricesAreAmounts DEF Amounts
<1>10. Affordable(row)
  BY <1>7, <1>8, <1>9 DEF Affordable, DefaultRow
<1> QED
  BY <1>1, <1>10

-----------------------------------------------------------------------------
(* What a step leaves of the budget.                                        *)
AllBehind == \A a \in Accounts : Behind(a, Len(events))

(* The balance there is is behind itself.                                   *)
LEMMA NowBehind == TypeOK /\ FreeTypes => AllBehind
<1> SUFFICES ASSUME TypeOK, FreeTypes, NEW a \in Accounts PROVE Behind(a, Len(events))
  BY DEF AllBehind
<1>1. Balance(a) = BalanceAt(a, Len(events))
  BY DEF Balance
<1>2. Balance(a).real \in Int /\ Balance(a).prepaid \in Int
  BY DEF FreeTypes
<1>3. Len(events) \in 0..Len(events)
  BY LenProperties DEF TypeOK
<1> QED
  BY <1>1, <1>2, <1>3 DEF Behind

(* The same, after a step.                                                  *)
LEMMA NowBehindThen == TypeOK' /\ FreeTypes' => AllBehind'
BY NowBehind, PTL

(* What has been read of an account stays behind while no commit of the     *)
(* account bills.                                                           *)
LEMMA StaysBehind ==
  ASSUME TypeOK, ArgumentsInv, FreeTypes, [Next]_vars,
         NEW a \in Accounts, NEW n \in Nat, Behind(a, n),
         \A d \in Calls : pc[d] \in Committing => hold[d].account # a
  PROVE  Behind(a, n)'
<1>1. CASE UNCHANGED events
  BY <1>1 DEF Behind, Balance, BalanceAt, Total
<1>2. ASSUME NEW e \in Events, events' = Append(events, e), e.account = a => e.amount \in Nat
      PROVE  Behind(a, n)'
  <2>1. /\ n \in 0..Len(events')
        /\ BalanceAt(a, n)'.real = BalanceAt(a, n).real
        /\ BalanceAt(a, n)'.prepaid = BalanceAt(a, n).prepaid
    <3>1. n \in 0..Len(events) /\ Len(events) \in Nat
      BY LenProperties DEF Behind, TypeOK
    <3> QED
      BY <1>2, <3>1, EventAdded
  <2>2. Balance(a)'.real >= Balance(a).real /\ Balance(a)'.prepaid >= Balance(a).prepaid
    <3>1. Balance(a).real \in Int /\ Balance(a).prepaid \in Int
      BY DEF FreeTypes
    <3>2. /\ Balance(a)'.real = Balance(a).real +
               IF e.account = a /\ e.type \in {"pay_as_you_go", "balance_topup"}
               THEN e.amount ELSE 0
          /\ Balance(a)'.prepaid = Balance(a).prepaid +
               IF e.account = a /\ e.type \in {"prepaid_usage"} THEN e.amount ELSE 0
      BY <1>2, EventAdded
    <3> QED
      BY <1>2, <3>1, <3>2
  <2>3. /\ BalanceAt(a, n).real \in Int /\ BalanceAt(a, n).prepaid \in Int
        /\ BalanceAt(a, n).real <= Balance(a).real
        /\ BalanceAt(a, n).prepaid <= Balance(a).prepaid
    BY BalanceInt DEF Behind
  <2>4. /\ Balance(a).real \in Int /\ Balance(a).prepaid \in Int
        /\ Balance(a)'.real \in Int /\ Balance(a)'.prepaid \in Int
    <3>1. /\ Balance(a)'.real = Balance(a).real +
               IF e.account = a /\ e.type \in {"pay_as_you_go", "balance_topup"}
               THEN e.amount ELSE 0
          /\ Balance(a)'.prepaid = Balance(a).prepaid +
               IF e.account = a /\ e.type \in {"prepaid_usage"} THEN e.amount ELSE 0
      BY <1>2, EventAdded
    <3> QED
      BY <1>2, <3>1 DEF FreeTypes
  <2> QED
    BY <2>1, <2>2, <2>3, <2>4 DEF Behind
<1>3. ASSUME NEW d \in Calls, Bills(d) PROVE Behind(a, n)'
  <2> PICK r \in Requests, row \in Rows : r = request[d] /\ row = hold[d]
    BY <1>3 DEF Bills
  <2>1. row.account # a
    BY <1>3 DEF Bills, Committing
  <2>2. /\ UsageEvent(r, row) \in Events /\ UsageEvent(r, row).account = row.account
        /\ events' = Append(events, UsageEvent(r, row))
    BY <1>3, UsageEventType DEF Bills, UsageEvent
  <2> QED
    BY <1>2, <2>1, <2>2
<1>4. ASSUME NEW b \in Accounts, NEW m \in Topups, TopsUp(b, m) PROVE Behind(a, n)'
  <2>1. /\ TopupEvent(b, m) \in Events /\ TopupEvent(b, m).amount \in Nat
        /\ events' = Append(events, TopupEvent(b, m))
    BY <1>4, TopupEventType, TopupsArePositive DEF TopsUp, TopupEvent
  <2> QED
    BY <1>2, <2>1
<1> QED
  BY <1>1, <1>3, <1>4, EventSteps

(* So a call of Reserve between its reads has read what is still behind.    *)
LEMMA SeenBehindStep ==
  ASSUME TypeOK, ArgumentsInv, FreeTypes, [Next]_vars, TypeOK', FreeTypes',
         NEW a \in Accounts, SeenBehind(a), ~Overlapped(a)
  PROVE  SeenBehind(a)'
<1> SUFFICES ASSUME NEW c \in Calls, pc'[c] = "reservations", account'[c] = a
             PROVE  Behind(a, seen[c])'
  BY DEF SeenBehind
<1>1. CASE pc[c] = "reservations" /\ account'[c] = account[c] /\ seen'[c] = seen[c]
  <2> PICK n \in Nat : n = seen[c]
    BY <1>1 DEF TypeOK
  <2>1. \A d \in Calls : pc[d] \in Committing => hold[d].account # a
    BY <1>1 DEF Overlapped, Deciding, Holds, Committing
  <2>2. Behind(a, n)'
    BY <1>1, <2>1, StaysBehind DEF SeenBehind
  <2> QED
    BY <1>1, <2>2 DEF Behind, Balance, BalanceAt, Total
<1>2. CASE UNCHANGED events /\ account'[c] \in Accounts /\ seen'[c] = Len(events)
  <2>1. Behind(a, Len(events))'
    BY NowBehindThen DEF AllBehind
  <2> QED
    BY <1>2, <2>1 DEF Behind, Balance, BalanceAt, Total
<1> QED
  BY <1>1, <1>2, ReserveSteps

(* Every step but the INSERT of a reservation of the account keeps it.      *)
LEMMA OthersKeep ==
  ASSUME TypeOK, ArgumentsInv, FreeTypes, FreeTypes', [Next]_vars, NEW a \in Accounts,
         HoldsInv(a), HoldsInv(a)', ~Overlapped(a), ~CommitsLate(a)',
         \A c \in Calls : Inserts(c) => a # account[c]
  PROVE  Keeps(a)
<1>1. ASSUME NEW c \in Calls, Bills(c) PROVE Keeps(a)
  BY <1>1, BillKeeps
<1>2. CASE UNCHANGED events \/ \E b \in Accounts, n \in Topups : TopsUp(b, n)
  <2>1. ASSUME Shrinks PROVE Keeps(a)
    <3>1. \A r \in Requests : Exposing(r, a)' \in {Exposing(r, a), None}
      BY <2>1, ShrinkExposes
    <3> QED
      BY <1>2, <3>1, QuietKeeps
  <2>2. ASSUME NEW c \in Calls, Takes(c) PROVE Keeps(a)
    <3>1. \A r \in Requests : Exposing(r, a)' \in {Exposing(r, a), None}
      BY <2>2, TakeExposes
    <3> QED
      BY <1>2, <3>1, QuietKeeps
  <2>3. ASSUME NEW c \in Calls, Inserts(c) PROVE Keeps(a)
    BY <2>3, InsertKeeps
  <2> QED
    BY <2>1, <2>2, <2>3, RowSteps
<1> QED
  BY <1>1, <1>2, EventSteps

(* A charge stays affordable while the account is kept.                     *)
LEMMA StaysAffordable ==
  ASSUME FreeTypes, FreeTypes', NEW row \in Rows, Keeps(row.account), Affordable(row)
  PROVE  Affordable(row)'
<1> PICK a \in Accounts : a = row.account
  BY DEF Rows
<1>1. row.amount \in Nat
  BY RowAmount
<1>2. /\ FreeReal(a) \in Int /\ FreePrepaid(a) \in Int
      /\ FreeReal(a)' \in Int /\ FreePrepaid(a)' \in Int
  BY DEF FreeTypes
<1>3. FreePrepaid(a)' >= FreePrepaid(a) /\ FreeReal(a)' >= FreeReal(a)
  BY DEF Keeps
<1> QED
  BY <1>1, <1>2, <1>3 DEF Affordable

(* So what a call of Reserve is about to insert stays covered.              *)
LEMMA CoveredStep ==
  ASSUME TypeOK, ArgumentsInv, FreeTypes, FreeTypes', [Next]_vars, NEW a \in Accounts,
         HoldsInv(a), HoldsInv(a)', SeenBehind(a), Covered(a),
         ~Overlapped(a), ~CommitsLate(a)'
  PROVE  Covered(a)'
<1> SUFFICES ASSUME NEW c \in Calls, pc'[c] = "insert", account'[c] = a
             PROVE  Affordable(hold[c])'
  BY DEF Covered
<1>1. CASE pc[c] = "insert" /\ account'[c] = account[c] /\ hold'[c] = hold[c]
  <2> PICK row \in Rows : row = hold[c]
    BY <1>1 DEF ArgumentsInv, Holding
  <2>1. row.account = a /\ account[c] = a /\ Affordable(row)
    BY <1>1 DEF HoldsInv, InsertsOwn, Covered
  <2>2. ASSUME NEW d \in Calls, Inserts(d) PROVE a # account[d]
    <3>1. d # c
      BY <1>1, <2>2 DEF Inserts, TypeOK
    <3> QED
      BY <1>1, <2>1, <2>2, <3>1 DEF Overlapped, Deciding, Inserts
  <2>3. Affordable(row)'
    BY <2>1, <2>2, OthersKeep, StaysAffordable
  <2> QED
    BY <1>1, <2>3 DEF Affordable
<1>2. CASE ReadReservations(c)
  <2>1. account[c] = a
    BY <1>2 DEF ReadReservations
  <2>2. hold'[c] \in Rows /\ UNCHANGED <<reservations, events>> /\ Affordable(hold'[c])
    BY <1>2, <2>1, SettlesAffordable
  <2> PICK row \in Rows : row = hold'[c]
    BY <2>2
  <2>3. row.account = a
    BY DEF HoldsInv, InsertsOwn
  <2>4. ASSUME NEW d \in Calls, Inserts(d) PROVE FALSE
    BY <1>2, <2>4 DEF ReadReservations, Inserts, TypeOK
  <2>5. Affordable(row)'
    BY <2>2, <2>3, <2>4, OthersKeep, StaysAffordable
  <2> QED
    BY <2>5 DEF Affordable
<1> QED
  BY <1>1, <1>2, ReserveSteps

(* The budget of an account is kept by every step, as long as the account   *)
(* has not met a hazard.                                                    *)
LEMMA BudgetStep ==
  ASSUME TypeOK, ArgumentsInv, [Next]_vars, (TypeOK /\ ArgumentsInv)',
         NEW a \in Accounts, HoldsInv(a), BudgetInv(a), ~Meets(a), ~Meets(a)'
  PROVE  HoldsInv(a)' /\ BudgetInv(a)'
<1>1. ~Overlapped(a) /\ ~CommitsLate(a)'
  BY DEF Meets
<1>2. HoldsInv(a)' /\ FreeTypes /\ FreeTypes' /\ TypeOK'
  BY <1>1, HoldsStep, FreeType, FreeTypeThen
<1>3. SeenBehind(a) /\ Covered(a) /\ Solvent(a)
  BY DEF BudgetInv
<1>4. SeenBehind(a)' /\ Covered(a)'
  BY <1>1, <1>2, <1>3, SeenBehindStep, CoveredStep
<1>5. Solvent(a)'
  <2>1. ASSUME NEW c \in Calls, Inserts(c), a = account[c] PROVE Solvent(a)'
    BY <1>1, <1>2, <1>3, <2>1, InsertSolvent
  <2>2. CASE \A c \in Calls : Inserts(c) => a # account[c]
    <3>1. Keeps(a)
      BY <1>1, <1>2, <2>2, OthersKeep
    <3> QED
      BY <1>2, <1>3, <3>1, KeepsSolvent
  <2> QED
    BY <2>1, <2>2
<1> QED
  BY <1>2, <1>4, <1>5 DEF BudgetInv

-----------------------------------------------------------------------------
(* Before anything happens.                                                 *)
LEMMA BudgetInit ==
  ASSUME Init, TypeOK, ArgumentsInv,
         \A a \in Accounts : Opening[a].real >= 0 /\ Opening[a].prepaid >= 0
  PROVE  \A a \in Accounts : HoldsInv(a) /\ BudgetInv(a) /\ ~Meets(a)
<1>1. \A a \in Accounts : HoldsInv(a) /\ SeenBehind(a) /\ Covered(a) /\ ~Meets(a)
  BY DEF Init, HoldsInv, HoldsAgree, DeletedStays, InsertsOwn, SeenBehind, Covered,
         Meets, Overlapped, CommitsLate, Deciding, Holds, Committing
<1>2. ASSUME NEW a \in Accounts PROVE Solvent(a)
  <2>1. Balance(a).real >= 0 /\ Balance(a).prepaid >= 0
    <3>1. ASSUME NEW types PROVE Total(a, types, Len(events)) = 0
      <4>1. {i \in 1..Len(events) : events[i].account = a /\ events[i].type \in types} = {}
        BY LenProperties DEF Init
      <4> QED
        BY <4>1, SumEmpty DEF Total
    <3>2. Opening[a].real \in Int /\ Opening[a].prepaid \in Int
      BY OpeningIsBalance
    <3>3. /\ Balance(a).real = Opening[a].real + 0
          /\ Balance(a).prepaid = Opening[a].prepaid + 0
      BY <3>1 DEF Balance, BalanceAt
    <3> QED
      BY <3>2, <3>3
  <2>2. ASSUME NEW type PROVE Exposure(a, type) = 0
    <3> PICK F : F = Exposed(a, type)
      OBVIOUS
    <3>1. \A r \in Requests : Exposing(r, a) = None
      BY DEF Init, Exposing, OnRow, Hands, Committing
    <3>2. \A r \in Requests : F[r] = 0
      BY <3>1 DEF Exposed
    <3>3. SumFunctionOnSet(F, Requests) = SumFunctionOnSet(F, {})
      BY <3>2, SumWiden, RequestIdsAreFinite
    <3> QED
      BY <3>3, SumEmpty DEF Exposure
  <2>3. Balance(a).real \in Int /\ Balance(a).prepaid \in Int
    BY FreeType DEF FreeTypes
  <2> QED
    BY <2>1, <2>2, <2>3 DEF Solvent, FreeReal, FreePrepaid
<1> QED
  BY <1>1, <1>2 DEF BudgetInv

(* An account within its budget is not overdrawn: what is reserved is part  *)
(* of what it is exposed to, and a charge at the default price that is only *)
(* in the hands of a commit is not counted at all.                          *)
LEMMA BudgetIsNotOverdrawn ==
  ASSUME TypeOK, ArgumentsInv, NEW a \in Accounts, BudgetInv(a)
  PROVE  NotOverdrawn(a)
<1> SUFFICES /\ Available(a).prepaid >= 0
             /\ \/ Available(a).real >= 0
                \/ Available(a).real > -DefaultPrice /\ DefaultCharged(a)
  BY DEF NotOverdrawn
<1>1. FreeTypes
  BY FreeType
<1>2. /\ Balance(a).real \in Int /\ Balance(a).prepaid \in Int /\ DefaultPrice \in Nat
      /\ Exposure(a, "pay_as_you_go") \in Int /\ Exposure(a, "prepaid") \in Int
      /\ FreeReal(a) \in Int /\ FreePrepaid(a) \in Int
  BY <1>1, PricesAreAmounts DEF FreeTypes, ChargeTypes
<1>3. /\ Reserved(a, "pay_as_you_go") \in Int /\ Reserved(a, "prepaid") \in Int
      /\ Reserved(a, "pay_as_you_go") <= Exposure(a, "pay_as_you_go")
      /\ Reserved(a, "prepaid") <= Exposure(a, "prepaid")
  BY <1>1, ReservedExposed DEF ChargeTypes
<1>4. /\ Available(a).real = Balance(a).real - Reserved(a, "pay_as_you_go")
      /\ Available(a).prepaid = Balance(a).prepaid - Reserved(a, "prepaid")
  BY DEF Available, AvailableAt, Balance
<1>5. /\ Available(a).real \in Int /\ Available(a).real >= FreeReal(a)
      /\ Available(a).prepaid \in Int /\ Available(a).prepaid >= FreePrepaid(a)
  BY <1>2, <1>3, <1>4 DEF FreeReal, FreePrepaid
<1>6. /\ FreePrepaid(a) >= 0
      /\ FreeReal(a) >= 0 \/ (FreeReal(a) > -DefaultPrice /\ DefaultExposed(a))
  BY DEF BudgetInv, Solvent
<1>7. CASE FreeReal(a) >= 0
  BY <1>2, <1>5, <1>6, <1>7
<1>8. CASE FreeReal(a) > -DefaultPrice /\ DefaultBilled(a)
  <2>1. DefaultCharged(a)
    BY <1>8 DEF DefaultBilled, DefaultCharged
  <2> QED
    BY <1>2, <1>5, <1>6, <1>8, <2>1
<1>9. ASSUME NEW r \in Requests, DefaultRow(Exposing(r, a)), FreeReal(a) > -DefaultPrice
      PROVE  \/ Available(a).real >= 0
             \/ Available(a).real > -DefaultPrice /\ DefaultCharged(a)
  <2>1. CASE OnRow(r, a)
    <3>1. DefaultCharged(a)
      BY <1>9, <2>1 DEF DefaultCharged, DefaultRow, Exposing, OnRow
    <3> QED
      BY <1>2, <1>5, <1>9, <3>1
  <2>2. CASE ~OnRow(r, a)
    <3>1. Reserved(a, "pay_as_you_go") + DefaultPrice <= Exposure(a, "pay_as_you_go")
      BY <1>1, <1>9, <2>2, ReservedExposed DEF ChargeTypes
    <3> QED
      BY <1>2, <1>3, <1>4, <1>9, <3>1 DEF FreeReal
  <2> QED
    BY <2>1, <2>2
<1> QED
  BY <1>2, <1>5, <1>6, <1>7, <1>8, <1>9 DEF DefaultExposed

-----------------------------------------------------------------------------
(* Whatever calls overlap, stop half way or are repeated, and whenever      *)
(* reservations run out: an account that starts with a balance is never     *)
(* overdrawn, but by one request at the default price, unless it has met    *)
(* one of the two hazards itself before.  Nothing is assumed of the clients *)
(* nor of the other accounts.                                               *)
THEOREM OnlyStrainedAreOverdrawn ==
  ASSUME \A a \in Accounts : Opening[a].real >= 0 /\ Opening[a].prepaid >= 0
  PROVE  NotedSpec => []OnlyStrainedOverdrawn
<1> DEFINE Safe(a) == HoldsInv(a) /\ BudgetInv(a) /\ ~Meets(a)
           Inv == IInv /\ \A a \in Accounts \ strained : Safe(a)
<1>1. NotedInit => Inv
  <2> SUFFICES ASSUME NotedInit PROVE Inv
    OBVIOUS
  <2>1. IInv
    BY InvariantInit DEF NotedInit
  <2> QED
    BY <2>1, BudgetInit DEF IInv, NotedInit
<1>2. Inv /\ [NotedNext]_notedVars => Inv'
  <2> SUFFICES ASSUME Inv, [NotedNext]_notedVars PROVE Inv'
    OBVIOUS
  <2>1. [Next]_vars
    BY DEF NotedNext, notedVars
  <2>2. IInv'
    BY <2>1, InvariantStep
  <2>3. ASSUME NEW a \in Accounts \ strained' PROVE Safe(a)'
    <3>1. a \notin strained /\ ~Meets(a)'
      <4>1. CASE NotedNext
        BY <4>1 DEF NotedNext
      <4>2. CASE UNCHANGED notedVars
        <5>1. a \notin strained /\ ~Meets(a) /\ UNCHANGED vars
          BY <4>2 DEF notedVars
        <5> QED
          BY <5>1 DEF vars, Meets, Overlapped, CommitsLate, Deciding, Holds
      <4> QED
        BY <4>1, <4>2
    <3> QED
      BY <2>1, <2>2, <3>1, BudgetStep DEF IInv
  <2> QED
    BY <2>2, <2>3
<1>3. Inv => OnlyStrainedOverdrawn
  BY BudgetIsNotOverdrawn DEF IInv, OnlyStrainedOverdrawn
<1> QED
  BY <1>1, <1>2, <1>3, PTL DEF NotedSpec
=============================================================================
