--------------------------- MODULE MintEscrowSums ---------------------------
(***************************************************************************)
(* Proofs about the amounts MintEscrow adds up: what was minted on a day,  *)
(* what the deposits add up to and what every user was paid, for any       *)
(* number of intents.                                                      *)
(***************************************************************************)
EXTENDS MintEscrowProofs, FiniteSetTheorems

(* Most leaves are first-order: Zenon tries them, and the ones that need    *)
(* arithmetic or the theory of functions cite SMT.                         *)
USE Zenon

-----------------------------------------------------------------------------
(* Sums over finite sets.                                                  *)

Chosen(s) == CHOOSE x \in s : TRUE

(* Unrolled is the defining equation of the fold behind SumFunctionOnSet,  *)
(* one chosen element after the other; Sums says that F sums g over every  *)
(* subset of S.                                                            *)
Unrolled(F, g, s) == IF s = {} THEN 0 ELSE g[Chosen(s)] + F[s \ {Chosen(s)}]

Sums(F, g, S) == F = [s \in SUBSET S |-> Unrolled(F, g, s)]

(* Induction over the subsets of a finite set, as the existence of a       *)
(* smallest one among those that lack a property.                          *)
LEMMA SmallestSubset ==
  ASSUME NEW S, IsFiniteSet(S), NEW T, T \subseteq SUBSET S, T # {}
  PROVE  \E X \in T : \A Y \in T : Y \subseteq X => Y = X
<1>1. IsWellFoundedOn(StrictSubsetOrdering(S), SUBSET S)
  BY FS_StrictSubsetOrderingWellFounded, FS_FiniteSubsetsOfFinite
<1>2. \E X \in T : \A Y \in T : ~ (<<Y, X>> \in StrictSubsetOrdering(S))
  BY <1>1, WFMin
<1> QED
  BY <1>2 DEF StrictSubsetOrdering

LEMMA SumIsChosen ==
  ASSUME NEW g, NEW S
  PROVE  Sum(g, S) = (CHOOSE F : Sums(F, g, S))[S]
BY DEF Sum, SumFunctionOnSet, FoldFunctionOnSet, MapThenFoldSet, Sums, Unrolled,
  Chosen

LEMMA ChosenIn ==
  ASSUME NEW s, s # {}
  PROVE  Chosen(s) \in s
BY DEF Chosen

(* There is only one way to sum.                                           *)
LEMMA SumsAgree ==
  ASSUME NEW g, NEW S, IsFiniteSet(S), NEW R, NEW F, NEW G,
         Sums(F, g, S), Sums(G, g, R), NEW s, s \subseteq S, s \subseteq R
  PROVE  F[s] = G[s]
<1> DEFINE T == {t \in SUBSET S : t \subseteq R /\ F[t] # G[t]}
<1> SUFFICES ASSUME s \in T PROVE FALSE
  OBVIOUS
<1>1. PICK X \in T : \A Y \in T : Y \subseteq X => Y = X
  <2>1. T \subseteq SUBSET S /\ T # {}
    OBVIOUS
  <2> HIDE DEF T
  <2> QED
    BY <2>1, SmallestSubset, SMT
<1>2. F[X] = Unrolled(F, g, X) /\ G[X] = Unrolled(G, g, X)
  BY DEF Sums
<1>3. X # {}
  BY <1>2 DEF Unrolled
<1> DEFINE Y == X \ {Chosen(X)}
<1>4. Y \in SUBSET S /\ Y \subseteq R /\ Y # X /\ Y \subseteq X
  BY <1>3, ChosenIn
<1>5. F[Y] = G[Y]
  BY <1>1, <1>4
<1> QED
  BY <1>1, <1>2, <1>3, <1>5 DEF Unrolled

LEMMA SumsExist ==
  ASSUME NEW g, NEW S, IsFiniteSet(S)
  PROVE  Sums(CHOOSE F : Sums(F, g, S), g, S)
<1> DEFINE SumOf(X) == CHOOSE F : Sums(F, g, X)
           T == {X \in SUBSET S : ~Sums(SumOf(X), g, X)}
<1> SUFFICES ASSUME S \in T PROVE FALSE
  OBVIOUS
<1>1. PICK X \in T : \A Y \in T : Y \subseteq X => Y = X
  <2>1. T \subseteq SUBSET S /\ T # {}
    OBVIOUS
  <2> HIDE DEF T
  <2> QED
    BY <2>1, SmallestSubset, SMT
<1>2. ASSUME NEW Y, Y \subseteq X, Y # X PROVE Sums(SumOf(Y), g, Y)
  BY <1>1, <1>2
<1>3. ASSUME NEW Y, Y \subseteq X PROVE IsFiniteSet(Y)
  BY <1>3, FS_Subset
<1> DEFINE Rest(s) == s \ {Chosen(s)}
           F == [s \in SUBSET X |->
                   IF s = {} THEN 0 ELSE g[Chosen(s)] + SumOf(Rest(s))[Rest(s)]]
<1>4. ASSUME NEW s, s \subseteq X, s # {}
      PROVE  F[Rest(s)] = SumOf(Rest(s))[Rest(s)]
  <2>1. Rest(s) \subseteq X /\ Rest(s) # X /\ Rest(s) \in SUBSET Rest(s)
    BY <1>4, ChosenIn
  <2>2. SumOf(Rest(s))[Rest(s)] = Unrolled(SumOf(Rest(s)), g, Rest(s))
    BY <1>2, <2>1, SMT DEF Sums
  <2>3. CASE Rest(s) = {}
    BY <2>1, <2>2, <2>3 DEF Unrolled
  <2>4. CASE Rest(s) # {}
    <3> DEFINE t == Rest(s)
    <3>1. /\ Rest(t) \subseteq t /\ Rest(t) # t /\ t \subseteq X
          /\ Rest(t) \subseteq X /\ Rest(t) # X
      BY <2>1, <2>4, ChosenIn
    <3>2. /\ Sums(SumOf(t), g, t) /\ IsFiniteSet(t)
          /\ Sums(SumOf(Rest(t)), g, Rest(t))
      BY <1>2, <1>3, <2>1, <3>1
    <3>3. SumOf(t)[Rest(t)] = SumOf(Rest(t))[Rest(t)]
      BY <3>1, <3>2, SumsAgree, SMT
    <3>4. F[t] = g[Chosen(t)] + SumOf(Rest(t))[Rest(t)]
      BY <2>1, <2>4
    <3> QED
      BY <2>2, <2>4, <3>3, <3>4 DEF Unrolled
  <2> QED
    BY <2>3, <2>4
<1>5. Sums(F, g, X)
  <2>1. ASSUME NEW s \in SUBSET X PROVE F[s] = Unrolled(F, g, s)
    <3>1. F[s] = IF s = {} THEN 0 ELSE g[Chosen(s)] + SumOf(Rest(s))[Rest(s)]
      OBVIOUS
    <3>2. s # {} => F[Rest(s)] = SumOf(Rest(s))[Rest(s)]
      BY <1>4
    <3> HIDE DEF F, SumOf
    <3> QED
      BY <3>1, <3>2 DEF Unrolled
  <2> QED
    BY <2>1 DEF Sums
<1>6. Sums(SumOf(X), g, X)
  BY <1>5
<1> QED
  BY <1>1, <1>6

LEMMA SumUnrolled ==
  ASSUME NEW g, NEW S, IsFiniteSet(S)
  PROVE  Sum(g, S) = IF S = {} THEN 0
                     ELSE g[Chosen(S)] + Sum(g, S \ {Chosen(S)})
<1> DEFINE SumOf(X) == CHOOSE F : Sums(F, g, X)
           R == S \ {Chosen(S)}
<1>1. IsFiniteSet(R) /\ R \subseteq S
  BY FS_Subset
<1>2. Sums(SumOf(S), g, S) /\ Sums(SumOf(R), g, R)
  BY <1>1, SumsExist
<1> HIDE DEF SumOf
<1>3. SumOf(S)[R] = SumOf(R)[R]
  <2> HIDE DEF R
  <2> QED
    BY <1>1, <1>2, SumsAgree, SMT
<1>4. SumOf(S)[S] = Unrolled(SumOf(S), g, S)
  BY <1>2 DEF Sums
<1>5. Sum(g, S) = SumOf(S)[S] /\ Sum(g, R) = SumOf(R)[R]
  BY SumIsChosen DEF SumOf
<1> QED
  BY <1>3, <1>4, <1>5 DEF Unrolled

LEMMA SumOfNone ==
  ASSUME NEW g PROVE Sum(g, {}) = 0
BY SumUnrolled, FS_EmptySet

(* A sum of natural numbers, and what any one of them contributes to it.   *)
LEMMA SumNat ==
  ASSUME NEW g, NEW S, IsFiniteSet(S), \A x \in S : g[x] \in Nat
  PROVE  Sum(g, S) \in Nat
<1> DEFINE T == {X \in SUBSET S : Sum(g, X) \notin Nat}
<1> SUFFICES ASSUME S \in T PROVE FALSE
  OBVIOUS
<1>1. PICK X \in T : \A Y \in T : Y \subseteq X => Y = X
  <2>1. T \subseteq SUBSET S /\ T # {}
    OBVIOUS
  <2> HIDE DEF T
  <2> QED
    BY <2>1, SmallestSubset, SMT
<1> DEFINE p == Chosen(X)
           R == X \ {p}
<1>2. IsFiniteSet(X) /\ X \subseteq S
  BY FS_Subset
<1>3. X # {} /\ Sum(g, X) = g[p] + Sum(g, R)
  BY <1>1, <1>2, SumUnrolled, SMT
<1>4. p \in X /\ R \subseteq X /\ R # X
  BY <1>3, ChosenIn
<1>5. Sum(g, R) \in Nat
  BY <1>1, <1>2, <1>4
<1>6. g[p] \in Nat
  BY <1>2, <1>4
<1> HIDE DEF p, R
<1> QED
  BY <1>1, <1>3, <1>5, <1>6, SMT

LEMMA SumWithout ==
  ASSUME NEW g, NEW S, IsFiniteSet(S), \A x \in S : g[x] \in Nat, NEW x \in S
  PROVE  Sum(g, S) = g[x] + Sum(g, S \ {x})
<1> DEFINE Splits(X) == \A y \in X : Sum(g, X) = g[y] + Sum(g, X \ {y})
           T == {X \in SUBSET S : ~Splits(X)}
<1> SUFFICES ASSUME S \in T PROVE FALSE
  OBVIOUS
<1>1. PICK X \in T : \A Y \in T : Y \subseteq X => Y = X
  <2>1. T \subseteq SUBSET S /\ T # {}
    OBVIOUS
  <2> HIDE DEF T
  <2> QED
    BY <2>1, SmallestSubset, SMT
<1>2. PICK y \in X : Sum(g, X) # g[y] + Sum(g, X \ {y})
  BY <1>1
<1> DEFINE p == Chosen(X)
<1>3. ASSUME NEW Y, Y \subseteq X
      PROVE  IsFiniteSet(Y) /\ Sum(g, Y) \in Nat
  BY <1>3, FS_Subset, SumNat
<1>4. p \in X /\ Sum(g, X) = g[p] + Sum(g, X \ {p})
  BY <1>2, <1>3, SumUnrolled, ChosenIn
<1> HIDE DEF p
<1>5. y # p
  BY <1>2, <1>4
<1>6. Splits(X \ {p}) /\ Splits(X \ {y})
  BY <1>1, <1>2, <1>4, SMT
<1>7. /\ Sum(g, X \ {p}) = g[y] + Sum(g, (X \ {p}) \ {y})
      /\ Sum(g, X \ {y}) = g[p] + Sum(g, (X \ {y}) \ {p})
  BY <1>2, <1>4, <1>5, <1>6
<1>8. (X \ {p}) \ {y} = (X \ {y}) \ {p}
  OBVIOUS
<1>9. g[y] \in Nat /\ g[p] \in Nat /\ Sum(g, (X \ {y}) \ {p}) \in Nat
  BY <1>2, <1>3, <1>4
<1>10. g[p] + (g[y] + Sum(g, (X \ {y}) \ {p}))
         = g[y] + (g[p] + Sum(g, (X \ {y}) \ {p}))
  BY <1>9, SMT
<1> HIDE DEF T, Splits
<1> QED
  BY <1>2, <1>4, <1>7, <1>8, <1>10

LEMMA SumWith ==
  ASSUME NEW g, NEW S, IsFiniteSet(S), NEW x, x \notin S,
         \A y \in S \cup {x} : g[y] \in Nat
  PROVE  Sum(g, S \cup {x}) = g[x] + Sum(g, S)
<1>1. IsFiniteSet(S \cup {x}) /\ (S \cup {x}) \ {x} = S
  BY FS_AddElement
<1> QED
  BY <1>1, SumWithout, SMT

(* A sum depends only on what it adds up.                                  *)
LEMMA SumSame ==
  ASSUME NEW g, NEW h, NEW S, IsFiniteSet(S), \A x \in S : g[x] = h[x]
  PROVE  Sum(g, S) = Sum(h, S)
<1> DEFINE T == {X \in SUBSET S : Sum(g, X) # Sum(h, X)}
<1> SUFFICES ASSUME S \in T PROVE FALSE
  OBVIOUS
<1>1. PICK X \in T : \A Y \in T : Y \subseteq X => Y = X
  <2>1. T \subseteq SUBSET S /\ T # {}
    OBVIOUS
  <2> HIDE DEF T
  <2> QED
    BY <2>1, SmallestSubset, SMT
<1> DEFINE p == Chosen(X)
           R == X \ {p}
<1>2. IsFiniteSet(X) /\ X \subseteq S
  BY FS_Subset
<1>3. X # {} /\ Sum(g, X) = g[p] + Sum(g, R) /\ Sum(h, X) = h[p] + Sum(h, R)
  BY <1>1, <1>2, SumUnrolled
<1>4. p \in X /\ R \subseteq X /\ R # X
  BY <1>3, ChosenIn
<1>5. Sum(g, R) = Sum(h, R)
  BY <1>1, <1>2, <1>4
<1>6. g[p] = h[p]
  BY <1>2, <1>4
<1> HIDE DEF p, R
<1> QED
  BY <1>1, <1>3, <1>5, <1>6

LEMMA SumOfZeros ==
  ASSUME NEW S, IsFiniteSet(S)
  PROVE  Sum([x \in S |-> 0], S) = 0
<1> DEFINE g == [x \in S |-> 0]
           T == {X \in SUBSET S : Sum(g, X) # 0}
<1> SUFFICES ASSUME S \in T PROVE FALSE
  OBVIOUS
<1>1. PICK X \in T : \A Y \in T : Y \subseteq X => Y = X
  <2>1. T \subseteq SUBSET S /\ T # {}
    OBVIOUS
  <2> HIDE DEF T
  <2> QED
    BY <2>1, SmallestSubset, SMT
<1>2. IsFiniteSet(X) /\ X \subseteq S
  BY FS_Subset
<1>3. X # {} /\ Sum(g, X) = g[Chosen(X)] + Sum(g, X \ {Chosen(X)})
  <2> HIDE DEF g
  <2> QED
    BY <1>1, <1>2, SumUnrolled
<1>4. Chosen(X) \in X /\ X \ {Chosen(X)} # X
  BY <1>3, ChosenIn
<1>5. Sum(g, X \ {Chosen(X)}) = 0 /\ g[Chosen(X)] = 0
  BY <1>1, <1>2, <1>4
<1> HIDE DEF g
<1> QED
  BY <1>1, <1>3, <1>5, SMT

(* What changing one entry of a table does to its sum.                     *)
LEMMA SumChanged ==
  ASSUME NEW g, NEW h, NEW S, IsFiniteSet(S), NEW x \in S,
         \A y \in S : g[y] \in Nat, h[x] \in Nat,
         \A y \in S \ {x} : h[y] = g[y]
  PROVE  /\ Sum(g, S) \in Nat
         /\ Sum(h, S) - h[x] = Sum(g, S) - g[x]
<1>1. IsFiniteSet(S \ {x})
  BY FS_Subset
<1>2. Sum(g, S) = g[x] + Sum(g, S \ {x}) /\ Sum(h, S) = h[x] + Sum(h, S \ {x})
  BY SumWithout, SMT
<1>3. Sum(g, S \ {x}) = Sum(h, S \ {x})
  BY <1>1, SumSame, SMT
<1>4. Sum(g, S \ {x}) \in Nat
  BY <1>1, SumNat
<1> QED
  BY <1>2, <1>3, <1>4, SMT

-----------------------------------------------------------------------------
(* The amounts of the book.                                                *)

(* No step changes the amount of a stored intent, so a sum over intents    *)
(* that were stored before is what it was.                                 *)
LEMMA AmountsKept ==
  ASSUME BookType, IsFiniteSet(DOMAIN intents),
         DOMAIN intents \subseteq DOMAIN intents',
         \A i \in DOMAIN intents : intents'[i].amount = intents[i].amount,
         NEW S, S \subseteq DOMAIN intents
  PROVE  /\ IsFiniteSet(S)
         /\ \A i \in S : Amount[i] \in Nat /\ Amount'[i] = Amount[i]
         /\ Sum(Amount, S) \in Nat
         /\ Sum(Amount', S) = Sum(Amount, S)
<1>1. IsFiniteSet(S)
  BY FS_Subset
<1>2. \A i \in S : Amount[i] \in Nat /\ Amount'[i] = Amount[i]
  BY EscrowAssumption DEF EscrowAssumption, BookType, MintIntent, Amount
<1> HIDE DEF Amount
<1> QED
  BY <1>1, <1>2, SumNat, SumSame

(* An intent that a step brings into a sum adds its amount.                *)
LEMMA AmountAdded ==
  ASSUME BookType, IsFiniteSet(DOMAIN intents),
         DOMAIN intents \subseteq DOMAIN intents',
         \A i \in DOMAIN intents : intents'[i].amount = intents[i].amount,
         NEW S, S \subseteq DOMAIN intents,
         NEW x, x \in DOMAIN intents', x \notin S, intents'[x].amount \in Nat
  PROVE  Sum(Amount', S \cup {x}) = Sum(Amount, S) + intents'[x].amount
<1>1. /\ IsFiniteSet(S)
      /\ \A i \in S : Amount[i] \in Nat /\ Amount'[i] = Amount[i]
      /\ Sum(Amount, S) \in Nat
      /\ Sum(Amount', S) = Sum(Amount, S)
  BY AmountsKept
<1>2. Amount'[x] = intents'[x].amount
  BY DEF Amount
<1> HIDE DEF Amount
<1>3. Sum(Amount', S \cup {x}) = Amount'[x] + Sum(Amount', S)
  BY <1>1, <1>2, SumWith
<1> QED
  BY <1>1, <1>2, <1>3, SMT

(* A payment raises one entry of a table, and the sum by as much.          *)
LEMMA TableRaised ==
  ASSUME NEW g, NEW h, NEW S, IsFiniteSet(S), NEW x \in S, NEW a \in Nat,
         \A y \in S : g[y] \in Nat, h[x] = g[x] + a,
         \A y \in S \ {x} : h[y] = g[y]
  PROVE  Sum(g, S) \in Nat /\ Sum(h, S) = Sum(g, S) + a
<1>1. g[x] \in Nat /\ h[x] \in Nat /\ \A y \in S : h[y] \in Nat
  BY SMT
<1>2. Sum(g, S) \in Nat /\ Sum(h, S) - h[x] = Sum(g, S) - g[x]
  BY <1>1, SumChanged, SMT
<1>3. Sum(h, S) \in Nat
  BY <1>1, SumNat
<1> QED
  BY <1>1, <1>2, <1>3, SMT

(* submitIntent brings the new intent into the Pending ones and moves no   *)
(* other.                                                                  *)
LEMMA OpenSets ==
  ASSUME BookType, NEW id, NEW rec, id \notin DOMAIN intents,
         rec.status = "Pending", intents' = Put(intents, id, rec)
  PROVE  /\ DOMAIN intents' = DOMAIN intents \cup {id}
         /\ intents'[id] = rec
         /\ \A i \in DOMAIN intents : intents'[i] = intents[i]
         /\ WithStatus({"Pending", "Executed"})' =
              WithStatus({"Pending", "Executed"}) \cup {id}
         /\ WithStatus({"Executed"})' = WithStatus({"Executed"})
         /\ WithStatus({"Refunded"})' = WithStatus({"Refunded"})
<1>1. /\ DOMAIN intents' = DOMAIN intents \cup {id}
      /\ intents'[id] = rec
      /\ \A i \in DOMAIN intents : intents'[i] = intents[i]
  BY DEF Put
<1> QED
  BY <1>1 DEF WithStatus

(* A settlement moves one Pending intent to its new status.                *)
LEMMA SettleSets ==
  ASSUME BookType, NEW id, NEW st \in MintStatus, Settleable(id),
         intents' = [intents EXCEPT ![id].status = st], NEW statuses
  PROVE  WithStatus(statuses)' =
           (WithStatus(statuses) \ {id}) \cup {i \in {id} : st \in statuses}
<1>1. id \in DOMAIN intents
  BY DEF Settleable
<1>2. /\ DOMAIN intents' = DOMAIN intents
      /\ intents'[id].status = st
      /\ \A i \in DOMAIN intents \ {id} : intents'[i] = intents[i]
  BY <1>1, SettleIntents
<1> QED
  BY <1>1, <1>2 DEF WithStatus

-----------------------------------------------------------------------------
(* Every step keeps the sums.                                              *)

LEMMA SubmitIntentSums ==
  ASSUME IInv, SumsInv, NEW sender \in Accounts, NEW amount \in Amounts,
         NEW country \in Countries \cup {Zero}, NEW txRef \in TxRefs \cup {Zero},
         SubmitIntent(sender, amount, country, txRef)
  PROVE  SumsInv'
<1> DEFINE id == IntentId(sender, amount, country, txRef)
           rec == [user |-> sender, amount |-> amount, countryCode |-> country,
                   txRef |-> txRef, status |-> "Pending"]
<1>1. /\ stablecoin # NoAddress
      /\ id \notin DOMAIN intents
      /\ intents' = Put(intents, id, rec)
      /\ balance' = [balance EXCEPT ![stablecoin] = @ + amount]
      /\ UNCHANGED <<dailyMinted, mintTime, paidBack, issued>>
  BY DEF SubmitIntent, ValidTxRef
<1>2. rec.status = "Pending" /\ rec.amount = amount /\ amount \in Nat
  BY EscrowAssumption DEF EscrowAssumption
<1>3. BookType /\ MoneyType /\ stablecoin \in Stablecoins
  BY <1>1 DEF IInv, TypeOK, ControlType
<1> HIDE DEF id, rec
<1>4. /\ DOMAIN intents' = DOMAIN intents \cup {id}
      /\ intents'[id] = rec
      /\ \A i \in DOMAIN intents : intents'[i] = intents[i]
      /\ WithStatus({"Pending", "Executed"})' =
           WithStatus({"Pending", "Executed"}) \cup {id}
      /\ WithStatus({"Executed"})' = WithStatus({"Executed"})
      /\ WithStatus({"Refunded"})' = WithStatus({"Refunded"})
  BY <1>1, <1>2, <1>3, OpenSets
<1>5. IsFiniteSet(DOMAIN intents')
  BY <1>4, FS_AddElement, SMT DEF SumsInv
<1>6. ASSUME NEW S, S \subseteq DOMAIN intents
      PROVE  Sum(Amount', S) = Sum(Amount, S) /\ Sum(Amount, S) \in Nat
  BY <1>3, <1>4, <1>6, AmountsKept DEF SumsInv
<1>7. \A b : ExecutedOn(b)' = ExecutedOn(b) /\ ExecutedOn(b) \subseteq DOMAIN intents
  BY <1>1, <1>4 DEF ExecutedOn, WithStatus
<1>8. DailyMintedExact'
  BY <1>1, <1>6, <1>7 DEF SumsInv, DailyMintedExact
<1>9. DepositsBacked'
  <2> DEFINE S == WithStatus({"Pending", "Executed"})
  <2>1. S \subseteq DOMAIN intents /\ id \notin S
    BY <1>1 DEF WithStatus
  <2> HIDE DEF S
  <2>2. Sum(Amount', S \cup {id}) = Sum(Amount, S) + amount
    BY <1>2, <1>3, <1>4, <2>1, AmountAdded DEF SumsInv
  <2>3. /\ Sum(balance, Stablecoins) \in Nat
        /\ Sum(balance', Stablecoins) = Sum(balance, Stablecoins) + amount
    <3>1. /\ \A c \in Stablecoins : balance[c] \in Nat
          /\ balance'[stablecoin] = balance[stablecoin] + amount
          /\ \A c \in Stablecoins \ {stablecoin} : balance'[c] = balance[c]
      BY <1>1, <1>3 DEF MoneyType
    <3>2. IsFiniteSet(Stablecoins)
      BY EscrowAssumption DEF EscrowAssumption
    <3> QED
      BY <1>2, <1>3, <3>1, <3>2, TableRaised, SMT
  <2>4. Sum(balance, Stablecoins) >= Sum(Amount, S) /\ Sum(Amount, S) \in Nat
    BY <1>6, <2>1 DEF SumsInv, DepositsBacked, S
  <2>5. Sum(balance', Stablecoins) >= Sum(Amount', S \cup {id})
    BY <1>2, <2>2, <2>3, <2>4, SMT
  <2> QED
    BY <1>4, <2>5 DEF DepositsBacked, S
<1>10. PaidOncePerIntent'
  <2>1. ASSUME NEW u \in Accounts
        PROVE  /\ IntentsOf(u, {"Executed"})' = IntentsOf(u, {"Executed"})
               /\ IntentsOf(u, {"Refunded"})' = IntentsOf(u, {"Refunded"})
               /\ IntentsOf(u, {"Executed"}) \subseteq DOMAIN intents
               /\ IntentsOf(u, {"Refunded"}) \subseteq DOMAIN intents
    BY <1>4, SMT DEF IntentsOf, WithStatus
  <2> QED
    BY <1>1, <1>6, <2>1, SMT DEF SumsInv, PaidOncePerIntent
<1> QED
  BY <1>1, <1>4, <1>5, <1>8, <1>9, <1>10 DEF SumsInv

(* What a settlement leaves alone: the amounts, and the intents themselves.*)
LEMMA SettleAmounts ==
  ASSUME IInv, SumsInv, NEW id, NEW st \in MintStatus, Settleable(id),
         intents' = [intents EXCEPT ![id].status = st]
  PROVE  /\ id \in DOMAIN intents /\ intents[id].amount \in Nat
         /\ intents[id].user \in Accounts /\ intents[id].status = "Pending"
         /\ DOMAIN intents' = DOMAIN intents /\ IsFiniteSet(DOMAIN intents')
         /\ \A i \in DOMAIN intents :
              /\ intents'[i].user = intents[i].user
              /\ intents'[i].amount = intents[i].amount
         /\ \A S \in SUBSET DOMAIN intents :
              /\ Sum(Amount', S) = Sum(Amount, S)
              /\ Sum(Amount, S) \in Nat
              /\ id \notin S =>
                   Sum(Amount', S \cup {id}) = Sum(Amount, S) + intents[id].amount
<1>1. id \in DOMAIN intents /\ intents[id].status = "Pending" /\ BookType
  BY DEF Settleable, IInv, TypeOK
<1>2. /\ intents[id].amount \in Nat /\ intents[id].user \in Accounts
      /\ DOMAIN intents' = DOMAIN intents
      /\ \A i \in DOMAIN intents :
           /\ intents'[i].user = intents[i].user
           /\ intents'[i].amount = intents[i].amount
  BY <1>1, SettleIntents
<1>3. IsFiniteSet(DOMAIN intents)
  BY DEF SumsInv
<1>4. ASSUME NEW S \in SUBSET DOMAIN intents
      PROVE  /\ Sum(Amount', S) = Sum(Amount, S)
             /\ Sum(Amount, S) \in Nat
             /\ id \notin S =>
                  Sum(Amount', S \cup {id}) = Sum(Amount, S) + intents[id].amount
  BY <1>1, <1>2, <1>3, AmountsKept, AmountAdded, SMT
<1> QED
  BY <1>1, <1>2, <1>3, <1>4

LEMMA ExecuteMintSums ==
  ASSUME IInv, SumsInv, NEW sender \in Accounts, NEW id \in IntentIds,
         ExecuteMint(sender, id)
  PROVE  SumsInv'
<1> DEFINE amount == intents[id].amount
           user == intents[id].user
           token == countryTokens[intents[id].countryCode]
           bucket == DayBucket(now)
<1>1. /\ Settleable(id) /\ token # NoAddress
      /\ intents' = [intents EXCEPT ![id].status = "Executed"]
      /\ dailyMinted' = Put(dailyMinted, bucket, DailyMinted(bucket) + amount)
      /\ issued' = [issued EXCEPT ![token][user] = @ + amount]
      /\ mintTime' = Put(mintTime, id, now)
      /\ UNCHANGED <<balance, paidBack>>
  BY DEF ExecuteMint, Minted
<1>2. "Executed" \in MintStatus
  BY DEF MintStatus
<1>3. /\ id \in DOMAIN intents /\ amount \in Nat /\ user \in Accounts
      /\ intents[id].status = "Pending"
      /\ DOMAIN intents' = DOMAIN intents /\ IsFiniteSet(DOMAIN intents')
      /\ \A i \in DOMAIN intents :
           /\ intents'[i].user = intents[i].user
           /\ intents'[i].amount = intents[i].amount
  BY <1>1, <1>2, SettleAmounts
<1>4. ASSUME NEW S \in SUBSET DOMAIN intents
      PROVE  /\ Sum(Amount', S) = Sum(Amount, S)
             /\ Sum(Amount, S) \in Nat
             /\ id \notin S => Sum(Amount', S \cup {id}) = Sum(Amount, S) + amount
  BY <1>1, <1>2, SettleAmounts
<1>5. BookType /\ MoneyType /\ token \in Tokens /\ bucket \in Nat
  BY <1>1, <1>3, DayBucketType DEF IInv, TypeOK, ControlType, BookType, MintIntent
<1>6. /\ WithStatus({"Executed"})' = WithStatus({"Executed"}) \cup {id}
      /\ WithStatus({"Refunded"})' = WithStatus({"Refunded"})
      /\ WithStatus({"Pending", "Executed"})' = WithStatus({"Pending", "Executed"})
      /\ id \notin WithStatus({"Executed"})
  <2>1. \A statuses : WithStatus(statuses)' = (WithStatus(statuses) \ {id})
                         \cup {i \in {id} : "Executed" \in statuses}
    BY <1>1, <1>2, <1>5, SettleSets
  <2>2. /\ id \notin WithStatus({"Executed"}) /\ id \notin WithStatus({"Refunded"})
        /\ id \in WithStatus({"Pending", "Executed"})
    BY <1>3 DEF WithStatus
  <2> HIDE DEF WithStatus
  <2> QED
    BY <2>1, <2>2
<1>7. \A i \in WithStatus({"Executed"}) :
        i \in DOMAIN mintTime /\ mintTime[i] \div OneDay \in DOMAIN dailyMinted
  BY DEF SumsInv
<1>8. /\ DOMAIN dailyMinted' = DOMAIN dailyMinted \cup {bucket}
      /\ dailyMinted'[bucket] = DailyMinted(bucket) + amount
      /\ \A b \in DOMAIN dailyMinted \ {bucket} : dailyMinted'[b] = dailyMinted[b]
      /\ DOMAIN mintTime' = DOMAIN mintTime \cup {id}
      /\ mintTime'[id] \div OneDay = bucket
      /\ \A i \in DOMAIN mintTime \ {id} : mintTime'[i] = mintTime[i]
  BY <1>1 DEF Put, DayBucket
<1>9. \A i \in WithStatus({"Executed"})' :
        i \in DOMAIN mintTime' /\ mintTime'[i] \div OneDay \in DOMAIN dailyMinted'
  <2> HIDE DEF bucket, amount, token, user
  <2> QED
    BY <1>6, <1>7, <1>8
<1>10. DailyMintedExact'
  <2> HIDE DEF amount, user, token, bucket
  <2> SUFFICES ASSUME NEW b \in DOMAIN dailyMinted'
               PROVE  dailyMinted'[b] = Sum(Amount', ExecutedOn(b)')
    BY DEF DailyMintedExact
  <2>1. ExecutedOn(b) \in SUBSET DOMAIN intents /\ id \notin ExecutedOn(b)
    BY <1>6 DEF ExecutedOn, WithStatus
  <2>2. DailyMinted(b) = Sum(Amount, ExecutedOn(b))
    <3>1. CASE b \in DOMAIN dailyMinted
      BY <3>1 DEF DailyMinted, SumsInv, DailyMintedExact
    <3>2. CASE b \notin DOMAIN dailyMinted
      <4>1. ExecutedOn(b) = {}
        BY <1>7, <3>2 DEF ExecutedOn
      <4> QED
        BY <3>2, <4>1, SumOfNone DEF DailyMinted
    <3> QED
      BY <3>1, <3>2
  <2>3. CASE b = bucket
    <3>1. ExecutedOn(b)' = ExecutedOn(b) \cup {id}
      BY <1>6, <1>7, <1>8, <2>3 DEF ExecutedOn
    <3> QED
      BY <1>4, <1>8, <2>1, <2>2, <2>3, <3>1
  <2>4. CASE b # bucket
    <3>1. ExecutedOn(b)' = ExecutedOn(b)
      BY <1>6, <1>7, <1>8, <2>4 DEF ExecutedOn
    <3>2. dailyMinted'[b] = DailyMinted(b)
      BY <1>8, <2>4 DEF DailyMinted
    <3> QED
      BY <1>4, <2>1, <2>2, <3>1, <3>2
  <2> QED
    BY <2>3, <2>4
<1>11. DepositsBacked'
  <2>1. WithStatus({"Pending", "Executed"}) \in SUBSET DOMAIN intents
    BY DEF WithStatus
  <2>2. UNCHANGED Sum(balance, Stablecoins)
    BY <1>1
  <2> QED
    BY <1>4, <1>6, <2>1, <2>2 DEF SumsInv, DepositsBacked
<1>12. PaidOncePerIntent'
  <2> HIDE DEF amount, user, token, bucket
  <2> SUFFICES ASSUME NEW u \in Accounts
               PROVE  /\ Sum([t \in Tokens |-> issued'[t][u]], Tokens)
                           = Sum(Amount', IntentsOf(u, {"Executed"})')
                      /\ Sum([c \in Stablecoins |-> paidBack'[c][u]], Stablecoins)
                           = Sum(Amount', IntentsOf(u, {"Refunded"})')
    BY DEF PaidOncePerIntent
  <2> DEFINE E == IntentsOf(u, {"Executed"})
             g == [t \in Tokens |-> issued[t][u]]
             h == [t \in Tokens |-> issued'[t][u]]
  <2>1. /\ E \in SUBSET DOMAIN intents /\ id \notin E
        /\ IntentsOf(u, {"Refunded"}) \in SUBSET DOMAIN intents
        /\ IntentsOf(u, {"Refunded"})' = IntentsOf(u, {"Refunded"})
    BY <1>3, <1>6, SMT DEF IntentsOf, WithStatus
  <2>2. /\ Sum(g, Tokens) = Sum(Amount, E)
        /\ Sum([c \in Stablecoins |-> paidBack[c][u]], Stablecoins)
             = Sum(Amount, IntentsOf(u, {"Refunded"}))
    BY DEF SumsInv, PaidOncePerIntent
  <2>3. Sum([c \in Stablecoins |-> paidBack'[c][u]], Stablecoins)
          = Sum(Amount', IntentsOf(u, {"Refunded"})')
    BY <1>1, <1>4, <2>1, <2>2
  <2>4. CASE u = user
    <3>1. E' = E \cup {id}
      BY <1>3, <1>6, <2>4, SMT DEF IntentsOf, WithStatus, user
    <3>2. /\ \A t \in Tokens : g[t] \in Nat
          /\ h[token] = g[token] + amount
          /\ \A t \in Tokens \ {token} : h[t] = g[t]
      BY <1>1, <1>3, <1>5, <2>4, SMT DEF MoneyType
    <3>3. IsFiniteSet(Tokens)
      BY EscrowAssumption DEF EscrowAssumption
    <3> HIDE DEF E, g, h
    <3>4. Sum(h, Tokens) = Sum(g, Tokens) + amount
      BY <1>3, <1>5, <3>2, <3>3, TableRaised, SMT
    <3>5. Sum(Amount', E \cup {id}) = Sum(Amount, E) + amount
      BY <1>4, <2>1
    <3>6. Sum(h, Tokens) = Sum(Amount', E')
      BY <2>2, <3>1, <3>4, <3>5
    <3> QED
      BY <2>3, <3>6 DEF E, h
  <2>5. CASE u # user
    <3>1. E' = E
      BY <1>3, <1>6, <2>5, SMT DEF IntentsOf, WithStatus, user
    <3>2. h = g
      BY <1>1, <1>3, <1>5, <2>5 DEF MoneyType
    <3> HIDE DEF E, g
    <3>3. Sum(h, Tokens) = Sum(Amount', E')
      BY <1>4, <2>1, <2>2, <3>1, <3>2
    <3> QED
      BY <2>3, <3>3 DEF E
  <2> QED
    BY <2>4, <2>5
<1> QED
  BY <1>3, <1>9, <1>10, <1>11, <1>12 DEF SumsInv

LEMMA RefundIntentSums ==
  ASSUME IInv, SumsInv, NEW sender \in Accounts, NEW id \in IntentIds,
         RefundIntent(sender, id)
  PROVE  SumsInv'
<1> DEFINE amount == intents[id].amount
           user == intents[id].user
<1>1. /\ Settleable(id) /\ balance[stablecoin] >= amount
      /\ intents' = [intents EXCEPT ![id].status = "Refunded"]
      /\ balance' = [balance EXCEPT ![stablecoin] = @ - amount]
      /\ paidBack' = [paidBack EXCEPT ![stablecoin][user] = @ + amount]
      /\ UNCHANGED <<dailyMinted, mintTime, issued>>
  BY DEF RefundIntent, TakenOut
<1>2. "Refunded" \in MintStatus
  BY DEF MintStatus
<1>3. /\ id \in DOMAIN intents /\ amount \in Nat /\ user \in Accounts
      /\ intents[id].status = "Pending"
      /\ DOMAIN intents' = DOMAIN intents /\ IsFiniteSet(DOMAIN intents')
      /\ \A i \in DOMAIN intents :
           /\ intents'[i].user = intents[i].user
           /\ intents'[i].amount = intents[i].amount
  BY <1>1, <1>2, SettleAmounts
<1>4. ASSUME NEW S \in SUBSET DOMAIN intents
      PROVE  /\ Sum(Amount', S) = Sum(Amount, S)
             /\ Sum(Amount, S) \in Nat
             /\ id \notin S => Sum(Amount', S \cup {id}) = Sum(Amount, S) + amount
  BY <1>1, <1>2, SettleAmounts
<1>5. BookType /\ MoneyType /\ stablecoin \in Stablecoins /\ IsFiniteSet(Stablecoins)
  BY <1>3, EscrowAssumption
     DEF EscrowAssumption, IInv, TypeOK, ControlType, AcceptedStaysConfigured
<1>6. /\ WithStatus({"Executed"})' = WithStatus({"Executed"})
      /\ WithStatus({"Refunded"})' = WithStatus({"Refunded"}) \cup {id}
      /\ WithStatus({"Pending", "Executed"})' =
           WithStatus({"Pending", "Executed"}) \ {id}
      /\ id \notin WithStatus({"Refunded"})
      /\ id \in WithStatus({"Pending", "Executed"})
  <2>1. \A statuses : WithStatus(statuses)' = (WithStatus(statuses) \ {id})
                         \cup {i \in {id} : "Refunded" \in statuses}
    BY <1>1, <1>2, <1>5, SettleSets
  <2>2. /\ id \notin WithStatus({"Executed"}) /\ id \notin WithStatus({"Refunded"})
        /\ id \in WithStatus({"Pending", "Executed"})
    BY <1>3 DEF WithStatus
  <2> HIDE DEF WithStatus
  <2> QED
    BY <2>1, <2>2
<1>7. \A i \in WithStatus({"Executed"})' :
        i \in DOMAIN mintTime' /\ mintTime'[i] \div OneDay \in DOMAIN dailyMinted'
  BY <1>1, <1>6 DEF SumsInv
<1> HIDE DEF amount, user
<1>8. DailyMintedExact'
  <2>1. \A b : /\ ExecutedOn(b)' = ExecutedOn(b)
               /\ ExecutedOn(b) \in SUBSET DOMAIN intents
    BY <1>1, <1>6 DEF ExecutedOn, WithStatus
  <2> QED
    BY <1>1, <1>4, <2>1 DEF SumsInv, DailyMintedExact
<1>9. DepositsBacked'
  <2> DEFINE P == WithStatus({"Pending", "Executed"})
             R == P \ {id}
  <2>1. P = R \cup {id} /\ R \in SUBSET DOMAIN intents /\ id \notin R
        /\ P \in SUBSET DOMAIN intents
    BY <1>6, SMT DEF WithStatus
  <2>2. P' = R
    BY <1>6
  <2>3. Sum(balance, Stablecoins) >= Sum(Amount, P)
    BY DEF SumsInv, DepositsBacked
  <2>4. /\ \A c \in Stablecoins : balance[c] \in Nat
        /\ balance'[stablecoin] \in Nat
        /\ balance'[stablecoin] = balance[stablecoin] - amount
        /\ \A c \in Stablecoins \ {stablecoin} : balance'[c] = balance[c]
    BY <1>1, <1>3, <1>5, SMT DEF MoneyType
  <2>5. /\ Sum(balance, Stablecoins) \in Nat
        /\ Sum(balance', Stablecoins) - balance'[stablecoin] =
             Sum(balance, Stablecoins) - balance[stablecoin]
    BY <1>5, <2>4, SumChanged, SMT
  <2>6. Sum(balance', Stablecoins) \in Nat
    BY <1>5, <2>4, SumNat
  <2> HIDE DEF P, R
  <2>7. Sum(balance', Stablecoins) = Sum(balance, Stablecoins) - amount
    BY <1>3, <1>5, <2>4, <2>5, <2>6, SMT
  <2>8. Sum(Amount, P) = Sum(Amount, R) + amount /\ Sum(Amount', R) = Sum(Amount, R)
        /\ Sum(Amount, R) \in Nat
    BY <1>4, <2>1
  <2>9. Sum(balance', Stablecoins) >= Sum(Amount', R)
    BY <1>3, <2>3, <2>5, <2>7, <2>8, SMT
  <2> QED
    BY <2>2, <2>9 DEF DepositsBacked, P
<1>10. PaidOncePerIntent'
  <2> SUFFICES ASSUME NEW u \in Accounts
               PROVE  /\ Sum([t \in Tokens |-> issued'[t][u]], Tokens)
                           = Sum(Amount', IntentsOf(u, {"Executed"})')
                      /\ Sum([c \in Stablecoins |-> paidBack'[c][u]], Stablecoins)
                           = Sum(Amount', IntentsOf(u, {"Refunded"})')
    BY DEF PaidOncePerIntent
  <2> DEFINE R == IntentsOf(u, {"Refunded"})
             g == [c \in Stablecoins |-> paidBack[c][u]]
             h == [c \in Stablecoins |-> paidBack'[c][u]]
  <2>1. /\ R \in SUBSET DOMAIN intents /\ id \notin R
        /\ IntentsOf(u, {"Executed"}) \in SUBSET DOMAIN intents
        /\ IntentsOf(u, {"Executed"})' = IntentsOf(u, {"Executed"})
    BY <1>3, <1>6, SMT DEF IntentsOf, WithStatus
  <2>2. /\ Sum(g, Stablecoins) = Sum(Amount, R)
        /\ Sum([t \in Tokens |-> issued[t][u]], Tokens)
             = Sum(Amount, IntentsOf(u, {"Executed"}))
    BY DEF SumsInv, PaidOncePerIntent
  <2>3. Sum([t \in Tokens |-> issued'[t][u]], Tokens)
          = Sum(Amount', IntentsOf(u, {"Executed"})')
    BY <1>1, <1>4, <2>1, <2>2
  <2>4. CASE u = user
    <3>1. R' = R \cup {id}
      BY <1>3, <1>6, <2>4, SMT DEF IntentsOf, WithStatus, user
    <3>2. /\ \A c \in Stablecoins : g[c] \in Nat
          /\ h[stablecoin] = g[stablecoin] + amount
          /\ \A c \in Stablecoins \ {stablecoin} : h[c] = g[c]
      BY <1>1, <1>3, <1>5, <2>4, SMT DEF MoneyType
    <3> HIDE DEF R, g, h
    <3>3. Sum(h, Stablecoins) = Sum(g, Stablecoins) + amount
      BY <1>3, <1>5, <3>2, TableRaised, SMT
    <3>4. Sum(Amount', R \cup {id}) = Sum(Amount, R) + amount
      BY <1>4, <2>1
    <3>5. Sum(h, Stablecoins) = Sum(Amount', R')
      BY <2>2, <3>1, <3>3, <3>4
    <3> QED
      BY <2>3, <3>5 DEF R, h
  <2>5. CASE u # user
    <3>1. R' = R
      BY <1>3, <1>6, <2>5, SMT DEF IntentsOf, WithStatus, user
    <3>2. h = g
      BY <1>1, <1>3, <1>5, <2>5 DEF MoneyType
    <3> HIDE DEF R, g
    <3>3. Sum(h, Stablecoins) = Sum(Amount', R')
      BY <1>4, <2>1, <2>2, <3>1, <3>2
    <3> QED
      BY <2>3, <3>3 DEF R
  <2> QED
    BY <2>4, <2>5
<1> QED
  BY <1>3, <1>7, <1>8, <1>9, <1>10 DEF SumsInv

-----------------------------------------------------------------------------
(* The invariant, and what follows from it.                                *)

LEMMA InitSums == Init => SumsInv
<1> SUFFICES ASSUME Init PROVE SumsInv
  OBVIOUS
<1> DEFINE zero == [c \in Stablecoins |-> 0]
           none == [t \in Tokens |-> 0]
<1>1. /\ DOMAIN intents = {} /\ DOMAIN dailyMinted = {} /\ balance = zero
      /\ \A u \in Accounts : /\ [t \in Tokens |-> issued[t][u]] = none
                             /\ [c \in Stablecoins |-> paidBack[c][u]] = zero
  BY DEF Init
<1>2. /\ \A s : WithStatus(s) = {}
      /\ \A u, s : IntentsOf(u, s) = {}
  BY <1>1 DEF WithStatus, IntentsOf
<1>3. IsFiniteSet(DOMAIN intents)
  BY <1>1, FS_EmptySet
<1>4. Sum(zero, Stablecoins) = 0 /\ Sum(none, Tokens) = 0 /\ Sum(Amount, {}) = 0
  BY SumOfZeros, SumOfNone, EscrowAssumption DEF EscrowAssumption
<1> HIDE DEF zero, none
<1>5. DepositsBacked
  BY <1>1, <1>2, <1>4, SMT DEF DepositsBacked
<1>6. PaidOncePerIntent
  BY <1>1, <1>2, <1>4 DEF PaidOncePerIntent
<1> QED
  BY <1>1, <1>2, <1>3, <1>5, <1>6 DEF SumsInv, DailyMintedExact

(* Nobody but the escrow changes what it added up; a transfer to it raises *)
(* its balance.                                                            *)
LEMMA OtherSums ==
  ASSUME SumsInv, UNCHANGED <<book, paidBack, issued>>, DepositsBacked'
  PROVE  SumsInv'
<1>1. UNCHANGED <<intents, dailyMinted, mintTime, paidBack, issued>>
  BY DEF book
<1>2. /\ UNCHANGED Amount
      /\ \A s : WithStatus(s)' = WithStatus(s)
      /\ \A u, s : IntentsOf(u, s)' = IntentsOf(u, s)
      /\ \A b : ExecutedOn(b)' = ExecutedOn(b)
  BY <1>1 DEF Amount, WithStatus, IntentsOf, ExecutedOn
<1>3. DailyMintedExact'
  BY <1>1, <1>2 DEF SumsInv, DailyMintedExact
<1>4. PaidOncePerIntent'
  BY <1>1, <1>2 DEF SumsInv, PaidOncePerIntent
<1> QED
  BY <1>1, <1>2, <1>3, <1>4 DEF SumsInv

LEMMA NextSums == IInv /\ SumsInv /\ [Next]_vars => SumsInv'
<1> SUFFICES ASSUME IInv, SumsInv, [Next]_vars PROVE SumsInv'
  OBVIOUS
<1>1. CASE UserOperation
  BY <1>1, SubmitIntentSums, ExecuteMintSums, RefundIntentSums
     DEF UserOperation
<1>2. ASSUME UNCHANGED <<book, money>>
      PROVE  SumsInv'
  <2>1. UNCHANGED <<intents, balance, paidBack, issued>>
    BY <1>2 DEF book, money
  <2>2. UNCHANGED Amount /\ UNCHANGED WithStatus({"Pending", "Executed"})
    BY <2>1 DEF Amount, WithStatus
  <2>3. DepositsBacked'
    BY <2>1, <2>2 DEF SumsInv, DepositsBacked
  <2> QED
    BY <1>2, <2>1, <2>3, OtherSums
<1>3. CASE AdminOperation
  BY <1>2, <1>3, AdminOperationStep DEF IInv, TypeOK
<1>4. CASE Environment
  <2>1. ASSUME NEW coin \in Stablecoins, NEW amount \in Amounts,
               Donate(coin, amount)
        PROVE  SumsInv'
    <3>1. /\ balance' = [balance EXCEPT ![coin] = @ + amount]
          /\ UNCHANGED <<book, paidBack, issued>>
      BY <2>1 DEF Donate
    <3>2. amount \in Nat /\ IsFiniteSet(Stablecoins)
      BY EscrowAssumption DEF EscrowAssumption
    <3>3. /\ \A c \in Stablecoins : balance[c] \in Nat
          /\ balance'[coin] = balance[coin] + amount
          /\ \A c \in Stablecoins \ {coin} : balance'[c] = balance[c]
      BY <3>1 DEF IInv, TypeOK, MoneyType
    <3>4. /\ Sum(balance, Stablecoins) \in Nat
          /\ Sum(balance', Stablecoins) = Sum(balance, Stablecoins) + amount
      BY <3>2, <3>3, TableRaised, SMT
    <3> DEFINE P == WithStatus({"Pending", "Executed"})
    <3>5. UNCHANGED <<Amount, P>>
      BY <3>1 DEF book, Amount, WithStatus
    <3>6. Sum(Amount, P) \in Nat
      <4>1. P \subseteq DOMAIN intents /\ IsFiniteSet(P)
        BY FS_Subset DEF WithStatus, SumsInv
      <4>2. \A i \in P : Amount[i] \in Nat
        BY <4>1, EscrowAssumption
           DEF EscrowAssumption, IInv, TypeOK, BookType, MintIntent, Amount
      <4> QED
        BY <4>1, <4>2, SumNat
    <3>7. Sum(balance, Stablecoins) >= Sum(Amount, P)
      BY DEF SumsInv, DepositsBacked
    <3> HIDE DEF P
    <3>8. Sum(balance', Stablecoins) >= Sum(Amount', P')
      BY <3>2, <3>4, <3>5, <3>6, <3>7, SMT
    <3>9. DepositsBacked'
      BY <3>8 DEF DepositsBacked, P
    <3> QED
      BY <3>1, <3>9, OtherSums
  <2> QED
    BY <1>2, <1>4, <2>1 DEF Environment, Tick, ChangeCompliance, ChangeMinter
<1>5. CASE UNCHANGED vars
  BY <1>2, <1>5 DEF vars
<1> QED
  BY <1>1, <1>3, <1>4, <1>5 DEF Next

LEMMA SumsInvariance == Spec => []SumsInv
BY Invariance, InitSums, NextSums, PTL DEF Spec

(* dailyMinted is, for every day, exactly what executeMint minted on it:   *)
(* the limit counts every mint once and nothing else.                      *)
THEOREM DailyMintedIsTheSum == Spec => []DailyMintedExact
<1>1. SumsInv => DailyMintedExact
  BY DEF SumsInv
<1> QED
  BY <1>1, SumsInvariance, PTL

(* However many intents are submitted, minted and refunded, in whatever    *)
(* coins, the escrow holds at least the deposits of all it did not refund. *)
THEOREM DepositsStayBacked == Spec => []DepositsBacked
<1>1. SumsInv => DepositsBacked
  BY DEF SumsInv
<1> QED
  BY <1>1, SumsInvariance, PTL

(* Every user received in tokens exactly what the user's executed intents  *)
(* say, and in stablecoins exactly what the refunded ones say.             *)
THEOREM EveryIntentPaidOnce == Spec => []PaidOncePerIntent
<1>1. SumsInv => PaidOncePerIntent
  BY DEF SumsInv
<1> QED
  BY <1>1, SumsInvariance, PTL

-----------------------------------------------------------------------------
(* Deposits in one coin.                                                   *)

LEMMA OpenAmounts ==
  ASSUME IInv, SumsInv
  PROVE  LET P == WithStatus({"Pending", "Executed"})
         IN  P \subseteq DOMAIN intents /\ IsFiniteSet(P) /\ Sum(Amount, P) \in Nat
<1> DEFINE P == WithStatus({"Pending", "Executed"})
<1>1. P \subseteq DOMAIN intents /\ IsFiniteSet(P)
  BY FS_Subset DEF WithStatus, SumsInv
<1>2. \A i \in P : Amount[i] \in Nat
  BY <1>1, EscrowAssumption
     DEF EscrowAssumption, IInv, TypeOK, BookType, MintIntent, Amount
<1> QED
  BY <1>1, <1>2, SumNat

LEMMA SubmitIntentCoin ==
  ASSUME IInv, SumsInv, CoinInv, NEW sender \in Accounts, NEW amount \in Amounts,
         NEW country \in Countries \cup {Zero}, NEW txRef \in TxRefs \cup {Zero},
         SubmitIntent(sender, amount, country, txRef)
  PROVE  CoinInv'
<1> DEFINE id == IntentId(sender, amount, country, txRef)
           rec == [user |-> sender, amount |-> amount, countryCode |-> country,
                   txRef |-> txRef, status |-> "Pending"]
           P == WithStatus({"Pending", "Executed"})
<1>1. /\ stablecoin # NoAddress
      /\ id \notin DOMAIN intents
      /\ intents' = Put(intents, id, rec)
      /\ balance' = [balance EXCEPT ![stablecoin] = @ + amount]
      /\ deposit' = Put(deposit, id, stablecoin)
  BY DEF SubmitIntent, ValidTxRef
<1>2. rec.status = "Pending" /\ rec.amount = amount /\ amount \in Nat
  BY EscrowAssumption DEF EscrowAssumption
<1>3. BookType /\ MoneyType /\ stablecoin \in Stablecoins
  BY <1>1 DEF IInv, TypeOK, ControlType
<1> HIDE DEF id, rec
<1>4. /\ DOMAIN intents' = DOMAIN intents \cup {id}
      /\ intents'[id] = rec
      /\ \A i \in DOMAIN intents : intents'[i] = intents[i]
      /\ P' = P \cup {id}
  BY <1>1, <1>2, <1>3, OpenSets
<1>5. P \subseteq DOMAIN intents /\ id \notin P /\ Sum(Amount, P) \in Nat
  BY <1>1, OpenAmounts
<1> HIDE DEF P
<1>6. Sum(Amount', P \cup {id}) = Sum(Amount, P) + amount
  BY <1>2, <1>3, <1>4, <1>5, AmountAdded DEF SumsInv
<1>7. /\ deposit'[id] = stablecoin
      /\ \A i \in DOMAIN intents : deposit'[i] = deposit[i]
  BY <1>1, <1>3 DEF Put, BookType
<1>8. /\ balance[stablecoin] \in Nat
      /\ balance'[stablecoin] = balance[stablecoin] + amount
  BY <1>1, <1>3 DEF MoneyType
<1>9. ASSUME NEW c \in Stablecoins, \A i \in DOMAIN intents' : deposit'[i] = c
      PROVE  balance'[c] >= Sum(Amount', P')
  <2>1. c = stablecoin /\ \A i \in DOMAIN intents : deposit[i] = c
    BY <1>4, <1>7, <1>9
  <2>2. balance[c] >= Sum(Amount, P)
    BY <2>1 DEF CoinInv, P
  <2>3. balance[stablecoin] + amount >= Sum(Amount, P) + amount
    BY <1>2, <1>5, <1>8, <2>1, <2>2, SMT
  <2> QED
    BY <1>4, <1>6, <1>8, <2>1, <2>3
<1> QED
  BY <1>9 DEF CoinInv, P

LEMMA ExecuteMintCoin ==
  ASSUME IInv, SumsInv, CoinInv, NEW sender \in Accounts, NEW id \in IntentIds,
         ExecuteMint(sender, id)
  PROVE  CoinInv'
<1> DEFINE P == WithStatus({"Pending", "Executed"})
<1>1. /\ Settleable(id) /\ "Executed" \in MintStatus /\ BookType
      /\ intents' = [intents EXCEPT ![id].status = "Executed"]
      /\ UNCHANGED <<balance, deposit>>
  BY DEF ExecuteMint, MintStatus, IInv, TypeOK
<1>2. \A statuses : WithStatus(statuses)' = (WithStatus(statuses) \ {id})
                       \cup {i \in {id} : "Executed" \in statuses}
  BY <1>1, SettleSets
<1>3. id \in P /\ P \in SUBSET DOMAIN intents
  BY <1>1 DEF Settleable, WithStatus
<1>4. P' = P
  <2> HIDE DEF WithStatus
  <2> QED
    BY <1>2, <1>3
<1> HIDE DEF P
<1>5. DOMAIN intents' = DOMAIN intents /\ Sum(Amount', P) = Sum(Amount, P)
  BY <1>1, <1>3, SettleAmounts
<1>6. ASSUME NEW c \in Stablecoins, \A i \in DOMAIN intents' : deposit'[i] = c
      PROVE  balance'[c] >= Sum(Amount', P')
  BY <1>1, <1>4, <1>5, <1>6 DEF CoinInv, P
<1> QED
  BY <1>6 DEF CoinInv, P

(* The refund lowers what is owed, and the balance of the coin only if it  *)
(* is paid in it.                                                          *)
LEMMA RefundIntentCoin ==
  ASSUME IInv, SumsInv, CoinInv, NEW sender \in Accounts, NEW id \in IntentIds,
         RefundIntent(sender, id)
  PROVE  CoinInv'
<1> DEFINE amount == intents[id].amount
           P == WithStatus({"Pending", "Executed"})
           R == P \ {id}
<1>1. /\ Settleable(id) /\ "Refunded" \in MintStatus /\ BookType /\ MoneyType
      /\ intents' = [intents EXCEPT ![id].status = "Refunded"]
      /\ balance' = [balance EXCEPT ![stablecoin] = @ - amount]
      /\ UNCHANGED deposit
  BY DEF RefundIntent, TakenOut, MintStatus, IInv, TypeOK
<1>2. \A statuses : WithStatus(statuses)' = (WithStatus(statuses) \ {id})
                       \cup {i \in {id} : "Refunded" \in statuses}
  BY <1>1, SettleSets
<1>3. /\ P = R \cup {id} /\ P' = R
      /\ R \in SUBSET DOMAIN intents /\ P \in SUBSET DOMAIN intents /\ id \notin R
  <2>1. id \in P /\ P \in SUBSET DOMAIN intents
    BY <1>1 DEF Settleable, WithStatus
  <2> HIDE DEF WithStatus
  <2>2. P' = R
    BY <1>2
  <2> QED
    BY <2>1, <2>2
<1>4. amount \in Nat /\ DOMAIN intents' = DOMAIN intents
  BY <1>1, SettleAmounts
<1>5. ASSUME NEW S \in SUBSET DOMAIN intents
      PROVE  /\ Sum(Amount', S) = Sum(Amount, S)
             /\ Sum(Amount, S) \in Nat
             /\ id \notin S => Sum(Amount', S \cup {id}) = Sum(Amount, S) + amount
  BY <1>1, SettleAmounts
<1> HIDE DEF amount, P, R
<1>6. Sum(Amount, P) = Sum(Amount, R) + amount /\ Sum(Amount', R) = Sum(Amount, R)
      /\ Sum(Amount, R) \in Nat
  BY <1>3, <1>5
<1>7. ASSUME NEW c \in Stablecoins, \A i \in DOMAIN intents' : deposit'[i] = c
      PROVE  balance'[c] >= Sum(Amount', P')
  <2>1. balance[c] >= Sum(Amount, P) /\ balance[c] \in Nat
    BY <1>1, <1>4, <1>7 DEF CoinInv, P, MoneyType
  <2>2. balance'[c] = balance[c] - amount \/ balance'[c] = balance[c]
    BY <1>1 DEF MoneyType
  <2>3. balance'[c] >= Sum(Amount, R)
    BY <1>4, <1>6, <2>1, <2>2, SMT
  <2> QED
    BY <1>3, <1>6, <2>3
<1> QED
  BY <1>7 DEF CoinInv, P

LEMMA OtherCoin ==
  ASSUME IInv, SumsInv, CoinInv, UNCHANGED <<intents, deposit>>,
         \A c \in Stablecoins : balance'[c] \in Nat /\ balance'[c] >= balance[c]
  PROVE  CoinInv'
<1> DEFINE P == WithStatus({"Pending", "Executed"})
<1>1. UNCHANGED <<Amount, P>>
  BY DEF Amount, WithStatus
<1>2. Sum(Amount, P) \in Nat
  BY OpenAmounts
<1>3. \A c \in Stablecoins : balance[c] \in Nat
  BY DEF IInv, TypeOK, MoneyType
<1> HIDE DEF P
<1>4. ASSUME NEW c \in Stablecoins, \A i \in DOMAIN intents' : deposit'[i] = c
      PROVE  balance'[c] >= Sum(Amount', P')
  <2>1. balance[c] >= Sum(Amount, P)
    BY <1>4 DEF CoinInv, P
  <2>2. balance'[c] >= Sum(Amount, P)
    BY <1>2, <1>3, <2>1, SMT
  <2> QED
    BY <1>1, <2>2
<1> QED
  BY <1>4 DEF CoinInv, P

LEMMA NextCoin == IInv /\ SumsInv /\ CoinInv /\ [Next]_vars => CoinInv'
<1> SUFFICES ASSUME IInv, SumsInv, CoinInv, [Next]_vars PROVE CoinInv'
  OBVIOUS
<1>1. CASE UserOperation
  BY <1>1, SubmitIntentCoin, ExecuteMintCoin, RefundIntentCoin
     DEF UserOperation
<1>2. ASSUME UNCHANGED <<book, money>>
      PROVE  CoinInv'
  <2>1. /\ UNCHANGED <<intents, deposit, balance>>
        /\ \A c \in Stablecoins : balance[c] \in Nat
    BY <1>2 DEF book, money, IInv, TypeOK, MoneyType
  <2>2. \A c \in Stablecoins : balance'[c] \in Nat /\ balance'[c] >= balance[c]
    BY <2>1, SMT
  <2> QED
    BY <2>1, <2>2, OtherCoin
<1>3. CASE AdminOperation
  BY <1>2, <1>3, AdminOperationStep DEF IInv, TypeOK
<1>4. CASE Environment
  <2>1. ASSUME NEW coin \in Stablecoins, NEW amount \in Amounts,
               Donate(coin, amount)
        PROVE  CoinInv'
    <3>1. /\ balance' = [balance EXCEPT ![coin] = @ + amount]
          /\ UNCHANGED <<intents, deposit>>
      BY <2>1 DEF Donate, book
    <3>2. amount \in Nat /\ balance \in [Stablecoins -> Nat]
      BY EscrowAssumption DEF EscrowAssumption, IInv, TypeOK, MoneyType
    <3>3. \A c \in Stablecoins : balance'[c] \in Nat /\ balance'[c] >= balance[c]
      BY <3>1, <3>2, SMT
    <3> QED
      BY <3>1, <3>3, OtherCoin
  <2> QED
    BY <1>2, <1>4, <2>1 DEF Environment, Tick, ChangeCompliance, ChangeMinter
<1>5. CASE UNCHANGED vars
  BY <1>2, <1>5 DEF vars
<1> QED
  BY <1>1, <1>3, <1>4, <1>5 DEF Next

LEMMA InitCoin == Init => CoinInv
<1> SUFFICES ASSUME Init PROVE CoinInv
  OBVIOUS
<1>1. WithStatus({"Pending", "Executed"}) = {} /\ Sum(Amount, {}) = 0
  BY SumOfNone DEF Init, WithStatus
<1>2. \A c \in Stablecoins : balance[c] = 0
  BY DEF Init
<1>3. 0 >= 0
  BY SMT
<1> QED
  BY <1>1, <1>2, <1>3 DEF CoinInv

(* Until deposits were made in two coins, every stablecoin in the escrow   *)
(* covers the deposits made in it, whatever setStablecoin does: the        *)
(* shortfall that refundIntent can cause needs a deposit in a second coin. *)
THEOREM OneCoinIsHeldInKind == Spec => []HeldInKindInOneCoin
<1>1. IInv /\ SumsInv /\ CoinInv => HeldInKindInOneCoin
  <2> SUFFICES ASSUME IInv, SumsInv, CoinInv,
                      \A i, j \in DOMAIN intents : deposit[i] = deposit[j],
                      NEW c \in Stablecoins
               PROVE  balance[c] >=
                        Sum(Amount, {i \in WithStatus({"Pending", "Executed"}) :
                                       deposit[i] = c})
    BY DEF HeldInKindInOneCoin, DepositsHeldInKind
  <2> DEFINE P == WithStatus({"Pending", "Executed"})
             In == {i \in P : deposit[i] = c}
  <2>1. P \subseteq DOMAIN intents
    BY DEF WithStatus
  <2>2. CASE \A i \in DOMAIN intents : deposit[i] = c
    <3>1. In = P
      BY <2>1, <2>2
    <3> QED
      BY <2>2, <3>1 DEF CoinInv
  <2>3. CASE \E i \in DOMAIN intents : deposit[i] # c
    <3>1. In = {}
      BY <2>1, <2>3
    <3>2. Sum(Amount, In) = 0
      BY <3>1, SumOfNone
    <3>3. balance[c] \in Nat
      BY DEF IInv, TypeOK, MoneyType
    <3> HIDE DEF In
    <3>4. balance[c] >= Sum(Amount, In)
      BY <3>2, <3>3, SMT
    <3> QED
      BY <3>4 DEF In
  <2> QED
    BY <2>2, <2>3
<1>2. Spec => []CoinInv
  BY Invariance, SumsInvariance, InitCoin, NextCoin, PTL DEF Spec
<1> QED
  BY <1>1, <1>2, Invariance, SumsInvariance, PTL

=============================================================================
