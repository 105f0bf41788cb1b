------------------------- MODULE AegisEscrowProofs -------------------------
(***************************************************************************)
(* The escrow contract for any ids, accounts and supply: every deposit is   *)
(* paid once and as agreed, and the contract always holds what its funded   *)
(* escrows promise, whatever a payee does while it has control.             *)
(***************************************************************************)
EXTENDS AegisEscrow, FiniteSetTheorems, WellFoundedInduction, TLAPS

-----------------------------------------------------------------------------
(* Induction. The library's induction theorems take a predicate as an         *)
(* operator; these take the set where it holds.                               *)

LEMMA InductionOnNat ==
    ASSUME NEW T, 0 \in T, \A n \in Nat : n \in T => n + 1 \in T
    PROVE  Nat \subseteq T
  <1> DEFINE Bad == Nat \ T
             R == OpToRel(<, Nat)
  <1> SUFFICES ASSUME Bad # {} PROVE FALSE
    OBVIOUS
  <1>1. \A x, y \in Nat : x < y => <<x, y>> \in R
    BY DEF OpToRel
  <1>2. PICK n \in Bad : \A m \in Bad : <<m, n>> \notin R
    <2>1. IsWellFoundedOn(R, Nat)
      BY NatLessThanWellFounded
    <2> HIDE DEF R
    <2> QED
      BY <2>1, WFMin
  <1> HIDE DEF R
  <1>3. n \in Nat /\ n # 0
    OBVIOUS
  <1>4. n - 1 \in Nat /\ n - 1 < n /\ (n - 1) + 1 = n
    BY <1>3
  <1>5. n - 1 \notin Bad
    BY <1>1, <1>2, <1>3, <1>4
  <1> QED
    BY <1>3, <1>4, <1>5

\* The element MapThenSumSet takes next.
Pick(s) == CHOOSE x \in s : TRUE

(* It is one of the elements. *)
LEMMA PickIn == ASSUME NEW s, s # {} PROVE Pick(s) \in s
  BY DEF Pick

(* Taking elements away ends at the empty set. *)
LEMMA InductionOnSubsets ==
    ASSUME NEW S, IsFiniteSet(S), NEW T,
           {} \in T,
           \A s \in SUBSET S : s # {} /\ s \ {Pick(s)} \in T => s \in T
    PROVE  SUBSET S \subseteq T
  <1> DEFINE Small(n) == {s \in SUBSET S : Cardinality(s) = n}
             N == {n \in Nat : Small(n) \subseteq T}
  <1>f. ASSUME NEW s \in SUBSET S PROVE IsFiniteSet(s) /\ Cardinality(s) \in Nat
    BY FS_Subset, FS_CardinalityType
  <1>1. 0 \in N
    <2>1. ASSUME NEW s \in SUBSET S, Cardinality(s) = 0 PROVE s = {}
      BY <1>f, <2>1, FS_EmptySet
    <2> QED
      BY <2>1
  <1>2. ASSUME NEW n \in Nat, n \in N PROVE n + 1 \in N
    <2> SUFFICES ASSUME NEW s \in SUBSET S, Cardinality(s) = n + 1
                 PROVE  s \in T
      OBVIOUS
    <2>1. s # {}
      BY FS_EmptySet
    <2>2. Cardinality(s \ {Pick(s)}) = n
      <3>1. Cardinality(s \ {Pick(s)}) = Cardinality(s) - 1
        BY <1>f, <2>1, PickIn, FS_RemoveElement
      <3> QED
        BY <3>1
    <2>3. s \ {Pick(s)} \in Small(n)
      BY <2>2
    <2>4. s \ {Pick(s)} \in T
      BY <1>2, <2>3
    <2> QED
      BY <2>1, <2>4
  <1>3. Nat \subseteq N
    <2> HIDE DEF N
    <2> QED
      BY <1>1, <1>2, InductionOnNat
  <1> QED
    BY <1>3, <1>f

-----------------------------------------------------------------------------
(* What the escrows promise together *)

\* g[s] is what the escrows of s promise, for every set s of ids.
IsSum(g, e) ==
    g = [s \in SUBSET Ids |-> IF s = {} THEN 0
                              ELSE e[Pick(s)].amount + g[s \ {Pick(s)}]]

PromisedBy(e) == CHOOSE g : IsSum(g, e)

\* MapThenSumSet, for the promises.
SumIn(x) == MapThenSumSet(LAMBDA id : x.escrow[id].amount, Ids)

(* The sum the property speaks of is the recursive function at Ids. *)
LEMMA SumInIsPromised == \A x : SumIn(x) = PromisedBy(x.escrow)[Ids]
  BY Zenon DEF SumIn, MapThenSumSet, MapThenFoldSet, PromisedBy, IsSum, Pick

(* The recursion has a solution: one for the sets of at most n ids, for       *)
(* every n.                                                                   *)
LEMMA SumExists == ASSUME NEW e PROVE \E g : IsSum(g, e)
  <1> DEFINE D(n) == {s \in SUBSET Ids : Cardinality(s) <= n}
             Term(g, s) == IF s = {} THEN 0 ELSE e[Pick(s)].amount + g[s \ {Pick(s)}]
             Solves(g, n) == g = [s \in D(n) |-> Term(g, s)]
             N == {n \in Nat : \E g : Solves(g, n)}
  <1>f. ASSUME NEW s \in SUBSET Ids
        PROVE  /\ IsFiniteSet(s) /\ Cardinality(s) \in Nat
               /\ Cardinality(s) = 0 <=> s = {}
               /\ Cardinality(s) <= Cardinality(Ids)
               /\ s # {} => Cardinality(s \ {Pick(s)}) = Cardinality(s) - 1
    BY EscrowAssumption, FS_Subset, FS_CardinalityType, FS_EmptySet, FS_RemoveElement, PickIn
  <1>1. 0 \in N
    <2>1. ASSUME NEW s \in D(0) PROVE s = {}
      <3>1. s \in SUBSET Ids /\ Cardinality(s) <= 0
        OBVIOUS
      <3>2. Cardinality(s) \in Nat /\ (Cardinality(s) = 0 <=> s = {})
        BY <1>f, <3>1
      <3> QED
        BY <3>1, <3>2
    <2> DEFINE g == [s \in D(0) |-> 0]
    <2>2. Solves(g, 0)
      BY <2>1
    <2> QED
      BY <2>2
  <1>2. ASSUME NEW n \in Nat, n \in N PROVE n + 1 \in N
    <2>1. PICK g : Solves(g, n)
      BY <1>2
    <2> DEFINE h == [s \in D(n + 1) |-> Term(g, s)]
    <2>2. ASSUME NEW s \in D(n + 1), s # {}
          PROVE  h[s \ {Pick(s)}] = g[s \ {Pick(s)}]
      <3> DEFINE u == s \ {Pick(s)}
      <3>1. u \in D(n) /\ u \in D(n + 1)
        BY <1>f, <2>2
      <3>2. h[u] = Term(g, u)
        BY <3>1
      <3>3. g[u] = Term(g, u)
        <4> HIDE DEF Term, D, u
        <4> QED
          BY <2>1, <3>1
      <3> QED
        BY <3>2, <3>3
    <2>3. \A s \in D(n + 1) : Term(h, s) = Term(g, s)
      <3> HIDE DEF h
      <3> QED
        BY <2>2
    <2>4. Solves(h, n + 1)
      <3> HIDE DEF Term, D
      <3> QED
        BY <2>3
    <2>5. \E k : Solves(k, n + 1)
      <3> HIDE DEF Solves, h
      <3> QED
        BY <2>4
    <2> HIDE DEF Solves
    <2> QED
      BY <2>5
  <1>3. Cardinality(Ids) \in N
    <2>1. Nat \subseteq N
      <3> HIDE DEF N
      <3> QED
        BY <1>1, <1>2, InductionOnNat
    <2> QED
      BY <1>f, <2>1
  <1>4. D(Cardinality(Ids)) = SUBSET Ids
    BY <1>f
  <1> QED
    BY <1>3, <1>4 DEF IsSum

(* The recursion holds of the chosen solution. *)
LEMMA PromisedRecursion ==
    ASSUME NEW e, NEW s \in SUBSET Ids
    PROVE  PromisedBy(e)[s] = IF s = {} THEN 0
                              ELSE e[Pick(s)].amount + PromisedBy(e)[s \ {Pick(s)}]
  <1>1. IsSum(PromisedBy(e), e)
    BY SumExists DEF PromisedBy
  <1> DEFINE g == PromisedBy(e)
  <1>2. g = [u \in SUBSET Ids |-> IF u = {} THEN 0
                                  ELSE e[Pick(u)].amount + g[u \ {Pick(u)}]]
    BY <1>1 DEF IsSum
  <1> HIDE DEF g
  <1>3. g[s] = IF s = {} THEN 0 ELSE e[Pick(s)].amount + g[s \ {Pick(s)}]
    BY <1>2
  <1> QED
    BY <1>3 DEF g

(* A sum of integers is an integer. *)
LEMMA PromisedType ==
    ASSUME NEW e, \A id \in Ids : e[id].amount \in Int
    PROVE  \A s \in SUBSET Ids : PromisedBy(e)[s] \in Int
  <1> DEFINE T == {s \in SUBSET Ids : PromisedBy(e)[s] \in Int}
  <1>1. {} \in T
    BY PromisedRecursion
  <1>2. ASSUME NEW s \in SUBSET Ids, s # {}, s \ {Pick(s)} \in T PROVE s \in T
    <2>1. Pick(s) \in Ids
      BY <1>2, PickIn
    <2>2. PromisedBy(e)[s] = e[Pick(s)].amount + PromisedBy(e)[s \ {Pick(s)}]
      BY <1>2, PromisedRecursion
    <2>3. e[Pick(s)].amount \in Int /\ PromisedBy(e)[s \ {Pick(s)}] \in Int
      BY <1>2, <2>1
    <2> QED
      BY <2>2, <2>3
  <1>3. SUBSET Ids \subseteq T
    <2> HIDE DEF T
    <2> QED
      BY <1>1, <1>2, InductionOnSubsets, EscrowAssumption
  <1> QED
    BY <1>3

(* When one escrow changes its amount the promise changes by the difference.  *)
LEMMA PromisedUpdate ==
    ASSUME NEW e, NEW f, NEW i \in Ids,
           \A id \in Ids : e[id].amount \in Int /\ f[id].amount \in Int,
           \A id \in Ids : id # i => f[id].amount = e[id].amount
    PROVE  PromisedBy(f)[Ids] = PromisedBy(e)[Ids] + f[i].amount - e[i].amount
  <1> DEFINE P == PromisedBy(e)
             Q == PromisedBy(f)
             T == {s \in SUBSET Ids :
                     Q[s] = P[s] + (IF i \in s THEN f[i].amount - e[i].amount ELSE 0)}
  <1>t. \A s \in SUBSET Ids : P[s] \in Int /\ Q[s] \in Int
    BY PromisedType
  <1>1. {} \in T
    <2>1. P[{}] = 0 /\ Q[{}] = 0
      BY PromisedRecursion
    <2> QED
      BY <2>1
  <1>2. ASSUME NEW s \in SUBSET Ids, s # {}, s \ {Pick(s)} \in T PROVE s \in T
    <2>1. Pick(s) \in s /\ Pick(s) \in Ids
      BY <1>2, PickIn
    <2>2. /\ P[s] = e[Pick(s)].amount + P[s \ {Pick(s)}]
          /\ Q[s] = f[Pick(s)].amount + Q[s \ {Pick(s)}]
      BY <1>2, PromisedRecursion
    <2>3. s \ {Pick(s)} \in SUBSET Ids
      OBVIOUS
    <2>4. P[s \ {Pick(s)}] \in Int /\ Q[s \ {Pick(s)}] \in Int
      BY <1>t, <2>3
    <2>5. Q[s \ {Pick(s)}] = P[s \ {Pick(s)}]
             + (IF i \in s \ {Pick(s)} THEN f[i].amount - e[i].amount ELSE 0)
      BY <1>2
    <2> HIDE DEF P, Q
    <2>6. CASE Pick(s) = i
      BY <2>1, <2>2, <2>4, <2>5, <2>6
    <2>7. CASE Pick(s) # i
      BY <2>1, <2>2, <2>4, <2>5, <2>7
    <2> QED
      BY <2>6, <2>7
  <1>3. SUBSET Ids \subseteq T
    <2> HIDE DEF T
    <2> QED
      BY <1>1, <1>2, InductionOnSubsets, EscrowAssumption
  <1>4. Ids \in T
    BY <1>3
  <1> QED
    BY <1>4, <1>t

-----------------------------------------------------------------------------
(* The invariant of a state of the chain, which holds of the present one and  *)
(* of every one a payment in progress may go back to.                         *)

Parties == Accounts \cup {Nobody}
Escrows == [payer : Parties, recipient : Parties, amount : Int,
            status : {"None", "Funded", "Released", "Refunded"}]
Deposits == [payer : Parties, recipient : Parties, amount : Int]
Payments == [to : Parties, amount : Int]

ChainStates == [escrow : [Ids -> Escrows], balance : Int, owner : Parties,
                entered : BOOLEAN, wallet : [Accounts -> Int], forced : Int,
                deposits : [Ids -> Seq(Deposits)], payments : [Ids -> Seq(Payments)]]

\* PaidAsAgreed of escrow id in state x.
AgreedIn(x, id) ==
    LET e == x.escrow[id]
        d == x.deposits[id]
        p == x.payments[id]
    IN  CASE e.status = "None" -> d = << >> /\ p = << >>
          [] e.status = "Funded" ->
                /\ d = <<[payer |-> e.payer, recipient |-> e.recipient,
                          amount |-> e.amount]>>
                /\ p = << >>
          [] e.status = "Released" ->
                /\ Len(d) = 1
                /\ p = <<[to |-> d[1].recipient, amount |-> d[1].amount]>>
          [] e.status = "Refunded" ->
                /\ Len(d) = 1
                /\ p = <<[to |-> d[1].payer, amount |-> d[1].amount]>>

\* A funded escrow can be paid either way; any other promises nothing.
PayableIn(x, id) ==
    LET e == x.escrow[id]
    IN  IF e.status = "Funded" THEN e.payer \in Accounts /\ e.recipient \in Accounts
                               ELSE e.amount = 0

Sound(x) ==
    /\ x \in ChainStates
    /\ \A id \in Ids : AgreedIn(x, id) /\ PayableIn(x, id)
    /\ x.balance = SumIn(x) + x.forced

\* The frames of the payments in progress.
Frames == [to : Parties, saved : {x \in ChainStates : Sound(x)}]

EscrowInv == Sound(chain) /\ calls \in Seq(Frames)

(* A change of one escrow changes the sum by the change of its amount. *)
LEMMA SumMoves ==
    ASSUME NEW x \in ChainStates, NEW y \in ChainStates, NEW id \in Ids,
           \A i \in Ids : i # id => y.escrow[i] = x.escrow[i]
    PROVE  /\ SumIn(x) \in Int
           /\ SumIn(y) = SumIn(x) + y.escrow[id].amount - x.escrow[id].amount
  <1>1. \A i \in Ids : x.escrow[i].amount \in Int /\ y.escrow[i].amount \in Int
    BY DEF ChainStates, Escrows
  <1>2. PromisedBy(x.escrow)[Ids] \in Int
    BY <1>1, PromisedType
  <1>3. \A i \in Ids : i # id => y.escrow[i].amount = x.escrow[i].amount
    OBVIOUS
  <1> DEFINE e == x.escrow
             f == y.escrow
  <1>4. PromisedBy(f)[Ids] = PromisedBy(e)[Ids] + f[id].amount - e[id].amount
    <2>1. \A i \in Ids : e[i].amount \in Int /\ f[i].amount \in Int
      BY <1>1
    <2>2. \A i \in Ids : i # id => f[i].amount = e[i].amount
      BY <1>3
    <2> HIDE DEF e, f
    <2> QED
      BY <2>1, <2>2, PromisedUpdate
  <1> QED
    BY <1>2, <1>4, SumInIsPromised

(* The other escrows are as sound as before, and the sum is that of the       *)
(* changed one.                                                               *)
LEMMA SoundMove ==
    ASSUME NEW x, NEW y \in ChainStates, Sound(x), NEW id \in Ids,
           \A i \in Ids : i # id => /\ y.escrow[i] = x.escrow[i]
                                    /\ y.deposits[i] = x.deposits[i]
                                    /\ y.payments[i] = x.payments[i],
           AgreedIn(y, id), PayableIn(y, id),
           y.balance - y.forced = x.balance - x.forced
                                    + y.escrow[id].amount - x.escrow[id].amount
    PROVE  Sound(y)
  <1>1. \A i \in Ids : AgreedIn(y, i) /\ PayableIn(y, i)
    <2> SUFFICES ASSUME NEW i \in Ids, i # id PROVE AgreedIn(y, i) /\ PayableIn(y, i)
      OBVIOUS
    <2>1. AgreedIn(x, i) /\ PayableIn(x, i)
      BY DEF Sound
    <2>2. /\ y.escrow[i] = x.escrow[i] /\ y.deposits[i] = x.deposits[i]
          /\ y.payments[i] = x.payments[i]
      OBVIOUS
    <2> QED
      BY <2>1, <2>2 DEF AgreedIn, PayableIn
  <1>2. x \in ChainStates /\ x.balance = SumIn(x) + x.forced
    BY DEF Sound
  <1>3. /\ SumIn(x) \in Int
        /\ SumIn(y) = SumIn(x) + y.escrow[id].amount - x.escrow[id].amount
    BY <1>2, SumMoves
  <1>4. /\ x.balance \in Int /\ y.balance \in Int /\ x.forced \in Int /\ y.forced \in Int
        /\ x.escrow[id].amount \in Int /\ y.escrow[id].amount \in Int
    BY <1>2 DEF ChainStates, Escrows
  <1>5. y.balance = SumIn(y) + y.forced
    BY <1>2, <1>3, <1>4
  <1> QED
    BY <1>1, <1>5 DEF Sound

(* The escrows are left alone. *)
LEMMA SoundFrame ==
    ASSUME NEW x, NEW y \in ChainStates, Sound(x),
           y.escrow = x.escrow, y.deposits = x.deposits, y.payments = x.payments,
           y.balance - y.forced = x.balance - x.forced
    PROVE  Sound(y)
  <1>1. \A i \in Ids : AgreedIn(y, i) /\ PayableIn(y, i)
    BY DEF Sound, AgreedIn, PayableIn
  <1>2. x \in ChainStates /\ x.balance = SumIn(x) + x.forced
    BY DEF Sound
  <1>3. SumIn(y) = SumIn(x) /\ SumIn(x) \in Int
    <2>1. \A i \in Ids : x.escrow[i].amount \in Int
      BY <1>2 DEF ChainStates, Escrows
    <2>2. PromisedBy(x.escrow)[Ids] \in Int
      BY <2>1, PromisedType
    <2> QED
      BY <2>2, SumInIsPromised
  <1>4. x.balance \in Int /\ y.balance \in Int /\ x.forced \in Int /\ y.forced \in Int
    BY <1>2 DEF ChainStates
  <1>5. y.balance = SumIn(y) + y.forced
    BY <1>2, <1>3, <1>4
  <1> QED
    BY <1>1, <1>5 DEF Sound

-----------------------------------------------------------------------------
(* The steps *)

LEMMA DepositKeeps ==
    ASSUME EscrowInv, NEW c \in Accounts, NEW id \in Ids, NEW to \in Parties,
           NEW v \in 1..Supply, deposit(c, id, to, v)
    PROVE  EscrowInv'
  <1>1. Sound(chain) /\ chain \in ChainStates /\ calls \in Seq(Frames)
    BY DEF EscrowInv, Sound
  <1>v. v \in Int /\ to \in Accounts
    BY EscrowAssumption DEF deposit, Parties
  <1>2. /\ chain.escrow[id].status = "None"
        /\ chain' = [chain EXCEPT
                !.wallet[c] = @ - v,
                !.balance = @ + v,
                !.escrow[id] = [payer |-> c, recipient |-> to,
                                amount |-> v, status |-> "Funded"],
                !.deposits[id] = Append(@, [payer |-> c, recipient |-> to, amount |-> v])]
        /\ calls' = calls
    BY DEF deposit, Fund
  <1> DEFINE d == [payer |-> c, recipient |-> to, amount |-> v]
             e == [payer |-> c, recipient |-> to, amount |-> v, status |-> "Funded"]
  <1>3. /\ chain'.balance = chain.balance + v
        /\ chain'.forced = chain.forced
        /\ chain'.owner = chain.owner
        /\ chain'.entered = chain.entered
        /\ chain'.payments = chain.payments
        /\ chain'.wallet = [chain.wallet EXCEPT ![c] = @ - v]
        /\ chain'.escrow = [chain.escrow EXCEPT ![id] = e]
        /\ chain'.deposits = [chain.deposits EXCEPT ![id] = Append(@, d)]
    BY <1>1, <1>2 DEF ChainStates
  <1>d. d \in Deposits /\ e \in Escrows
    BY <1>v DEF Deposits, Escrows, Parties
  <1>e. /\ e.payer = d.payer /\ e.recipient = d.recipient /\ e.amount = v
        /\ e.status = "Funded" /\ e.payer \in Accounts /\ e.recipient \in Accounts
        /\ d = [payer |-> e.payer, recipient |-> e.recipient, amount |-> e.amount]
    BY <1>v
  <1>4. chain' \in ChainStates
    <2> HIDE DEF d, e
    <2>1. /\ chain.balance \in Int /\ chain.wallet \in [Accounts -> Int]
          /\ chain.escrow \in [Ids -> Escrows]
          /\ chain.deposits \in [Ids -> Seq(Deposits)]
      BY <1>1 DEF ChainStates
    <2>2. /\ chain'.balance \in Int /\ chain'.wallet \in [Accounts -> Int]
          /\ chain'.escrow \in [Ids -> Escrows]
          /\ chain'.deposits \in [Ids -> Seq(Deposits)]
      BY <1>v, <1>3, <1>d, <2>1
    <2>3. chain' = [escrow |-> chain'.escrow, balance |-> chain'.balance,
                    owner |-> chain'.owner, entered |-> chain'.entered,
                    wallet |-> chain'.wallet, forced |-> chain'.forced,
                    deposits |-> chain'.deposits, payments |-> chain'.payments]
      BY <1>1, <1>2 DEF ChainStates
    <2> QED
      BY <1>1, <1>3, <2>2, <2>3 DEF ChainStates
  <1>5. AgreedIn(chain, id) /\ PayableIn(chain, id)
    BY <1>1 DEF Sound
  <1>6. /\ chain.deposits[id] = << >> /\ chain.payments[id] = << >>
        /\ chain.escrow[id].amount = 0
    BY <1>2, <1>5 DEF AgreedIn, PayableIn
  <1>7. /\ chain'.escrow[id] = e /\ chain'.deposits[id] = <<d>>
        /\ chain'.payments[id] = << >>
    <2> HIDE DEF d, e
    <2>1. chain'.deposits[id] = Append(<< >>, d)
      BY <1>1, <1>3, <1>6 DEF ChainStates
    <2> QED
      BY <1>1, <1>3, <1>6, <2>1 DEF ChainStates
  <1>8. AgreedIn(chain', id) /\ PayableIn(chain', id)
    <2> HIDE DEF d, e
    <2> QED
      BY <1>7, <1>e DEF AgreedIn, PayableIn
  <1>9. \A i \in Ids : i # id => /\ chain'.escrow[i] = chain.escrow[i]
                                 /\ chain'.deposits[i] = chain.deposits[i]
                                 /\ chain'.payments[i] = chain.payments[i]
    <2> HIDE DEF d, e
    <2> QED
      BY <1>1, <1>3 DEF ChainStates
  <1>10. chain'.balance - chain'.forced = chain.balance - chain.forced
                        + chain'.escrow[id].amount - chain.escrow[id].amount
    <2>1. chain.balance \in Int /\ chain.forced \in Int
      BY <1>1 DEF ChainStates
    <2> HIDE DEF d, e
    <2> QED
      BY <1>v, <1>3, <1>6, <1>7, <1>e, <2>1
  <1>11. Sound(chain')
    BY <1>1, <1>4, <1>8, <1>9, <1>10, SoundMove
  <1> QED
    BY <1>1, <1>2, <1>11 DEF EscrowInv

(* An escrow that release or refund has settled is empty and of its type. *)
LEMMA SettledEscrow ==
    ASSUME NEW e \in Escrows, NEW s \in {"Released", "Refunded"}
    PROVE  LET f == [e EXCEPT !.amount = 0, !.status = s]
           IN  f \in Escrows /\ f.status = s /\ f.amount = 0
  <1> DEFINE f == [e EXCEPT !.amount = 0]
             h == [f EXCEPT !.status = s]
  <1>1. f \in Escrows /\ f.amount = 0
    BY DEF Escrows
  <1>2. h \in Escrows /\ h.status = s /\ h.amount = 0
    <2> HIDE DEF f
    <2> QED
      BY <1>1 DEF Escrows
  <1>3. h = [e EXCEPT !.amount = 0, !.status = s]
    OBVIOUS
  <1> QED
    BY <1>2, <1>3

(* release and refund keep the invariant, with the payee in control. *)
LEMMA PayKeeps ==
    ASSUME EscrowInv, NEW id \in Ids, NEW s \in {"Released", "Refunded"}, NEW to,
           to = IF s = "Released" THEN chain.escrow[id].recipient
                                  ELSE chain.escrow[id].payer,
           Pay(id, s, to)
    PROVE  EscrowInv'
  <1>1. Sound(chain) /\ chain \in ChainStates /\ calls \in Seq(Frames)
    BY DEF EscrowInv, Sound
  <1> DEFINE amount == chain.escrow[id].amount
             old == chain.escrow[id]
             p == [to |-> to, amount |-> amount]
  <1>2. /\ old.status = "Funded"
        /\ chain' = [chain EXCEPT
                !.entered = TRUE,
                !.escrow[id].amount = 0,
                !.escrow[id].status = s,
                !.balance = @ - amount,
                !.wallet[to] = @ + amount,
                !.payments[id] = Append(@, [to |-> to, amount |-> amount])]
        /\ calls' = Append(calls, [to |-> to, saved |-> chain])
    BY DEF Pay
  <1>t. old \in Escrows /\ amount \in Int /\ to \in Accounts /\ p \in Payments
    <2>1. old \in Escrows /\ amount \in Int
      BY <1>1 DEF ChainStates, Escrows
    <2>2. PayableIn(chain, id)
      BY <1>1 DEF Sound
    <2>3. to \in Accounts
      BY <1>2, <2>2 DEF PayableIn
    <2> QED
      BY <2>1, <2>3 DEF Payments, Parties
  <1>3. /\ chain'.balance = chain.balance - amount
        /\ chain'.forced = chain.forced
        /\ chain'.owner = chain.owner
        /\ chain'.entered = TRUE
        /\ chain'.deposits = chain.deposits
        /\ chain'.wallet = [chain.wallet EXCEPT ![to] = @ + amount]
        /\ chain'.escrow = [chain.escrow EXCEPT ![id] =
                               [old EXCEPT !.amount = 0, !.status = s]]
        /\ chain'.payments = [chain.payments EXCEPT ![id] = Append(@, p)]
    BY <1>1, <1>2 DEF ChainStates
  <1> DEFINE new == [old EXCEPT !.amount = 0, !.status = s]
  <1>n. new \in Escrows /\ new.status = s /\ new.amount = 0
    <2>1. old \in Escrows
      BY <1>t
    <2> HIDE DEF old
    <2> QED
      BY <2>1, SettledEscrow
  <1>4. chain' \in ChainStates
    <2> HIDE DEF new, p, amount
    <2>1. /\ chain.balance \in Int /\ chain.wallet \in [Accounts -> Int]
          /\ chain.escrow \in [Ids -> Escrows]
          /\ chain.payments \in [Ids -> Seq(Payments)]
      BY <1>1 DEF ChainStates
    <2>2. /\ chain'.balance \in Int /\ chain'.wallet \in [Accounts -> Int]
          /\ chain'.escrow \in [Ids -> Escrows]
          /\ chain'.payments \in [Ids -> Seq(Payments)]
      <3>1. chain'.balance \in Int /\ chain'.wallet \in [Accounts -> Int]
        BY <1>t, <1>3, <2>1
      <3>2. chain'.payments \in [Ids -> Seq(Payments)]
        BY <1>t, <1>3, <2>1
      <3>3. chain'.escrow = [chain.escrow EXCEPT ![id] = new]
        BY <1>3 DEF new
      <3>4. chain'.escrow \in [Ids -> Escrows]
        BY <1>n, <2>1, <3>3
      <3> QED
        BY <3>1, <3>2, <3>4
    <2>3. chain' = [escrow |-> chain'.escrow, balance |-> chain'.balance,
                    owner |-> chain'.owner, entered |-> chain'.entered,
                    wallet |-> chain'.wallet, forced |-> chain'.forced,
                    deposits |-> chain'.deposits, payments |-> chain'.payments]
      BY <1>1, <1>2 DEF ChainStates
    <2> QED
      BY <1>1, <1>3, <2>2, <2>3 DEF ChainStates
  <1>5. AgreedIn(chain, id)
    BY <1>1 DEF Sound
  <1>6. /\ chain.deposits[id] = <<[payer |-> old.payer, recipient |-> old.recipient,
                                   amount |-> amount]>>
        /\ chain.payments[id] = << >>
    BY <1>2, <1>5 DEF AgreedIn
  <1>7. /\ chain'.escrow[id] = new /\ chain'.payments[id] = <<p>>
        /\ chain'.deposits[id] = chain.deposits[id]
    <2>1. chain'.escrow[id] = new
      BY <1>1, <1>3 DEF ChainStates
    <2> HIDE DEF new, p, amount
    <2>2. chain'.payments[id] = Append(<< >>, p)
      BY <1>1, <1>3, <1>6 DEF ChainStates
    <2> QED
      BY <1>3, <2>1, <2>2
  <1>8. AgreedIn(chain', id) /\ PayableIn(chain', id)
    <2>1. /\ Len(chain'.deposits[id]) = 1
          /\ chain'.deposits[id][1].payer = old.payer
          /\ chain'.deposits[id][1].recipient = old.recipient
          /\ chain'.deposits[id][1].amount = amount
      BY <1>6, <1>7
    <2>2. chain'.escrow[id].status = s /\ chain'.escrow[id].amount = 0
      BY <1>7, <1>n
    <2>3. chain'.payments[id] = <<[to |-> to, amount |-> amount]>>
      BY <1>7
    <2>4. CASE s = "Released"
      BY <2>1, <2>2, <2>3, <2>4 DEF AgreedIn, PayableIn
    <2>5. CASE s = "Refunded"
      BY <2>1, <2>2, <2>3, <2>5 DEF AgreedIn, PayableIn
    <2> QED
      BY <2>4, <2>5
  <1>9. \A i \in Ids : i # id => /\ chain'.escrow[i] = chain.escrow[i]
                                 /\ chain'.deposits[i] = chain.deposits[i]
                                 /\ chain'.payments[i] = chain.payments[i]
    <2> HIDE DEF p
    <2> QED
      BY <1>1, <1>3 DEF ChainStates
  <1>10. chain'.balance - chain'.forced = chain.balance - chain.forced
                        + chain'.escrow[id].amount - chain.escrow[id].amount
    <2>1. chain.balance \in Int /\ chain.forced \in Int
      BY <1>1 DEF ChainStates
    <2>2. chain'.escrow[id].amount = 0
      BY <1>7, <1>n
    <2> QED
      BY <1>t, <1>3, <2>1, <2>2
  <1>11. Sound(chain')
    BY <1>1, <1>4, <1>8, <1>9, <1>10, SoundMove
  <1>12. [to |-> to, saved |-> chain] \in Frames
    BY <1>1, <1>t DEF Frames, Parties
  <1> QED
    BY <1>1, <1>2, <1>11, <1>12 DEF EscrowInv

(* A payee that returns keeps the chain; one that reverts restores a sound one. *)
LEMMA ReturnKeeps ==
    ASSUME EscrowInv, PayeeReturns \/ PayeeReverts
    PROVE  EscrowInv'
  <1>1. Sound(chain) /\ chain \in ChainStates /\ calls \in Seq(Frames) /\ calls # << >>
    BY DEF EscrowInv, Sound, PayeeReturns, PayeeReverts
  <1>2. calls' \in Seq(Frames)
    BY <1>1 DEF PayeeReturns, PayeeReverts, Front
  <1>3. CASE PayeeReverts
    <2>1. Last(calls) \in Frames
      BY <1>1 DEF Last
    <2> QED
      BY <1>2, <1>3, <2>1 DEF PayeeReverts, Frames, EscrowInv
  <1>4. CASE PayeeReturns
    <2>1. chain' = [chain EXCEPT !.entered = FALSE]
      BY <1>4 DEF PayeeReturns
    <2>2. /\ chain' \in ChainStates /\ chain'.escrow = chain.escrow
          /\ chain'.deposits = chain.deposits /\ chain'.payments = chain.payments
          /\ chain'.balance = chain.balance /\ chain'.forced = chain.forced
      BY <1>1, <2>1 DEF ChainStates
    <2> QED
      BY <1>1, <1>2, <2>2, SoundFrame DEF EscrowInv
  <1> QED
    BY <1>3, <1>4

(* Forced funds and a new owner leave every escrow alone. *)
LEMMA OthersKeep ==
    ASSUME EscrowInv, NEW c \in Accounts,
           ForceFunds(c) \/ \E to \in Parties : TransferOwnership(c, to)
    PROVE  EscrowInv'
  <1>1. Sound(chain) /\ chain \in ChainStates /\ calls \in Seq(Frames)
    BY DEF EscrowInv, Sound
  <1>2. calls' = calls
    BY DEF ForceFunds, TransferOwnership
  <1>3. CASE ForceFunds(c)
    <2>1. chain' = [chain EXCEPT !.wallet[c] = @ - 1, !.balance = @ + 1, !.forced = @ + 1]
      BY <1>3 DEF ForceFunds
    <2>2. /\ chain' \in ChainStates /\ chain'.escrow = chain.escrow
          /\ chain'.deposits = chain.deposits /\ chain'.payments = chain.payments
          /\ chain'.balance = chain.balance + 1 /\ chain'.forced = chain.forced + 1
      <3>1. /\ chain'.escrow = chain.escrow /\ chain'.owner = chain.owner
            /\ chain'.deposits = chain.deposits /\ chain'.payments = chain.payments
            /\ chain'.balance = chain.balance + 1 /\ chain'.forced = chain.forced + 1
            /\ chain'.entered = chain.entered
            /\ chain'.wallet = [chain.wallet EXCEPT ![c] = @ - 1]
            /\ chain' = [escrow |-> chain'.escrow, balance |-> chain'.balance,
                         owner |-> chain'.owner, entered |-> chain'.entered,
                         wallet |-> chain'.wallet, forced |-> chain'.forced,
                         deposits |-> chain'.deposits, payments |-> chain'.payments]
        BY <1>1, <2>1 DEF ChainStates
      <3>2. chain.balance \in Int /\ chain.forced \in Int /\ chain.wallet \in [Accounts -> Int]
        BY <1>1 DEF ChainStates
      <3>3. chain'.balance \in Int /\ chain'.forced \in Int /\ chain'.wallet \in [Accounts -> Int]
        BY <3>1, <3>2
      <3> QED
        BY <1>1, <3>1, <3>3 DEF ChainStates
    <2>3. chain'.balance - chain'.forced = chain.balance - chain.forced
      BY <1>1, <2>2 DEF ChainStates
    <2> QED
      BY <1>1, <1>2, <2>2, <2>3, SoundFrame DEF EscrowInv
  <1>4. ASSUME NEW to \in Parties, TransferOwnership(c, to)
        PROVE  EscrowInv'
    <2>1. chain' = [chain EXCEPT !.owner = to]
      BY <1>4 DEF TransferOwnership
    <2>2. /\ chain' \in ChainStates /\ chain'.escrow = chain.escrow
          /\ chain'.deposits = chain.deposits /\ chain'.payments = chain.payments
          /\ chain'.balance = chain.balance /\ chain'.forced = chain.forced
      BY <1>1, <2>1 DEF ChainStates
    <2> QED
      BY <1>1, <1>2, <2>2, SoundFrame DEF EscrowInv
  <1> QED
    BY <1>3, <1>4

(* The empty contract is sound. *)
LEMMA EscrowStart == Init => EscrowInv
  <1> SUFFICES ASSUME Init PROVE EscrowInv
    OBVIOUS
  <1>1. /\ chain.escrow = [id \in Ids |-> NoEscrow] /\ chain.balance = 0
        /\ chain.forced = 0 /\ chain.deposits = [id \in Ids |-> << >>]
        /\ chain.payments = [id \in Ids |-> << >>] /\ calls = << >>
    BY DEF Init
  <1>2. chain \in ChainStates
    <2>1. NoEscrow \in Escrows
      BY DEF NoEscrow, Escrows, Parties
    <2>2. Supply \in Int
      BY EscrowAssumption
    <2> QED
      BY <2>1, <2>2, EscrowAssumption DEF Init, ChainStates, Parties
  <1>3. \A id \in Ids : AgreedIn(chain, id) /\ PayableIn(chain, id)
    <2> SUFFICES ASSUME NEW id \in Ids PROVE AgreedIn(chain, id) /\ PayableIn(chain, id)
      OBVIOUS
    <2>1. /\ chain.escrow[id].status = "None" /\ chain.escrow[id].amount = 0
          /\ chain.deposits[id] = << >> /\ chain.payments[id] = << >>
      BY <1>1 DEF NoEscrow
    <2> QED
      BY <2>1 DEF AgreedIn, PayableIn
  <1>4. SumIn(chain) = 0
    <2> DEFINE e == chain.escrow
               T == {s \in SUBSET Ids : PromisedBy(e)[s] = 0}
    <2>1. \A id \in Ids : e[id].amount = 0
      BY <1>1 DEF NoEscrow
    <2>2. {} \in T
      BY PromisedRecursion
    <2>3. ASSUME NEW s \in SUBSET Ids, s # {}, s \ {Pick(s)} \in T PROVE s \in T
      <3>1. PromisedBy(e)[s] = e[Pick(s)].amount + PromisedBy(e)[s \ {Pick(s)}]
        BY <2>3, PromisedRecursion
      <3>2. e[Pick(s)].amount = 0
        BY <2>1, <2>3, PickIn
      <3> QED
        BY <2>3, <3>1, <3>2
    <2>4. SUBSET Ids \subseteq T
      <3> HIDE DEF T
      <3> QED
        BY <2>2, <2>3, InductionOnSubsets, EscrowAssumption
    <2> QED
      BY <2>4, SumInIsPromised
  <1>5. chain.balance = SumIn(chain) + chain.forced
    BY <1>1, <1>4
  <1> QED
    BY <1>1, <1>2, <1>3, <1>5 DEF EscrowInv, Sound

(* So the invariant holds throughout. *)
LEMMA EscrowAlways == Spec => []EscrowInv
  <1>1. EscrowInv /\ [Next]_vars => EscrowInv'
    <2> SUFFICES ASSUME EscrowInv, [Next]_vars PROVE EscrowInv'
      OBVIOUS
    <2>1. ASSUME NEW c \in Accounts, NEW id \in Ids,
                 NEW to \in Accounts \cup {Nobody}, NEW v \in 1..Supply,
                 deposit(c, id, to, v)
          PROVE  EscrowInv'
      BY <2>1, DepositKeeps DEF Parties
    <2>2. ASSUME NEW c \in Accounts, NEW id \in Ids, release(c, id)
          PROVE  EscrowInv'
      BY <2>2, PayKeeps DEF release
    <2>3. ASSUME NEW c \in Accounts, NEW id \in Ids, refund(c, id)
          PROVE  EscrowInv'
      BY <2>3, PayKeeps DEF refund
    <2>4. ASSUME NEW c \in Accounts, NEW to \in Accounts \cup {Nobody},
                 TransferOwnership(c, to)
          PROVE  EscrowInv'
      BY <2>4, OthersKeep DEF Parties
    <2>5. ASSUME NEW c \in Accounts, ForceFunds(c)
          PROVE  EscrowInv'
      BY <2>5, OthersKeep
    <2>6. CASE UNCHANGED vars
      BY <2>6 DEF vars, EscrowInv
    <2> QED
      BY <2>1, <2>2, <2>3, <2>4, <2>5, <2>6, ReturnKeeps DEF Next
  <1> QED
    BY <1>1, EscrowStart, PTL DEF Spec

(* Each id is funded once and paid at most once, in full and to the right     *)
(* account, for any number of escrows and accounts and any nesting of         *)
(* payments, calls back, returns and reverts (deposit, release, refund).      *)
THEOREM PaidOnceAndRight == Spec => []PaidAsAgreed
  <1>1. EscrowInv => PaidAsAgreed
    BY DEF EscrowInv, Sound, AgreedIn, PaidAsAgreed
  <1> QED
    BY <1>1, EscrowAlways, PTL

(* The contract holds what its funded escrows promise and what was forced on  *)
(* it, in the middle of a payment too (the amount zeroed before the call and  *)
(* the revert on a failed one).                                               *)
THEOREM AlwaysBacked == Spec => []Backed
  <1>1. EscrowInv => Backed
    <2> SUFFICES ASSUME EscrowInv PROVE Backed
      OBVIOUS
    <2>1. chain.balance = SumIn(chain) + chain.forced
      BY DEF EscrowInv, Sound
    <2> QED
      BY <2>1, Zenon DEF Backed, SumIn
  <1> QED
    BY <1>1, EscrowAlways, PTL
=============================================================================
