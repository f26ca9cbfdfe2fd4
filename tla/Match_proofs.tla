---------------------------- MODULE Match_proofs ----------------------------
(***************************************************************************)
(* Proofs about module Match, for any catalogue, decks, hands and number   *)
(* of turns.                                                               *)
(*                                                                         *)
(* Kept says what every state of a match has, at rest or in the middle of  *)
(* a walk of AutoAdvance: types, cards conserved, White in the odd turns,  *)
(* mana on schedule, casts backed, cards drawn.  Each operation of         *)
(* match.State keeps it (RollingOver, Advancing, Casting, Dealing), and a  *)
(* walk ends at rest, where NextRest says (Walking).  The first section is *)
(* about SumFunction, with which a pile is counted: the principle of the   *)
(* least number stands for induction.                                      *)
(***************************************************************************)
EXTENDS Match, FiniteSetTheorems, WellFoundedInduction, TLAPS

-----------------------------------------------------------------------------
(* Sums over finite sets. *)

(* Every set of numbers has a least one: what induction amounts to when it *)
(* is said of sets.                                                        *)
LEMMA NatMin ==
  ASSUME NEW T \in SUBSET Nat, T # {}
  PROVE  \E n \in T : \A m \in T : n <= m
<1>1. PICK n \in T : \A m \in T : ~(<<m, n>> \in OpToRel(<, Nat))
  BY NatLessThanWellFounded, WFMin
<1>2. \A m \in T : ~(m < n)
  BY <1>1 DEF OpToRel
<1> QED BY <1>2

(* A set of numbers with 0 and the successors of its members has them all. *)
LEMMA NatLeads ==
  ASSUME NEW T \in SUBSET Nat, 0 \in T, \A n \in T : n + 1 \in T
  PROVE  T = Nat
<1> SUFFICES ASSUME Nat \ T # {} PROVE FALSE
  OBVIOUS
<1>1. PICK n \in Nat \ T : \A m \in Nat \ T : n <= m
  BY NatMin
<1>2. n - 1 \in Nat /\ n - 1 \notin Nat \ T
  BY <1>1
<1> QED BY <1>1, <1>2

(* The element SumFunction takes off a set, and its recursion, over the     *)
(* sets of D.                                                              *)
Pick(s) == CHOOSE x \in s : TRUE
IsSum(g, f, D) == g = [s \in D |-> IF s = {} THEN 0 ELSE f[Pick(s)] + g[s \ {Pick(s)}]]
Sub(S, n) == {s \in SUBSET S : Cardinality(s) <= n}
Sum(f) == CHOOSE g : IsSum(g, f, SUBSET (DOMAIN f))

(* SumFunction takes the picks of its domain one after the other. *)
LEMMA SumIs ==
  ASSUME NEW S, NEW f \in [S -> Nat]
  PROVE  SumFunction(f) = Sum(f)[S]
BY DEF SumFunction, SumFunctionOnSet, FoldFunctionOnSet, MapThenFoldSet, IsSum, Pick, Sum

(* A set without its pick is smaller. *)
LEMMA Smaller ==
  ASSUME NEW S, IsFiniteSet(S), NEW s \in SUBSET S, s # {}
  PROVE  /\ Pick(s) \in s
         /\ s \ {Pick(s)} \in SUBSET S
         /\ IsFiniteSet(s) /\ Cardinality(s) \in Nat
         /\ Cardinality(s \ {Pick(s)}) = Cardinality(s) - 1
         /\ Cardinality(s) <= Cardinality(S)
         /\ Cardinality(s \ {Pick(s)}) \in Nat
<1>1. Pick(s) \in s
  BY DEF Pick
<1>2. IsFiniteSet(s) /\ Cardinality(s) <= Cardinality(S) /\ Cardinality(s) \in Nat
  BY FS_Subset, FS_CardinalityType
<1>3. IsFiniteSet(s \ {Pick(s)}) /\ Cardinality(s \ {Pick(s)}) = Cardinality(s) - 1
  BY <1>1, <1>2, FS_RemoveElement
<1>4. Cardinality(s \ {Pick(s)}) \in Nat
  BY <1>3, FS_CardinalityType
<1> QED BY <1>1, <1>2, <1>3, <1>4

(* The recursion defines a function: for the subsets of up to n elements,  *)
(* for every n.                                                            *)
LEMMA SumExists ==
  ASSUME NEW S, IsFiniteSet(S), NEW f \in [S -> Nat]
  PROVE  \E g \in [SUBSET S -> Nat] : IsSum(g, f, SUBSET S)
<1> DEFINE T == {n \in Nat : \E g \in [Sub(S, n) -> Nat] : IsSum(g, f, Sub(S, n))}
<1>1. 0 \in T
  <2>1. ASSUME NEW s \in Sub(S, 0), s # {} PROVE FALSE
    <3>1. Cardinality(s) <= 0 /\ s \in SUBSET S
      BY DEF Sub
    <3>2. Cardinality(s) \in Nat /\ Cardinality(s \ {Pick(s)}) = Cardinality(s) - 1 /\ Cardinality(s \ {Pick(s)}) \in Nat
      BY <2>1, <3>1, Smaller
    <3> QED BY <3>1, <3>2
  <2>2. IsSum([s \in Sub(S, 0) |-> 0], f, Sub(S, 0))
    BY <2>1 DEF IsSum
  <2> QED BY <2>2
<1>2. ASSUME NEW n \in T PROVE n + 1 \in T
  <2>1. PICK g \in [Sub(S, n) -> Nat] : IsSum(g, f, Sub(S, n))
    OBVIOUS
  <2> DEFINE h == [s \in Sub(S, n + 1) |-> IF s = {} THEN 0 ELSE f[Pick(s)] + g[s \ {Pick(s)}]]
  <2>2. ASSUME NEW s \in Sub(S, n + 1), s # {}
        PROVE  /\ s \ {Pick(s)} \in Sub(S, n)
               /\ Pick(s) \in S
    BY <2>2, Smaller DEF Sub
  <2>3. \A s \in Sub(S, n) : s \in Sub(S, n + 1)
    <3>1. \A s \in Sub(S, n) : s \in SUBSET S /\ IsFiniteSet(s) /\ Cardinality(s) \in Nat /\ Cardinality(s) <= n
      BY FS_Subset, FS_CardinalityType DEF Sub
    <3> QED BY <3>1 DEF Sub
  <2>4. \A s \in Sub(S, n) : g[s] = IF s = {} THEN 0 ELSE f[Pick(s)] + g[s \ {Pick(s)}]
    BY <2>1 DEF IsSum
  <2>5. \A s \in Sub(S, n) : h[s] = g[s]
    BY <2>3, <2>4
  <2>6. h \in [Sub(S, n + 1) -> Nat]
    <3>1. \A s \in Sub(S, n + 1) : h[s] \in Nat
      BY <2>2
    <3> QED BY <3>1
  <2>7. \A s \in Sub(S, n + 1) : h[s] = IF s = {} THEN 0 ELSE f[Pick(s)] + h[s \ {Pick(s)}]
    BY <2>2, <2>5
  <2>8. IsSum(h, f, Sub(S, n + 1))
    BY <2>6, <2>7 DEF IsSum
  <2> HIDE DEF h
  <2> QED BY <2>6, <2>8
<1>3. T = Nat
  <2> HIDE DEF T
  <2>1. T \in SUBSET Nat
    BY DEF T
  <2> QED BY <2>1, <1>1, <1>2, NatLeads
<1>4. Cardinality(S) \in T
  BY <1>3, FS_CardinalityType
<1>5. Sub(S, Cardinality(S)) = SUBSET S
  BY FS_Subset DEF Sub
<1> QED BY <1>4, <1>5

(* So the sum over a set is its pick's value and the sum over the rest. *)
LEMMA SumStep ==
  ASSUME NEW S, IsFiniteSet(S), NEW f \in [S -> Nat]
  PROVE  \A s \in SUBSET S : Sum(f)[s] = IF s = {} THEN 0 ELSE f[Pick(s)] + Sum(f)[s \ {Pick(s)}]
<1>1. \E g : IsSum(g, f, SUBSET S)
  BY SumExists
<1>2. IsSum(Sum(f), f, SUBSET S)
  BY <1>1 DEF Sum
<1> QED BY <1>2 DEF IsSum

(* What holds of the empty set, and of a set if of the set without its pick, holds of every subset. *)
(* What holds of the empty set, and of a set if it holds of the set without *)
(* its pick, holds of every subset of a finite set.                        *)
LEMMA Grows ==
  ASSUME NEW S, IsFiniteSet(S), NEW Good \in SUBSET SUBSET S,
         {} \in Good,
         \A s \in SUBSET S : s # {} /\ s \ {Pick(s)} \in Good => s \in Good
  PROVE  Good = SUBSET S
<1> DEFINE Bad == {Cardinality(s) : s \in (SUBSET S) \ Good}
<1> SUFFICES ASSUME (SUBSET S) \ Good # {} PROVE FALSE
  OBVIOUS
<1>1. Bad \in SUBSET Nat /\ Bad # {}
  BY FS_Subset, FS_CardinalityType
<1>2. PICK n \in Bad : \A m \in Bad : n <= m
  <2> HIDE DEF Bad
  <2> QED BY <1>1, NatMin
<1>3. PICK s \in (SUBSET S) \ Good : n = Cardinality(s)
  OBVIOUS
<1>4. s # {} /\ s \ {Pick(s)} \in SUBSET S /\ Cardinality(s \ {Pick(s)}) = Cardinality(s) - 1 /\ Cardinality(s) \in Nat
  BY <1>3, Smaller
<1>5. s \ {Pick(s)} \notin Good
  BY <1>3, <1>4
<1>6. Cardinality(s \ {Pick(s)}) \in Bad
  BY <1>4, <1>5
<1> QED BY <1>2, <1>3, <1>4, <1>6

(* A sum of natural numbers is one. *)
LEMMA SumNat ==
  ASSUME NEW S, IsFiniteSet(S), NEW f \in [S -> Nat]
  PROVE  /\ SumFunction(f) \in Nat
         /\ \A s \in SUBSET S : Sum(f)[s] \in Nat
<1> DEFINE Good == {s \in SUBSET S : Sum(f)[s] \in Nat}
<1>1. {} \in Good
  <2>1. {} \in SUBSET S
    OBVIOUS
  <2>2. Sum(f)[{}] = 0
    BY SumStep, <2>1
  <2> QED BY <2>1, <2>2
<1>2. \A s \in SUBSET S : s # {} /\ s \ {Pick(s)} \in Good => s \in Good
  BY SumStep, Smaller
<1>3. Good = SUBSET S
  <2>1. Good \in SUBSET SUBSET S
    OBVIOUS
  <2> HIDE DEF Good
  <2> QED BY <1>1, <1>2, <2>1, Grows
<1> QED BY <1>3, SumIs

(* The sum of two functions added up is the sum of their sums. *)
LEMMA SumPlus ==
  ASSUME NEW S, IsFiniteSet(S), NEW f \in [S -> Nat], NEW g \in [S -> Nat]
  PROVE  SumFunction([s \in S |-> f[s] + g[s]]) = SumFunction(f) + SumFunction(g)
<1> DEFINE h == [s \in S |-> f[s] + g[s]]
           Good == {s \in SUBSET S : Sum(h)[s] = Sum(f)[s] + Sum(g)[s]}
<1>0. h \in [S -> Nat]
  OBVIOUS
<1>a. \A x \in S : h[x] = f[x] + g[x] /\ f[x] \in Nat /\ g[x] \in Nat
  OBVIOUS
<1> HIDE DEF h
<1>1. {} \in Good
  <2>1. {} \in SUBSET S
    OBVIOUS
  <2>2. Sum(h)[{}] = 0 /\ Sum(f)[{}] = 0 /\ Sum(g)[{}] = 0
    BY SumStep, <1>0, <2>1
  <2> QED BY <2>1, <2>2
<1>2. ASSUME NEW s \in SUBSET S, s # {}, s \ {Pick(s)} \in Good PROVE s \in Good
  <2>1. Pick(s) \in S /\ s \ {Pick(s)} \in SUBSET S
    BY <1>2, Smaller
  <2>2. /\ Sum(h)[s] = h[Pick(s)] + Sum(h)[s \ {Pick(s)}]
        /\ Sum(f)[s] = f[Pick(s)] + Sum(f)[s \ {Pick(s)}]
        /\ Sum(g)[s] = g[Pick(s)] + Sum(g)[s \ {Pick(s)}]
    <3>1. \A k \in [S -> Nat] : Sum(k)[s] = k[Pick(s)] + Sum(k)[s \ {Pick(s)}]
      BY <1>2, SumStep
    <3> QED BY <3>1, <1>0
  <2>3. Sum(f)[s \ {Pick(s)}] \in Nat /\ Sum(g)[s \ {Pick(s)}] \in Nat
    BY <2>1, SumNat
  <2> QED BY <1>2, <2>1, <2>2, <2>3, <1>a
<1>3. Good = SUBSET S
  <2>1. Good \in SUBSET SUBSET S
    OBVIOUS
  <2> HIDE DEF Good
  <2> QED BY <1>1, <1>2, <2>1, Grows
<1>4. Sum(h)[S] = Sum(f)[S] + Sum(g)[S]
  BY <1>3
<1> QED BY <1>4, <1>0, SumIs DEF h

(* A function that is zero but for one argument has that value as its sum. *)
LEMMA SumOne ==
  ASSUME NEW S, IsFiniteSet(S), NEW t \in S, NEW n \in Nat
  PROVE  SumFunction([s \in S |-> IF s = t THEN n ELSE 0]) = n
<1> DEFINE h == [s \in S |-> IF s = t THEN n ELSE 0]
           Good == {s \in SUBSET S : Sum(h)[s] = IF t \in s THEN n ELSE 0}
<1>0. h \in [S -> Nat] /\ \A x \in S : h[x] = IF x = t THEN n ELSE 0
  OBVIOUS
<1> HIDE DEF h
<1>1. {} \in Good
  <2>1. {} \in SUBSET S
    OBVIOUS
  <2>2. Sum(h)[{}] = 0
    BY SumStep, <1>0, <2>1
  <2> QED BY <2>1, <2>2
<1>2. ASSUME NEW s \in SUBSET S, s # {}, s \ {Pick(s)} \in Good PROVE s \in Good
  <2>1. Pick(s) \in s /\ Pick(s) \in S /\ s \ {Pick(s)} \in SUBSET S
    BY <1>2, Smaller
  <2>2. Sum(h)[s] = h[Pick(s)] + Sum(h)[s \ {Pick(s)}]
    <3>1. \A k \in [S -> Nat] : Sum(k)[s] = k[Pick(s)] + Sum(k)[s \ {Pick(s)}]
      BY <1>2, SumStep
    <3> QED BY <3>1, <1>0
  <2> QED BY <1>2, <2>1, <2>2, <1>0
<1>3. Good = SUBSET S
  <2>1. Good \in SUBSET SUBSET S
    OBVIOUS
  <2> HIDE DEF Good
  <2> QED BY <1>1, <1>2, <2>1, Grows
<1>4. Sum(h)[S] = n
  BY <1>3
<1> QED BY <1>4, <1>0, SumIs DEF h

-----------------------------------------------------------------------------
(* The opponent of a player is the other one. *)
LEMMA Others ==
    \A p \in Player : /\ Opponent(p) \in Player
                      /\ \A q \in Player : q # Opponent(p) => q = p
BY DEF Player, Opponent, White, Black

(* How the turns of a player count up: those of White are the odd ones. *)
LEMMA Index ==
  ASSUME NEW t \in Nat \ {0}
  PROVE  /\ t % 2 \in {0, 1}
         /\ playerTurnIndex(White, t) \in Nat \ {0}
         /\ playerTurnIndex(Black, t) \in Nat
         /\ t % 2 = 1 => /\ (t + 1) % 2 = 0
                         /\ playerTurnIndex(White, t + 1) = playerTurnIndex(White, t)
                         /\ playerTurnIndex(Black, t + 1) = playerTurnIndex(Black, t) + 1
         /\ t % 2 = 0 => /\ (t + 1) % 2 = 1
                         /\ playerTurnIndex(White, t + 1) = playerTurnIndex(White, t) + 1
                         /\ playerTurnIndex(Black, t + 1) = playerTurnIndex(Black, t)
<1>1. PICK k \in Nat : t = 2 * k \/ t = 2 * k + 1
  <2>1. t \div 2 \in Nat /\ (t = 2 * (t \div 2) \/ t = 2 * (t \div 2) + 1)
    OBVIOUS
  <2> QED BY <2>1
<1>2. White # Black
  BY DEF White, Black
<1>3. CASE t = 2 * k
  <2>1. t \div 2 = k /\ (t + 1) \div 2 = k /\ (t + 1 + 1) \div 2 = k + 1 /\ t % 2 = 0 /\ (t + 1) % 2 = 1 /\ k # 0
    BY <1>3
  <2> QED BY <2>1, <1>2 DEF playerTurnIndex
<1>4. CASE t = 2 * k + 1
  <2>1. t \div 2 = k /\ (t + 1) \div 2 = k + 1 /\ (t + 1 + 1) \div 2 = k + 1 /\ t % 2 = 1 /\ (t + 1) % 2 = 0
    BY <1>4
  <2> QED BY <2>1, <1>2 DEF playerTurnIndex
<1> QED BY <1>1, <1>3, <1>4

(* w is m after cards were drawn, by anybody, any number: they are in hands *)
(* and no longer in decks, and nothing else changed.                       *)
Drew(m, w) ==
  /\ w \in MatchState
  /\ w.phase = m.phase /\ w.turn = m.turn /\ w.active = m.active
  /\ w.mana = m.mana /\ w.maxMana = m.maxMana /\ w.discard = m.discard /\ w.casts = m.casts
  /\ \A q \in Player, s \in Spells :
       /\ w.hand[q][s] + w.deck[q][s] = m.hand[q][s] + m.deck[q][s]
       /\ w.hand[q][s] >= m.hand[q][s]
  /\ \A q \in Player : SumFunction(w.deck[q]) <= SumFunction(m.deck[q])

(* The number of cards of a bag. *)
LEMMA SumOfBag ==
  ASSUME NEW b \in Bag
  PROVE  SumFunction(b) \in Nat
BY SumNat, CatalogAssumption DEF Bag

(* What is taken out of a bag is taken off its sum. *)
LEMMA SumMinus ==
  ASSUME NEW d \in Bag, NEW b \in Bag, \A s \in Spells : b[s] <= d[s]
  PROVE  /\ [s \in Spells |-> d[s] - b[s]] \in Bag
         /\ SumFunction([s \in Spells |-> d[s] - b[s]]) = SumFunction(d) - SumFunction(b)
<1> DEFINE e == [s \in Spells |-> d[s] - b[s]]
<1>1. e \in Bag
  BY DEF Bag
<1>2. [s \in Spells |-> e[s] + b[s]] = d
  <2>1. \A s \in Spells : e[s] + b[s] = d[s]
    BY DEF Bag
  <2> QED BY <2>1 DEF Bag
<1> HIDE DEF e
<1>3. SumFunction([s \in Spells |-> e[s] + b[s]]) = SumFunction(e) + SumFunction(b)
  BY <1>1, SumPlus, CatalogAssumption DEF Bag
<1>4. SumFunction(d) = SumFunction(e) + SumFunction(b) /\ SumFunction(e) \in Nat /\ SumFunction(b) \in Nat
  BY <1>2, <1>3, <1>1, SumOfBag
<1>5. SumFunction(e) = SumFunction(d) - SumFunction(b)
  BY <1>4
<1> QED BY <1>1, <1>5 DEF e

(* What may be drawn is in the deck, and as much as there is. *)
LEMMA TopIsBag ==
  ASSUME NEW d \in Bag, NEW n \in Nat, NEW b \in Top(d, n)
  PROVE  /\ b \in Bag
         /\ \A s \in Spells : b[s] <= d[s]
         /\ SumFunction(b) = Min2(n, SumFunction(d))
<1>1. \A s \in Spells : b[s] \in Nat
  BY DEF Top
<1> QED BY <1>1 DEF Top, Bag

(* drawCards takes from one deck what it can. *)
LEMMA Drawing ==
  ASSUME NEW m \in MatchState, NEW p \in Player, NEW n \in Nat, NEW w \in drawCards(m, p, n)
  PROVE  /\ Drew(m, w)
         /\ SumFunction(w.deck[p]) = SumFunction(m.deck[p]) - Min2(n, SumFunction(m.deck[p]))
<1>1. PICK b \in Top(m.deck[p], n) :
        w = [m EXCEPT !.deck[p] = [s \in Spells |-> @[s] - b[s]],
                      !.hand[p] = [s \in Spells |-> @[s] + b[s]]]
  BY DEF drawCards
<1>2. /\ m.deck \in [Player -> Bag] /\ m.hand \in [Player -> Bag]
      /\ m.deck[p] \in Bag /\ m.hand[p] \in Bag
  BY DEF MatchState
<1>3. b \in Bag /\ \A s \in Spells : b[s] <= m.deck[p][s]
  BY <1>2, TopIsBag
<1>4. SumFunction(b) = Min2(n, SumFunction(m.deck[p]))
  BY <1>2, TopIsBag
<1> DEFINE d == [s \in Spells |-> m.deck[p][s] - b[s]]
           h == [s \in Spells |-> m.hand[p][s] + b[s]]
<1>5. d \in Bag /\ SumFunction(d) = SumFunction(m.deck[p]) - SumFunction(b)
  BY <1>2, <1>3, SumMinus
<1>6. h \in Bag
  BY <1>2, <1>3 DEF Bag
<1>7. \A s \in Spells : d[s] + h[s] = m.deck[p][s] + m.hand[p][s] /\ h[s] >= m.hand[p][s]
  BY <1>2, <1>3 DEF Bag
<1>8. w = [m EXCEPT !.deck = [@ EXCEPT ![p] = d], !.hand = [@ EXCEPT ![p] = h]]
  BY <1>1, <1>2 DEF MatchState
<1> HIDE DEF d, h
<1>9. /\ w.phase = m.phase /\ w.turn = m.turn /\ w.active = m.active
      /\ w.mana = m.mana /\ w.maxMana = m.maxMana /\ w.discard = m.discard /\ w.casts = m.casts
      /\ w.deck = [m.deck EXCEPT ![p] = d] /\ w.hand = [m.hand EXCEPT ![p] = h]
  BY <1>8 DEF MatchState
<1>10. w.deck \in [Player -> Bag] /\ w.hand \in [Player -> Bag]
  BY <1>9, <1>2, <1>5, <1>6
<1>11. w \in MatchState
  BY <1>8, <1>9, <1>10 DEF MatchState
<1>12. w.deck[p] = d /\ w.hand[p] = h /\ \A q \in Player : q # p => w.deck[q] = m.deck[q] /\ w.hand[q] = m.hand[q]
  BY <1>9, <1>2
<1>13. \A q \in Player, s \in Spells : m.hand[q][s] \in Nat /\ m.deck[q][s] \in Nat
  BY <1>2 DEF Bag
<1>14. \A q \in Player, s \in Spells :
       /\ w.hand[q][s] + w.deck[q][s] = m.hand[q][s] + m.deck[q][s]
       /\ w.hand[q][s] >= m.hand[q][s]
  <2>1. \A s \in Spells : d[s] \in Nat /\ h[s] \in Nat
    BY <1>5, <1>6 DEF Bag
  <2> QED BY <1>7, <1>12, <1>13, <2>1
<1>15. \A q \in Player : SumFunction(m.deck[q]) \in Nat
  BY <1>2, SumOfBag
<1>16. SumFunction(w.deck[p]) = SumFunction(m.deck[p]) - Min2(n, SumFunction(m.deck[p]))
  BY <1>4, <1>5, <1>12
<1>17. Min2(n, SumFunction(m.deck[p])) \in Nat
  BY <1>15 DEF Min2
<1>18. \A q \in Player : SumFunction(w.deck[q]) <= SumFunction(m.deck[q])
  BY <1>12, <1>15, <1>16, <1>17
<1> QED BY <1>9, <1>11, <1>14, <1>16, <1>18 DEF Drew

(* Draws after draws are draws. *)
LEMMA DrewTwice ==
  ASSUME NEW m \in MatchState, NEW v, NEW w, Drew(m, v), Drew(v, w)
  PROVE  Drew(m, w)
<1>1. \A q \in Player : SumFunction(m.deck[q]) \in Nat /\ SumFunction(v.deck[q]) \in Nat /\ SumFunction(w.deck[q]) \in Nat
  BY SumOfBag DEF Drew, MatchState
<1>2. \A q \in Player, s \in Spells :
        /\ m.hand[q][s] \in Nat /\ v.hand[q][s] \in Nat /\ w.hand[q][s] \in Nat
        /\ m.deck[q][s] \in Nat /\ v.deck[q][s] \in Nat /\ w.deck[q][s] \in Nat
  BY DEF Drew, MatchState, Bag
<1>3. \A q \in Player : SumFunction(w.deck[q]) <= SumFunction(m.deck[q])
  BY <1>1 DEF Drew
<1>4. \A q \in Player, s \in Spells :
       /\ w.hand[q][s] + w.deck[q][s] = m.hand[q][s] + m.deck[q][s]
       /\ w.hand[q][s] >= m.hand[q][s]
  BY <1>2 DEF Drew
<1> QED BY <1>3, <1>4 DEF Drew

(* Lost pieces only make players draw. *)
LEMMA Losing ==
  ASSUME NEW m \in MatchState, NEW w \in LosePieces(m)
  PROVE  Drew(m, w)
<1>1. PICK n \in [Player -> 0 .. MaxLost] : w \in UNION {drawCards(v, Black, n[Black]) : v \in drawCards(m, White, n[White])}
  BY DEF LosePieces
<1>2. PICK v \in drawCards(m, White, n[White]) : w \in drawCards(v, Black, n[Black])
  BY <1>1
<1>3. White \in Player /\ Black \in Player /\ n[White] \in Nat /\ n[Black] \in Nat
  BY RulesAssumption DEF Player
<1>4. Drew(m, v)
  BY <1>2, <1>3, Drawing
<1>5. Drew(v, w)
  BY <1>2, <1>3, <1>4, Drawing DEF Drew
<1> QED BY <1>4, <1>5, DrewTwice

(* The properties of the module, of any state of the match and not only of *)
(* those it rests at.                                                      *)
Begun(p, t) == playerTurnIndex(p, t) - (IF p = White THEN 1 ELSE 0)
Conserved(m) ==
  \A p \in Player, s \in Spells : m.hand[p][s] + m.deck[p][s] + m.discard[p][s] = Decks[p][s]
Scheduled(m) ==
  \A p \in Player :
    /\ m.mana[p] <= MaxManaCap
    /\ m.maxMana[p] = IF Begun(p, m.turn) = 0 THEN InitialMana
                      ELSE Min2(playerTurnIndex(p, m.turn), MaxManaCap)
Spent(casts, value) == SumFunction([s \in Spells |-> casts[s] * value[s]])
Backed(m) ==
  m.mana[m.active] + Spent(m.casts[m.active], Cost)
    <= m.maxMana[m.active] + Spent(m.casts[m.active], ManaGain)
Owed(p, t) ==
  LET owed == StartingHand + Begun(p, t)
      size == SumFunction(Decks[p])
  IN  IF size <= owed THEN 0 ELSE size - owed
Drawn(m) == \A p \in Player : SumFunction(m.deck[p]) <= Owed(p, m.turn)

(* White acts in the odd turns. *)
Alternates(m) == m.active = White <=> m.turn % 2 = 1

Kept(m) ==
  /\ m \in MatchState
  /\ Conserved(m) /\ Alternates(m) /\ Scheduled(m) /\ Backed(m) /\ Drawn(m)

(* What a deck may still hold is a number. *)
LEMMA OwedInt ==
  ASSUME NEW q \in Player, NEW t \in Nat \ {0}
  PROVE  Owed(q, t) \in Int
<1>1. playerTurnIndex(q, t) \in Nat
  BY Index DEF Player
<1>2. Begun(q, t) \in Int
  BY <1>1 DEF Begun
<1>3. SumFunction(Decks[q]) \in Nat
  BY SumOfBag, RulesAssumption
<1> QED BY <1>2, <1>3, RulesAssumption DEF Owed

(* Draws keep all of it. *)
LEMMA DrawsKeep ==
  ASSUME NEW m, NEW w, Kept(m), Drew(m, w)
  PROVE  Kept(w)
<1>1. m \in MatchState /\ w \in MatchState
  BY DEF Kept, Drew
<1>2. Conserved(w)
  <2>1. \A p \in Player, s \in Spells :
        /\ m.hand[p][s] \in Nat /\ w.hand[p][s] \in Nat /\ m.deck[p][s] \in Nat /\ w.deck[p][s] \in Nat
        /\ w.discard[p][s] = m.discard[p][s] /\ m.discard[p][s] \in Nat
    BY <1>1 DEF Drew, MatchState, Bag
  <2>2. \A p \in Player, s \in Spells : m.hand[p][s] + m.deck[p][s] + m.discard[p][s] = Decks[p][s]
    BY DEF Kept, Conserved
  <2>3. \A p \in Player, s \in Spells : w.hand[p][s] + w.deck[p][s] = m.hand[p][s] + m.deck[p][s]
    BY DEF Drew
  <2> QED BY <2>1, <2>2, <2>3 DEF Conserved
<1>3. Alternates(w) /\ Scheduled(w) /\ Backed(w)
  BY DEF Kept, Drew, Alternates, Scheduled, Backed
<1>4. Drawn(w)
  <2>1. \A p \in Player : /\ SumFunction(w.deck[p]) <= SumFunction(m.deck[p])
                          /\ SumFunction(w.deck[p]) \in Nat /\ SumFunction(m.deck[p]) \in Nat
                          /\ SumFunction(m.deck[p]) <= Owed(p, w.turn)
    BY <1>1, SumOfBag DEF Kept, Drew, Drawn, MatchState
  <2>2. \A p \in Player : Owed(p, w.turn) \in Int
    BY <1>1, OwedInt DEF MatchState
  <2> QED BY <2>1, <2>2 DEF Drawn
<1> QED BY <1>1, <1>2, <1>3, <1>4 DEF Kept

(* What the casts of a turn cost when there are none. *)
LEMMA NothingSpent ==
  ASSUME NEW value \in [Spells -> Nat]
  PROVE  NoCards \in Bag /\ Spent(NoCards, value) = 0
<1> DEFINE z == [s \in Spells |-> NoCards[s] * value[s]]
<1>1. NoCards \in Bag
  BY DEF NoCards, Bag
<1>2. z = [s \in Spells |-> 0]
  BY DEF NoCards
<1>3. z = [s \in Spells |-> z[s] + z[s]] /\ z \in [Spells -> Nat]
  BY <1>2
<1> HIDE DEF z
<1>4. SumFunction(z) \in Nat
  BY <1>3, SumNat, CatalogAssumption
<1>5. SumFunction([s \in Spells |-> z[s] + z[s]]) = SumFunction(z) + SumFunction(z)
  <2>1. z \in [Spells -> Nat] /\ IsFiniteSet(Spells)
    BY <1>3, CatalogAssumption
  <2> QED BY ONLY <2>1, SumPlus
<1>6. SumFunction(z) = SumFunction(z) + SumFunction(z)
  BY <1>3, <1>5
<1>7. SumFunction(z) = 0
  <2>1. \A n \in Nat : n = n + n => n = 0
    OBVIOUS
  <2> QED BY <1>4, <1>6, <2>1
<1> QED BY <1>1, <1>7 DEF Spent, z

(* One more cast adds its value. *)
LEMMA OneMoreSpent ==
  ASSUME NEW casts \in Bag, NEW value \in [Spells -> Nat], NEW s \in Spells
  PROVE  /\ Spent(Plus(casts, s), value) = Spent(casts, value) + value[s]
         /\ Spent(casts, value) \in Nat
<1> DEFINE f == [t \in Spells |-> casts[t] * value[t]]
           g == [t \in Spells |-> IF t = s THEN value[s] ELSE 0]
           h == [t \in Spells |-> Plus(casts, s)[t] * value[t]]
<1>1. \A t \in Spells : casts[t] * value[t] \in Nat /\ value[t] \in Nat /\ casts[t] \in Nat
  <2>1. \A a, b \in Nat : a * b \in Nat
    OBVIOUS
  <2> QED BY <2>1 DEF Bag
<1>2. f \in [Spells -> Nat] /\ g \in [Spells -> Nat]
  BY <1>1
<1>3. \A t \in Spells : h[t] = f[t] + g[t]
  <2>1. \A a, b \in Nat : (a + 1) * b = a * b + b
    OBVIOUS
  <2>2. \A t \in Spells : Plus(casts, s)[t] = IF t = s THEN casts[t] + 1 ELSE casts[t]
    BY DEF Plus, Bag
  <2>3. ASSUME NEW t \in Spells PROVE h[t] = f[t] + g[t]
    <3>1. CASE t = s
      <4>1. h[t] = (casts[t] + 1) * value[t]
        BY <2>2, <3>1
      <4>2. f[t] = casts[t] * value[t] /\ g[t] = value[t]
        BY <3>1
      <4> HIDE DEF f, g, h
      <4> QED BY <4>1, <4>2, <2>1, <1>1
    <3>2. CASE t # s
      <4>1. h[t] = casts[t] * value[t]
        BY <2>2, <3>2
      <4>2. f[t] = casts[t] * value[t] /\ g[t] = 0
        BY <3>2
      <4> HIDE DEF f, g, h
      <4> QED BY <4>1, <4>2, <1>1
    <3> QED BY <3>1, <3>2
  <2> QED BY <2>3
<1>4. h = [t \in Spells |-> f[t] + g[t]]
  <2> HIDE DEF f, g
  <2> QED BY <1>3
<1>5. SumFunction(g) = value[s]
  BY <1>1, SumOne, CatalogAssumption
<1>6. SumFunction(h) = SumFunction(f) + SumFunction(g) /\ SumFunction(f) \in Nat
  <2> HIDE DEF f, g, h
  <2> QED BY <1>2, <1>4, SumPlus, SumNat, CatalogAssumption
<1>7. Spent(Plus(casts, s), value) = SumFunction(h) /\ Spent(casts, value) = SumFunction(f)
  BY DEF Spent
<1> QED BY <1>5, <1>6, <1>7

(* The end of a turn: the other player's turn begins, with its mana, its   *)
(* draw and no cast made.                                                  *)
LEMMA RollingOver ==
  ASSUME NEW m, Kept(m), NEW w \in Rollover(m)
  PROVE  /\ Kept(w)
         /\ w.phase = "draw" /\ w.turn = m.turn + 1 /\ w.active = Opponent(m.active)
<1> DEFINE p == Opponent(m.active)
           max == Min2(playerTurnIndex(p, m.turn + 1), MaxManaCap)
           r == [m EXCEPT !.phase = "draw", !.turn = m.turn + 1, !.active = p,
                          !.casts = [m.casts EXCEPT ![p] = NoCards],
                          !.maxMana = [m.maxMana EXCEPT ![p] = max],
                          !.mana = [m.mana EXCEPT ![p] = max]]
<1>1. m \in MatchState
  BY DEF Kept
<1>2. /\ m.turn \in Nat \ {0} /\ m.active \in Player /\ p \in Player /\ m.casts \in [Player -> Bag]
      /\ m.mana \in [Player -> Nat] /\ m.maxMana \in [Player -> Nat]
      /\ m.hand \in [Player -> Bag] /\ m.deck \in [Player -> Bag] /\ m.discard \in [Player -> Bag]
  BY <1>1, Others DEF MatchState
<1>3. playerTurnIndex(p, m.turn + 1) = playerTurnIndex(p, m.turn) + 1 /\ playerTurnIndex(p, m.turn) \in Nat
      /\ playerTurnIndex(m.active, m.turn + 1) = playerTurnIndex(m.active, m.turn)
      /\ (p = White => playerTurnIndex(p, m.turn) \in Nat \ {0})
      /\ (p = White <=> (m.turn + 1) % 2 = 1)
  <2>1. CASE m.active = White
    <3>1. p = Black /\ p # White /\ m.turn % 2 = 1
      BY <2>1 DEF Opponent, White, Black, Kept, Alternates
    <3> HIDE DEF p
    <3> QED BY <2>1, <3>1, <1>2, Index
  <2>2. CASE m.active = Black
    <3>1. p = White /\ m.active # White /\ m.turn % 2 # 1
      BY <2>2 DEF Opponent, White, Black, Kept, Alternates
    <3>2. m.turn % 2 = 0
      BY <3>1, <1>2, Index
    <3> HIDE DEF p
    <3> QED BY <2>2, <3>1, <3>2, <1>2, Index
  <2> QED BY <1>2, <2>1, <2>2 DEF Player
<1>4. max \in Nat /\ max <= MaxManaCap
  BY <1>3, RulesAssumption DEF Min2
<1>5. w \in drawCards(r, p, 1)
  <2>1. refreshMana([m EXCEPT !.phase = "draw", !.turn = @ + 1, !.active = p, !.casts[p] = NoCards], p) = r
    BY <1>1, <1>2 DEF refreshMana, MatchState
  <2> QED BY <2>1 DEF Rollover
<1>6. /\ r.phase = "draw" /\ r.turn = m.turn + 1 /\ r.active = p
      /\ r.casts = [m.casts EXCEPT ![p] = NoCards]
      /\ r.maxMana = [m.maxMana EXCEPT ![p] = max] /\ r.mana = [m.mana EXCEPT ![p] = max]
      /\ r.hand = m.hand /\ r.deck = m.deck /\ r.discard = m.discard
  BY <1>1 DEF MatchState
<1>7. r \in MatchState
  <2>1. /\ r.casts \in [Player -> Bag] /\ r.maxMana \in [Player -> Nat] /\ r.mana \in [Player -> Nat]
        /\ r.turn \in Nat \ {0} /\ r.phase \in Phase
    <3>1. NoCards \in Bag
      BY DEF NoCards, Bag
    <3> HIDE DEF r, p, max
    <3> QED BY <1>2, <1>4, <1>6, <3>1 DEF Phase
  <2> HIDE DEF p, max
  <2> QED BY <1>1, <1>2, <2>1 DEF MatchState
<1> HIDE DEF r, max, p
<1>10. /\ Drew(r, w)
       /\ SumFunction(w.deck[p]) = SumFunction(r.deck[p]) - Min2(1, SumFunction(r.deck[p]))
  BY <1>5, <1>7, <1>2, Drawing
<1>11. Conserved(r) /\ Alternates(r)
  <2>1. Conserved(m)
    BY DEF Kept
  <2> QED BY <2>1, <1>3, <1>6 DEF Conserved, Alternates
<1>12. \A q \in Player : q # p => q = m.active
  BY <1>2, Others DEF p
<1>13. /\ Begun(p, m.turn + 1) = Begun(p, m.turn) + 1 /\ Begun(p, m.turn) \in Nat
       /\ Begun(m.active, m.turn + 1) = Begun(m.active, m.turn)
  <2>1. playerTurnIndex(m.active, m.turn) \in Nat
    BY <1>2, Index DEF Player
  <2> QED BY <1>3, <2>1 DEF Begun
<1>14. Scheduled(r)
  <2>1. r.mana[p] = max /\ r.maxMana[p] = max
    BY <1>2, <1>6
  <2>2. \A q \in Player : q # p => r.mana[q] = m.mana[q] /\ r.maxMana[q] = m.maxMana[q]
    BY <1>2, <1>6
  <2>3. Begun(p, r.turn) # 0 /\ max = Min2(playerTurnIndex(p, r.turn), MaxManaCap)
    BY <1>6, <1>13 DEF max
  <2>4. \A q \in Player : q # p => /\ playerTurnIndex(q, r.turn) = playerTurnIndex(q, m.turn)
                                   /\ Begun(q, r.turn) = Begun(q, m.turn)
    BY <1>3, <1>6, <1>12, <1>13
  <2>5. Scheduled(m)
    BY DEF Kept
  <2> QED BY <2>1, <2>2, <2>3, <2>4, <2>5, <1>4 DEF Scheduled
<1>15. Backed(r)
  <2>1. r.casts[r.active] = NoCards /\ r.mana[r.active] = max /\ r.maxMana[r.active] = max
    BY <1>2, <1>6
  <2>2. Spent(NoCards, Cost) = 0 /\ Spent(NoCards, ManaGain) = 0
    BY NothingSpent, CatalogAssumption
  <2> QED BY <2>1, <2>2, <1>4 DEF Backed
<1>17. w \in MatchState /\ w.turn = m.turn + 1 /\ w.phase = "draw" /\ w.active = p
  BY <1>6, <1>10 DEF Drew
<1>18. Conserved(w)
  <2>1. \A q \in Player, s \in Spells :
        /\ r.hand[q][s] \in Nat /\ w.hand[q][s] \in Nat /\ r.deck[q][s] \in Nat /\ w.deck[q][s] \in Nat
        /\ w.discard[q][s] = r.discard[q][s] /\ r.discard[q][s] \in Nat
    BY <1>7, <1>17, <1>10 DEF Drew, MatchState, Bag
  <2>2. \A q \in Player, s \in Spells : w.hand[q][s] + w.deck[q][s] = r.hand[q][s] + r.deck[q][s]
    BY <1>10 DEF Drew
  <2> QED BY <2>1, <2>2, <1>11 DEF Conserved
<1>19. Alternates(w) /\ Scheduled(w) /\ Backed(w)
  BY <1>10, <1>11, <1>14, <1>15 DEF Drew, Alternates, Scheduled, Backed
<1>20. Drawn(w)
  <2>1. ASSUME NEW q \in Player PROVE SumFunction(w.deck[q]) <= Owed(q, w.turn)
    <3>1. /\ SumFunction(r.deck[q]) \in Nat /\ SumFunction(w.deck[q]) \in Nat /\ SumFunction(Decks[q]) \in Nat
          /\ SumFunction(w.deck[q]) <= SumFunction(r.deck[q])
      BY <1>7, <1>17, <1>10, SumOfBag, RulesAssumption DEF MatchState, Drew
    <3>2. SumFunction(r.deck[q]) <= Owed(q, m.turn)
      BY <1>6 DEF Kept, Drawn
    <3>3. CASE q = p
      <4>1. Owed(q, w.turn) = IF SumFunction(Decks[q]) <= StartingHand + Begun(q, m.turn) + 1 THEN 0
                              ELSE SumFunction(Decks[q]) - (StartingHand + Begun(q, m.turn) + 1)
        BY <3>3, <1>13, <1>17, RulesAssumption DEF Owed
      <4>2. Owed(q, m.turn) = IF SumFunction(Decks[q]) <= StartingHand + Begun(q, m.turn) THEN 0
                              ELSE SumFunction(Decks[q]) - (StartingHand + Begun(q, m.turn))
        BY DEF Owed
      <4>3. SumFunction(w.deck[q]) = IF SumFunction(r.deck[q]) = 0 THEN 0 ELSE SumFunction(r.deck[q]) - 1
        BY <3>1, <3>3, <1>10 DEF Min2
      <4> QED BY <3>1, <3>2, <3>3, <4>1, <4>2, <4>3, <1>13, RulesAssumption
    <3>4. CASE q # p
      <4>1. Owed(q, w.turn) = Owed(q, m.turn)
        BY <3>4, <1>12, <1>13, <1>17 DEF Owed
      <4>2. Owed(q, m.turn) \in Int
        BY <1>2, OwedInt
      <4> QED BY <3>1, <3>2, <4>1, <4>2
    <3> QED BY <3>3, <3>4
  <2> QED BY <2>1 DEF Drawn
<1> QED BY <1>17, <1>18, <1>19, <1>20 DEF Kept, p

(* The phases a match is in between two calls of Advance. *)
Walked == {"draw", "main1", "move", "main2"}

Here(m, w) == w.turn = m.turn /\ w.active = m.active
Over(m, w) == w.turn = m.turn + 1 /\ w.active = Opponent(m.active)

(* One phase further. *)
LEMMA Advancing ==
  ASSUME NEW m, Kept(m), m.phase \in Walked, NEW w \in Advance(m)
  PROVE  /\ Kept(w) /\ w.phase \in Walked
         /\ m.phase = "draw" => w.phase = "main1" /\ Here(m, w)
         /\ m.phase = "main1" => w.phase = "move" /\ Here(m, w)
         /\ m.phase = "move" => w.phase = "main2" /\ Here(m, w)
         /\ m.phase = "main2" => w.phase = "draw" /\ Over(m, w)
<1>1. CASE m.phase = "main2"
  <2>1. w \in Rollover(m)
    BY <1>1 DEF Advance, NextPhase
  <2> QED BY <2>1, <1>1, RollingOver DEF Over, Walked
<1>2. CASE m.phase # "main2"
  <2>1. w = [m EXCEPT !.phase = NextPhase[m.phase]]
    BY <1>2 DEF Advance, NextPhase, Walked
  <2>2. m \in MatchState
    BY DEF Kept
  <2>3. /\ w.turn = m.turn /\ w.active = m.active /\ w.mana = m.mana /\ w.maxMana = m.maxMana
        /\ w.hand = m.hand /\ w.deck = m.deck /\ w.discard = m.discard /\ w.casts = m.casts
        /\ w.phase = NextPhase[m.phase]
    BY <2>1, <2>2 DEF MatchState
  <2>4. w.phase \in Phase /\ w.phase \in Walked
        /\ (m.phase = "draw" => w.phase = "main1") /\ (m.phase = "main1" => w.phase = "move")
        /\ (m.phase = "move" => w.phase = "main2")
    BY <1>2, <2>3 DEF Walked, NextPhase, Phase
  <2>5. w \in MatchState
    BY <2>1, <2>2, <2>4, <2>3 DEF MatchState
  <2>6. Kept(w)
    BY <2>3, <2>5 DEF Kept, Conserved, Alternates, Scheduled, Backed, Drawn
  <2> QED BY <1>2, <2>3, <2>4, <2>6 DEF Here
<1> QED BY <1>1, <1>2

(* What one step of the walk makes of a state. *)
LEMMA Stepping ==
  ASSUME NEW m, Kept(m), m.phase \in Walked, NEW w \in Step({m})
  PROVE  /\ Kept(w) /\ w.phase \in Walked
         /\ ~shouldAutoAdvance(m) => w = m
         /\ shouldAutoAdvance(m) =>
              \/ m.phase = "draw" /\ w.phase = "main1" /\ Here(m, w)
              \/ m.phase = "main1" /\ w.phase = "move" /\ Here(m, w)
              \/ m.phase = "main2" /\ w.phase = "draw" /\ Over(m, w)
<1>1. w \in (IF shouldAutoAdvance(m) THEN Advance(m) ELSE {m})
  BY DEF Step
<1>2. CASE shouldAutoAdvance(m)
  <2>1. m.phase \in {"draw", "main1", "main2"}
    BY <1>2 DEF shouldAutoAdvance, MainPhases
  <2>2. w \in Advance(m)
    BY <1>1, <1>2
  <2> QED BY <1>2, <2>1, <2>2, Advancing
<1>3. CASE ~shouldAutoAdvance(m)
  BY <1>1, <1>3
<1> QED BY <1>2, <1>3

(* The steps of a set are the steps of its members. *)
LEMMA StepOfSome ==
  ASSUME NEW S, NEW w \in Step(S)
  PROVE  \E m \in S : w \in Step({m})
BY DEF Step

(* Where the walk of AutoAdvance may end: where it begins, or past the     *)
(* phases without input, at most in the move phase of the next turn.       *)
Walks(m, w) ==
  \/ w.phase = m.phase /\ Here(m, w)
  \/ m.phase = "draw" /\ w.phase \in {"main1", "move"} /\ Here(m, w)
  \/ m.phase = "main1" /\ w.phase = "move" /\ Here(m, w)
  \/ m.phase = "main2" /\ w.phase \in {"main1", "move"} /\ Over(m, w)

Rests(w) == w.phase \in RestPhases /\ ~shouldAutoAdvance(w)

(* A walk ends at rest, with everything kept. *)
LEMMA Walking ==
  ASSUME NEW S, \A m \in S : Kept(m) /\ m.phase \in Walked,
         NEW w \in AutoAdvance(S)
  PROVE  \E m \in S : Kept(w) /\ Rests(w) /\ Walks(m, w)
<1>1. PICK v \in Step(Step(S)) : w \in Step({v})
  BY StepOfSome DEF AutoAdvance
<1>2. PICK u \in Step(S) : v \in Step({u})
  BY StepOfSome
<1>3. PICK m \in S : u \in Step({m})
  BY StepOfSome
<1>4. /\ Kept(u) /\ u.phase \in Walked
      /\ ~shouldAutoAdvance(m) => u = m
      /\ shouldAutoAdvance(m) =>
              \/ m.phase = "draw" /\ u.phase = "main1" /\ Here(m, u)
              \/ m.phase = "main1" /\ u.phase = "move" /\ Here(m, u)
              \/ m.phase = "main2" /\ u.phase = "draw" /\ Over(m, u)
  BY <1>3, Stepping
<1>5. /\ Kept(v) /\ v.phase \in Walked
      /\ ~shouldAutoAdvance(u) => v = u
      /\ shouldAutoAdvance(u) =>
              \/ u.phase = "draw" /\ v.phase = "main1" /\ Here(u, v)
              \/ u.phase = "main1" /\ v.phase = "move" /\ Here(u, v)
              \/ u.phase = "main2" /\ v.phase = "draw" /\ Over(u, v)
  BY <1>2, <1>4, Stepping
<1>6. /\ Kept(w) /\ w.phase \in Walked
      /\ ~shouldAutoAdvance(v) => w = v
      /\ shouldAutoAdvance(v) =>
              \/ v.phase = "draw" /\ w.phase = "main1" /\ Here(v, w)
              \/ v.phase = "main1" /\ w.phase = "move" /\ Here(v, w)
              \/ v.phase = "main2" /\ w.phase = "draw" /\ Over(v, w)
  BY <1>1, <1>5, Stepping
<1>7. \A a : a.phase = "move" => ~shouldAutoAdvance(a)
  BY DEF shouldAutoAdvance, MainPhases
<1>8. \A a : a.phase = "draw" => shouldAutoAdvance(a)
  BY DEF shouldAutoAdvance
<1>9. Rests(w) /\ Walks(m, w)
  <2>1. \A a : a.phase \in Walked /\ ~shouldAutoAdvance(a) => Rests(a)
    BY <1>8 DEF Rests, RestPhases, Walked
  <2>2. CASE ~shouldAutoAdvance(m)
    <3>1. w = m
      BY <2>2, <1>4, <1>5, <1>6
    <3> QED BY <3>1, <2>1, <2>2, <1>6 DEF Walks, Here
  <2>3. CASE m.phase = "draw" /\ u.phase = "main1" /\ Here(m, u)
    <3>1. v = u \/ (v.phase = "move" /\ Here(u, v))
      BY <2>3, <1>5
    <3>2. CASE v = u /\ ~shouldAutoAdvance(u)
      <4>1. w = u
        BY <3>2, <1>6
      <4> QED BY <4>1, <2>1, <2>3, <3>2, <1>6 DEF Walks
    <3>3. CASE v.phase = "move" /\ Here(u, v)
      <4>1. w = v
        BY <3>3, <1>6, <1>7
      <4> QED BY <4>1, <2>1, <2>3, <3>3, <1>6, <1>7 DEF Walks, Here
    <3> QED BY <1>5, <2>3, <3>2, <3>3
  <2>4. CASE m.phase = "main1" /\ u.phase = "move" /\ Here(m, u)
    <3>1. v = u /\ w = v
      BY <2>4, <1>5, <1>6, <1>7
    <3> QED BY <3>1, <2>1, <2>4, <1>6, <1>7 DEF Walks
  <2>5. CASE m.phase = "main2" /\ u.phase = "draw" /\ Over(m, u)
    <3>1. v.phase = "main1" /\ Here(u, v)
      BY <2>5, <1>5, <1>8
    <3>2. CASE ~shouldAutoAdvance(v)
      <4>1. w = v
        BY <3>2, <1>6
      <4> QED BY <4>1, <2>1, <2>5, <3>1, <3>2, <1>6 DEF Walks, Here, Over
    <3>3. CASE shouldAutoAdvance(v)
      <4>1. w.phase = "move" /\ Here(v, w)
        BY <3>1, <3>3, <1>6
      <4> QED BY <4>1, <2>1, <2>5, <3>1, <1>6, <1>7 DEF Walks, Here, Over
    <3> QED BY <3>2, <3>3
  <2> QED BY <1>4, <2>2, <2>3, <2>4, <2>5
<1> QED BY <1>6, <1>9

(* A cast: mana first, then draws, its own and those of the pieces lost,   *)
(* and the price and the card last.  What was checked before the effects   *)
(* still holds after them, since they only give.                           *)
LEMMA Casting ==
  ASSUME NEW m, Kept(m), NEW s \in Spells, Castable(m, s), NEW w \in Resolved(m, s)
  PROVE  Kept(w) /\ w.phase = m.phase /\ Here(m, w)
<1> DEFINE p == m.active
           g == GainMana(m, p, ManaGain[s])
<1>1. m \in MatchState /\ p \in Player
  BY DEF Kept, MatchState
<1>2. Cost[s] \in Nat /\ ManaGain[s] \in Nat /\ DrawAmount[s] \in Nat
  BY CatalogAssumption
<1>3. /\ m.mana \in [Player -> Nat] /\ m.mana[p] \in Nat /\ m.mana[p] <= MaxManaCap /\ MaxManaCap \in Nat
      /\ m.maxMana[p] \in Nat
  BY <1>1, RulesAssumption DEF Kept, MatchState, Scheduled
<1>4. /\ g.phase = m.phase /\ g.turn = m.turn /\ g.active = p /\ g.maxMana = m.maxMana
      /\ g.hand = m.hand /\ g.deck = m.deck /\ g.discard = m.discard /\ g.casts = m.casts
      /\ g.mana = [m.mana EXCEPT ![p] = Min2(m.mana[p] + ManaGain[s], MaxManaCap)]
  BY <1>1 DEF GainMana, MatchState
<1>5. /\ Min2(m.mana[p] + ManaGain[s], MaxManaCap) \in Nat
      /\ Min2(m.mana[p] + ManaGain[s], MaxManaCap) <= MaxManaCap
      /\ Min2(m.mana[p] + ManaGain[s], MaxManaCap) >= m.mana[p]
      /\ Min2(m.mana[p] + ManaGain[s], MaxManaCap) <= m.mana[p] + ManaGain[s]
  BY <1>2, <1>3 DEF Min2
<1>6. g \in MatchState
  <2>1. g.mana \in [Player -> Nat]
    BY <1>3, <1>4, <1>5
  <2>2. g = [m EXCEPT !.mana = g.mana]
    BY <1>1, <1>4 DEF GainMana, MatchState
  <2> HIDE DEF g
  <2> QED BY <1>1, <2>1, <2>2 DEF MatchState
<1>7. PICK a \in UNION {LosePieces(d) : d \in drawCards(g, p, DrawAmount[s])} :
        w = [a EXCEPT !.mana[p] = @ - Cost[s], !.hand[p] = Minus(@, s),
                      !.discard[p] = Plus(@, s), !.casts[p] = Plus(@, s)]
  BY DEF Resolved
<1>8. PICK d \in drawCards(g, p, DrawAmount[s]) : a \in LosePieces(d)
  BY <1>7
<1> HIDE DEF g
<1>9. Drew(g, a)
  <2>1. Drew(g, d)
    BY <1>1, <1>2, <1>6, <1>8, Drawing
  <2>2. Drew(d, a)
    BY <2>1, <1>8, Losing DEF Drew
  <2> QED BY <1>6, <2>1, <2>2, DrewTwice
<1>10. a \in MatchState
  BY <1>9 DEF Drew
<1>11. /\ a.mana \in [Player -> Nat] /\ a.hand \in [Player -> Bag] /\ a.discard \in [Player -> Bag]
       /\ a.casts \in [Player -> Bag] /\ a.deck \in [Player -> Bag]
  BY <1>10 DEF MatchState
<1>12. /\ w.phase = a.phase /\ w.turn = a.turn /\ w.active = a.active /\ w.maxMana = a.maxMana /\ w.deck = a.deck
       /\ w.mana = [a.mana EXCEPT ![p] = @ - Cost[s]]
       /\ w.hand = [a.hand EXCEPT ![p] = Minus(@, s)]
       /\ w.discard = [a.discard EXCEPT ![p] = Plus(@, s)]
       /\ w.casts = [a.casts EXCEPT ![p] = Plus(@, s)]
  BY <1>7, <1>10 DEF MatchState
<1>13. /\ a.phase = m.phase /\ a.turn = m.turn /\ a.active = p /\ a.maxMana = m.maxMana
       /\ a.casts = m.casts /\ a.discard = m.discard /\ a.mana = g.mana
  BY <1>4, <1>9 DEF Drew
<1>14. /\ a.mana[p] \in Nat /\ a.mana[p] >= Cost[s] /\ a.mana[p] <= MaxManaCap
       /\ a.mana[p] <= m.mana[p] + ManaGain[s]
       /\ \A q \in Player : q # p => a.mana[q] = m.mana[q]
  <2>1. Cost[s] <= m.mana[p]
    BY DEF Castable
  <2>2. a.mana[p] = Min2(m.mana[p] + ManaGain[s], MaxManaCap)
    BY <1>1, <1>3, <1>4, <1>13
  <2>3. \A q \in Player : q # p => a.mana[q] = m.mana[q]
    BY <1>3, <1>4, <1>13
  <2> QED BY <2>1, <2>2, <2>3, <1>2, <1>3, <1>5
<1>15. a.hand[p][s] \in Nat \ {0}
  <2>1. m.hand[p][s] > 0 /\ m.hand[p][s] \in Nat
    BY <1>1 DEF Castable, MatchState, Bag
  <2>2. a.hand[p][s] >= m.hand[p][s]
    BY <1>1, <1>4, <1>9 DEF Drew
  <2>3. a.hand[p][s] \in Nat
    BY <1>1, <1>11 DEF Bag
  <2> QED BY <2>1, <2>2, <2>3
<1>16. /\ Minus(a.hand[p], s) \in Bag /\ Plus(a.discard[p], s) \in Bag /\ Plus(a.casts[p], s) \in Bag
       /\ \A t \in Spells : /\ Minus(a.hand[p], s)[t] = IF t = s THEN a.hand[p][t] - 1 ELSE a.hand[p][t]
                            /\ Plus(a.discard[p], s)[t] = IF t = s THEN a.discard[p][t] + 1 ELSE a.discard[p][t]
  <2>1. a.hand[p] \in Bag /\ a.discard[p] \in Bag /\ a.casts[p] \in Bag
    BY <1>1, <1>11
  <2>2. Minus(a.hand[p], s) \in Bag
    <3>1. a.hand[p][s] - 1 \in Nat
      BY <1>15
    <3> QED BY <2>1, <3>1 DEF Minus, Bag
  <2>3. Plus(a.discard[p], s) \in Bag /\ Plus(a.casts[p], s) \in Bag
    <3>1. a.discard[p][s] + 1 \in Nat /\ a.casts[p][s] + 1 \in Nat
      BY <2>1 DEF Bag
    <3> QED BY <2>1, <3>1 DEF Plus, Bag
  <2> QED BY <2>1, <2>2, <2>3 DEF Plus, Minus, Bag
<1>17. /\ w.hand[p] = Minus(a.hand[p], s) /\ w.discard[p] = Plus(a.discard[p], s)
       /\ w.casts[p] = Plus(a.casts[p], s) /\ w.mana[p] = a.mana[p] - Cost[s]
       /\ \A q \in Player : q # p => /\ w.hand[q] = a.hand[q] /\ w.discard[q] = a.discard[q]
                                     /\ w.casts[q] = a.casts[q] /\ w.mana[q] = a.mana[q]
  BY <1>1, <1>11, <1>12
<1>18. w \in MatchState
  <2>1. a.mana[p] - Cost[s] \in Nat
    BY <1>2, <1>14
  <2>2. /\ w.mana \in [Player -> Nat] /\ w.hand \in [Player -> Bag] /\ w.discard \in [Player -> Bag]
        /\ w.casts \in [Player -> Bag]
    <3>1. w.mana \in [Player -> Nat]
      <4>1. w.mana = [a.mana EXCEPT ![p] = a.mana[p] - Cost[s]] /\ a.mana \in [Player -> Nat]
        BY <1>11, <1>12
      <4>2. \A f \in [Player -> Nat], n \in Nat : [f EXCEPT ![p] = n] \in [Player -> Nat]
        OBVIOUS
      <4> QED BY <4>1, <4>2, <2>1
    <3>2. \A f \in [Player -> Bag], b \in Bag : [f EXCEPT ![p] = b] \in [Player -> Bag]
      OBVIOUS
    <3>3. /\ w.hand = [a.hand EXCEPT ![p] = Minus(a.hand[p], s)]
          /\ w.discard = [a.discard EXCEPT ![p] = Plus(a.discard[p], s)]
          /\ w.casts = [a.casts EXCEPT ![p] = Plus(a.casts[p], s)]
      BY <1>12
    <3> QED BY <1>11, <1>16, <3>1, <3>2, <3>3
  <2>3. w = [a EXCEPT !.mana = w.mana, !.hand = w.hand, !.discard = w.discard, !.casts = w.casts]
    BY <1>7, <1>10, <1>12 DEF MatchState
  <2> QED BY <1>10, <2>2, <2>3 DEF MatchState
<1>19. Conserved(w)
  <2>1. ASSUME NEW q \in Player, NEW t \in Spells
        PROVE  w.hand[q][t] + w.deck[q][t] + w.discard[q][t] = Decks[q][t]
    <3>1. a.hand[q][t] + a.deck[q][t] = m.hand[q][t] + m.deck[q][t]
      BY <1>4, <1>9 DEF Drew
    <3>2. m.hand[q][t] + m.deck[q][t] + m.discard[q][t] = Decks[q][t]
      BY DEF Kept, Conserved
    <3>3. /\ a.hand[q][t] \in Nat /\ a.deck[q][t] \in Nat /\ a.discard[q][t] \in Nat /\ a.discard[q][t] = m.discard[q][t]
          /\ m.hand[q][t] \in Nat /\ m.deck[q][t] \in Nat
      BY <1>1, <1>11, <1>13 DEF Bag, MatchState
    <3>4. w.deck[q][t] = a.deck[q][t]
      BY <1>12
    <3>5. w.hand[q][t] + w.discard[q][t] = a.hand[q][t] + a.discard[q][t]
      <4>1. CASE q # p
        BY <4>1, <1>17
      <4>2. CASE q = p
        BY <4>2, <1>16, <1>17, <3>3
      <4> QED BY <4>1, <4>2
    <3>6. w.hand[q][t] \in Nat /\ w.discard[q][t] \in Nat
      BY <1>18 DEF MatchState, Bag
    <3> QED BY <3>1, <3>2, <3>3, <3>4, <3>5, <3>6
  <2> QED BY <2>1 DEF Conserved
<1>20. Alternates(w)
  BY <1>12, <1>13 DEF Kept, Alternates
<1>21. Scheduled(w)
  <2>1. \A q \in Player : w.mana[q] <= MaxManaCap
    BY <1>2, <1>3, <1>14, <1>17 DEF Kept, Scheduled
  <2> QED BY <2>1, <1>12, <1>13 DEF Kept, Scheduled
<1>22. Backed(w)
  <2>1. m.casts[p] \in Bag
    BY <1>1 DEF MatchState
  <2>2. /\ Spent(w.casts[p], Cost) = Spent(m.casts[p], Cost) + Cost[s]
        /\ Spent(w.casts[p], ManaGain) = Spent(m.casts[p], ManaGain) + ManaGain[s]
        /\ Spent(m.casts[p], Cost) \in Nat /\ Spent(m.casts[p], ManaGain) \in Nat
    BY <2>1, <1>13, <1>17, OneMoreSpent, CatalogAssumption
  <2>3. m.mana[p] + Spent(m.casts[p], Cost) <= m.maxMana[p] + Spent(m.casts[p], ManaGain)
    BY DEF Kept, Backed
  <2>4. w.active = p /\ w.maxMana[p] = m.maxMana[p] /\ w.mana[p] = a.mana[p] - Cost[s]
    BY <1>12, <1>13, <1>17
  <2>5. w.mana[p] + Spent(w.casts[p], Cost) <= w.maxMana[p] + Spent(w.casts[p], ManaGain)
    BY <2>2, <2>3, <2>4, <1>2, <1>3, <1>14
  <2> QED BY <2>4, <2>5 DEF Backed
<1>23. Drawn(w)
  <2>1. ASSUME NEW q \in Player PROVE SumFunction(w.deck[q]) <= Owed(q, w.turn)
    <3>1. /\ SumFunction(a.deck[q]) <= SumFunction(m.deck[q]) /\ SumFunction(m.deck[q]) <= Owed(q, m.turn)
          /\ SumFunction(a.deck[q]) \in Nat /\ SumFunction(m.deck[q]) \in Nat
      BY <1>1, <1>4, <1>9, <1>11, SumOfBag DEF Drew, Kept, Drawn, MatchState
    <3>2. Owed(q, m.turn) \in Int
      BY <1>1, OwedInt DEF MatchState
    <3> QED BY <3>1, <3>2, <1>12, <1>13
  <2> QED BY <2>1 DEF Drawn
<1> QED BY <1>12, <1>13, <1>18, <1>19, <1>20, <1>21, <1>22, <1>23 DEF Kept, Here

(* A new match: the first hands come off the decks. *)
LEMMA Dealing ==
  ASSUME NEW m \in Dealt
  PROVE  /\ Kept(m)
         /\ m.phase = "draw" /\ m.turn = 1 /\ m.active = White
<1>1. PICK h \in [Player -> [Spells -> 0 .. StartingHand]] :
        /\ \A p \in Player : h[p] \in Top(Decks[p], StartingHand)
        /\ m = [phase |-> "draw", turn |-> 1, active |-> White,
                mana |-> [p \in Player |-> InitialMana],
                maxMana |-> [p \in Player |-> InitialMana],
                hand |-> h,
                deck |-> [p \in Player |-> [s \in Spells |-> Decks[p][s] - h[p][s]]],
                discard |-> [p \in Player |-> NoCards],
                casts |-> [p \in Player |-> NoCards]]
  BY DEF Dealt
<1>2. \A p \in Player : Decks[p] \in Bag
  BY RulesAssumption
<1>3. \A p \in Player : /\ h[p] \in Bag
                        /\ \A s \in Spells : h[p][s] <= Decks[p][s]
                        /\ SumFunction(h[p]) = Min2(StartingHand, SumFunction(Decks[p]))
  BY <1>1, <1>2, TopIsBag, RulesAssumption
<1>4. \A p \in Player : /\ m.deck[p] \in Bag
                        /\ SumFunction(m.deck[p]) = SumFunction(Decks[p]) - SumFunction(h[p])
                        /\ \A s \in Spells : m.deck[p][s] = Decks[p][s] - h[p][s]
  <2>1. ASSUME NEW p \in Player
        PROVE  /\ [s \in Spells |-> Decks[p][s] - h[p][s]] \in Bag
               /\ SumFunction([s \in Spells |-> Decks[p][s] - h[p][s]]) = SumFunction(Decks[p]) - SumFunction(h[p])
    BY <1>2, <1>3, SumMinus
  <2>2. \A p \in Player : m.deck[p] = [s \in Spells |-> Decks[p][s] - h[p][s]]
    BY <1>1
  <2> QED BY <2>1, <2>2
<1>5. NoCards \in Bag /\ \A s \in Spells : NoCards[s] = 0
  BY DEF NoCards, Bag
<1>6. White \in Player /\ White # Black
  BY DEF Player, White, Black
<1>7. m \in MatchState
  <2>1. m.deck \in [Player -> Bag]
    BY <1>1, <1>4
  <2>2. h \in [Player -> Bag]
    BY <1>1, <1>3
  <2>3. m.deck = [p \in Player |-> [s \in Spells |-> Decks[p][s] - h[p][s]]]
    BY <1>1
  <2> QED BY <1>1, <1>5, <1>6, <2>1, <2>2, <2>3, RulesAssumption DEF MatchState, Phase
<1>8. Conserved(m)
  <2>1. ASSUME NEW p \in Player, NEW s \in Spells
        PROVE  m.hand[p][s] + m.deck[p][s] + m.discard[p][s] = Decks[p][s]
    <3>1. m.hand[p][s] = h[p][s] /\ m.discard[p][s] = 0 /\ m.deck[p][s] = Decks[p][s] - h[p][s]
      BY <1>1, <1>4, <1>5
    <3>2. h[p][s] \in Nat /\ Decks[p][s] \in Nat
      BY <1>2, <1>3 DEF Bag
    <3> QED BY <3>1, <3>2
  <2> QED BY <2>1 DEF Conserved
<1>9. \A p \in Player : Begun(p, 1) = 0
  BY <1>6 DEF Begun, playerTurnIndex, Player
<1>10. m.phase = "draw" /\ m.turn = 1 /\ m.active = White
  BY <1>1
<1>11. Alternates(m)
  BY <1>10 DEF Alternates
<1>12. Scheduled(m)
  BY <1>1, <1>9, <1>10, RulesAssumption DEF Scheduled
<1>13. Backed(m)
  <2>1. m.casts[m.active] = NoCards /\ m.mana[m.active] = InitialMana /\ m.maxMana[m.active] = InitialMana
    BY <1>1, <1>6
  <2>2. Spent(NoCards, Cost) = 0 /\ Spent(NoCards, ManaGain) = 0
    BY NothingSpent, CatalogAssumption
  <2> QED BY <2>1, <2>2, RulesAssumption DEF Backed
<1>14. Drawn(m)
  <2>1. ASSUME NEW p \in Player PROVE SumFunction(m.deck[p]) <= Owed(p, m.turn)
    <3>1. SumFunction(Decks[p]) \in Nat
      BY <1>2, SumOfBag
    <3>2. Owed(p, m.turn) = IF SumFunction(Decks[p]) <= StartingHand THEN 0 ELSE SumFunction(Decks[p]) - StartingHand
      BY <1>9, <1>10, RulesAssumption DEF Owed
    <3> QED BY <3>1, <3>2, <1>3, <1>4, RulesAssumption DEF Min2
  <2> QED BY <2>1 DEF Drawn
<1> QED BY <1>7, <1>8, <1>10, <1>11, <1>12, <1>13, <1>14 DEF Kept

-----------------------------------------------------------------------------
(* The inductive invariant: what is kept of any state of a match, and that *)
(* between two handlers the match rests.                                   *)
IInv == Kept(match) /\ Rests(match)

(* The match begins in main1 or in the move phase of White's first turn. *)
LEMMA Beginning ==
  ASSUME Init
  PROVE  /\ IInv
         /\ match.phase \in {"main1", "move"} /\ match.turn = 1 /\ match.active = White
<1>1. \A m \in Dealt : Kept(m) /\ m.phase \in Walked /\ m.phase = "draw" /\ m.turn = 1 /\ m.active = White
  BY Dealing DEF Walked
<1>2. PICK m \in Dealt : Kept(match) /\ Rests(match) /\ Walks(m, match)
  BY <1>1, Walking DEF Init
<1>3. Rests(match) => match.phase # "draw"
  BY DEF Rests, RestPhases
<1> QED BY <1>1, <1>2, <1>3 DEF IInv, Walks, Here

(* What the room's calls make of a match at rest, and where the match goes *)
(* on: it stays, or goes on as far as NextRest says.                       *)
GoesOn(m, w) ==
  \/ w.phase = m.phase /\ Here(m, w)
  \/ m.phase = "main1" /\ w.phase = "move" /\ Here(m, w)
  \/ m.phase = "move" /\ w.phase = "main2" /\ Here(m, w)
  \/ m.phase \in {"move", "main2"} /\ w.phase \in {"main1", "move"} /\ Over(m, w)

(* One phase further and then the walk, from a state at rest. *)
LEMMA Passing ==
  ASSUME NEW m, Kept(m), m.phase \in RestPhases, NEW w \in AutoAdvance(Advance(m))
  PROVE  Kept(w) /\ Rests(w) /\ GoesOn(m, w)
<1>1. m.phase \in Walked
  BY DEF RestPhases, Walked
<1>2. \A v \in Advance(m) :
        /\ Kept(v) /\ v.phase \in Walked
        /\ m.phase = "main1" => v.phase = "move" /\ Here(m, v)
        /\ m.phase = "move" => v.phase = "main2" /\ Here(m, v)
        /\ m.phase = "main2" => v.phase = "draw" /\ Over(m, v)
  BY <1>1, Advancing
<1>3. PICK v \in Advance(m) : Kept(w) /\ Rests(w) /\ Walks(v, w)
  BY <1>2, Walking
<1>4. w.phase \in RestPhases /\ m.phase \in RestPhases
  BY <1>3 DEF Rests
<1>5. GoesOn(m, w)
  <2>1. CASE m.phase = "main1"
    BY <2>1, <1>2, <1>3, <1>4 DEF Walks, Here, GoesOn, RestPhases
  <2>2. CASE m.phase = "move"
    BY <2>2, <1>2, <1>3, <1>4 DEF Walks, Here, Over, GoesOn, RestPhases
  <2>3. CASE m.phase = "main2"
    BY <2>3, <1>2, <1>3, <1>4 DEF Walks, Here, Over, GoesOn, RestPhases
  <2> QED BY <2>1, <2>2, <2>3, <1>4 DEF RestPhases
<1> QED BY <1>3, <1>5

(* Every call of the room keeps the invariant and takes the match no       *)
(* further than the next rest.                                             *)
LEMMA Keeping ==
  ASSUME IInv, Next
  PROVE  IInv' /\ GoesOn(match, match')
<1>1. Kept(match) /\ match.phase \in RestPhases /\ ~shouldAutoAdvance(match)
  BY DEF IInv, Rests
<1>2. SUFFICES Kept(match') /\ Rests(match') /\ GoesOn(match, match')
  BY DEF IInv, Kept, Rests, Conserved, Alternates, Scheduled, Backed, Drawn, Spent, Owed, Begun, playerTurnIndex,
         shouldAutoAdvance, CanCastAny, Castable, withinLimits, MatchState
<1>3. CASE PassPhase
  BY <1>1, <1>3, Passing DEF PassPhase
<1>4. CASE FirstOfTwoMoves
  <2>1. Drew(match, match')
    BY <1>1, <1>4, Losing DEF FirstOfTwoMoves, Kept
  <2>2. Kept(match') /\ match'.phase = "move" /\ Here(match, match')
    BY <1>1, <1>4, <2>1, DrawsKeep DEF FirstOfTwoMoves, Drew, Here
  <2> QED BY <1>4, <2>2 DEF FirstOfTwoMoves, Rests, RestPhases, shouldAutoAdvance, MainPhases, GoesOn
<1>5. CASE Move
  <2>1. PICK m \in LosePieces(match) : match' \in AutoAdvance(Advance(m))
    BY <1>5 DEF Move
  <2>2. Drew(match, m)
    BY <1>1, <2>1, Losing DEF Kept
  <2>3. Kept(m) /\ m.phase = match.phase /\ Here(match, m)
    BY <1>1, <2>2, DrawsKeep DEF Drew, Here
  <2>4. Kept(match') /\ Rests(match') /\ GoesOn(m, match')
    BY <1>1, <2>1, <2>3, Passing
  <2> QED BY <2>3, <2>4 DEF GoesOn, Here, Over
<1>6. ASSUME NEW s \in Spells, CastSpell(s) PROVE Kept(match') /\ Rests(match') /\ GoesOn(match, match')
  <2>1. \A m \in Resolved(match, s) : Kept(m) /\ m.phase = match.phase /\ Here(match, m)
    BY <1>1, <1>6, Casting DEF CastSpell
  <2>2. match.phase \in Walked
    BY <1>1 DEF RestPhases, Walked
  <2>3. PICK m \in Resolved(match, s) : Kept(match') /\ Rests(match') /\ Walks(m, match')
    BY <1>6, <2>1, <2>2, Walking DEF CastSpell
  <2> QED BY <1>1, <2>1, <2>3 DEF Walks, GoesOn, Here, Over, RestPhases
<1> QED BY <1>3, <1>4, <1>5, <1>6 DEF Next

(* The invariant holds throughout. *)
LEMMA Inductive == Spec => []IInv
<1>1. Init => IInv
  BY Beginning
<1>2. IInv /\ [Next]_match => IInv'
  <2>1. ASSUME IInv, UNCHANGED match PROVE IInv'
    BY <2>1 DEF IInv, Kept, Rests, Conserved, Alternates, Scheduled, Backed, Drawn, Spent, Owed, Begun, playerTurnIndex,
         shouldAutoAdvance, CanCastAny, Castable, withinLimits, MatchState
  <2> QED BY <2>1, Keeping
<1> QED BY <1>1, <1>2, PTL DEF Spec

(* No card is created or lost, hands, decks and mana are never negative,   *)
(* and between two handlers the match waits where its player can act, for  *)
(* any catalogue, decks and number of turns (match.State, AutoAdvance).    *)
THEOREM MatchIsSound == Spec => []MatchSound
<1>1. IInv => MatchSound
  BY DEF IInv, Kept, Rests, Conserved, MatchSound, TypeOK, CardsConserved, RestNeedsInput
<1> QED BY <1>1, Inductive, PTL

(* Mana follows the turns begun and what was spent was there, and every    *)
(* turn had its draw (refreshMana, drawCards, Resolved).                   *)
THEOREM EveryTurnPays == Spec => []TurnsPay
<1>1. IInv => ManaOnSchedule
  BY DEF IInv, Kept, Scheduled, ManaOnSchedule, Rollovers, Begun
<1>2. IInv => SpendingBacked
  BY DEF IInv, Kept, Backed, SpendingBacked, Spent
<1>3. IInv => DrawnEachTurn
  BY DEF IInv, Kept, Drawn, Owed, DrawnEachTurn, Rollovers, Begun
<1> QED BY <1>1, <1>2, <1>3, Inductive, PTL DEF TurnsPay

(* Whatever is cast, drawn and skipped, the clients see a turn cycle: the  *)
(* walk of AutoAdvance takes the match no further than NextRest says.      *)
THEOREM MatchImplementsTurnCycle == Spec => TurnsSpec
<1>1. Init => Turns!Init
  BY Beginning DEF Turns!Init, White, Turns!White
<1>2. IInv /\ [Next]_match => [Turns!Next]_(Turns!vars)
  <2>1. CASE UNCHANGED match
    BY <2>1 DEF Turns!vars
  <2>2. ASSUME IInv, Next PROVE [Turns!Next]_(Turns!vars)
    <3>1. GoesOn(match, match') /\ match.phase \in RestPhases
      BY <2>2, Keeping DEF IInv, Rests
    <3>2. CASE match'.phase = match.phase /\ Here(match, match')
      BY <3>2 DEF Turns!vars, Here
    <3>3. Turns!NextRest(Turns!here) = NextRest(RestAt(match.phase, match.turn, match.active))
      BY DEF Turns!here, RestAt, Turns!RestAt, NextRest, Turns!NextRest, NextTurn, Turns!NextTurn,
             Opponent, Turns!Opponent, White, Turns!White, Black, Turns!Black
    <3>4. ASSUME RestAt(match'.phase, match'.turn, match'.active) \in NextRest(RestAt(match.phase, match.turn, match.active))
          PROVE  Turns!Next
      BY <3>3, <3>4 DEF Turns!Next, RestAt
    <3>5. CASE match.phase = "main1" /\ match'.phase = "move" /\ Here(match, match')
      BY <3>4, <3>5 DEF NextRest, RestAt, Here
    <3>6. CASE match.phase = "move" /\ match'.phase = "main2" /\ Here(match, match')
      BY <3>4, <3>6 DEF NextRest, RestAt, Here
    <3>7. CASE match.phase \in {"move", "main2"} /\ match'.phase \in {"main1", "move"} /\ Over(match, match')
      BY <3>4, <3>7 DEF NextRest, NextTurn, RestAt, Over
    <3> QED BY <3>1, <3>2, <3>5, <3>6, <3>7 DEF GoesOn
  <2> QED BY <2>1, <2>2
<1> QED BY <1>1, <1>2, Inductive, PTL DEF Spec, TurnsSpec, Turns!Spec
=============================================================================
