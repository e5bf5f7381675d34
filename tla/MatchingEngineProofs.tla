------------------------ MODULE MatchingEngineProofs ------------------------
(***************************************************************************)
(* The book never crosses itself, the index never dangles, a resting order *)
(* stays cancellable, and the engine implements price-time priority, for   *)
(* every finite set of prices and all ids and quantities.                  *)
(***************************************************************************)
EXTENDS MatchingEngine, WellFoundedInduction, NaturalsInduction, FiniteSetTheorems,
        SequenceTheorems, TLAPS

(* The inductive invariant.  A level holds, oldest first, orders of its    *)
(* side and price that have something to trade.                            *)
Level(s, p, l, n) ==
    /\ l \in Seq(Resting)
    /\ \A i \in 1..Len(l) :
         /\ l[i].side = s /\ l[i].price = p
         /\ l[i].qty > 0 /\ l[i].node < n
         /\ \A j \in 1..(i - 1) : l[j].node < l[i].node

Members(l) == {l[i] : i \in DOMAIN l}

Exchange(S, out, in) == (S \ out) \cup in

(* The book when the level of side s at price p becomes l, and what is     *)
(* left of an order and of the level in front of which it is.              *)
Replaced(s, p, l) == [book EXCEPT ![s] = SetLevel(@, p, l)]
Reduced(o, left)  == [o EXCEPT !.qty = left]
ReducedFront(l, left) == [l EXCEPT ![1].qty = left]

BookOK ==
    /\ next_node \in Nat
    /\ DOMAIN book = Side
    /\ \A s \in Side : \A p \in DOMAIN book[s] :
         p \in Prices /\ Level(s, p, book[s][p], next_node) /\ book[s][p] # << >>

(* No two orders rest in one node; an index entry leads to a resting order *)
(* of its id; and bids are below asks.                                     *)
NodesDiffer == \A a, b \in Orders : a.node = b.node => a = b

IndexLeads ==
    \A id \in DOMAIN index :
        \E r \in Orders : /\ r.id = id /\ r.node = index[id].it
                          /\ r.side = index[id].side /\ r.price = index[id].price

BidsBelowAsks ==
    \A a, b \in Orders : a.side = "Buy" /\ b.side = "Sell" => a.price < b.price

TakerOK == filled \in Int /\ (taker = << >> \/ \E o \in Order : taker = << o >>)

EngineInv == BookOK /\ NodesDiffer /\ IndexLeads /\ BidsBelowAsks /\ TakerOK

-----------------------------------------------------------------------------
(* A non-empty set of naturals has a least element.                        *)
LEMMA LeastNatural ==
  ASSUME NEW T \in SUBSET Nat, T # {}
  PROVE  \E x \in T : \A y \in T : x <= y
<1>1. PICK x \in T : \A y \in T : ~ (<<y, x>> \in OpToRel(<, Nat))
  BY NatLessThanWellFounded, WFMin, Zenon
<1>2. \A y \in T : ~(y < x)
  BY <1>1, Zenon DEF OpToRel
<1>. QED  BY <1>2

(* A finite set of prices has a highest and a lowest one.                  *)
LEMMA FiniteExtremes ==
  ASSUME NEW S \in SUBSET Int, IsFiniteSet(S), S # {}
  PROVE  /\ \E x \in S : \A y \in S : y <= x
         /\ \E x \in S : \A y \in S : x <= y
<1> DEFINE Top(U) == \E x \in U : \A y \in U : y <= x
           Bottom(U) == \E x \in U : \A y \in U : x <= y
           T == {n \in Nat : \E U \in SUBSET S :
                    U # {} /\ Cardinality(U) = n /\ ~(Top(U) /\ Bottom(U))}
<1>1. \A U \in SUBSET S : IsFiniteSet(U) /\ Cardinality(U) \in Nat
  BY FS_Subset, FS_CardinalityType, Zenon
<1>2. T = {}
  <2> SUFFICES ASSUME T # {} PROVE FALSE
    OBVIOUS
  <2>1. PICK n \in T : \A m \in T : n <= m
    BY LeastNatural, Zenon
  <2>2. PICK U \in SUBSET S : U # {} /\ Cardinality(U) = n /\ ~(Top(U) /\ Bottom(U))
    OBVIOUS
  <2>3. PICK x \in U : TRUE
    BY <2>2, Zenon
  <2> DEFINE V == U \ {x}
  <2>4. V \in SUBSET S /\ Cardinality(V) = n - 1 /\ n - 1 \in Nat
    <3>1. Cardinality(V) = Cardinality(U) - 1
      BY <1>1, FS_RemoveElement
    <3>2. V \in SUBSET S /\ Cardinality(V) \in Nat
      BY <1>1
    <3> QED  BY <2>2, <3>1, <3>2
  <2>5. CASE V = {}
    <3>1. \A y \in U : y = x
      BY <2>5
    <3>2. x \in Int
      OBVIOUS
    <3> QED  BY <2>2, <3>1, <3>2
  <2>6. CASE V # {}
    <3>1. Top(V) /\ Bottom(V)
      <4>1. n - 1 \notin T
        BY <2>1, <2>4
      <4> HIDE DEF Top, Bottom
      <4> QED  BY <2>4, <2>6, <4>1
    <3>2. PICK a \in V, b \in V : \A y \in V : y <= a /\ b <= y
      BY <3>1, Zenon
    <3>3. \A y \in U : y \in Int /\ (y = x \/ y \in V)
      OBVIOUS
    <3>4. Top(U)
      <4>1. CASE x <= a
        BY <3>2, <3>3, <4>1
      <4>2. CASE a <= x
        BY <3>2, <3>3, <4>2
      <4> QED  BY <3>3, <4>1, <4>2
    <3>5. Bottom(U)
      <4>1. CASE b <= x
        BY <3>2, <3>3, <4>1
      <4>2. CASE x <= b
        BY <3>2, <3>3, <4>2
      <4> QED  BY <3>3, <4>1, <4>2
    <3> QED  BY <2>2, <3>4, <3>5, Zenon
  <2> QED  BY <2>5, <2>6
<1>3. Cardinality(S) \notin T /\ Cardinality(S) \in Nat
  BY <1>1, <1>2
<1> HIDE DEF Top, Bottom
<1>4. Top(S) /\ Bottom(S)
  BY <1>3
<1> QED  BY <1>4, Zenon DEF Top, Bottom

-----------------------------------------------------------------------------
(* What the list operations make of a level.                               *)
LEMMA LevelFacts ==
  ASSUME NEW s, NEW p, NEW l, NEW n, Level(s, p, l, n)
  PROVE  /\ l \in Seq(Resting) /\ Len(l) \in Nat /\ DOMAIN l = 1..Len(l)
         /\ l # << >> <=> Len(l) > 0
         /\ \A i \in 1..Len(l) :
              /\ l[i] \in Resting /\ l[i].node \in Nat /\ l[i].qty \in Int /\ l[i].id \in OrderIds
              /\ l[i].side = s /\ l[i].price = p /\ l[i].qty > 0 /\ l[i].node < n
         /\ \A i, j \in 1..Len(l) : j < i => l[j].node < l[i].node
<1>1. l \in Seq(Resting)
  BY DEF Level
<1>2. Len(l) \in Nat /\ DOMAIN l = 1..Len(l) /\ \A i \in 1..Len(l) : l[i] \in Resting
  BY <1>1, LenProperties, ElementOfSeq
<1>3. l # << >> <=> Len(l) > 0
  BY <1>1, EmptySeq
<1>4. \A i \in 1..Len(l) : l[i].node \in Nat /\ l[i].qty \in Int /\ l[i].id \in OrderIds
  BY <1>2 DEF Resting
<1>5. \A i, j \in 1..Len(l) : j < i => j \in 1..(i - 1)
  BY <1>2
<1> QED  BY <1>1, <1>2, <1>3, <1>4, <1>5 DEF Level

LEMMA AppendLevel ==
  ASSUME NEW s, NEW p, NEW l, NEW n \in Nat, Level(s, p, l, n),
         NEW r \in Resting, r.node = n, r.side = s, r.price = p, r.qty > 0
  PROVE  /\ Level(s, p, Append(l, r), n + 1) /\ Append(l, r) # << >>
         /\ Members(Append(l, r)) = Members(l) \cup {r}
<1> DEFINE m == Append(l, r)
<1>1. /\ l \in Seq(Resting) /\ Len(l) \in Nat /\ DOMAIN l = 1..Len(l)
      /\ \A i \in 1..Len(l) :
           /\ l[i].side = s /\ l[i].price = p /\ l[i].qty > 0
           /\ l[i].node \in Nat /\ l[i].node < n
      /\ \A i, j \in 1..Len(l) : j < i => l[j].node < l[i].node
  BY LevelFacts
<1>2. /\ m \in Seq(Resting) /\ m # << >> /\ Len(m) = Len(l) + 1
      /\ \A i \in 1..Len(l) : m[i] = l[i]
      /\ m[Len(l) + 1] = r
  BY <1>1, AppendProperties
<1>3. DOMAIN m = 1..(Len(l) + 1)
  BY <1>2, LenProperties
<1> HIDE DEF m
<1>4. Level(s, p, m, n + 1)
  BY <1>1, <1>2 DEF Level
<1>5. Members(m) = Members(l) \cup {r}
  BY <1>1, <1>2, <1>3 DEF Members
<1> QED  BY <1>2, <1>4, <1>5 DEF m

LEMMA TailLevel ==
  ASSUME NEW s, NEW p, NEW l, NEW n, Level(s, p, l, n), l # << >>
  PROVE  /\ Level(s, p, Tail(l), n) /\ l[1] \in Members(l) /\ Head(l) = l[1]
         /\ Members(Tail(l)) = Members(l) \ {l[1]}
<1> DEFINE m == Tail(l)
<1>1. /\ l \in Seq(Resting) /\ Len(l) \in Nat /\ DOMAIN l = 1..Len(l) /\ Len(l) > 0
      /\ \A i \in 1..Len(l) :
           /\ l[i].side = s /\ l[i].price = p /\ l[i].qty > 0
           /\ l[i].node \in Nat /\ l[i].node < n
      /\ \A i, j \in 1..Len(l) : j < i => l[j].node < l[i].node
  BY LevelFacts
<1>2. /\ m \in Seq(Resting) /\ Len(m) = Len(l) - 1
      /\ \A i \in 1..Len(m) : m[i] = l[i + 1]
  BY <1>1, HeadTailProperties
<1>3. DOMAIN m = 1..(Len(l) - 1) /\ Head(l) = l[1]
  BY <1>1, <1>2, LenProperties
<1> HIDE DEF m
<1>4. Level(s, p, m, n)
  <2>1. \A i \in 1..Len(m) : i + 1 \in 1..Len(l) /\ m[i] = l[i + 1]
    BY <1>1, <1>2
  <2>2. \A i \in 1..Len(m) : \A j \in 1..(i - 1) : j \in 1..Len(m) /\ j + 1 < i + 1
    BY <1>1, <1>2
  <2>3. \A i \in 1..Len(m) : \A j \in 1..(i - 1) : m[j].node < m[i].node
    BY <1>1, <2>1, <2>2, Zenon
  <2> QED  BY <1>1, <1>2, <2>1, <2>3, Zenon DEF Level
<1>5. ASSUME NEW i \in 2..Len(l) PROVE l[i] \in Members(m)
  <2>1. i - 1 \in DOMAIN m /\ m[i - 1] = l[i]
    BY <1>1, <1>2, <1>3
  <2> QED  BY <2>1 DEF Members
<1>6. \A i \in 2..Len(l) : l[i] # l[1]
  BY <1>1
<1>7. Members(m) = Members(l) \ {l[1]}
  <2>1. \A i \in DOMAIN m : i + 1 \in 2..Len(l) /\ i + 1 \in DOMAIN l /\ m[i] = l[i + 1]
    BY <1>1, <1>2, <1>3
  <2>2. Members(m) \subseteq Members(l) \ {l[1]}
    <3>1. \A i \in DOMAIN m : m[i] \in Members(l) /\ m[i] # l[1]
      BY <1>6, <2>1 DEF Members
    <3> QED  BY <3>1 DEF Members
  <2>3. \A i \in DOMAIN l : i = 1 \/ i \in 2..Len(l)
    BY <1>1
  <2>4. Members(l) \ {l[1]} \subseteq Members(m)
    BY <1>5, <2>3 DEF Members
  <2> QED  BY <2>2, <2>4
<1>8. l[1] \in Members(l)
  BY <1>1 DEF Members
<1> QED  BY <1>3, <1>4, <1>7, <1>8 DEF m

LEMMA ReduceLevel ==
  ASSUME NEW s, NEW p, NEW l, NEW n, Level(s, p, l, n), l # << >>,
         NEW left \in Int, left > 0
  PROVE  /\ Level(s, p, ReducedFront(l, left), n)
         /\ Members(ReducedFront(l, left)) = Exchange(Members(l), {l[1]}, {Reduced(l[1], left)})
<1> DEFINE r == Reduced(l[1], left)
           m == ReducedFront(l, left)
<1>1. /\ l \in Seq(Resting) /\ Len(l) \in Nat /\ DOMAIN l = 1..Len(l) /\ Len(l) > 0
      /\ \A i \in 1..Len(l) :
           /\ l[i] \in Resting /\ l[i].side = s /\ l[i].price = p /\ l[i].qty > 0
           /\ l[i].node \in Nat /\ l[i].node < n
      /\ \A i, j \in 1..Len(l) : j < i => l[j].node < l[i].node
  BY LevelFacts
<1>2. /\ r \in Resting /\ r.qty = left /\ r.node = l[1].node /\ r.id = l[1].id
      /\ r.side = l[1].side /\ r.price = l[1].price
  <2>1. l[1] \in Resting
    BY <1>1
  <2> QED  BY <2>1 DEF Resting, Reduced
<1>3. m = [l EXCEPT ![1] = r]
  BY <1>1 DEF Reduced, ReducedFront
<1>4. /\ m \in Seq(Resting) /\ Len(m) = Len(l) /\ m[1] = r
      /\ \A i \in 1..Len(l) : i # 1 => m[i] = l[i]
  BY <1>1, <1>2, <1>3, ExceptSeq
<1>5. DOMAIN m = 1..Len(l)
  BY <1>1, <1>4, LenProperties
<1> HIDE DEF m, r
<1>6. Level(s, p, m, n)
  <2>1. \A i \in 1..Len(m) : /\ m[i].side = s /\ m[i].price = p /\ m[i].qty > 0
                             /\ m[i].node = l[i].node /\ m[i].node < n
    BY <1>1, <1>2, <1>4
  <2>2. \A i \in 1..Len(m) : \A j \in 1..(i - 1) : j \in 1..Len(m) /\ j < i
    BY <1>1, <1>4
  <2>3. \A i \in 1..Len(m) : \A j \in 1..(i - 1) : m[j].node < m[i].node
    BY <1>1, <1>4, <2>1, <2>2, Zenon
  <2> QED  BY <1>4, <2>1, <2>3, Zenon DEF Level
<1>7. \A i \in 2..Len(l) : l[i] # l[1]
  BY <1>1
<1>8. Members(m) = (Members(l) \ {l[1]}) \cup {r}
  <2>1. \A i \in 1..Len(l) : i = 1 \/ i \in 2..Len(l)
    BY <1>1
  <2>2. 1 \in 1..Len(l) /\ \A i \in 2..Len(l) : i \in 1..Len(l) /\ m[i] = l[i]
    BY <1>1, <1>4
  <2>3. Members(m) \subseteq (Members(l) \ {l[1]}) \cup {r}
    BY <1>1, <1>4, <1>5, <1>7, <2>1, <2>2 DEF Members
  <2>4. (Members(l) \ {l[1]}) \cup {r} \subseteq Members(m)
    BY <1>1, <1>4, <1>5, <2>1, <2>2 DEF Members
  <2> QED  BY <2>3, <2>4
<1> QED  BY <1>6, <1>8, Zenon DEF m, r, Exchange

LEMMA EraseLevel ==
  ASSUME NEW s, NEW p, NEW l, NEW n, Level(s, p, l, n),
         NEW k \in 1..Len(l)
  PROVE  /\ Level(s, p, Erase(l, l[k].node), n)
         /\ Members(Erase(l, l[k].node)) = Members(l) \ {l[k]}
<1> DEFINE m == Erase(l, l[k].node)
<1>1. /\ l \in Seq(Resting) /\ Len(l) \in Nat /\ DOMAIN l = 1..Len(l)
      /\ \A i \in 1..Len(l) :
           /\ l[i] \in Resting /\ l[i].side = s /\ l[i].price = p /\ l[i].qty > 0
           /\ l[i].node \in Nat /\ l[i].node < n
      /\ \A i, j \in 1..Len(l) : j < i => l[j].node < l[i].node
  BY LevelFacts
<1>2. \A i \in 1..Len(l) : i # k => l[i].node # l[k].node /\ l[i] # l[k]
  BY <1>1
<1>3. PositionOf(l, l[k].node) = k
  BY <1>1, <1>2 DEF PositionOf
<1>4. m = [i \in 1..(Len(l) - 1) |-> IF i < k THEN l[i] ELSE l[i + 1]]
  BY <1>3 DEF Erase
<1>5. m \in Seq(Resting) /\ Len(m) = Len(l) - 1 /\ DOMAIN m = 1..(Len(l) - 1)
  <2>1. Len(l) - 1 \in Nat /\ \A i \in 1..(Len(l) - 1) : (IF i < k THEN l[i] ELSE l[i + 1]) \in Resting
    BY <1>1
  <2>2. m \in [1..(Len(l) - 1) -> Resting]
    BY <1>4, <2>1
  <2> HIDE DEF m
  <2> QED  BY <2>1, <2>2
<1>6. \A i \in 1..(Len(l) - 1) : m[i] = IF i < k THEN l[i] ELSE l[i + 1]
  BY <1>4
<1> HIDE DEF m
<1>7. Level(s, p, m, n)
  <2> DEFINE old(i) == IF i < k THEN i ELSE i + 1
  <2>1. \A i \in 1..Len(m) : old(i) \in 1..Len(l) /\ m[i] = l[old(i)]
    BY <1>1, <1>5, <1>6
  <2>2. \A i \in 1..Len(m) : \A j \in 1..(i - 1) : j \in 1..Len(m) /\ old(j) < old(i)
    BY <1>1, <1>5
  <2> HIDE DEF old
  <2>3. \A i \in 1..Len(m) : \A j \in 1..(i - 1) : m[j].node < m[i].node
    BY <1>1, <2>1, <2>2, Zenon
  <2> QED  BY <1>1, <1>5, <2>1, <2>3, Zenon DEF Level
<1>8. ASSUME NEW i \in 1..Len(l), i # k PROVE l[i] \in Members(m)
  <2>1. CASE i < k
    <3>1. i \in DOMAIN m /\ m[i] = l[i]
      BY <1>1, <1>5, <1>6, <2>1
    <3> QED  BY <3>1 DEF Members
  <2>2. CASE i > k
    <3>1. i - 1 \in DOMAIN m /\ m[i - 1] = l[i]
      BY <1>1, <1>5, <1>6, <2>2
    <3> QED  BY <3>1 DEF Members
  <2> QED  BY <1>8, <2>1, <2>2
<1>9. Members(m) = Members(l) \ {l[k]}
  <2>1. \A i \in DOMAIN m : \E j \in 1..Len(l) : j # k /\ m[i] = l[j]
    <3> TAKE i \in DOMAIN m
    <3>1. CASE i < k
      BY <1>1, <1>5, <1>6, <3>1
    <3>2. CASE i >= k
      <4>1. i + 1 \in 1..Len(l) /\ i + 1 # k /\ m[i] = l[i + 1]
        BY <1>1, <1>5, <1>6, <3>2
      <4> QED  BY <4>1
    <3> QED  BY <1>5, <3>1, <3>2
  <2>2. Members(m) \subseteq Members(l) \ {l[k]}
    <3>1. \A i \in DOMAIN m : m[i] \in Members(l) /\ m[i] # l[k]
      BY <1>1, <1>2, <2>1 DEF Members
    <3> QED  BY <3>1 DEF Members
  <2>3. Members(l) \ {l[k]} \subseteq Members(m)
    BY <1>1, <1>8 DEF Members
  <2> QED  BY <2>2, <2>3
<1> QED  BY <1>7, <1>9 DEF m

-----------------------------------------------------------------------------
(* The orders of the book, and those of one level.                         *)
LEMMA OrderFacts ==
  ASSUME BookOK
  PROVE  /\ \A s \in Side, p \in Prices : Level(s, p, LevelAt(s, p), next_node)
         /\ \A s \in Side, p \in Prices : \A o : o \in Members(LevelAt(s, p)) <=>
              o \in Orders /\ o.side = s /\ o.price = p
         /\ \A o \in Orders :
              /\ o \in Resting /\ o.side \in Side /\ o.price \in DOMAIN book[o.side]
              /\ o.price \in Prices /\ o.price \in Int /\ o.node \in Nat /\ o.qty \in Int
              /\ o.qty > 0 /\ o.node < next_node /\ o.id \in OrderIds
<1>1. \A s \in Side : \A p \in DOMAIN book[s] :
          p \in Prices /\ Level(s, p, book[s][p], next_node) /\ book[s][p] # << >>
  BY DEF BookOK
<1>2. \A s \in Side : \A p \in Prices : Level(s, p, LevelAt(s, p), next_node)
  <2> TAKE s \in Side
  <2> TAKE p \in Prices
  <2>1. CASE p \in DOMAIN book[s]
    BY <1>1, <2>1 DEF LevelAt
  <2>2. CASE p \notin DOMAIN book[s]
    BY <2>2, EmptySeq DEF LevelAt, Level
  <2> QED  BY <2>1, <2>2
<1>3. \A o : o \in Orders <=> \E s \in Side : \E p \in DOMAIN book[s] : o \in Members(book[s][p])
  BY DEF Orders, OrdersOn, OrdersAt, Members, Side
<1>4. ASSUME NEW s \in Side, NEW p \in DOMAIN book[s], NEW o \in Members(book[s][p])
      PROVE  /\ o \in Resting /\ o.side = s /\ o.price = p /\ o.node \in Nat /\ o.qty \in Int
             /\ o.qty > 0 /\ o.node < next_node /\ o.id \in OrderIds
  <2>1. PICK i \in DOMAIN book[s][p] : o = book[s][p][i]
    BY DEF Members
  <2>2. Level(s, p, book[s][p], next_node)
    BY <1>1
  <2>3. i \in 1..Len(book[s][p])
    BY <2>1, <2>2, LevelFacts
  <2> QED  BY <2>1, <2>2, <2>3, LevelFacts
<1>5. \A s \in Side : \A p \in Prices : \A o : o \in Members(LevelAt(s, p)) <=>
          o \in Orders /\ o.side = s /\ o.price = p
  <2> TAKE s \in Side
  <2> TAKE p \in Prices
  <2>1. CASE p \in DOMAIN book[s]
    BY <1>3, <1>4, <2>1 DEF LevelAt
  <2>2. CASE p \notin DOMAIN book[s]
    <3>1. Members(LevelAt(s, p)) = {}
      BY <2>2 DEF LevelAt, Members
    <3> QED  BY <1>3, <1>4, <2>2, <3>1
  <2> QED  BY <2>1, <2>2
<1>6. ASSUME NEW o \in Orders
      PROVE  /\ o \in Resting /\ o.side \in Side /\ o.price \in DOMAIN book[o.side]
             /\ o.price \in Prices /\ o.price \in Int /\ o.node \in Nat /\ o.qty \in Int
             /\ o.qty > 0 /\ o.node < next_node /\ o.id \in OrderIds
  <2>1. PICK s \in Side : \E p \in DOMAIN book[s] : o \in Members(book[s][p])
    BY <1>3
  <2>2. PICK p \in DOMAIN book[s] : o \in Members(book[s][p])
    BY <2>1
  <2>3. o.side = s /\ o.price = p /\ p \in Prices /\ p \in Int
    BY <1>1, <1>4, <2>2, BookAssumption, Zenon
  <2> QED  BY <1>4, <2>2, <2>3, Zenon
<1> QED  BY <1>2, <1>5, <1>6, Zenon

(* One level changes: the orders in A leave it and those in B come.        *)
LEMMA ChangeOrders ==
  ASSUME BookOK, NEW s \in Side, NEW p \in Prices, NEW l,
         book' = Replaced(s, p, l),
         next_node' \in Nat, next_node' >= next_node, Level(s, p, l, next_node'),
         NEW A, NEW B, A \subseteq Members(LevelAt(s, p)),
         Members(l) = Exchange(Members(LevelAt(s, p)), A, B)
  PROVE  BookOK' /\ Orders' = Exchange(Orders, A, B)
<1> USE DEF Exchange
<1>1. /\ DOMAIN book = Side /\ next_node \in Nat
      /\ \A t \in Side : \A q \in DOMAIN book[t] :
           q \in Prices /\ Level(t, q, book[t][q], next_node) /\ book[t][q] # << >>
  BY DEF BookOK
<1>2. /\ DOMAIN book' = Side
      /\ book'[s] = SetLevel(book[s], p, l)
      /\ \A t \in Side : t # s => book'[t] = book[t]
  BY <1>1 DEF Replaced
<1>3. /\ l = << >> => p \notin DOMAIN book'[s]
      /\ l # << >> => p \in DOMAIN book'[s] /\ book'[s][p] = l
      /\ \A q : q # p => /\ q \in DOMAIN book'[s] <=> q \in DOMAIN book[s]
                         /\ q \in DOMAIN book[s] => book'[s][q] = book[s][q]
  BY <1>2 DEF SetLevel, With, Without
<1>4. \A t, q, m : Level(t, q, m, next_node) => Level(t, q, m, next_node')
  <2> TAKE t, q, m
  <2> HAVE Level(t, q, m, next_node)
  <2>1. \A i \in 1..Len(m) : m[i].node \in Nat /\ m[i].node < next_node'
    BY <1>1, LevelFacts
  <2> QED  BY <2>1, Zenon DEF Level
<1>5. BookOK'
  <2>1. ASSUME NEW t \in Side, NEW q \in DOMAIN book'[t]
        PROVE  q \in Prices /\ Level(t, q, book'[t][q], next_node') /\ book'[t][q] # << >>
    <3>1. CASE t = s /\ q = p
      BY <1>3, <3>1
    <3>2. CASE ~(t = s /\ q = p)
      <4>1. q \in DOMAIN book[t] /\ book'[t][q] = book[t][q]
        BY <1>2, <1>3, <3>2
      <4> QED  BY <1>1, <1>4, <4>1
    <3> QED  BY <3>1, <3>2
  <2>2. \A t \in Side : \A q \in DOMAIN book'[t] :
           q \in Prices /\ Level(t, q, book'[t][q], next_node') /\ book'[t][q] # << >>
    BY <2>1
  <2> QED  BY <1>2, <2>2, Zenon DEF BookOK, Level
<1>6. Orders' = (Orders \ A) \cup B
  <2>1. \A o : o \in Orders <=> \E t \in Side : \E q \in DOMAIN book[t] : o \in Members(book[t][q])
    BY DEF Orders, OrdersOn, OrdersAt, Members, Side
  <2>2. \A o : o \in Orders' <=> \E t \in Side : \E q \in DOMAIN book'[t] : o \in Members(book'[t][q])
    BY DEF Orders, OrdersOn, OrdersAt, Members, Side
  <2>3. \A o : o \in Members(LevelAt(s, p)) <=> o \in Orders /\ o.side = s /\ o.price = p
    BY OrderFacts
  <2>4. \A t \in Side : \A q \in DOMAIN book[t] : \A o \in Members(book[t][q]) :
            o.side = t /\ o.price = q
    <3>1. \A t \in Side : \A q \in DOMAIN book[t] : book[t][q] = LevelAt(t, q) /\ q \in Prices
      BY <1>1 DEF LevelAt
    <3> QED  BY <3>1, OrderFacts
  <2>5. ASSUME NEW o \in Orders' PROVE o \in (Orders \ A) \cup B
    <3>1. PICK t \in Side : \E q \in DOMAIN book'[t] : o \in Members(book'[t][q])
      BY <2>2
    <3>2. PICK q \in DOMAIN book'[t] : o \in Members(book'[t][q])
      BY <3>1
    <3>3. CASE t = s /\ q = p
      <4>1. o \in Members(l)
        BY <1>3, <3>2, <3>3
      <4> QED  BY <2>3, <4>1
    <3>4. CASE ~(t = s /\ q = p)
      <4>1. q \in DOMAIN book[t] /\ o \in Members(book[t][q])
        BY <1>2, <1>3, <3>2, <3>4
      <4>2. o \in Orders /\ o.side = t /\ o.price = q
        BY <2>1, <2>4, <4>1
      <4> QED  BY <2>3, <3>4, <4>2
    <3> QED  BY <3>3, <3>4
  <2>6. ASSUME NEW o \in Members(l) PROVE o \in Orders'
    <3>1. l # << >>
      BY <2>6 DEF Members
    <3> QED  BY <1>3, <2>2, <3>1
  <2>7. ASSUME NEW o \in Orders, o \notin Members(LevelAt(s, p)) PROVE o \in Orders'
    <3>1. PICK t \in Side : \E q \in DOMAIN book[t] : o \in Members(book[t][q])
      BY <2>1
    <3>2. PICK q \in DOMAIN book[t] : o \in Members(book[t][q])
      BY <3>1
    <3>3. ~(t = s /\ q = p)
      BY <2>3, <2>4, <2>7, <3>2
    <3>4. q \in DOMAIN book'[t] /\ book'[t][q] = book[t][q]
      BY <1>2, <1>3, <3>3
    <3> QED  BY <2>2, <3>2, <3>4
  <2>8. (Orders \ A) \cup B \subseteq Orders'
    BY <2>6, <2>7
  <2> QED  BY <2>5, <2>8
<1> QED  BY <1>5, <1>6

-----------------------------------------------------------------------------
(* What the operations of the book do to its orders.                       *)
LEMMA AddEffect ==
  ASSUME BookOK, NEW o \in Order, o.qty > 0, add(o)
  PROVE  /\ BookOK'
         /\ \E r \in Resting :
              /\ r.node = next_node /\ r.id = o.id /\ r.side = o.side
              /\ r.price = o.price /\ r.qty = o.qty
              /\ Orders' = Orders \cup {r}
<1> DEFINE r == [node |-> next_node, id |-> o.id, side |-> o.side, price |-> o.price, qty |-> o.qty]
           old == LevelAt(o.side, o.price)
           l == Append(old, r)
<1>1. next_node \in Nat /\ DOMAIN book = Side
  BY DEF BookOK
<1>2. o.side \in Side /\ o.price \in Prices /\ o.id \in OrderIds /\ o.qty \in Int
  BY DEF Order
<1>3. /\ r \in Resting /\ r.node = next_node /\ r.id = o.id /\ r.side = o.side
      /\ r.price = o.price /\ r.qty = o.qty
  BY <1>1, <1>2 DEF Resting
<1>4. /\ book' = [book EXCEPT ![o.side] = With(@, o.price, l)]
      /\ next_node' = next_node + 1
  BY DEF add
<1>5. Level(o.side, o.price, old, next_node)
  BY <1>2, OrderFacts
<1> HIDE DEF r
<1>6. Level(o.side, o.price, l, next_node + 1) /\ l # << >> /\ Members(l) = Members(old) \cup {r}
  BY <1>1, <1>3, <1>5, AppendLevel
<1>7. book' = Replaced(o.side, o.price, l)
  BY <1>4, <1>6, Zenon DEF SetLevel, Replaced
<1> HIDE DEF l
<1>8. next_node' \in Nat /\ next_node' >= next_node /\ Level(o.side, o.price, l, next_node')
  BY <1>1, <1>4, <1>6
<1>9. {} \subseteq Members(old) /\ Members(l) = Exchange(Members(old), {}, {r})
  BY <1>6 DEF Exchange
<1>10. BookOK' /\ Orders' = Exchange(Orders, {}, {r})
  BY <1>2, <1>7, <1>8, <1>9, ChangeOrders, Zenon
<1>11. Orders' = Orders \cup {r}
  BY <1>10 DEF Exchange
<1> QED  BY <1>3, <1>10, <1>11

LEMMA CancelEffect ==
  ASSUME BookOK, IndexLeads, NEW id, cancel(id)
  PROVE  /\ BookOK'
         /\ \E r \in Orders : r.id = id /\ r.node = index[id].it /\ Orders' = Orders \ {r}
<1>1. PICK r \in Orders : /\ r.id = id /\ r.node = index[id].it
                          /\ r.side = index[id].side /\ r.price = index[id].price
  BY DEF IndexLeads, cancel
<1>2. r.side \in Side /\ r.price \in DOMAIN book[r.side] /\ r.price \in Prices
  BY OrderFacts
<1> DEFINE old == LevelAt(r.side, r.price)
<1>3. old = book[r.side][r.price] /\ Level(r.side, r.price, old, next_node) /\ r \in Members(old)
  BY <1>2, OrderFacts DEF LevelAt
<1>4. PICK k \in 1..Len(old) : old[k] = r
  <2>1. DOMAIN old = 1..Len(old)
    BY <1>3, LevelFacts
  <2> QED  BY <1>3, <2>1 DEF Members
<1> DEFINE l == Erase(old, old[k].node)
<1>5. DOMAIN book = Side /\ next_node \in Nat
  BY DEF BookOK
<1>6. book' = Replaced(r.side, r.price, l) /\ next_node' = next_node
  BY <1>1, <1>2, <1>3, <1>4, <1>5, Zenon DEF cancel, Replaced
<1>7. Level(r.side, r.price, l, next_node) /\ Members(l) = Members(old) \ {r}
  BY <1>3, <1>4, EraseLevel
<1> HIDE DEF l
<1>8. {r} \subseteq Members(old) /\ Members(l) = Exchange(Members(old), {r}, {})
  BY <1>3, <1>7 DEF Exchange
<1>9. next_node' \in Nat /\ next_node' >= next_node /\ Level(r.side, r.price, l, next_node')
  BY <1>5, <1>6, <1>7
<1>10. BookOK' /\ Orders' = Exchange(Orders, {r}, {})
  BY <1>2, <1>6, <1>8, <1>9, ChangeOrders, Zenon
<1>11. Orders' = Orders \ {r}
  BY <1>10 DEF Exchange
<1> QED  BY <1>1, <1>10, <1>11, Zenon

(* The front of the best level has priority over its side.                 *)
LEMMA BestFacts ==
  ASSUME BookOK, NEW s \in Side, ~empty(s)
  PROVE  /\ best_price(s) \in DOMAIN book[s] /\ best_price(s) \in Prices
         /\ \A q \in DOMAIN book[s] : IF s = "Buy" THEN q <= best_price(s) ELSE best_price(s) <= q
         /\ BestLevel(s) = LevelAt(s, best_price(s)) /\ BestLevel(s) # << >>
         /\ Level(s, best_price(s), BestLevel(s), next_node)
         /\ best(s) = BestLevel(s)[1]
         /\ best(s) \in Orders /\ best(s).side = s /\ best(s).price = best_price(s)
         /\ \A r \in Orders : r.side = s => r = best(s) \/ P!Priority(best(s), r)
<1> DEFINE p == best_price(s)
<1>1. DOMAIN book[s] \in SUBSET Prices /\ DOMAIN book[s] # {}
  BY DEF BookOK, empty
<1>2. DOMAIN book[s] \in SUBSET Int /\ IsFiniteSet(DOMAIN book[s])
  BY <1>1, BookAssumption, FS_Subset, Zenon
<1>3. \E q \in DOMAIN book[s] : \A x \in DOMAIN book[s] : IF s = "Buy" THEN x <= q ELSE q <= x
  BY <1>1, <1>2, FiniteExtremes
<1>4. p \in DOMAIN book[s] /\ \A q \in DOMAIN book[s] : IF s = "Buy" THEN q <= p ELSE p <= q
  BY <1>3 DEF best_price
<1> HIDE DEF p
<1>5. p \in Prices /\ p \in Int
  BY <1>1, <1>2, <1>4
<1>6. BestLevel(s) = LevelAt(s, p) /\ BestLevel(s) # << >> /\ Level(s, p, BestLevel(s), next_node)
  BY <1>4 DEF BestLevel, LevelAt, BookOK, p
<1>7. /\ Len(BestLevel(s)) \in Nat /\ Len(BestLevel(s)) > 0
      /\ DOMAIN BestLevel(s) = 1..Len(BestLevel(s))
      /\ \A i, j \in 1..Len(BestLevel(s)) : j < i => BestLevel(s)[j].node < BestLevel(s)[i].node
  BY <1>6, LevelFacts
<1>8. best(s) = BestLevel(s)[1] /\ best(s) \in Members(BestLevel(s))
  BY <1>6, TailLevel, Zenon DEF best
<1>9. best(s) \in Orders /\ best(s).side = s /\ best(s).price = p
  BY <1>5, <1>6, <1>8, OrderFacts
<1>10. ASSUME NEW r \in Orders, r.side = s PROVE r = best(s) \/ P!Priority(best(s), r)
  <2>1. r.price \in DOMAIN book[s] /\ r.price \in Int
    BY <1>10, OrderFacts
  <2>2. CASE r.price = p
    <3>1. r \in Members(BestLevel(s))
      BY <1>5, <1>6, <1>10, <2>2, OrderFacts
    <3>2. PICK i \in 1..Len(BestLevel(s)) : r = BestLevel(s)[i]
      BY <1>7, <3>1 DEF Members
    <3>3. CASE i = 1
      BY <1>8, <3>2, <3>3
    <3>4. CASE i # 1
      <4>1. best(s).node < r.node
        BY <1>7, <1>8, <3>2, <3>4
      <4> QED  BY <1>9, <2>2, <4>1 DEF P!Priority
    <3> QED  BY <3>3, <3>4
  <2>3. CASE r.price # p
    <3>1. IF s = "Buy" THEN r.price < p ELSE p < r.price
      BY <1>4, <1>5, <2>1, <2>3
    <3> QED  BY <1>5, <1>9, <2>1, <3>1 DEF P!Priority
  <2> QED  BY <2>2, <2>3
<1> QED  BY <1>4, <1>5, <1>6, <1>8, <1>9, <1>10 DEF p

LEMMA ReduceEffect ==
  ASSUME BookOK, NEW s \in Side, ~empty(s), NEW qty \in Int, reduce_front(s, qty)
  PROVE  LET m == best(s)
             r == Reduced(m, m.qty - qty)
         IN /\ BookOK'
            /\ r.qty = m.qty - qty /\ r.node = m.node /\ r.id = m.id
            /\ r.side = m.side /\ r.price = m.price
            /\ Orders' = Exchange(Orders, {m}, IF m.qty - qty > 0 THEN {r} ELSE {})
<1> DEFINE m == best(s)
           p == best_price(s)
           old == BestLevel(s)
           left == m.qty - qty
           r == Reduced(m, left)
<1>1. /\ p \in Prices /\ old = LevelAt(s, p) /\ old # << >> /\ Level(s, p, old, next_node)
      /\ m = old[1] /\ m \in Orders
  BY BestFacts
<1>a. p \in Prices
  BY <1>1
<1>b. Level(s, p, old, next_node) /\ old # << >>
  BY <1>1
<1>2. next_node \in Nat /\ next_node' = next_node /\ left \in Int
  BY <1>1, OrderFacts DEF BookOK, reduce_front
<1>3. /\ m \in Members(old) /\ Level(s, p, Tail(old), next_node)
      /\ Members(Tail(old)) = Members(old) \ {m}
  BY <1>1, TailLevel
<1>4. r.qty = left /\ r.node = m.node /\ r.id = m.id /\ r.side = m.side /\ r.price = m.price
  <2>1. m \in Resting
    BY <1>1, OrderFacts
  <2> HIDE DEF m, left
  <2> QED  BY <2>1 DEF Resting, Reduced
<1>5. CASE left <= 0
  <2>1. book' = Replaced(s, p, Tail(old))
    BY <1>5 DEF reduce_front, Replaced
  <2>2. /\ {m} \subseteq Members(LevelAt(s, p))
        /\ Members(Tail(old)) = Exchange(Members(LevelAt(s, p)), {m}, {})
    BY <1>1, <1>3 DEF Exchange
  <2>3. next_node' \in Nat /\ next_node' >= next_node /\ Level(s, p, Tail(old), next_node')
    BY <1>2, <1>3
  <2>4. BookOK' /\ Orders' = Exchange(Orders, {m}, {})
    <3> HIDE DEF m, p, old
    <3> QED  BY <1>a, <2>1, <2>2, <2>3, ChangeOrders, Zenon
  <2> QED  BY <1>2, <1>4, <1>5, <2>4
<1>6. CASE left > 0
  <2> DEFINE l == ReducedFront(old, left)
  <2>0. ~(left <= 0)
    BY <1>2, <1>6
  <2>1. book' = Replaced(s, p, l)
    BY <2>0, Zenon DEF reduce_front, Replaced, ReducedFront
  <2>2. Level(s, p, l, next_node) /\ Members(l) = Exchange(Members(old), {old[1]}, {Reduced(old[1], left)})
    <3> HIDE DEF m, p, old, left
    <3> QED  BY <1>b, <1>2, <1>6, ReduceLevel, Zenon
  <2>3. next_node' \in Nat /\ next_node' >= next_node /\ Level(s, p, l, next_node')
    BY <1>2, <2>2
  <2> HIDE DEF l
  <2>4. /\ {m} \subseteq Members(LevelAt(s, p))
        /\ Members(l) = Exchange(Members(LevelAt(s, p)), {m}, {r})
    BY <1>1, <1>3, <2>2, Zenon
  <2>5. BookOK' /\ Orders' = Exchange(Orders, {m}, {r})
    <3> HIDE DEF m, p, r
    <3> QED  BY <1>a, <2>1, <2>3, <2>4, ChangeOrders, Zenon
  <2> QED  BY <1>4, <1>6, <2>5
<1> QED  BY <1>2, <1>5, <1>6

-----------------------------------------------------------------------------
(* What a step may do to the index: the action of StaysCancellable.        *)
Stay ==
    /\ (Nodes' \ Nodes) \subseteq Cancellable'
    /\ \A n \in Cancellable \cap Nodes' : n \in Cancellable' \/ Shared(n)

(* Stay, order by order.                                                   *)
LEMMA StayByOrder ==
  ASSUME \A d \in Orders' : (\E c \in Orders : c.node = d.node) \/ Indexed(d)',
         \A c \in Orders, d \in Orders' : Indexed(c) /\ d.node = c.node =>
            \/ Indexed(d)'
            \/ \E other \in Orders \cup Orders' : other.node # c.node /\ other.id = c.id
  PROVE  Stay
<1>1. ASSUME NEW n \in Nodes' \ Nodes PROVE n \in Cancellable'
  <2>1. PICK d \in Orders' : d.node = n
    BY <1>1 DEF Nodes
  <2>2. ~\E c \in Orders : c.node = d.node
    BY <1>1, <2>1 DEF Nodes
  <2> QED  BY <2>1, <2>2 DEF Cancellable
<1>2. ASSUME NEW n \in Cancellable \cap Nodes' PROVE n \in Cancellable' \/ Shared(n)
  <2>1. PICK c \in Orders : Indexed(c) /\ c.node = n
    BY <1>2 DEF Cancellable
  <2>2. PICK d \in Orders' : d.node = n
    BY <1>2 DEF Nodes
  <2>3. CASE Indexed(d)'
    BY <2>2, <2>3 DEF Cancellable
  <2>4. CASE \E other \in Orders \cup Orders' : other.node # c.node /\ other.id = c.id
    BY <2>1, <2>4 DEF Shared
  <2> QED  BY <2>1, <2>2, <2>3, <2>4
<1> QED  BY <1>1, <1>2 DEF Stay

LEMMA BookUnchanged ==
  ASSUME EngineInv, UNCHANGED bvars
  PROVE  Orders' = Orders /\ BookOK' /\ NodesDiffer' /\ IndexLeads' /\ BidsBelowAsks' /\ Stay
<1>1. book' = book /\ index' = index /\ next_node' = next_node
  BY DEF bvars
<1>2. Orders' = Orders
  BY <1>1 DEF Orders, OrdersOn, OrdersAt
<1>3. BookOK'
  <2>1. BookOK
    BY DEF EngineInv
  <2> QED  BY <1>1, <2>1 DEF BookOK, Level
<1>4. NodesDiffer' /\ IndexLeads' /\ BidsBelowAsks'
  BY <1>1, <1>2 DEF EngineInv, NodesDiffer, IndexLeads, BidsBelowAsks
<1>5. \A c \in Orders : Indexed(c)' <=> Indexed(c)
  BY <1>1, Zenon DEF Indexed
<1>6. \A c, d \in Orders : c.node = d.node => c = d
  BY DEF EngineInv, NodesDiffer
<1>7. Stay
  BY <1>2, <1>5, <1>6, StayByOrder, Zenon
<1> QED  BY <1>2, <1>3, <1>4, <1>7

LEMMA SubmitStep ==
  ASSUME EngineInv, NEW o \in Incoming, Submit(o)
  PROVE  EngineInv' /\ P!Next /\ Stay
<1>1. /\ Orders' = Orders /\ BookOK' /\ NodesDiffer' /\ IndexLeads' /\ BidsBelowAsks' /\ Stay
  BY BookUnchanged DEF Submit
<1>2. o \in Order
  BY EngineAssumption, Zenon DEF Incoming, Order
<1>3. taker' = << o >> /\ filled' = 0 /\ fill' = << >> /\ taker = << >>
  BY DEF Submit, Idle
<1>4. TakerOK'
  BY <1>2, <1>3 DEF TakerOK
<1>5. taker' # << >>
  BY <1>3
<1>6. P!Arrive
  BY <1>1, <1>3, <1>5 DEF P!Arrive
<1> QED  BY <1>1, <1>4, <1>6 DEF EngineInv, P!Next

(* The order submit works on, and the sides.                               *)
LEMMA TakerFacts ==
  ASSUME EngineInv, ~Idle
  PROVE  /\ Taker \in Order /\ taker = << Taker >> /\ filled \in Int
         /\ Taker.qty \in Int /\ Taker.side \in Side /\ Maker \in Side /\ Maker # Taker.side
         /\ Taker.price \in Prices /\ Taker.price \in Int /\ Taker.id \in OrderIds
         /\ Taker.type = "Limit" \/ Taker.type = "Market"
         /\ \A s \in Side : s # Taker.side => s = Maker
<1>1. PICK o \in Order : taker = << o >>
  BY DEF EngineInv, TakerOK, Idle
<1>2. Taker = o /\ filled \in Int
  BY <1>1 DEF Taker, EngineInv, TakerOK
<1>3. /\ o.qty \in Int /\ o.side \in Side /\ o.price \in Prices /\ o.id \in OrderIds
      /\ o.type = "Limit" \/ o.type = "Market"
  BY DEF Order
<1>4. o.price \in Int
  BY <1>3, BookAssumption, Zenon
<1>5. Maker \in Side /\ Maker # o.side /\ \A s \in Side : s # o.side => s = Maker
  BY <1>2, <1>3 DEF Maker, opposite, Side
<1> QED  BY <1>1, <1>2, <1>3, <1>4, <1>5

(* When the loop ends with something left of the order, nothing crosses.   *)
LEMMA NothingCrosses ==
  ASSUME EngineInv, ~Idle, ~Matches, Taker.qty > 0
  PROVE  \A r \in Orders : ~P!Crosses(Taker, r)
<1> SUFFICES ASSUME NEW r \in Orders, P!Crosses(Taker, r) PROVE FALSE
  OBVIOUS
<1>1. BookOK
  BY DEF EngineInv
<1>2. r.side \in Side /\ r.price \in DOMAIN book[r.side] /\ r.price \in Int
  BY <1>1, OrderFacts
<1>3. r.side = Maker /\ Maker \in Side
  BY <1>2, TakerFacts DEF P!Crosses
<1>4. ~empty(Maker)
  BY <1>2, <1>3 DEF empty
<1>5. /\ BestLevel(Maker) # << >> /\ best_price(Maker) \in Prices
      /\ IF Maker = "Buy" THEN r.price <= best_price(Maker) ELSE best_price(Maker) <= r.price
  BY <1>1, <1>2, <1>3, <1>4, BestFacts
<1>6. best_price(Maker) \in Int
  BY <1>5, BookAssumption, Zenon
<1>7. ~crosses(Taker, best_price(Maker))
  BY <1>4, <1>5 DEF Matches
<1>8. Taker.side \in Side /\ Maker # Taker.side /\ Taker.price \in Int
  BY TakerFacts
<1> QED  BY <1>2, <1>3, <1>5, <1>6, <1>7, <1>8 DEF crosses, P!Crosses, Side

LEMMA TradeStep ==
  ASSUME EngineInv, Trade
  PROVE  EngineInv' /\ P!Next /\ Stay
<1> DEFINE m == best(Maker)
           traded == Min2(Taker.qty, m.qty)
           left == m.qty - traded
           r == Reduced(m, left)
<1>1. ~Idle /\ BookOK /\ ~empty(Maker) /\ Taker.qty > 0 /\ crosses(Taker, best_price(Maker))
  BY DEF Trade, Matches, EngineInv
<1>2. /\ Taker \in Order /\ taker = << Taker >> /\ filled \in Int
      /\ Taker.qty \in Int /\ Taker.side \in Side /\ Maker \in Side /\ Maker # Taker.side
      /\ \A s \in Side : s # Taker.side => s = Maker
  BY <1>1, TakerFacts
<1>3. /\ m \in Orders /\ m.side = Maker /\ m.price = best_price(Maker)
      /\ \A x \in Orders : x.side = Maker => x = m \/ P!Priority(m, x)
  BY <1>1, <1>2, BestFacts
<1>4. \A x \in Orders : /\ x \in Resting /\ x.side \in Side /\ x.node \in Nat /\ x.qty \in Int
                        /\ x.qty > 0 /\ x.price \in Int
  BY <1>1, OrderFacts
<1>5. /\ traded \in Int /\ traded > 0 /\ left \in Int /\ left >= 0
      /\ traded = IF Taker.qty <= m.qty THEN Taker.qty ELSE m.qty
  BY <1>1, <1>2, <1>3, <1>4 DEF Min2
<1>6. reduce_front(Maker, traded)
  BY DEF Trade
<1>7. /\ BookOK' /\ r.qty = left /\ r.node = m.node /\ r.id = m.id
      /\ r.side = m.side /\ r.price = m.price
      /\ Orders' = Exchange(Orders, {m}, IF left > 0 THEN {r} ELSE {})
  BY <1>1, <1>2, <1>5, <1>6, ReduceEffect, Zenon
<1>8. index' = IF left <= 0 THEN Without(index, {m.id}) ELSE index
  BY <1>6 DEF reduce_front
<1>9. /\ fill' = << [taker_id |-> Taker.id, maker_id |-> m.id,
                     price |-> m.price, qty |-> traded] >>
      /\ taker' = << [Taker EXCEPT !.qty = @ - traded] >> /\ filled' = filled + traded
  BY <1>3 DEF Trade
<1>10. r = [m EXCEPT !.qty = @ - traded]
  BY <1>3, <1>4 DEF Reduced, Resting
<1>11. NodesDiffer /\ IndexLeads /\ BidsBelowAsks
  BY DEF EngineInv
<1> HIDE DEF m, traded, left, r
<1>12. \A x \in Orders' : (x \in Orders /\ x # m) \/ (left > 0 /\ x = r)
  BY <1>7 DEF Exchange
<1>13. (\A x \in Orders : x # m => x \in Orders') /\ (left > 0 => r \in Orders')
  BY <1>7 DEF Exchange
<1>14. NodesDiffer'
  <2>1. ASSUME NEW a \in Orders', NEW b \in Orders', a.node = b.node PROVE a = b
    BY <1>3, <1>7, <1>11, <1>12, <2>1 DEF NodesDiffer
  <2> QED  BY <2>1 DEF NodesDiffer
<1>15. BidsBelowAsks'
  <2>1. ASSUME NEW a \in Orders', NEW b \in Orders', a.side = "Buy", b.side = "Sell"
        PROVE  a.price < b.price
    BY <1>3, <1>7, <1>11, <1>12, <2>1 DEF BidsBelowAsks
  <2> QED  BY <2>1 DEF BidsBelowAsks
<1>16. ASSUME NEW id \in DOMAIN index'
       PROVE  /\ id \in DOMAIN index /\ index'[id] = index[id]
              /\ left <= 0 => id # m.id
  BY <1>8, <1>16 DEF Without
<1>17. IndexLeads'
  <2>1. ASSUME NEW id \in DOMAIN index'
        PROVE  \E x \in Orders' : /\ x.id = id /\ x.node = index'[id].it
                                  /\ x.side = index'[id].side /\ x.price = index'[id].price
    <3>1. PICK x \in Orders : /\ x.id = id /\ x.node = index[id].it
                              /\ x.side = index[id].side /\ x.price = index[id].price
      BY <1>11, <1>16, <2>1 DEF IndexLeads
    <3>2. CASE x # m
      BY <1>13, <1>16, <2>1, <3>1, <3>2
    <3>3. CASE x = m
      <4>1. left > 0
        BY <1>5, <1>16, <2>1, <3>1, <3>3
      <4> QED  BY <1>7, <1>13, <1>16, <2>1, <3>1, <3>3, <4>1
    <3> QED  BY <3>2, <3>3
  <2> QED  BY <2>1 DEF IndexLeads
<1>18. TakerOK'
  <2>1. [Taker EXCEPT !.qty = @ - traded] \in Order
    BY <1>2, <1>5 DEF Order
  <2> QED  BY <1>2, <1>5, <1>9, <2>1 DEF TakerOK
<1>19. Stay
  <2>1. \A d \in Orders' : \E c \in Orders : c.node = d.node
    BY <1>3, <1>7, <1>12
  <2>2. ASSUME NEW c \in Orders, NEW d \in Orders', Indexed(c), d.node = c.node
        PROVE  \/ Indexed(d)'
               \/ \E other \in Orders \cup Orders' : other.node # c.node /\ other.id = c.id
    <3>1. CASE left > 0
      <4>1. index' = index
        BY <1>5, <1>8, <3>1
      <4>2. d.id = c.id
        BY <1>3, <1>7, <1>11, <1>12, <2>2 DEF NodesDiffer
      <4> QED  BY <2>2, <4>1, <4>2 DEF Indexed
    <3>2. CASE ~(left > 0)
      <4>1. c = d /\ d # m /\ index' = Without(index, {m.id})
        BY <1>5, <1>8, <1>11, <1>12, <2>2, <3>2 DEF NodesDiffer
      <4>2. CASE c.id = m.id
        <5>1. m.node # c.node
          BY <1>3, <1>11, <4>1 DEF NodesDiffer
        <5> QED  BY <1>3, <4>2, <5>1
      <4>3. CASE c.id # m.id
        <5>1. d.id \in DOMAIN index' /\ index'[d.id] = index[c.id]
          BY <2>2, <4>1, <4>3 DEF Indexed, Without
        <5> QED  BY <2>2, <4>1, <5>1 DEF Indexed
      <4> QED  BY <4>2, <4>3
    <3> QED  BY <3>1, <3>2
  <2> QED  BY <2>1, <2>2, StayByOrder
<1>20. P!Trade
  <2>1. taker # << >> /\ taker[1] = Taker
    BY <1>2
  <2>2. P!Crosses(Taker, m)
    BY <1>1, <1>2, <1>3 DEF crosses, P!Crosses
  <2>3. \A x \in Orders : P!Crosses(Taker, x) => x = m \/ P!Priority(m, x)
    BY <1>2, <1>3, <1>4 DEF P!Crosses
  <2>4. Orders' = (Orders \ {m}) \cup (IF r.qty > 0 THEN {r} ELSE {})
    BY <1>7 DEF Exchange
  <2> QED  BY <1>3, <1>5, <1>9, <1>10, <2>1, <2>2, <2>3, <2>4, Zenon DEF P!Trade
<1> QED  BY <1>7, <1>14, <1>15, <1>17, <1>18, <1>19, <1>20 DEF EngineInv, P!Next

LEMMA RestStep ==
  ASSUME EngineInv, Return, Taker.qty > 0, Taker.type = "Limit"
  PROVE  EngineInv' /\ P!Next /\ Stay
<1>1. ~Idle /\ ~Matches /\ add(Taker) /\ taker' = << >> /\ fill' = << >> /\ filled' = filled
  BY DEF Return
<1>2. /\ Taker \in Order /\ taker = << Taker >> /\ filled \in Int
      /\ Taker.side \in Side /\ Taker.price \in Int
  BY <1>1, TakerFacts
<1>3. BookOK /\ NodesDiffer /\ IndexLeads /\ BidsBelowAsks
  BY DEF EngineInv
<1>4. BookOK' /\ \E r \in Resting :
        /\ r.node = next_node /\ r.id = Taker.id /\ r.side = Taker.side
        /\ r.price = Taker.price /\ r.qty = Taker.qty
        /\ Orders' = Orders \cup {r}
  BY <1>1, <1>2, <1>3, AddEffect
<1>5. PICK r \in Resting :
        /\ r.node = next_node /\ r.id = Taker.id /\ r.side = Taker.side
        /\ r.price = Taker.price /\ r.qty = Taker.qty
        /\ Orders' = Orders \cup {r}
  BY <1>4, Zenon
<1>6. index' = With(index, Taker.id, [side |-> Taker.side, price |-> Taker.price, it |-> next_node])
  BY <1>1 DEF add
<1>7. \A x \in Orders : /\ x.node \in Nat /\ x.node < next_node /\ x.price \in Int /\ x.side \in Side
  BY <1>3, OrderFacts
<1>8. \A x \in Orders : ~P!Crosses(Taker, x)
  BY <1>1, NothingCrosses
<1>9. NodesDiffer'
  <2>1. ASSUME NEW a \in Orders', NEW b \in Orders', a.node = b.node PROVE a = b
    <3>1. next_node \in Nat
      BY <1>3 DEF BookOK
    <3> QED  BY <1>3, <1>5, <1>7, <2>1, <3>1 DEF NodesDiffer
  <2> QED  BY <2>1 DEF NodesDiffer
<1>10. BidsBelowAsks'
  <2>1. ASSUME NEW x \in Orders
        PROVE  /\ x.side = "Buy" /\ r.side = "Sell" => x.price < r.price
               /\ x.side = "Sell" /\ r.side = "Buy" => r.price < x.price
    BY <1>2, <1>5, <1>7, <1>8 DEF P!Crosses
  <2>2. ASSUME NEW a \in Orders', NEW b \in Orders', a.side = "Buy", b.side = "Sell"
        PROVE  a.price < b.price
    BY <1>3, <1>5, <2>1, <2>2 DEF BidsBelowAsks
  <2> QED  BY <2>2 DEF BidsBelowAsks
<1>11. /\ DOMAIN index' = DOMAIN index \cup {Taker.id}
       /\ index'[Taker.id].it = next_node
       /\ index'[Taker.id].side = Taker.side /\ index'[Taker.id].price = Taker.price
       /\ \A id \in DOMAIN index : id # Taker.id => index'[id] = index[id]
  BY <1>6 DEF With
<1>12. IndexLeads'
  <2>1. ASSUME NEW id \in DOMAIN index'
        PROVE  \E x \in Orders' : /\ x.id = id /\ x.node = index'[id].it
                                  /\ x.side = index'[id].side /\ x.price = index'[id].price
    <3>1. CASE id = Taker.id
      BY <1>5, <1>11, <3>1
    <3>2. CASE id # Taker.id
      BY <1>3, <1>5, <1>11, <2>1, <3>2 DEF IndexLeads
    <3> QED  BY <3>1, <3>2
  <2> QED  BY <2>1 DEF IndexLeads
<1>13. TakerOK'
  BY <1>1, <1>2 DEF TakerOK
<1>14. Stay
  <2>1. Indexed(r)'
    BY <1>5, <1>11 DEF Indexed
  <2>2. \A d \in Orders' : (\E c \in Orders : c.node = d.node) \/ Indexed(d)'
    BY <1>5, <2>1
  <2>3. ASSUME NEW c \in Orders, NEW d \in Orders', Indexed(c), d.node = c.node
        PROVE  \/ Indexed(d)'
               \/ \E other \in Orders \cup Orders' : other.node # c.node /\ other.id = c.id
    <3>1. CASE c.id = Taker.id
      <4>1. r.node # c.node
        BY <1>3, <1>5, <1>7 DEF BookOK
      <4> QED  BY <1>5, <3>1, <4>1
    <3>2. CASE c.id # Taker.id
      <4>1. d = c
        BY <1>3, <1>5, <1>9, <2>3 DEF NodesDiffer
      <4> QED  BY <1>11, <2>3, <3>2, <4>1 DEF Indexed
    <3> QED  BY <3>1, <3>2
  <2> QED  BY <2>2, <2>3, StayByOrder
<1>15. P!Rest
  <2>1. taker # << >> /\ taker[1] = Taker
    BY <1>2
  <2>2. \A x \in Orders : x.node < r.node
    BY <1>5, <1>7
  <2>3. r \in Orders'
    BY <1>5
  <2> QED  BY <1>1, <1>5, <1>8, <2>1, <2>2, <2>3, Zenon DEF P!Rest
<1> QED  BY <1>4, <1>9, <1>10, <1>12, <1>13, <1>14, <1>15 DEF EngineInv, P!Next

LEMMA ExpireStep ==
  ASSUME EngineInv, Return, ~(Taker.qty > 0 /\ Taker.type = "Limit")
  PROVE  EngineInv' /\ P!Next /\ Stay
<1>1. /\ ~Idle /\ ~Matches /\ UNCHANGED bvars
      /\ taker' = << >> /\ fill' = << >> /\ filled' = filled
  BY DEF Return
<1>2. Orders' = Orders /\ BookOK' /\ NodesDiffer' /\ IndexLeads' /\ BidsBelowAsks' /\ Stay
  BY <1>1, BookUnchanged
<1>3. taker = << Taker >> /\ filled \in Int /\ (Taker.type = "Limit" \/ Taker.type = "Market")
  BY <1>1, TakerFacts
<1>4. Taker.qty > 0 => Taker.type = "Market" /\ \A x \in Orders : ~P!Crosses(Taker, x)
  BY <1>1, <1>3, NothingCrosses
<1>5. taker # << >> /\ taker[1] = Taker
  BY <1>3
<1>6. P!Expire
  BY <1>1, <1>2, <1>4, <1>5 DEF P!Expire
<1>7. TakerOK'
  BY <1>1, <1>3 DEF TakerOK
<1> QED  BY <1>2, <1>6, <1>7 DEF EngineInv, P!Next

LEMMA CancelStep ==
  ASSUME EngineInv, NEW id, Cancel(id)
  PROVE  EngineInv' /\ P!Next /\ Stay
<1>1. BookOK /\ NodesDiffer /\ IndexLeads /\ BidsBelowAsks /\ TakerOK
  BY DEF EngineInv
<1>2. taker = << >> /\ cancel(id) /\ fill' = << >> /\ taker' = taker /\ filled' = filled
  BY DEF Cancel, Idle
<1>3. BookOK' /\ \E r \in Orders : r.id = id /\ r.node = index[id].it /\ Orders' = Orders \ {r}
  BY <1>1, <1>2, CancelEffect
<1>4. PICK r \in Orders : r.id = id /\ r.node = index[id].it /\ Orders' = Orders \ {r}
  BY <1>3, Zenon
<1>5. index' = Without(index, {id})
  BY <1>2 DEF cancel
<1>6. NodesDiffer' /\ BidsBelowAsks'
  BY <1>1, <1>4 DEF NodesDiffer, BidsBelowAsks
<1>7. \A j : j \in DOMAIN index' <=> j \in DOMAIN index /\ j # id
  BY <1>5 DEF Without
<1>8. \A j \in DOMAIN index' : index'[j] = index[j]
  BY <1>5 DEF Without
<1>9. IndexLeads'
  <2>1. ASSUME NEW j \in DOMAIN index'
        PROVE  \E x \in Orders' : /\ x.id = j /\ x.node = index'[j].it
                                  /\ x.side = index'[j].side /\ x.price = index'[j].price
    BY <1>1, <1>4, <1>7, <1>8, <2>1 DEF IndexLeads
  <2> QED  BY <2>1 DEF IndexLeads
<1>10. TakerOK'
  BY <1>1, <1>2 DEF TakerOK
<1>11. Stay
  <2>1. \A d \in Orders' : \E c \in Orders : c.node = d.node
    BY <1>4
  <2>2. ASSUME NEW c \in Orders, NEW d \in Orders', Indexed(c), d.node = c.node PROVE Indexed(d)'
    <3>1. d = c /\ c # r
      BY <1>1, <1>4, <2>2 DEF NodesDiffer
    <3>2. c.id # id
      BY <1>1, <1>4, <2>2, <3>1 DEF NodesDiffer, Indexed
    <3> QED  BY <1>7, <1>8, <2>2, <3>1, <3>2 DEF Indexed
  <2> QED  BY <2>1, <2>2, StayByOrder
<1>12. P!Cancel
  BY <1>2, <1>4 DEF P!Cancel
<1> QED  BY <1>3, <1>6, <1>9, <1>10, <1>11, <1>12 DEF EngineInv, P!Next

-----------------------------------------------------------------------------
LEMMA InitEngine == Init => EngineInv /\ P!Init
<1> SUFFICES ASSUME Init PROVE EngineInv /\ P!Init
  OBVIOUS
<1>1. /\ book = [s \in Side |-> << >>] /\ index = << >> /\ next_node = 1
      /\ taker = << >> /\ filled = 0 /\ fill = << >>
  BY DEF Init, BookInit
<1>2. DOMAIN book = Side /\ \A s \in Side : DOMAIN book[s] = {}
  BY <1>1
<1>3. Orders = {}
  BY <1>2 DEF Orders, OrdersOn, Side
<1>4. BookOK
  BY <1>1, <1>2 DEF BookOK
<1>5. DOMAIN index = {}
  BY <1>1
<1>6. NodesDiffer /\ IndexLeads /\ BidsBelowAsks /\ TakerOK
  BY <1>1, <1>3, <1>5 DEF NodesDiffer, IndexLeads, BidsBelowAsks, TakerOK
<1> QED  BY <1>1, <1>3, <1>4, <1>6 DEF EngineInv, P!Init

LEMMA EngineStep == EngineInv /\ Next => EngineInv' /\ P!Next /\ Stay
<1> SUFFICES ASSUME EngineInv, Next PROVE EngineInv' /\ P!Next /\ Stay
  OBVIOUS
<1>1. CASE \E o \in Incoming : Submit(o)
  BY <1>1, SubmitStep, Zenon
<1>2. CASE Trade
  BY <1>2, TradeStep, Zenon
<1>3. CASE Return
  BY <1>3, RestStep, ExpireStep, Zenon
<1>4. CASE \E id \in OrderIds : Cancel(id)
  BY <1>4, CancelStep, Zenon
<1> QED  BY <1>1, <1>2, <1>3, <1>4, Zenon DEF Next

LEMMA EngineStutters == EngineInv /\ UNCHANGED vars => EngineInv' /\ UNCHANGED <<Orders, taker, filled, fill>>
<1> SUFFICES ASSUME EngineInv, UNCHANGED vars
             PROVE  EngineInv' /\ UNCHANGED <<Orders, taker, filled, fill>>
  OBVIOUS
<1>1. UNCHANGED bvars /\ taker' = taker /\ filled' = filled /\ fill' = fill
  BY DEF vars
<1>2. Orders' = Orders /\ BookOK' /\ NodesDiffer' /\ IndexLeads' /\ BidsBelowAsks'
  BY <1>1, BookUnchanged
<1>3. TakerOK'
  BY <1>1 DEF EngineInv, TakerOK
<1> QED  BY <1>1, <1>2, <1>3 DEF EngineInv

LEMMA EngineInvariant == Spec => []EngineInv
<1>1. EngineInv /\ [Next]_vars => EngineInv'
  BY EngineStep, EngineStutters
<1> QED  BY <1>1, InitEngine, PTL DEF Spec

(* Whatever orders and cancels come, in whatever order, the best bid stays *)
(* below the best ask, no level is left empty and no order rests with      *)
(* nothing to trade (submit, reduce_front, cancel).                        *)
THEOREM BookStaysUncrossed == Spec => []Uncrossed
<1>1. EngineInv => Uncrossed
  <2> SUFFICES ASSUME EngineInv PROVE Uncrossed
    OBVIOUS
  <2>1. BookOK /\ BidsBelowAsks
    BY DEF EngineInv
  <2>2. ASSUME NEW s \in Side, NEW p \in DOMAIN book[s]
        PROVE  /\ OrdersAt(s, p) # {}
               /\ \A o \in OrdersAt(s, p) : o \in Orders /\ o.side = s /\ o.price = p /\ o.qty > 0
    <3>1. /\ book[s][p] = LevelAt(s, p) /\ Level(s, p, book[s][p], next_node)
          /\ book[s][p] # << >> /\ p \in Prices
      BY <2>1 DEF BookOK, LevelAt
    <3>2. OrdersAt(s, p) = Members(LevelAt(s, p))
      BY <3>1 DEF OrdersAt, Members
    <3>3. LevelAt(s, p)[1] \in Members(LevelAt(s, p))
      BY <3>1, TailLevel, Zenon
    <3> QED  BY <2>1, <3>1, <3>2, <3>3, OrderFacts
  <2>3. \A b \in DOMAIN book["Buy"], a \in DOMAIN book["Sell"] : b < a
    <3> TAKE b \in DOMAIN book["Buy"], a \in DOMAIN book["Sell"]
    <3>1. PICK x \in OrdersAt("Buy", b) : x \in Orders /\ x.side = "Buy" /\ x.price = b
      BY <2>2 DEF Side
    <3>2. PICK y \in OrdersAt("Sell", a) : y \in Orders /\ y.side = "Sell" /\ y.price = a
      BY <2>2 DEF Side
    <3> QED  BY <2>1, <3>1, <3>2 DEF BidsBelowAsks
  <2> QED  BY <2>1, <2>2, <2>3 DEF Uncrossed, BookOK
<1> QED  BY <1>1, EngineInvariant, PTL

(* Every iterator in index_ points to a node that rests in the list of its *)
(* level and carries its id, also when callers reuse ids.                  *)
THEOREM IndexNeverDangles == Spec => []IndexSound
<1>1. EngineInv => IndexSound
  <2> SUFFICES ASSUME EngineInv, NEW id \in DOMAIN index
               PROVE  LET loc == index[id]
                      IN /\ loc.price \in DOMAIN book[loc.side]
                         /\ \E r \in OrdersAt(loc.side, loc.price) : r.node = loc.it /\ r.id = id
    BY DEF IndexSound
  <2>1. BookOK /\ IndexLeads
    BY DEF EngineInv
  <2>2. PICK r \in Orders : /\ r.id = id /\ r.node = index[id].it
                            /\ r.side = index[id].side /\ r.price = index[id].price
    BY <2>1 DEF IndexLeads
  <2>3. r.side \in Side /\ r.price \in DOMAIN book[r.side] /\ r.price \in Prices
    BY <2>1, OrderFacts
  <2>4. r \in Members(LevelAt(r.side, r.price))
    BY <2>1, <2>3, OrderFacts
  <2>5. r \in OrdersAt(r.side, r.price)
    BY <2>3, <2>4 DEF LevelAt, OrdersAt, Members
  <2> QED  BY <2>2, <2>3, <2>5
<1> QED  BY <1>1, EngineInvariant, PTL

(* An order that comes to rest can be cancelled by its id, and as long as  *)
(* it rests, through partial fills and the fills and cancels of others,    *)
(* unless another resting order bears its id.                              *)
THEOREM RestingStaysCancellable == Spec => StaysCancellable
<1>1. EngineInv /\ [Next]_vars =>
        [/\ (Nodes' \ Nodes) \subseteq Cancellable'
         /\ \A n \in Cancellable \cap Nodes' : n \in Cancellable' \/ Shared(n)]_vars
  BY EngineStep DEF Stay
<1> QED  BY <1>1, EngineInvariant, PTL DEF Spec, StaysCancellable

(* The levels, their lists and the index together implement strict         *)
(* price-time priority: every pass of submit's loop trades with the order  *)
(* that has priority among all those that cross, and every other call is   *)
(* an arrival, a rest, an expiry or a cancel of the abstract book.         *)
THEOREM EngineIsPriceTime == Spec => StrictPriority
<1>1. EngineInv /\ [Next]_vars => [P!Next]_<<Orders, taker, filled, fill>>
  BY EngineStep, EngineStutters
<1> QED  BY <1>1, InitEngine, EngineInvariant, PTL DEF Spec, StrictPriority, P!Spec

=============================================================================
