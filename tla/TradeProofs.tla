----------------------------- MODULE TradeProofs -----------------------------
(* Proofs about Trade, for any number of players, items, slots and amounts.    *)
EXTENDS Trade, FiniteSetTheorems, TLAPS

Inv == TypeOK /\ TradeSymmetric /\ OfferInv /\ PlaceInv /\ ConsentInv

MaybeTrade == TradeDataType \cup {None}
-----------------------------------------------------------------------------
(* The helpers of TradeData on functions t from players to trades: two players *)
(* p and q whose trades point at each other.                                   *)
Pair(t, p, q) ==
    /\ p \in Players /\ q \in Players /\ p # q
    /\ t \in [Players -> MaybeTrade]
    /\ t[p] \in TradeDataType /\ t[q] \in TradeDataType
    /\ t[p].trader = q /\ t[q].trader = p

(* Trades u differ from t in those of p and q only, and in those in nothing    *)
(* but money, spells, items and consents.                                      *)
SamePairs(u, t, p, q) ==
    /\ Pair(u, p, q)
    /\ \A x \in Players \ {p, q} : u[x] = t[x]

NoConsents(u, p, q) == ~u[p].accepted /\ ~u[q].accepted

(* Replacing the trade of one player of a pair.                                *)
LEMMA SetOne ==
  ASSUME NEW t, NEW p, NEW q, Pair(t, p, q), NEW e \in TradeDataType, e.trader = q
  PROVE  /\ SamePairs([t EXCEPT ![p] = e], t, p, q)
         /\ [t EXCEPT ![p] = e][p] = e /\ [t EXCEPT ![p] = e][q] = t[q]
  BY DEF Pair, SamePairs, MaybeTrade

(* It does not matter which of the two is named first.                         *)
LEMMA PairSym == \A t, p, q : Pair(t, p, q) <=> Pair(t, q, p)
  BY DEF Pair

(* What x offers is the same in both.                                          *)
SameGoods(u, t, x) == u[x].money = t[x].money /\ u[x].spell = t[x].spell /\ u[x].items = t[x].items

(* SetAccepted(false) takes back both consents and nothing else.               *)
LEMMA UnacceptedFacts ==
  ASSUME NEW t, NEW p, NEW q, Pair(t, p, q)
  PROVE  /\ SamePairs(Unaccepted(t, p), t, p, q) /\ NoConsents(Unaccepted(t, p), p, q)
         /\ SameGoods(Unaccepted(t, p), t, p) /\ SameGoods(Unaccepted(t, p), t, q)
  <1> DEFINE d == [t[p] EXCEPT !.accepted = FALSE]
             e == [t[q] EXCEPT !.accepted = FALSE]
             u == Unaccepted(t, p)
  <1>1. u = [x \in Players |-> IF x = q THEN e ELSE IF x = p THEN d ELSE t[x]]
    BY DEF Pair, Unaccepted
  <1>2. t[p] \in TradeDataType /\ t[q] \in TradeDataType
    BY DEF Pair
  <1>3. /\ d \in TradeDataType /\ ~d.accepted
        /\ d.trader = t[p].trader /\ d.money = t[p].money /\ d.spell = t[p].spell /\ d.items = t[p].items
    BY <1>2 DEF TradeDataType
  <1>4. /\ e \in TradeDataType /\ ~e.accepted
        /\ e.trader = t[q].trader /\ e.money = t[q].money /\ e.spell = t[q].spell /\ e.items = t[q].items
    BY <1>2 DEF TradeDataType
  <1> HIDE DEF d, e, u
  <1>5. u[p] = d /\ u[q] = e /\ (\A x \in Players \ {p, q} : u[x] = t[x]) /\ u \in [Players -> MaybeTrade]
    BY <1>1, <1>3, <1>4 DEF Pair, MaybeTrade
  <1>6. SamePairs(u, t, p, q)
    BY <1>3, <1>4, <1>5 DEF Pair, SamePairs
  <1>7. NoConsents(u, p, q) /\ SameGoods(u, t, p) /\ SameGoods(u, t, q)
    BY <1>3, <1>4, <1>5 DEF NoConsents, SameGoods
  <1>8. QED
    BY <1>6, <1>7 DEF u

(* What WithoutSpell returns when there are no consents.                       *)
LEMMA WithoutSpellFacts ==
  ASSUME NEW t, NEW p, NEW q, Pair(t, p, q), NoConsents(t, p, q)
  PROVE  /\ SamePairs(WithoutSpell(t, p), t, p, q) /\ NoConsents(WithoutSpell(t, p), p, q)
         /\ \A x \in {p, q} : /\ WithoutSpell(t, p)[x].money = t[x].money
                             /\ WithoutSpell(t, p)[x].items = t[x].items
  <1>1. CASE ~t[p].spell
    BY <1>1 DEF WithoutSpell, SamePairs
  <1>2. CASE t[p].spell
    <2> DEFINE d == [t[p] EXCEPT !.spell = FALSE]
               v == [t EXCEPT ![p] = d]
    <2>1. WithoutSpell(t, p) = Unaccepted(v, p)
      BY <1>2 DEF WithoutSpell
    <2>2. /\ d \in TradeDataType /\ d.trader = q /\ d.money = t[p].money /\ d.items = t[p].items
      BY DEF Pair, TradeDataType
    <2> HIDE DEF d
    <2>3. SamePairs(v, t, p, q) /\ v[p] = d /\ v[q] = t[q]
      BY <2>2, SetOne
    <2> HIDE DEF v
    <2>4. /\ SamePairs(Unaccepted(v, p), v, p, q) /\ NoConsents(Unaccepted(v, p), p, q)
          /\ SameGoods(Unaccepted(v, p), v, p) /\ SameGoods(Unaccepted(v, p), v, q)
      BY <2>3, UnacceptedFacts DEF SamePairs
    <2>5. QED
      BY <2>1, <2>2, <2>3, <2>4 DEF SamePairs, SameGoods
  <1>3. QED
    BY <1>1, <1>2

(* What WithItem returns.                                                      *)
LEMMA WithItemFacts ==
  ASSUME NEW t, NEW p, NEW q, Pair(t, p, q), NEW s \in TradeSlots, NEW i \in Items \cup {None}
  PROVE  /\ SamePairs(WithItem(t, p, s, i), t, p, q) /\ NoConsents(WithItem(t, p, s, i), p, q)
         /\ WithItem(t, p, s, i)[p].items = [t[p].items EXCEPT ![s] = i]
         /\ WithItem(t, p, s, i)[q].items = t[q].items
  <1> DEFINE d == [t[p] EXCEPT !.items[s] = i]
             w == [t EXCEPT ![p] = d]
             u == Unaccepted(w, p)
             v == IF s = TRADE_SLOT_NONTRADED THEN WithoutSpell(u, q) ELSE u
  <1>1. WithItem(t, p, s, i) = WithoutSpell(v, p)
    BY DEF WithItem, Pair
  <1>2. d \in TradeDataType /\ d.trader = q /\ d.items = [t[p].items EXCEPT ![s] = i]
    BY DEF Pair, TradeDataType
  <1> HIDE DEF d
  <1>3. SamePairs(w, t, p, q) /\ w[p] = d /\ w[q] = t[q]
    BY <1>2, SetOne
  <1> HIDE DEF w
  <1>4. SamePairs(u, w, p, q) /\ NoConsents(u, p, q) /\ u[p].items = d.items /\ u[q].items = t[q].items
    BY <1>3, UnacceptedFacts DEF SamePairs, SameGoods
  <1> HIDE DEF u
  <1>5. SamePairs(v, t, p, q) /\ NoConsents(v, p, q) /\ v[p].items = d.items /\ v[q].items = t[q].items
    <2>1. CASE s # TRADE_SLOT_NONTRADED
      BY <2>1, <1>3, <1>4 DEF SamePairs
    <2>2. CASE s = TRADE_SLOT_NONTRADED
      <3>1. Pair(u, q, p) /\ NoConsents(u, q, p)
        BY <1>4, PairSym DEF SamePairs, NoConsents
      <3>2. /\ SamePairs(WithoutSpell(u, q), u, q, p) /\ NoConsents(WithoutSpell(u, q), q, p)
            /\ \A x \in {q, p} : WithoutSpell(u, q)[x].items = u[x].items
        BY <3>1, WithoutSpellFacts
      <3>3. QED
        BY <2>2, <3>2, <1>3, <1>4, PairSym DEF SamePairs, NoConsents
    <2>3. QED
      BY <2>1, <2>2
  <1> HIDE DEF v
  <1>6. /\ SamePairs(WithoutSpell(v, p), v, p, q) /\ NoConsents(WithoutSpell(v, p), p, q)
        /\ \A x \in {p, q} : WithoutSpell(v, p)[x].items = v[x].items
    BY <1>5, WithoutSpellFacts DEF SamePairs
  <1>7. QED
    BY <1>1, <1>2, <1>5, <1>6 DEF SamePairs
-----------------------------------------------------------------------------
(* The invariants, player by player.                                           *)
OfferOf(p) ==
    m_trade[p] # None =>
      /\ \A s, t \in TradeSlots : m_trade[p].items[s] = m_trade[p].items[t] /\ m_trade[p].items[s] # None => s = t
      /\ Untouched(p) => \A s \in TradeSlots :
            m_trade[p].items[s] # None /\ m_trade[p].items[s] \notin gone[p] => m_trade[p].items[s] \in inventory[p]

ConsentOf(p) ==
    m_trade[p] # None /\ m_trade[p].accepted /\ Untouched(p) =>
      AsAgreed(agreed[p].mine, p) /\ AsAgreed(agreed[p].his, GetTrader(p))

(* The invariants are the conjunction of their parts...                        *)
LEMMA ByPlayer == /\ OfferInv <=> \A p \in Players : OfferOf(p)
                  /\ ConsentInv <=> DOMAIN agreed = Players /\ \A p \in Players : ConsentOf(p)
  BY DEF OfferInv, OfferOf, ConsentInv, ConsentOf

(* ... in the next state too.                                                  *)
LEMMA ByPlayerNext == /\ OfferInv' <=> \A p \in Players : OfferOf(p)'
                      /\ ConsentInv' <=> (DOMAIN agreed)' = Players /\ \A p \in Players : ConsentOf(p)'
  BY DEF OfferInv, OfferOf, ConsentInv, ConsentOf

(* A player who trades, and the one he trades with, are a pair.                *)
LEMMA TradersPair ==
  ASSUME TypeOK, TradeSymmetric, NEW p \in Players, m_trade[p] # None
  PROVE  Pair(m_trade, p, GetTrader(p))
  BY DEF TypeOK, TradeSymmetric, Pair, GetTrader, MaybeTrade, TradeDataType

(* The players outside a pair that a step is about: the step leaves them, what *)
(* they have and what they agreed to alone.                                    *)
Alone(x) ==
    /\ m_trade'[x] = m_trade[x] /\ inventory'[x] = inventory[x] /\ gone'[x] = gone[x]
    /\ m_trade[x] # None /\ m_trade[x].accepted => agreed'[x] = agreed[x]
    /\ Untouched(x)' => Untouched(x)
    /\ \A i \in inventory[x] : count'[i] = count[i]

(* Nobody else trades with p or q.                                             *)
Closed(p, q) == \A x \in Players \ {p, q} : m_trade[x] # None => m_trade[x].trader \in Players \ {p, q}

(* The partners of a pair are each other's only partners.                      *)
LEMMA PairClosed ==
  ASSUME Inv, NEW p, NEW q, Pair(m_trade, p, q)
  PROVE  Closed(p, q)
  BY DEF Inv, TypeOK, TradeSymmetric, Pair, GetTrader, TradeDataType, Closed

(* The others still trade with each other.                                     *)
Symmetric(x) ==
    m_trade[x] # None => /\ x # m_trade[x].trader /\ m_trade[m_trade[x].trader] # None
                         /\ m_trade[m_trade[x].trader].trader = x

(* A step that leaves the trades of the others as they are keeps them          *)
(* paired.                                                                     *)
LEMMA OthersSymmetric ==
  ASSUME Inv, NEW p, NEW q, Closed(p, q), \A x \in Players \ {p, q} : m_trade'[x] = m_trade[x]
  PROVE  \A x \in Players \ {p, q} : Symmetric(x)'
  <1> SUFFICES ASSUME NEW x \in Players \ {p, q}, m_trade'[x] # None PROVE Symmetric(x)'
    BY DEF Symmetric
  <1>1. m_trade'[x] = m_trade[x]
    OBVIOUS
  <1>2. PICK y : y = m_trade[x].trader /\ x # y /\ m_trade[y] # None /\ m_trade[y].trader = x
    BY <1>1 DEF Inv, TradeSymmetric, GetTrader
  <1>3. y \in Players \ {p, q}
    BY <1>1, <1>2 DEF Closed
  <1>4. m_trade'[y] = m_trade[y]
    BY <1>3
  <1>5. QED
    BY <1>1, <1>2, <1>4 DEF Symmetric

(* A step that leaves the others alone keeps their offers and consents         *)
(* valid.                                                                      *)
LEMMA OthersKeep ==
  ASSUME Inv, NEW p, NEW q, Closed(p, q), \A x \in Players \ {p, q} : Alone(x)
  PROVE  \A x \in Players \ {p, q} : OfferOf(x)' /\ ConsentOf(x)'
  <1> SUFFICES ASSUME NEW x \in Players \ {p, q} PROVE OfferOf(x)' /\ ConsentOf(x)'
    OBVIOUS
  <1>1. OfferOf(x) /\ ConsentOf(x) /\ Alone(x)
    BY ByPlayer DEF Inv
  <1>2. OfferOf(x)'
    BY <1>1 DEF OfferOf, Alone
  <1>3. ConsentOf(x)'
    <2> SUFFICES ASSUME m_trade[x] # None, m_trade[x].accepted, Untouched(x)
                 PROVE  (AsAgreed(agreed[x].mine, x) /\ AsAgreed(agreed[x].his, GetTrader(x)))'
      BY <1>1 DEF ConsentOf, Alone
    <2>1. PICK y \in Players \ {p, q} : y = m_trade[x].trader
      BY DEF Closed
    <2>2. AsAgreed(agreed[x].mine, x) /\ AsAgreed(agreed[x].his, y)
      BY <1>1, <2>1 DEF ConsentOf, GetTrader
    <2>3. agreed'[x] = agreed[x] /\ m_trade'[x].trader = y /\ Alone(y)
      BY <1>1, <2>1 DEF Alone
    <2>4. AsAgreed(agreed[x].mine, x)'
      BY <1>1, <2>2, <2>3 DEF AsAgreed, Alone
    <2>5. AsAgreed(agreed[x].his, GetTrader(x))'
      BY <2>2, <2>3 DEF AsAgreed, Alone, GetTrader
    <2>6. QED
      BY <2>4, <2>5
  <1>4. QED
    BY <1>2, <1>3
-----------------------------------------------------------------------------
(* A handler that prepares a trade: it changes the trades of a pair, the       *)
(* history of consents, and nothing that anybody has.                          *)
PairStep(p, q) ==
    /\ Pair(m_trade, p, q) /\ step = "idle"
    /\ SamePairs(m_trade', m_trade, p, q)
    /\ UNCHANGED <<inventory, world, handler>>
    /\ \A x \in Players \ {p, q} : \A i \in inventory[x] : count'[i] = count[i]

History(p, q, now) ==
    /\ agreed' = Consents(m_trade', now)
    /\ \A x \in Players \ {p, q} : now[x] = agreed[x] /\ gone'[x] = gone[x]

(* What is left to show of a handler is about the two players it concerns.     *)
LEMMA HandlerStep ==
  ASSUME Inv, NEW p, NEW q, PairStep(p, q), NEW now, History(p, q, now),
         OfferOf(p)', OfferOf(q)', ConsentOf(p)', ConsentOf(q)'
  PROVE  TradeSymmetric' /\ OfferInv' /\ PlaceInv' /\ ConsentInv'
  <1>1. TradeSymmetric'
    <2>1. step' = "idle"
      BY DEF PairStep, handler
    <2>2. \A x \in Players \ {p, q} : Symmetric(x)'
      BY PairClosed, OthersSymmetric DEF PairStep, SamePairs
    <2>3. Symmetric(p)' /\ Symmetric(q)'
      BY NoTradeAssumption DEF PairStep, SamePairs, Pair, Symmetric
    <2>4. QED
      BY <2>1, <2>2, <2>3 DEF TradeSymmetric, GetTrader, Symmetric
  <1>2. PlaceInv'
    BY DEF Inv, PlaceInv, PairStep, handler
  <1>3. (DOMAIN agreed)' = Players
    BY DEF History, Consents
  <1>4. \A x \in Players \ {p, q} : Alone(x)
    <2> SUFFICES ASSUME NEW x \in Players \ {p, q} PROVE Alone(x)
      OBVIOUS
    <2>1. m_trade'[x] = m_trade[x] /\ inventory' = inventory /\ (\A i \in inventory[x] : count'[i] = count[i]) /\ step = "idle"
      BY DEF PairStep, SamePairs
    <2>2. m_trade[x] # None /\ m_trade[x].accepted => agreed'[x] = agreed[x]
      BY <2>1 DEF History, Consents
    <2>3. QED
      BY <2>1, <2>2 DEF Alone, History, Untouched
  <1>5. \A x \in Players : OfferOf(x)' /\ ConsentOf(x)'
    BY <1>4, PairClosed, OthersKeep DEF PairStep
  <1>6. QED
    BY <1>1, <1>2, <1>3, <1>5, ByPlayerNext

(* The items of the pair stay in their slots.                                  *)
LEMMA SameItems ==
  ASSUME Inv, NEW p, NEW q, PairStep(p, q), gone' = gone,
         m_trade'[p].items = m_trade[p].items, m_trade'[q].items = m_trade[q].items
  PROVE  OfferOf(p)' /\ OfferOf(q)'
  <1>1. /\ p \in Players /\ q \in Players /\ m_trade[p] # None /\ m_trade[q] # None
        /\ inventory' = inventory /\ Untouched(p) /\ Untouched(q)
    BY NoTradeAssumption DEF PairStep, Pair, Untouched
  <1>2. OfferOf(p) /\ OfferOf(q)
    BY <1>1, ByPlayer DEF Inv
  <1>3. QED
    BY <1>1, <1>2 DEF OfferOf

(* Consents that were taken back.                                              *)
LEMMA TakenBack ==
  ASSUME NEW p, NEW q, NoConsents(m_trade', p, q)
  PROVE  ConsentOf(p)' /\ ConsentOf(q)'
  BY DEF NoConsents, ConsentOf

(* The consent that p gives now and the one that q gave before.                *)
LEMMA GivenNow ==
  ASSUME Inv, NEW p, NEW q, PairStep(p, q), gone' = gone, count' = count,
         SameGoods(m_trade', m_trade, p), SameGoods(m_trade', m_trade, q),
         m_trade'[p].accepted => agreed'[p] = Offers(p),
         m_trade'[q].accepted => m_trade[q].accepted /\ agreed'[q] = agreed[q]
  PROVE  ConsentOf(p)' /\ ConsentOf(q)'
  <1>1. /\ p \in Players /\ q \in Players /\ m_trade[p] # None /\ m_trade[q] # None
        /\ m_trade[p].trader = q /\ m_trade[q].trader = p
        /\ m_trade'[p].trader = q /\ m_trade'[q].trader = p
        /\ inventory' = inventory /\ count' = count /\ Untouched(p) /\ Untouched(q)
    BY NoTradeAssumption DEF PairStep, Pair, Untouched, SamePairs
  <1>2. OfferOf(p) /\ OfferOf(q) /\ ConsentOf(q)
    BY <1>1, ByPlayer DEF Inv
  <1>3. ConsentOf(p)'
    <2> SUFFICES ASSUME agreed'[p] = Offers(p)
                 PROVE  (AsAgreed(agreed[p].mine, p) /\ AsAgreed(agreed[p].his, GetTrader(p)))'
      BY DEF ConsentOf
    <2>1. agreed'[p].mine = Offer(p) /\ agreed'[p].his = Offer(q) /\ GetTrader(p)' = q
      BY <1>1 DEF Offers, GetTrader
    <2>2. AsAgreed(agreed[p].mine, p)'
      BY <1>1, <1>2, <2>1 DEF AsAgreed, Offer, OfferOf, SameGoods
    <2>3. AsAgreed(agreed[p].his, q)'
      BY <1>1, <1>2, <2>1 DEF AsAgreed, Offer, OfferOf, SameGoods
    <2>4. QED
      BY <2>1, <2>2, <2>3
  <1>4. ConsentOf(q)'
    <2> SUFFICES ASSUME m_trade[q].accepted, agreed'[q] = agreed[q]
                 PROVE  (AsAgreed(agreed[q].mine, q) /\ AsAgreed(agreed[q].his, GetTrader(q)))'
      BY DEF ConsentOf
    <2>1. AsAgreed(agreed[q].mine, q) /\ AsAgreed(agreed[q].his, p)
      BY <1>1, <1>2 DEF ConsentOf, GetTrader
    <2>2. AsAgreed(agreed[q].mine, q)'
      BY <1>1, <2>1 DEF AsAgreed, SameGoods
    <2>3. AsAgreed(agreed[q].his, p)'
      BY <1>1, <2>1 DEF AsAgreed, SameGoods
    <2>4. QED
      BY <1>1, <2>2, <2>3 DEF GetTrader
  <1>5. QED
    BY <1>3, <1>4

(* Such a handler keeps the types.                                             *)
LEMMA HandlerType ==
  ASSUME TypeOK, NEW p, NEW q, PairStep(p, q), UNCHANGED <<clones, bound, money>>,
         count' \in [Items -> 1..2], events' \in 0..MaxEvents, gone' \in [Players -> SUBSET Items]
  PROVE  TypeOK'
  <1>1. m_trade' \in [Players -> TradeDataType \cup {None}]
    BY DEF PairStep, SamePairs, Pair, MaybeTrade
  <1>2. UNCHANGED <<inventory, clones, world, bound, money, step, who, slot, myItems, hisItems, unchecked>>
    BY DEF PairStep, handler
  <1>3. QED
    BY <1>1, <1>2 DEF TypeOK

(* Both consents are taken back, the items stay in their slots.                *)
LEMMA KeptItemsStep ==
  ASSUME Inv, NEW p, NEW q, Pair(m_trade, p, q), step = "idle", NEW now,
         SamePairs(m_trade', m_trade, p, q), NoConsents(m_trade', p, q),
         m_trade'[p].items = m_trade[p].items, m_trade'[q].items = m_trade[q].items,
         agreed' = Consents(m_trade', now), \A x \in Players \ {p, q} : now[x] = agreed[x],
         UNCHANGED <<inventory, clones, world, bound, money, handler, gone>>,
         count' \in [Items -> 1..2], \A x \in Players \ {p, q} : \A i \in inventory[x] : count'[i] = count[i],
         events' \in 0..MaxEvents
  PROVE  Inv'
  <1>1. PairStep(p, q) /\ UNCHANGED <<clones, bound, money>> /\ gone' = gone
    BY DEF PairStep
  <1>2. OfferOf(p)' /\ OfferOf(q)'
    BY <1>1, SameItems
  <1>3. ConsentOf(p)' /\ ConsentOf(q)'
    BY TakenBack
  <1>4. History(p, q, now)
    BY <1>1 DEF History
  <1>5. TypeOK'
    BY <1>1, HandlerType DEF Inv, TypeOK
  <1>6. QED
    BY <1>1, <1>2, <1>3, <1>4, <1>5, HandlerStep DEF Inv

(* The offer of p changes but for its items.                                   *)
Changed(t, p, e) == Unaccepted([t EXCEPT ![p] = e], p)

(* Changed replaces the offer and takes back both consents.                    *)
LEMMA ChangedFacts ==
  ASSUME NEW t, NEW p, NEW q, Pair(t, p, q), NEW e \in TradeDataType, e.trader = q
  PROVE  /\ SamePairs(Changed(t, p, e), t, p, q) /\ NoConsents(Changed(t, p, e), p, q)
         /\ Changed(t, p, e)[p].items = e.items /\ Changed(t, p, e)[q].items = t[q].items
  <1> DEFINE v == [t EXCEPT ![p] = e]
  <1>1. SamePairs(v, t, p, q) /\ v[p] = e /\ v[q] = t[q]
    BY SetOne
  <1>2. Changed(t, p, e) = Unaccepted(v, p)
    BY DEF Changed
  <1> HIDE DEF v
  <1>3. Pair(v, p, q)
    BY <1>1 DEF SamePairs
  <1>4. /\ SamePairs(Unaccepted(v, p), v, p, q) /\ NoConsents(Unaccepted(v, p), p, q)
        /\ SameGoods(Unaccepted(v, p), v, p) /\ SameGoods(Unaccepted(v, p), v, q)
    BY <1>3, UnacceptedFacts
  <1>5. QED
    BY <1>1, <1>2, <1>4 DEF SamePairs, SameGoods

(* SetMoney, SetSpell.                                                         *)
LEMMA OfferStep ==
  ASSUME Inv, NEW p, NEW q, Pair(m_trade, p, q), step = "idle",
         NEW e \in TradeDataType, e.trader = q, e.items = m_trade[p].items,
         m_trade' = Changed(m_trade, p, e),
         agreed' = Consents(m_trade', agreed), UNCHANGED <<goods, handler, gone, events>>
  PROVE  Inv'
  <1>1. /\ SamePairs(m_trade', m_trade, p, q) /\ NoConsents(m_trade', p, q)
        /\ m_trade'[p].items = m_trade[p].items /\ m_trade'[q].items = m_trade[q].items
    BY ChangedFacts
  <1>2. /\ UNCHANGED <<inventory, clones, world, bound, money, handler, gone>>
        /\ count' \in [Items -> 1..2] /\ count' = count /\ events' \in 0..MaxEvents
    BY DEF goods, Inv, TypeOK
  <1>3. QED
    BY <1>1, <1>2, KeptItemsStep

(* HandleSetTradeGoldOpcode keeps the invariant.                               *)
LEMMA GoldStep ==
  ASSUME Inv, NEW p \in Players, NEW amount \in Amounts, HandleSetTradeGoldOpcode(p, amount)
  PROVE  Inv'
  <1>1. Pair(m_trade, p, m_trade[p].trader) /\ step = "idle"
    BY TradersPair DEF Inv, HandleSetTradeGoldOpcode, Trading, GetTrader
  <1> DEFINE e == [m_trade[p] EXCEPT !.money = amount]
  <1>2. e \in TradeDataType /\ e.trader = m_trade[p].trader /\ e.items = m_trade[p].items
    BY <1>1, AmountsAssumption DEF Pair, TradeDataType
  <1>3. m_trade' = Changed(m_trade, p, e)
    BY DEF HandleSetTradeGoldOpcode, Changed
  <1> HIDE DEF e
  <1>4. QED
    BY <1>1, <1>2, <1>3, OfferStep DEF HandleSetTradeGoldOpcode

(* SetSpell keeps the invariant.                                               *)
LEMMA SpellStep ==
  ASSUME Inv, NEW p \in Players, SetSpell(p)
  PROVE  Inv'
  <1>1. Pair(m_trade, p, m_trade[p].trader) /\ step = "idle"
    BY TradersPair DEF Inv, SetSpell, Trading, GetTrader
  <1> DEFINE e == [m_trade[p] EXCEPT !.spell = TRUE]
  <1>2. e \in TradeDataType /\ e.trader = m_trade[p].trader /\ e.items = m_trade[p].items
    BY <1>1 DEF Pair, TradeDataType
  <1>3. m_trade' = Changed(m_trade, p, e)
    BY DEF SetSpell, Changed
  <1> HIDE DEF e
  <1>4. QED
    BY <1>1, <1>2, <1>3, OfferStep DEF SetSpell

(* SetItem: a slot changes, both consents are taken back.                      *)
LEMMA ItemStep ==
  ASSUME Inv, NEW p, NEW q, Pair(m_trade, p, q), step = "idle",
         NEW s \in TradeSlots, NEW i \in Items \cup {None},
         i # None => i \in inventory[p] /\ \A t \in TradeSlots : m_trade[p].items[t] # i,
         m_trade' = WithItem(m_trade, p, s, i),
         gone' = gone \/ gone' = [gone EXCEPT ![p] = @ \ {i}],
         agreed' = Consents(m_trade', agreed), UNCHANGED <<goods, handler, events>>
  PROVE  Inv'
  <1>1. /\ SamePairs(m_trade', m_trade, p, q) /\ NoConsents(m_trade', p, q)
        /\ m_trade'[p].items = [m_trade[p].items EXCEPT ![s] = i]
        /\ m_trade'[q].items = m_trade[q].items
    BY WithItemFacts
  <1>2. /\ p \in Players /\ q \in Players /\ p # q /\ m_trade[p] # None /\ m_trade[q] # None
        /\ m_trade[p].items \in [TradeSlots -> Items \cup {None}]
        /\ inventory' = inventory /\ Untouched(p) /\ Untouched(q)
    BY NoTradeAssumption DEF Pair, Untouched, TradeDataType, goods
  <1>3. OfferOf(p) /\ OfferOf(q)
    BY <1>2, ByPlayer DEF Inv
  <1>4. /\ gone' \in [Players -> SUBSET Items]
        /\ \A x \in Players \ {p} : gone'[x] = gone[x]
        /\ gone[p] \subseteq gone'[p] \cup {i}
    BY <1>2 DEF Inv, TypeOK
  <1>5. OfferOf(p)'
    <2> DEFINE old == m_trade[p].items
    <2>1. \A t \in TradeSlots : m_trade'[p].items[t] = IF t = s THEN i ELSE old[t]
      BY <1>1, <1>2
    <2>2. \A t, u \in TradeSlots : old[t] = old[u] /\ old[t] # None => t = u
      BY <1>2, <1>3 DEF OfferOf
    <2>3. \A t \in TradeSlots : old[t] # None /\ old[t] \notin gone[p] => old[t] \in inventory[p]
      BY <1>2, <1>3 DEF OfferOf
    <2>4. i # None => \A t \in TradeSlots : old[t] # i
      OBVIOUS
    <2> HIDE DEF old
    <2>5. \A t, u \in TradeSlots : m_trade'[p].items[t] = m_trade'[p].items[u] /\ m_trade'[p].items[t] # None => t = u
      BY <2>1, <2>2, <2>4
    <2>6. \A t \in TradeSlots : m_trade'[p].items[t] # None /\ m_trade'[p].items[t] \notin gone'[p]
                                 => m_trade'[p].items[t] \in inventory'[p]
      BY <2>1, <2>3, <2>4, <1>2, <1>4
    <2>7. QED
      BY <2>5, <2>6 DEF OfferOf
  <1>6. OfferOf(q)'
    BY <1>1, <1>2, <1>3, <1>4 DEF OfferOf
  <1>7. ConsentOf(p)' /\ ConsentOf(q)'
    BY <1>1, TakenBack
  <1>8. PairStep(p, q) /\ UNCHANGED <<clones, bound, money, events>>
    BY <1>1 DEF PairStep, goods
  <1>9. History(p, q, agreed)
    BY <1>4 DEF History
  <1>10. TypeOK'
    BY <1>4, <1>8, HandlerType DEF Inv, TypeOK, goods
  <1>11. QED
    BY <1>5, <1>6, <1>7, <1>8, <1>9, <1>10, HandlerStep DEF Inv

(* HandleSetTradeItemOpcode keeps the invariant: the item was in no slot.      *)
LEMMA SetItemStep ==
  ASSUME Inv, NEW p \in Players, NEW s \in TradeSlots, NEW i \in Items, HandleSetTradeItemOpcode(p, s, i)
  PROVE  Inv'
  <1>1. Pair(m_trade, p, m_trade[p].trader) /\ step = "idle"
    BY TradersPair DEF Inv, HandleSetTradeItemOpcode, Trading, GetTrader
  <1>2. QED
    BY <1>1, ItemStep DEF HandleSetTradeItemOpcode, HasItem

(* HandleClearTradeItemOpcode keeps the invariant.                             *)
LEMMA ClearItemStep ==
  ASSUME Inv, NEW p \in Players, NEW s \in TradeSlots, HandleClearTradeItemOpcode(p, s)
  PROVE  Inv'
  <1>1. Pair(m_trade, p, m_trade[p].trader) /\ step = "idle"
    BY TradersPair DEF Inv, HandleClearTradeItemOpcode, Trading, GetTrader
  <1>2. QED
    BY <1>1, ItemStep DEF HandleClearTradeItemOpcode

(* The consent of one player is set.                                           *)
Given(t, p) == [t EXCEPT ![p].accepted = TRUE]
TakenFrom(t, p) == [t EXCEPT ![p].accepted = FALSE]

(* Given sets one consent and nothing else.                                    *)
LEMMA GivenFacts ==
  ASSUME NEW t, NEW p, NEW q, Pair(t, p, q)
  PROVE  /\ SamePairs(Given(t, p), t, p, q)
         /\ SameGoods(Given(t, p), t, p) /\ SameGoods(Given(t, p), t, q)
         /\ Given(t, p)[p].accepted /\ Given(t, p)[q] = t[q]
  <1> DEFINE e == [t[p] EXCEPT !.accepted = TRUE]
  <1>1. /\ e \in TradeDataType /\ e.trader = q /\ e.accepted
        /\ e.money = t[p].money /\ e.spell = t[p].spell /\ e.items = t[p].items
    BY DEF Pair, TradeDataType
  <1>2. Given(t, p) = [t EXCEPT ![p] = e]
    BY DEF Given
  <1> HIDE DEF e
  <1>3. SamePairs([t EXCEPT ![p] = e], t, p, q) /\ [t EXCEPT ![p] = e][p] = e /\ [t EXCEPT ![p] = e][q] = t[q]
    BY <1>1, SetOne
  <1>4. QED
    BY <1>1, <1>2, <1>3 DEF SameGoods

(* TakenFrom clears one consent and nothing else.                              *)
LEMMA TakenFacts ==
  ASSUME NEW t, NEW p, NEW q, Pair(t, p, q)
  PROVE  /\ SamePairs(TakenFrom(t, p), t, p, q)
         /\ SameGoods(TakenFrom(t, p), t, p) /\ SameGoods(TakenFrom(t, p), t, q)
         /\ ~TakenFrom(t, p)[p].accepted /\ TakenFrom(t, p)[q] = t[q]
  <1> DEFINE e == [t[p] EXCEPT !.accepted = FALSE]
  <1>1. /\ e \in TradeDataType /\ e.trader = q /\ ~e.accepted
        /\ e.money = t[p].money /\ e.spell = t[p].spell /\ e.items = t[p].items
    BY DEF Pair, TradeDataType
  <1>2. TakenFrom(t, p) = [t EXCEPT ![p] = e]
    BY DEF TakenFrom
  <1> HIDE DEF e
  <1>3. SamePairs([t EXCEPT ![p] = e], t, p, q) /\ [t EXCEPT ![p] = e][p] = e /\ [t EXCEPT ![p] = e][q] = t[q]
    BY <1>1, SetOne
  <1>4. QED
    BY <1>1, <1>2, <1>3 DEF SameGoods

(* Handlers that change consents only.                                         *)
LEMMA AcceptStep ==
  ASSUME Inv, NEW p, NEW q, Pair(m_trade, p, q), step = "idle", NEW now,
         SamePairs(m_trade', m_trade, p, q),
         SameGoods(m_trade', m_trade, p), SameGoods(m_trade', m_trade, q),
         m_trade'[p].accepted => now[p] = Offers(p),
         m_trade'[q].accepted => m_trade[q].accepted,
         \A x \in Players \ {p} : now[x] = agreed[x],
         agreed' = Consents(m_trade', now),
         UNCHANGED <<goods, handler, gone, events>>
  PROVE  Inv'
  <1>1. PairStep(p, q) /\ UNCHANGED <<clones, bound, money, events>> /\ gone' = gone /\ count' = count
    BY DEF PairStep, goods
  <1>2. OfferOf(p)' /\ OfferOf(q)'
    BY <1>1, SameItems DEF SameGoods
  <1>3. /\ m_trade'[p].accepted => agreed'[p] = Offers(p)
        /\ m_trade'[q].accepted => m_trade[q].accepted /\ agreed'[q] = agreed[q]
    BY NoTradeAssumption DEF Consents, Pair, SamePairs
  <1>4. ConsentOf(p)' /\ ConsentOf(q)'
    BY <1>1, <1>3, GivenNow
  <1>5. History(p, q, now)
    BY <1>1 DEF History
  <1>6. TypeOK'
    BY <1>1, HandlerType DEF Inv, TypeOK
  <1>7. QED
    BY <1>1, <1>2, <1>4, <1>5, <1>6, HandlerStep DEF Inv

(* HandleUnacceptTradeOpcode keeps the invariant.                              *)
LEMMA UnacceptStep ==
  ASSUME Inv, NEW p \in Players, HandleUnacceptTradeOpcode(p)
  PROVE  Inv'
  <1>1. PICK q : Pair(m_trade, p, q) /\ step = "idle"
    BY TradersPair DEF Inv, HandleUnacceptTradeOpcode, Trading
  <1>2. m_trade' = TakenFrom(m_trade, p)
    BY DEF HandleUnacceptTradeOpcode, TakenFrom
  <1>3. /\ SamePairs(m_trade', m_trade, p, q) /\ SameGoods(m_trade', m_trade, p) /\ SameGoods(m_trade', m_trade, q)
        /\ ~m_trade'[p].accepted /\ m_trade'[q] = m_trade[q]
    BY <1>1, <1>2, TakenFacts
  <1>4. /\ agreed' = Consents(m_trade', agreed) /\ UNCHANGED <<goods, handler, gone, events>>
        /\ m_trade'[p].accepted => agreed[p] = Offers(p)
        /\ m_trade'[q].accepted => m_trade[q].accepted
    BY <1>3 DEF HandleUnacceptTradeOpcode
  <1>5. QED
    BY <1>1, <1>3, <1>4, AcceptStep

(* The accept packet, when it comes to nothing.                                *)
LEMMA AcceptingFacts ==
  ASSUME Inv, NEW p \in Players, Accepting(p), UNCHANGED <<inventory, handler>>
  PROVE  /\ Pair(m_trade, p, GetTrader(p)) /\ step = "idle"
         /\ UNCHANGED <<goods, handler, gone, events>>
         /\ [agreed EXCEPT ![p] = Offers(p)][p] = Offers(p)
         /\ \A x \in Players \ {p} : [agreed EXCEPT ![p] = Offers(p)][x] = agreed[x]
  BY TradersPair DEF Inv, Accepting, Trading, goods, ConsentInv

(* An accept packet that does not begin the exchange keeps the invariant.      *)
LEMMA AcceptOutcome ==
  ASSUME Inv, NEW p \in Players, Accepting(p), UNCHANGED <<inventory, handler>>,
         NEW q, q = GetTrader(p), SamePairs(m_trade', m_trade, p, q),
         SameGoods(m_trade', m_trade, p), SameGoods(m_trade', m_trade, q),
         m_trade'[q].accepted => m_trade[q].accepted,
         agreed' = Consents(m_trade', [agreed EXCEPT ![p] = Offers(p)])
  PROVE  Inv'
  <1> DEFINE now == [agreed EXCEPT ![p] = Offers(p)]
  <1>1. agreed' = Consents(m_trade', now)
    OBVIOUS
  <1>2. /\ Pair(m_trade, p, q) /\ step = "idle" /\ UNCHANGED <<goods, handler, gone, events>>
        /\ now[p] = Offers(p) /\ \A x \in Players \ {p} : now[x] = agreed[x]
    BY AcceptingFacts
  <1> HIDE DEF now
  <1>3. QED
    BY <1>1, <1>2, AcceptStep

(* Refusals and the first consent: each is a change of consents.               *)
LEMMA TooFarStep ==
  ASSUME Inv, NEW p \in Players, AcceptTooFar(p)
  PROVE  Inv'
  <1>1. UNCHANGED <<inventory, handler>> /\ Accepting(p)
    BY DEF AcceptTooFar
  <1>2. PICK q : q = GetTrader(p) /\ Pair(m_trade, p, q)
    BY <1>1, AcceptingFacts
  <1>3. m_trade' = TakenFrom(m_trade, p) /\ agreed' = Consents(m_trade', [agreed EXCEPT ![p] = Offers(p)])
    BY DEF AcceptTooFar, TakenFrom
  <1>4. /\ SamePairs(m_trade', m_trade, p, q) /\ SameGoods(m_trade', m_trade, p) /\ SameGoods(m_trade', m_trade, q)
        /\ m_trade'[q] = m_trade[q]
    BY <1>2, <1>3, TakenFacts
  <1>5. m_trade'[q].accepted => m_trade[q].accepted
    BY <1>4
  <1>6. QED
    BY <1>1, <1>2, <1>3, <1>4, <1>5, AcceptOutcome

(* The first consent.                                                          *)
LEMMA FirstStep ==
  ASSUME Inv, NEW p \in Players, AcceptFirst(p)
  PROVE  Inv'
  <1>1. UNCHANGED <<inventory, handler>> /\ Accepting(p)
    BY DEF AcceptFirst
  <1>2. PICK q : q = GetTrader(p) /\ Pair(m_trade, p, q)
    BY <1>1, AcceptingFacts
  <1>3. m_trade' = Given(m_trade, p) /\ agreed' = Consents(m_trade', [agreed EXCEPT ![p] = Offers(p)])
    BY DEF AcceptFirst, Given
  <1>4. /\ SamePairs(m_trade', m_trade, p, q) /\ SameGoods(m_trade', m_trade, p) /\ SameGoods(m_trade', m_trade, q)
        /\ m_trade'[q] = m_trade[q]
    BY <1>2, <1>3, GivenFacts
  <1>5. m_trade'[q].accepted => m_trade[q].accepted
    BY <1>4
  <1>6. QED
    BY <1>1, <1>2, <1>3, <1>4, <1>5, AcceptOutcome

(* The items do not fit: both consents are taken back.                         *)
LEMMA NoRoomStep ==
  ASSUME Inv, NEW p \in Players, AcceptNoRoom(p)
  PROVE  Inv'
  <1>1. UNCHANGED <<inventory, handler>> /\ Accepting(p)
    BY DEF AcceptNoRoom, BothAccept
  <1>2. PICK q : q = GetTrader(p) /\ Pair(m_trade, p, q)
    BY <1>1, AcceptingFacts
  <1>3. m_trade' = Unaccepted(m_trade, p) /\ agreed' = Consents(m_trade', [agreed EXCEPT ![p] = Offers(p)])
    BY DEF AcceptNoRoom
  <1>4. /\ SamePairs(m_trade', m_trade, p, q) /\ SameGoods(m_trade', m_trade, p) /\ SameGoods(m_trade', m_trade, q)
        /\ NoConsents(m_trade', p, q)
    BY <1>2, <1>3, UnacceptedFacts
  <1>5. m_trade'[q].accepted => m_trade[q].accepted
    BY <1>4 DEF NoConsents
  <1>6. QED
    BY <1>1, <1>2, <1>3, <1>4, <1>5, AcceptOutcome

(* An objection: the consent of either player may be taken back.               *)
LEMMA RefusedStep ==
  ASSUME Inv, NEW p \in Players, AcceptRefused(p)
  PROVE  Inv'
  <1>1. UNCHANGED <<inventory, handler>> /\ Accepting(p)
    BY DEF AcceptRefused
  <1>2. PICK q : q = GetTrader(p) /\ Pair(m_trade, p, q)
    BY <1>1, AcceptingFacts
  <1>3. agreed' = Consents(m_trade', [agreed EXCEPT ![p] = Offers(p)])
    BY DEF AcceptRefused
  <1>4. m_trade' \in {TakenFrom(m_trade, p), TakenFrom(Given(m_trade, p), q), Given(m_trade, p)}
    BY <1>2 DEF AcceptRefused, TakenFrom, Given
  <1>5. /\ SamePairs(m_trade', m_trade, p, q) /\ SameGoods(m_trade', m_trade, p) /\ SameGoods(m_trade', m_trade, q)
        /\ m_trade'[q].accepted => m_trade[q].accepted
    <2>1. CASE m_trade' = TakenFrom(m_trade, p)
      BY <1>2, <2>1, TakenFacts
    <2>2. CASE m_trade' = Given(m_trade, p)
      BY <1>2, <2>2, GivenFacts
    <2>3. CASE m_trade' = TakenFrom(Given(m_trade, p), q)
      <3> DEFINE t == Given(m_trade, p)
      <3>1. SamePairs(t, m_trade, p, q) /\ SameGoods(t, m_trade, p) /\ SameGoods(t, m_trade, q)
        BY <1>2, GivenFacts
      <3>2. m_trade' = TakenFrom(t, q)
        BY <2>3
      <3> HIDE DEF t
      <3>3. Pair(t, q, p)
        BY <3>1, PairSym DEF SamePairs
      <3>4. SamePairs(m_trade', t, q, p) /\ SameGoods(m_trade', t, q) /\ SameGoods(m_trade', t, p) /\ ~m_trade'[q].accepted
        BY <3>2, <3>3, TakenFacts
      <3>5. QED
        BY <3>1, <3>4, PairSym DEF SamePairs, SameGoods
    <2>4. QED
      BY <1>4, <2>1, <2>2, <2>3
  <1>6. QED
    BY <1>1, <1>2, <1>3, <1>5, AcceptOutcome

(* The spell of one of the two fails and is forgotten.                         *)
LEMMA SpellFailsStep ==
  ASSUME Inv, NEW p \in Players, AcceptSpellFails(p)
  PROVE  Inv'
  <1>1. UNCHANGED <<inventory, handler>> /\ Accepting(p)
    BY DEF AcceptSpellFails, BothAccept
  <1>2. PICK q : q = GetTrader(p) /\ Pair(m_trade, p, q)
    BY <1>1, AcceptingFacts
  <1>3. PICK x \in {p, q} : m_trade[x].spell /\ m_trade' = WithoutSpell(m_trade, x)
    BY <1>2 DEF AcceptSpellFails
  <1>4. PICK y \in {p, q} : y # x /\ Pair(m_trade, x, y)
    BY <1>2, PairSym DEF Pair
  <1> DEFINE e == [m_trade[x] EXCEPT !.spell = FALSE]
             now == [agreed EXCEPT ![p] = Offers(p)]
  <1>5. e \in TradeDataType /\ e.trader = y /\ e.items = m_trade[x].items
    BY <1>4 DEF Pair, TradeDataType
  <1>6. m_trade' = Changed(m_trade, x, e)
    BY <1>3 DEF WithoutSpell, Changed
  <1> HIDE DEF e
  <1>7. /\ SamePairs(m_trade', m_trade, x, y) /\ NoConsents(m_trade', x, y)
        /\ m_trade'[x].items = m_trade[x].items /\ m_trade'[y].items = m_trade[y].items
    BY <1>4, <1>5, <1>6, ChangedFacts
  <1>8. /\ step = "idle" /\ UNCHANGED <<goods, handler, gone, events>>
        /\ \A z \in Players \ {p} : now[z] = agreed[z]
    BY <1>1, AcceptingFacts
  <1>9. agreed' = Consents(m_trade', now)
    BY DEF AcceptSpellFails
  <1> HIDE DEF now
  <1>10. \A z \in Players \ {x, y} : now[z] = agreed[z]
    BY <1>4, <1>8
  <1>11. /\ UNCHANGED <<inventory, clones, world, bound, money, handler, gone>>
         /\ count' \in [Items -> 1..2] /\ count' = count /\ events' \in 0..MaxEvents
    BY <1>8 DEF goods, Inv, TypeOK
  <1>12. QED
    BY <1>4, <1>7, <1>8, <1>9, <1>10, <1>11, KeptItemsStep
-----------------------------------------------------------------------------
(* The beginning and the end of a trade: two players get, or lose, trades that *)
(* nobody has consented to, and nobody else is touched.                        *)
LEMMA TwoStep ==
  ASSUME Inv, NEW p \in Players, NEW q \in Players, Closed(p, q), step = "idle",
         \A x \in Players \ {p, q} : m_trade'[x] = m_trade[x],
         agreed' = Consents(m_trade', agreed),
         UNCHANGED <<goods, handler, gone, events>>,
         OfferOf(p)', OfferOf(q)', ConsentOf(p)', ConsentOf(q)', Symmetric(p)', Symmetric(q)',
         m_trade' \in [Players -> MaybeTrade]
  PROVE  Inv'
  <1>1. /\ UNCHANGED <<inventory, clones, world, count, bound, money, gone, events>>
        /\ UNCHANGED <<step, who, slot, myItems, hisItems, unchecked>>
    BY DEF goods, handler
  <1>2. TypeOK'
    BY <1>1 DEF Inv, TypeOK, MaybeTrade
  <1>3. TradeSymmetric'
    <2>1. \A x \in Players \ {p, q} : Symmetric(x)'
      BY OthersSymmetric
    <2>2. QED
      BY <1>1, <2>1 DEF TradeSymmetric, Symmetric, GetTrader
  <1>4. \A x \in Players \ {p, q} : Alone(x)
    BY <1>1 DEF Alone, Consents, Untouched
  <1>5. \A x \in Players : OfferOf(x)' /\ ConsentOf(x)'
    BY <1>4, OthersKeep
  <1>6. (DOMAIN agreed)' = Players
    BY DEF Consents
  <1>7. PlaceInv'
    BY <1>1 DEF Inv, PlaceInv
  <1>8. QED
    BY <1>2, <1>3, <1>5, <1>6, <1>7, ByPlayerNext DEF Inv

(* HandleInitiateTradeOpcode keeps the invariant: nobody else trades with      *)
(* the two.                                                                    *)
LEMMA InitiateStep ==
  ASSUME Inv, NEW p \in Players, NEW q \in Players, HandleInitiateTradeOpcode(p, q)
  PROVE  Inv'
  <1> DEFINE d == TradeData(q)
             e == TradeData(p)
  <1>1. /\ d \in TradeDataType /\ d.trader = q /\ ~d.accepted /\ \A s \in TradeSlots : d.items[s] = None
        /\ e \in TradeDataType /\ e.trader = p /\ ~e.accepted /\ \A s \in TradeSlots : e.items[s] = None
    BY DEF TradeData, TradeDataType
  <1> HIDE DEF d, e
  <1>2. /\ step = "idle" /\ p # q /\ m_trade[p] = None /\ m_trade[q] = None
        /\ m_trade' = [m_trade EXCEPT ![p] = d, ![q] = e]
        /\ agreed' = Consents(m_trade', agreed) /\ UNCHANGED <<goods, handler, gone, events>>
    BY DEF HandleInitiateTradeOpcode, d, e
  <1>3. /\ m_trade'[p] = d /\ m_trade'[q] = e /\ m_trade' \in [Players -> MaybeTrade]
        /\ \A x \in Players \ {p, q} : m_trade'[x] = m_trade[x]
    BY <1>1, <1>2 DEF Inv, TypeOK, MaybeTrade
  <1>4. Closed(p, q)
    BY <1>2 DEF Closed, Inv, TypeOK, TradeSymmetric, GetTrader, TradeDataType
  <1>5. OfferOf(p)' /\ OfferOf(q)'
    BY <1>1, <1>3 DEF OfferOf
  <1>6. ConsentOf(p)' /\ ConsentOf(q)'
    BY <1>1, <1>3 DEF ConsentOf
  <1>7. Symmetric(p)' /\ Symmetric(q)'
    BY <1>1, <1>2, <1>3, NoTradeAssumption DEF Symmetric
  <1>8. QED
    BY <1>2, <1>3, <1>4, <1>5, <1>6, <1>7, TwoStep

(* TradeCancel keeps the invariant: both lose their trade.                     *)
LEMMA CancelStep ==
  ASSUME Inv, NEW p \in Players, TradeCancel(p)
  PROVE  Inv'
  <1>1. PICK q : q = GetTrader(p) /\ Pair(m_trade, p, q) /\ step = "idle"
    BY TradersPair DEF Inv, TradeCancel, Trading
  <1>2. /\ m_trade' = [m_trade EXCEPT ![p] = None, ![q] = None]
        /\ agreed' = Consents(m_trade', agreed) /\ UNCHANGED <<goods, handler, gone, events>>
    BY <1>1 DEF TradeCancel
  <1>3. /\ q \in Players /\ m_trade'[p] = None /\ m_trade'[q] = None /\ m_trade' \in [Players -> MaybeTrade]
        /\ \A x \in Players \ {p, q} : m_trade'[x] = m_trade[x]
    BY <1>1, <1>2 DEF Pair, MaybeTrade
  <1>4. Closed(p, q)
    BY <1>1, PairClosed
  <1>5. OfferOf(p)' /\ OfferOf(q)' /\ ConsentOf(p)' /\ ConsentOf(q)' /\ Symmetric(p)' /\ Symmetric(q)'
    BY <1>3 DEF OfferOf, ConsentOf, Symmetric
  <1>6. QED
    BY <1>1, <1>2, <1>3, <1>4, <1>5, TwoStep
-----------------------------------------------------------------------------
(* What happens outside the trade: an item that leaves its owner is known to   *)
(* have left, and no offered item changes.                                     *)
LEMMA OutsideStep ==
  ASSUME Inv, step = "idle", UNCHANGED <<m_trade, handler, agreed>>,
         \A x \in Players : inventory[x] \subseteq inventory'[x] \cup gone'[x] /\ gone[x] \subseteq gone'[x],
         count' = count
  PROVE  TradeSymmetric' /\ OfferInv' /\ ConsentInv'
  <1>1. step' = "idle" /\ who' = who
    BY DEF handler
  <1>2. TradeSymmetric'
    BY <1>1 DEF Inv, TradeSymmetric, GetTrader
  <1>3. ASSUME NEW x \in Players PROVE OfferOf(x)'
    <2>1. OfferOf(x) /\ Untouched(x)
      BY ByPlayer DEF Inv, Untouched
    <2>2. QED
      BY <2>1 DEF OfferOf
  <1>4. ASSUME NEW x \in Players, NEW o, AsAgreed(o, x) PROVE AsAgreed(o, x)'
    BY <1>4 DEF AsAgreed
  <1>5. ASSUME NEW x \in Players PROVE ConsentOf(x)'
    <2> SUFFICES ASSUME m_trade[x] # None, m_trade[x].accepted
                 PROVE  (AsAgreed(agreed[x].mine, x) /\ AsAgreed(agreed[x].his, GetTrader(x)))'
      BY DEF ConsentOf
    <2>1. PICK y \in Players : y = m_trade[x].trader
      BY DEF Inv, TypeOK, TradeDataType
    <2>2. AsAgreed(agreed[x].mine, x) /\ AsAgreed(agreed[x].his, y)
      BY <2>1, ByPlayer DEF Inv, ConsentOf, Untouched, GetTrader
    <2>3. PICK mine, his : mine = agreed[x].mine /\ his = agreed[x].his
      OBVIOUS
    <2>4. AsAgreed(mine, x)' /\ AsAgreed(his, y)'
      BY <1>4, <2>2, <2>3
    <2>5. mine = agreed'[x].mine /\ his = agreed'[x].his /\ y = m_trade'[x].trader
      BY <2>1, <2>3
    <2>6. QED
      BY <2>4, <2>5 DEF GetTrader
  <1>6. QED
    BY <1>2, <1>3, <1>5, ByPlayerNext DEF Inv, ConsentInv

(* RemoveItem keeps the invariant: the item is known to have left.             *)
LEMMA RemoveStep ==
  ASSUME Inv, NEW p \in Players, NEW i \in Items, RemoveItem(p, i)
  PROVE  Inv'
  <1>1. /\ step = "idle" /\ step' = "idle" /\ i \in inventory[p] /\ UNCHANGED <<m_trade, handler, agreed>> /\ count' = count
        /\ inventory' = [inventory EXCEPT ![p] = @ \ {i}] /\ gone' = [gone EXCEPT ![p] = @ \cup {i}]
        /\ world' = world \cup {i}
    BY DEF RemoveItem, Outside, handler
  <1>2. TypeOK'
    BY NumbersAssumption DEF Inv, TypeOK, RemoveItem, Outside, handler
  <1>3. \A x \in Players : inventory[x] \subseteq inventory'[x] \cup gone'[x] /\ gone[x] \subseteq gone'[x]
    BY <1>1 DEF Inv, TypeOK
  <1>4. PlaceInv'
    <2>1. \A x \in Players : inventory'[x] = IF x = p THEN inventory[x] \ {i} ELSE inventory[x]
      BY <1>1 DEF Inv, TypeOK
    <2>2. QED
      BY <1>1, <2>1 DEF Inv, PlaceInv
  <1>5. TradeSymmetric' /\ OfferInv' /\ ConsentInv'
    BY <1>1, <1>3, OutsideStep
  <1>6. QED
    BY <1>2, <1>4, <1>5 DEF Inv

(* StoreNewItem keeps the invariant: the item comes from the world.            *)
LEMMA StoreNewStep ==
  ASSUME Inv, NEW p \in Players, NEW i \in Items, StoreNewItem(p, i)
  PROVE  Inv'
  <1>1. /\ step = "idle" /\ step' = "idle" /\ i \in world /\ UNCHANGED <<m_trade, handler, agreed>> /\ count' = count
        /\ inventory' = [inventory EXCEPT ![p] = @ \cup {i}] /\ gone' = gone
        /\ world' = world \ {i}
    BY DEF StoreNewItem, Outside, handler
  <1>2. TypeOK'
    BY NumbersAssumption DEF Inv, TypeOK, StoreNewItem, Outside, handler
  <1>3. \A x \in Players : inventory[x] \subseteq inventory'[x] \cup gone'[x] /\ gone[x] \subseteq gone'[x]
    BY <1>1 DEF Inv, TypeOK
  <1>4. PlaceInv'
    <2>1. \A x \in Players : inventory'[x] = IF x = p THEN inventory[x] \cup {i} ELSE inventory[x]
      BY <1>1 DEF Inv, TypeOK
    <2>2. QED
      BY <1>1, <2>1 DEF Inv, PlaceInv
  <1>5. TradeSymmetric' /\ OfferInv' /\ ConsentInv'
    BY <1>1, <1>3, OutsideStep
  <1>6. QED
    BY <1>2, <1>4, <1>5 DEF Inv

(* SetBinding keeps the invariant.                                             *)
LEMMA BindingStep ==
  ASSUME Inv, NEW p \in Players, NEW i \in Items, SetBinding(p, i)
  PROVE  Inv'
  <1>1. step = "idle" /\ UNCHANGED <<m_trade, handler, agreed, inventory, world, gone>> /\ count' = count
    BY DEF SetBinding, Outside
  <1>2. TypeOK'
    BY NumbersAssumption DEF Inv, TypeOK, SetBinding, Outside, handler
  <1>3. PlaceInv'
    BY <1>1 DEF Inv, PlaceInv, handler
  <1>4. TradeSymmetric' /\ OfferInv' /\ ConsentInv'
    BY <1>1, OutsideStep
  <1>5. QED
    BY <1>2, <1>3, <1>4 DEF Inv

(* ModifyMoney keeps the invariant.                                            *)
LEMMA MoneyStep ==
  ASSUME Inv, NEW p \in Players, ModifyMoney(p)
  PROVE  Inv'
  <1>1. step = "idle" /\ UNCHANGED <<m_trade, handler, agreed, inventory, world, gone>> /\ count' = count
    BY DEF ModifyMoney, Outside
  <1>2. TypeOK'
    BY NumbersAssumption DEF Inv, TypeOK, ModifyMoney, Outside, handler
  <1>3. PlaceInv'
    BY <1>1 DEF Inv, PlaceInv, handler
  <1>4. TradeSymmetric' /\ OfferInv' /\ ConsentInv'
    BY <1>1, OutsideStep
  <1>5. QED
    BY <1>2, <1>3, <1>4 DEF Inv

(* The stack of an item changes.  If the item is offered, both consents are    *)
(* taken back; if it is not, no consent was for it, because nobody but its     *)
(* owner has it.                                                               *)
LEMMA CountStep ==
  ASSUME Inv, NEW p \in Players, NEW i \in Items, SetCount(p, i)
  PROVE  Inv'
  <1>1. /\ step = "idle" /\ step' = "idle" /\ i \in inventory[p]
        /\ count' = [count EXCEPT ![i] = 3 - @] /\ events' \in 0..MaxEvents
        /\ agreed' = Consents(m_trade', agreed)
        /\ UNCHANGED <<inventory, clones, world, bound, money, handler, gone>>
    BY NumbersAssumption DEF SetCount, Outside, handler, Inv, TypeOK
  <1>2. count' \in [Items -> 1..2] /\ \A j \in Items \ {i} : count'[j] = count[j]
    BY <1>1 DEF Inv, TypeOK
  <1>3. \A x \in Players \ {p} : i \notin inventory[x] /\ inventory[x] \subseteq Items
    BY <1>1 DEF Inv, PlaceInv, TypeOK
  <1>4. CASE m_trade[p] # None /\ HasItem(p, i)
    <2>1. PICK q : Pair(m_trade, p, q)
      BY <1>4, TradersPair DEF Inv
    <2>2. PICK s \in TradeSlots : m_trade[p].items[s] = i /\ m_trade' = WithItem(m_trade, p, s, i)
      BY <1>4 DEF SetCount, HasItem
    <2>3. /\ SamePairs(m_trade', m_trade, p, q) /\ NoConsents(m_trade', p, q)
          /\ m_trade'[p].items = [m_trade[p].items EXCEPT ![s] = i]
          /\ m_trade'[q].items = m_trade[q].items
      BY <2>1, <2>2, WithItemFacts
    <2>4. m_trade'[p].items = m_trade[p].items
      BY <2>1, <2>2, <2>3 DEF Pair, TradeDataType
    <2>5. \A x \in Players \ {p, q} : \A j \in inventory[x] : count'[j] = count[j]
      BY <1>2, <1>3
    <2>6. QED
      BY <1>1, <1>2, <2>1, <2>3, <2>4, <2>5, KeptItemsStep
  <1>5. CASE ~(m_trade[p] # None /\ HasItem(p, i))
    <2>1. m_trade' = m_trade
      BY <1>5 DEF SetCount
    <2>2. /\ step' = step /\ who' = who /\ slot' = slot /\ myItems' = myItems /\ hisItems' = hisItems
          /\ unchecked' = unchecked
      BY <1>1 DEF handler
    <2>3. TypeOK'
      BY <1>1, <1>2, <2>1, <2>2 DEF Inv, TypeOK
    <2>4. TradeSymmetric' /\ PlaceInv'
      BY <1>1, <2>1, <2>2 DEF Inv, TradeSymmetric, PlaceInv, GetTrader
    <2>5. ASSUME NEW x \in Players PROVE OfferOf(x)'
      <3>1. OfferOf(x) /\ Untouched(x)
        BY <1>1, ByPlayer DEF Inv, Untouched
      <3>2. QED
        BY <1>1, <2>1, <3>1 DEF OfferOf
    <2>6. ASSUME NEW x \in Players, m_trade[x] # None, NEW o, AsAgreed(o, x) PROVE AsAgreed(o, x)'
      <3>1. o.items = m_trade[x].items /\ m_trade[x].items \in [TradeSlots -> Items \cup {None}]
        BY <2>6 DEF AsAgreed, Inv, TypeOK, TradeDataType
      <3>2. ASSUME NEW s \in TradeSlots, o.items[s] # None, o.items[s] \notin gone[x] PROVE o.items[s] # i
        <4>1. o.items[s] \in inventory[x]
          BY <2>6, <3>2 DEF AsAgreed
        <4>2. CASE x # p
          BY <1>3, <4>1, <4>2
        <4>3. CASE x = p
          BY <1>5, <2>6, <3>1, <4>3 DEF HasItem
        <4>4. QED
          BY <4>2, <4>3
      <3>3. \A s \in TradeSlots : o.items[s] # None /\ o.items[s] \notin gone[x]
                                   => o.items[s] \in inventory[x] /\ o.counts[s] = count'[o.items[s]]
        BY <1>2, <2>6, <3>1, <3>2 DEF AsAgreed
      <3>4. QED
        BY <1>1, <2>1, <2>6, <3>3 DEF AsAgreed
    <2>7. ASSUME NEW x \in Players PROVE ConsentOf(x)'
      <3> SUFFICES ASSUME m_trade[x] # None, m_trade[x].accepted
                   PROVE  (AsAgreed(agreed[x].mine, x) /\ AsAgreed(agreed[x].his, GetTrader(x)))'
        BY <2>1 DEF ConsentOf
      <3>1. PICK y \in Players : y = m_trade[x].trader /\ m_trade[y] # None
        BY DEF Inv, TypeOK, TradeDataType, TradeSymmetric, GetTrader
      <3>2. AsAgreed(agreed[x].mine, x) /\ AsAgreed(agreed[x].his, y)
        BY <1>1, <3>1, ByPlayer DEF Inv, ConsentOf, Untouched, GetTrader
      <3>3. PICK mine, his : mine = agreed[x].mine /\ his = agreed[x].his
        OBVIOUS
      <3>4. AsAgreed(mine, x)' /\ AsAgreed(his, y)'
        BY <2>6, <3>1, <3>2, <3>3
      <3>5. agreed'[x] = agreed[x] /\ y = m_trade'[x].trader
        BY <1>1, <2>1, <3>1 DEF Consents
      <3>6. QED
        BY <3>3, <3>4, <3>5 DEF GetTrader
    <2>8. (DOMAIN agreed)' = Players
      BY <1>1 DEF Consents
    <2>9. QED
      BY <2>3, <2>4, <2>5, <2>7, <2>8, ByPlayerNext DEF Inv
  <1>6. QED
    BY <1>4, <1>5
-----------------------------------------------------------------------------
(* The exchange: the pair is in the hands of moveItems, the others are left    *)
(* alone.                                                                      *)
LEMMA ExchangeStep ==
  ASSUME Inv, NEW p, NEW q, Pair(m_trade, p, q), SamePairs(m_trade', m_trade, p, q),
         m_trade'[p].items = m_trade[p].items, m_trade'[q].items = m_trade[q].items,
         step' # "idle", who' = p, \A x \in Players \ {p, q} : Alone(x), (DOMAIN agreed)' = Players
  PROVE  TradeSymmetric' /\ OfferInv' /\ ConsentInv'
  <1>1. /\ p \in Players /\ q \in Players /\ p # q /\ m_trade[p] # None /\ m_trade[q] # None
        /\ m_trade'[p] # None /\ m_trade'[q] # None /\ m_trade'[p].trader = q /\ m_trade'[q].trader = p
    BY NoTradeAssumption DEF Pair, SamePairs
  <1>2. Closed(p, q)
    BY PairClosed
  <1>3. TradeSymmetric'
    <2>1. \A x \in Players \ {p, q} : Symmetric(x)'
      BY <1>2, OthersSymmetric DEF SamePairs
    <2>2. Symmetric(p)' /\ Symmetric(q)'
      BY <1>1 DEF Symmetric
    <2>3. QED
      BY <1>1, <2>1, <2>2 DEF TradeSymmetric, Symmetric, GetTrader
  <1>4. ~Untouched(p)' /\ ~Untouched(q)'
    BY <1>1 DEF Untouched, GetTrader
  <1>5. OfferOf(p) /\ OfferOf(q)
    BY <1>1, ByPlayer DEF Inv
  <1>6. OfferOf(p)' /\ OfferOf(q)' /\ ConsentOf(p)' /\ ConsentOf(q)'
    BY <1>1, <1>4, <1>5 DEF OfferOf, ConsentOf
  <1>7. \A x \in Players : OfferOf(x)' /\ ConsentOf(x)'
    BY <1>2, <1>6, OthersKeep
  <1>8. QED
    BY <1>3, <1>7, ByPlayerNext

(* The items that are taken out of the inventories, as values.                 *)
LEMMA TakenItems ==
  ASSUME Inv, step = "idle", NEW p \in Players, m_trade[p] # None
  PROVE  /\ ItemsOf(p) \in [TradedSlots -> Items \cup {None}]
         /\ \A s \in TradedSlots : ItemsOf(p)[s] # None => ItemsOf(p)[s] \in inventory[p]
         /\ \A s, t \in TradedSlots : ItemsOf(p)[s] # None /\ ItemsOf(p)[s] = ItemsOf(p)[t] => s = t
  <1> DEFINE items == m_trade[p].items
  <1>1. items \in [TradeSlots -> Items \cup {None}] /\ TradedSlots \subseteq TradeSlots
    BY NumbersAssumption DEF Inv, TypeOK, TradeDataType, TradedSlots, TradeSlots
  <1>2. \A s, t \in TradeSlots : items[s] = items[t] /\ items[s] # None => s = t
    BY DEF Inv, OfferInv
  <1>3. ItemsOf(p) = [s \in TradedSlots |-> IF items[s] \in inventory[p] THEN items[s] ELSE None]
    BY DEF ItemsOf, GetItem
  <1> HIDE DEF items
  <1>4. QED
    BY <1>1, <1>2, <1>3

(* The second consent: the items go from the inventories to moveItems.         *)
LEMMA SecondStep ==
  ASSUME Inv, NEW p \in Players, AcceptSecond(p)
  PROVE  Inv'
  <1>1. PICK q : q = GetTrader(p) /\ Pair(m_trade, p, q) /\ step = "idle"
    BY TradersPair DEF Inv, AcceptSecond, BothAccept, Accepting, Trading
  <1>2. PICK mine, his : mine = ItemsOf(p) /\ his = ItemsOf(q)
    OBVIOUS
  <1>3. /\ q \in Players /\ p # q /\ m_trade[p] # None /\ m_trade[q] # None
    BY <1>1, NoTradeAssumption DEF Pair
  <1>4. /\ mine \in [TradedSlots -> Items \cup {None}] /\ his \in [TradedSlots -> Items \cup {None}]
        /\ \A s \in TradedSlots : mine[s] # None => mine[s] \in inventory[p]
        /\ \A s \in TradedSlots : his[s] # None => his[s] \in inventory[q]
        /\ \A s, t \in TradedSlots : mine[s] # None /\ mine[s] = mine[t] => s = t
        /\ \A s, t \in TradedSlots : his[s] # None /\ his[s] = his[t] => s = t
    BY <1>1, <1>2, <1>3, TakenItems
  <1> DEFINE taken == Present(mine) \cup Present(his)
  <1>5. /\ m_trade' = Given(m_trade, p) /\ agreed' = [agreed EXCEPT ![p] = Offers(p)]
        /\ step' = "move" /\ who' = p /\ slot' = 0 /\ myItems' = mine /\ hisItems' = his
        /\ inventory' = [x \in Players |-> inventory[x] \ taken]
        /\ UNCHANGED <<clones, world, count, bound, money, gone, events>>
    BY <1>1, <1>2 DEF AcceptSecond, BothAccept, Accepting, Given
  <1>6. taken \subseteq inventory[p] \cup inventory[q] /\ \A s \in TradedSlots : {mine[s], his[s]} \ {None} \subseteq taken
    BY <1>4 DEF Present
  <1> HIDE DEF taken
  <1>7. /\ SamePairs(m_trade', m_trade, p, q)
        /\ SameGoods(m_trade', m_trade, p) /\ SameGoods(m_trade', m_trade, q)
    BY <1>1, <1>5, GivenFacts
  <1>8. TypeOK'
    <2>1. m_trade' \in [Players -> TradeDataType \cup {None}]
      BY <1>7 DEF SamePairs, Pair, MaybeTrade
    <2>2. inventory' \in [Players -> SUBSET Items]
      BY <1>5 DEF Inv, TypeOK
    <2>3. 0 \in TradedSlots /\ 0 \in 0..NumSlots
      BY NumbersAssumption DEF TradedSlots
    <2>4. unchecked' \subseteq {Kind[i] : i \in Items}
      BY <1>4, <1>5 DEF AcceptSecond, Competing, Present, Inv, TypeOK
    <2>5. QED
      BY <1>4, <1>5, <2>1, <2>2, <2>3, <2>4 DEF Inv, TypeOK
  <1>9. \A x \in Players \ {p, q} : Alone(x)
    <2> SUFFICES ASSUME NEW x \in Players \ {p, q} PROVE Alone(x)
      OBVIOUS
    <2>1. inventory'[x] = inventory[x]
      BY <1>3, <1>5, <1>6 DEF Inv, PlaceInv
    <2>2. m_trade'[x] = m_trade[x] /\ agreed'[x] = agreed[x] /\ gone'[x] = gone[x] /\ count' = count
      BY <1>5, <1>7 DEF SamePairs, Inv, ConsentInv
    <2>3. QED
      BY <1>1, <2>1, <2>2 DEF Alone, Untouched
  <1>10. (DOMAIN agreed)' = Players
    BY <1>5 DEF Inv, ConsentInv
  <1>11. TradeSymmetric' /\ OfferInv' /\ ConsentInv'
    <2>1. m_trade'[p].items = m_trade[p].items /\ m_trade'[q].items = m_trade[q].items
      BY <1>7 DEF SameGoods
    <2>2. step' # "idle" /\ who' = p
      BY <1>5
    <2>3. QED
      BY <1>1, <1>7, <1>9, <1>10, <2>1, <2>2, ExchangeStep
  <1>12. PlaceInv'
    <2>1. \A x, y \in Players : x # y => inventory[x] \cap inventory[y] = {}
      BY DEF Inv, PlaceInv
    <2>2. \A x \in Players : inventory[x] \cap world = {}
      BY DEF Inv, PlaceInv
    <2>3. \A x, y \in Players : x # y => inventory'[x] \cap inventory'[y] = {}
      BY <1>5, <2>1
    <2>4. \A x \in Players : inventory'[x] \cap world' = {}
      BY <1>5, <2>2
    <2>5. ASSUME NEW s \in TradedSlots, NEW t \in TradedSlots
          PROVE  /\ mine[s] # None => mine[s] # his[t] /\ (mine[s] = mine[t] => s = t)
                 /\ his[s] # None => (his[s] = his[t] => s = t)
                 /\ \A i \in {mine[s], his[s]} \ {None} : i \notin world' /\ \A x \in Players : i \notin inventory'[x]
      <3>1. mine[s] # None => mine[s] # his[t]
        BY <1>3, <1>4, <2>1
      <3>2. \A i \in {mine[s], his[s]} \ {None} : i \in taken /\ i \notin world
        BY <1>3, <1>4, <1>6, <2>2
      <3>3. QED
        BY <1>4, <1>5, <3>1, <3>2
    <2>6. slot'..(NumSlots - 1) = TradedSlots
      BY <1>5 DEF TradedSlots
    <2>7. ASSUME NEW s \in slot'..(NumSlots - 1), NEW t \in slot'..(NumSlots - 1)
          PROVE  /\ myItems'[s] # None => myItems'[s] # hisItems'[t] /\ (myItems'[s] = myItems'[t] => s = t)
                 /\ hisItems'[s] # None => (hisItems'[s] = hisItems'[t] => s = t)
                 /\ \A i \in {myItems'[s], hisItems'[s]} \ {None} : i \notin world' /\ \A x \in Players : i \notin inventory'[x]
      <3>1. s \in TradedSlots /\ t \in TradedSlots /\ myItems' = mine /\ hisItems' = his
        BY <1>5, <2>6
      <3>2. QED
        BY <2>5, <3>1
    <2>8. QED
      BY <2>3, <2>4, <2>7 DEF PlaceInv
  <1>13. QED
    BY <1>8, <1>11, <1>12 DEF Inv

(* What moveItems leaves of the trades of a pair: all but consents and spells. *)
PairKept(p, q) ==
  /\ SamePairs(m_trade', m_trade, p, q)
  /\ m_trade'[p].items = m_trade[p].items /\ m_trade'[q].items = m_trade[q].items
  /\ m_trade'[p].money = m_trade[p].money /\ m_trade'[q].money = m_trade[q].money
  /\ m_trade'[p].trader = q

LEMMA StoredFacts ==
  ASSUME NEW p, NEW q, Pair(m_trade, p, q), NEW mine, NEW his, Stored(p, q, mine, his)
  PROVE  PairKept(p, q)
  <1> DEFINE d == [m_trade[p] EXCEPT !.accepted = @ /\ mine \cup his = {}, !.spell = @ /\ mine = {}]
             e == [m_trade[q] EXCEPT !.accepted = @ /\ mine \cup his = {}, !.spell = @ /\ his = {}]
  <1>1. m_trade' = [x \in Players |-> IF x = q THEN e ELSE IF x = p THEN d ELSE m_trade[x]]
    BY DEF Pair, Stored
  <1>2. /\ d \in TradeDataType /\ d.trader = q /\ d.items = m_trade[p].items /\ d.money = m_trade[p].money
        /\ e \in TradeDataType /\ e.trader = p /\ e.items = m_trade[q].items /\ e.money = m_trade[q].money
    BY DEF Pair, TradeDataType
  <1> HIDE DEF d, e
  <1>3. /\ m_trade'[p] = d /\ m_trade'[q] = e /\ (\A x \in Players \ {p, q} : m_trade'[x] = m_trade[x])
        /\ m_trade' \in [Players -> MaybeTrade]
    BY <1>1, <1>2 DEF Pair, MaybeTrade
  <1>4. QED
    BY <1>2, <1>3 DEF Pair, SamePairs, PairKept

(* What a round of moveItems does with the items i and j: p gets get, q give,  *)
(* no item twice.                                                              *)
LEMMA RoundFacts ==
  ASSUME Inv, MoveItems, NEW p, p = who, NEW q, q = GetTrader(p), Pair(m_trade, p, q),
         NEW i, i = myItems[slot], NEW j, j = hisItems[slot]
  PROVE  /\ \E get, give : /\ get \subseteq {i, j} \ {None} /\ give \subseteq {i, j} \ {None} /\ get \cap give = {}
                           /\ inventory' = [inventory EXCEPT ![p] = @ \cup get, ![q] = @ \cup give]
         /\ \E c, d : /\ c \subseteq {i, j} \ {None} /\ d \subseteq {i, j} \ {None}
                      /\ clones' = [clones EXCEPT ![p] = @ \cup c, ![q] = @ \cup d]
         /\ PairKept(p, q)
  <1>0. PairKept(p, q)
    <2>1. \E mine, his : Stored(p, q, mine, his)
      BY DEF MoveItems
    <2>2. QED
      BY <2>1, StoredFacts
  <1>1. /\ PairKept(p, q)
        /\ IF SlotWorks(p, q, i, j)
           THEN Store(p, q, Optional(j), Optional(i)) /\ clones' = clones
           ELSE /\ Store(p, q, Back(p, i, j), Back(q, j, i))
                /\ clones' = [clones EXCEPT ![p] = @ \cup Doubled(p, i, j), ![q] = @ \cup Doubled(q, j, i)]
    BY <1>0 DEF MoveItems
  <1>2. i # None => i # j
    <2>1. step = "move" /\ slot \in slot..(NumSlots - 1)
      BY NumbersAssumption DEF MoveItems, Inv, TypeOK, TradedSlots
    <2>2. QED
      BY <2>1 DEF Inv, PlaceInv
  <1>3. p # q
    BY DEF Pair
  <1>4. CASE SlotWorks(p, q, i, j)
    <2>1. inventory' = [inventory EXCEPT ![p] = @ \cup Optional(j), ![q] = @ \cup Optional(i)]
      BY <1>1, <1>4 DEF Store
    <2>2. /\ Optional(i) \subseteq {i, j} \ {None} /\ Optional(j) \subseteq {i, j} \ {None}
          /\ Optional(j) \cap Optional(i) = {}
      BY <1>2 DEF Optional
    <2>3. clones' = [clones EXCEPT ![p] = @ \cup {}, ![q] = @ \cup {}]
      BY <1>1, <1>4 DEF Inv, TypeOK
    <2>4. {} \subseteq {i, j} \ {None}
      OBVIOUS
    <2>5. QED
      BY <1>1, <2>1, <2>2, <2>3, <2>4
  <1>5. CASE ~SlotWorks(p, q, i, j)
    <2> DEFINE a == Back(p, i, j)
               b == Back(q, j, i)
               c == Doubled(p, i, j)
               d == Doubled(q, j, i)
    <2>1. /\ a \subseteq {i, j} \ {None} /\ b \subseteq {i, j} \ {None} /\ a \cap b = {}
          /\ c \subseteq {i, j} \ {None} /\ d \subseteq {i, j} \ {None}
      BY <1>2 DEF Back, Doubled, Optional
    <2>2. inventory' = [inventory EXCEPT ![p] = @ \cup a, ![q] = @ \cup b]
      BY <1>1, <1>5 DEF Store
    <2>3. clones' = [clones EXCEPT ![p] = @ \cup c, ![q] = @ \cup d]
      BY <1>1, <1>5
    <2> HIDE DEF a, b, c, d
    <2>4. QED
      BY <1>1, <2>1, <2>2, <2>3
  <1>6. QED
    BY <1>4, <1>5

(* MoveItems keeps the invariant: items leave the hands of moveItems for one   *)
(* bag.                                                                        *)
LEMMA MoveStep ==
  ASSUME Inv, MoveItems
  PROVE  Inv'
  <1>1. PICK p \in Players, q \in Players : p = who /\ q = GetTrader(p) /\ Pair(m_trade, p, q)
    BY TradersPair DEF Inv, TradeSymmetric, MoveItems, Pair
  <1>2. PICK i, j : i = myItems[slot] /\ j = hisItems[slot]
    OBVIOUS
  <1>3. slot \in TradedSlots /\ step = "move" /\ slot \in slot..(NumSlots - 1) /\ slot \in Nat /\ slot + 1 \in 0..NumSlots
    BY NumbersAssumption DEF Inv, TypeOK, MoveItems, TradedSlots
  <1>4. /\ {i, j} \ {None} \subseteq Items
        /\ \A k \in {i, j} \ {None} : k \notin world /\ \A x \in Players : k \notin inventory[x]
    BY <1>2, <1>3 DEF Inv, TypeOK, PlaceInv
  <1>5. /\ \E get, give : /\ get \subseteq {i, j} \ {None} /\ give \subseteq {i, j} \ {None} /\ get \cap give = {}
                          /\ inventory' = [inventory EXCEPT ![p] = @ \cup get, ![q] = @ \cup give]
        /\ \E c, d : /\ c \subseteq {i, j} \ {None} /\ d \subseteq {i, j} \ {None}
                     /\ clones' = [clones EXCEPT ![p] = @ \cup c, ![q] = @ \cup d]
        /\ PairKept(p, q)
    BY <1>1, <1>2, RoundFacts
  <1>6. PICK get, give : /\ get \subseteq {i, j} \ {None} /\ give \subseteq {i, j} \ {None} /\ get \cap give = {}
                         /\ inventory' = [inventory EXCEPT ![p] = @ \cup get, ![q] = @ \cup give]
    BY <1>5
  <1>7. /\ p # q /\ inventory'[p] = inventory[p] \cup get /\ inventory'[q] = inventory[q] \cup give
        /\ \A x \in Players \ {p, q} : inventory'[x] = inventory[x]
        /\ inventory' \in [Players -> SUBSET Items]
    BY <1>1, <1>4, <1>6 DEF Inv, TypeOK, Pair
  <1>8. /\ SamePairs(m_trade', m_trade, p, q)
        /\ m_trade'[p].items = m_trade[p].items /\ m_trade'[q].items = m_trade[q].items
    BY <1>5 DEF PairKept
  <1>9. /\ slot' = slot + 1 /\ step' = (IF slot + 1 = NumSlots THEN "pay" ELSE "move") /\ who' = p
        /\ UNCHANGED <<myItems, hisItems, unchecked, world, count, bound, money, agreed, gone, events>>
    BY <1>1 DEF MoveItems, LastSlot
  <1>10. TypeOK'
    <2>1. m_trade' \in [Players -> TradeDataType \cup {None}]
      BY <1>8 DEF SamePairs, Pair, MaybeTrade
    <2>2. clones' \in [Players -> SUBSET Items]
      BY <1>1, <1>4, <1>5 DEF Inv, TypeOK
    <2>3. slot' \in 0..NumSlots /\ (step' = "move" => slot' \in TradedSlots)
      BY <1>3, <1>9, NumbersAssumption DEF TradedSlots
    <2>4. step' \in {"idle", "move", "pay"} /\ who' \in Players \cup {None}
      BY <1>9
    <2>5. QED
      BY <1>7, <1>9, <2>1, <2>2, <2>3, <2>4 DEF Inv, TypeOK
  <1>11. \A x \in Players \ {p, q} : Alone(x)
    <2> SUFFICES ASSUME NEW x \in Players \ {p, q} PROVE Alone(x)
      OBVIOUS
    <2>1. m_trade'[x] = m_trade[x] /\ inventory'[x] = inventory[x]
      BY <1>7, <1>8 DEF SamePairs
    <2>2. Untouched(x)
      BY <1>1 DEF Untouched
    <2>3. QED
      BY <1>9, <2>1, <2>2 DEF Alone
  <1>12. TradeSymmetric' /\ OfferInv' /\ ConsentInv'
    <2>1. step' # "idle" /\ who' = p /\ (DOMAIN agreed)' = Players
      BY <1>9 DEF Inv, ConsentInv
    <2>2. QED
      BY <1>1, <1>8, <1>11, <2>1, ExchangeStep
  <1>13. PlaceInv'
    <2>1. \A x, y \in Players : x # y => inventory'[x] \cap inventory'[y] = {}
      <3>1. \A x, y \in Players : x # y => inventory[x] \cap inventory[y] = {}
        BY DEF Inv, PlaceInv
      <3>2. \A x \in Players : inventory[x] \cap (get \cup give) = {}
        BY <1>4, <1>6
      <3> DEFINE gain(x) == IF x = p THEN get ELSE IF x = q THEN give ELSE {}
      <3>3. \A x \in Players : inventory'[x] = inventory[x] \cup gain(x)
        BY <1>7
      <3>4. \A x, y \in Players : x # y => gain(x) \cap gain(y) = {} /\ inventory[x] \cap gain(y) = {}
        BY <1>6, <3>2
      <3> HIDE DEF gain
      <3>5. QED
        BY <3>1, <3>3, <3>4
    <2>2. \A x \in Players : inventory'[x] \cap world' = {}
      BY <1>4, <1>6, <1>7, <1>9 DEF Inv, PlaceInv
    <2>3. ASSUME NEW s \in slot'..(NumSlots - 1), NEW t \in slot'..(NumSlots - 1)
          PROVE  /\ myItems'[s] # None => myItems'[s] # hisItems'[t] /\ (myItems'[s] = myItems'[t] => s = t)
                 /\ hisItems'[s] # None => (hisItems'[s] = hisItems'[t] => s = t)
                 /\ \A k \in {myItems'[s], hisItems'[s]} \ {None} : k \notin world' /\ \A x \in Players : k \notin inventory'[x]
      <3>1. s \in slot..(NumSlots - 1) /\ t \in slot..(NumSlots - 1) /\ s # slot
        BY <1>3, <1>9, NumbersAssumption
      <3>2. /\ myItems[s] # None => myItems[s] # hisItems[t] /\ (myItems[s] = myItems[t] => s = t)
            /\ hisItems[s] # None => (hisItems[s] = hisItems[t] => s = t)
            /\ \A k \in {myItems[s], hisItems[s]} \ {None} : k \notin world /\ \A x \in Players : k \notin inventory[x]
        BY <1>3, <3>1 DEF Inv, PlaceInv
      <3>3. \A k \in {myItems[s], hisItems[s]} \ {None} : k \notin {i, j}
        <4>1. /\ i # None => i # hisItems[s] /\ (i = myItems[s] => slot = s)
              /\ j # None => (j = hisItems[s] => slot = s)
          BY <1>2, <1>3, <3>1 DEF Inv, PlaceInv
        <4>2. myItems[s] # None => myItems[s] # j
          BY <1>2, <1>3, <3>1 DEF Inv, PlaceInv
        <4>3. QED
          BY <3>1, <4>1, <4>2
      <3>4. \A k \in {myItems[s], hisItems[s]} \ {None} : \A x \in Players : k \notin inventory'[x]
        BY <1>6, <1>7, <3>2, <3>3
      <3>5. QED
        BY <1>9, <3>2, <3>4
    <2>4. QED
      BY <2>1, <2>2, <2>3 DEF PlaceInv
  <1>14. QED
    BY <1>10, <1>12, <1>13 DEF Inv

(* What ModifyMoney makes of an amount up to the limit stays within it.        *)
LEMMA MoneyBounds ==
  ASSUME NEW has \in 0..MaxMoney, NEW pays \in Nat, NEW gets \in Nat
  PROVE  Earned(Paid(has, pays), gets) \in 0..MaxMoney
  BY NumbersAssumption DEF Earned, Paid

(* CompleteTrade keeps the invariant.                                          *)
LEMMA CompleteStep ==
  ASSUME Inv, CompleteTrade
  PROVE  Inv'
  <1>1. PICK p \in Players, q \in Players : p = who /\ q = GetTrader(p) /\ Pair(m_trade, p, q)
    BY TradersPair DEF Inv, TradeSymmetric, CompleteTrade, Pair
  <1>2. PICK mine \in Nat, his \in Nat : mine = m_trade[p].money /\ his = m_trade[q].money
    BY <1>1 DEF Pair, TradeDataType
  <1>3. /\ step = "pay" /\ step' = "idle" /\ who' = None /\ slot' = 0 /\ myItems' = NoItems /\ hisItems' = NoItems
        /\ m_trade' = [m_trade EXCEPT ![p] = None, ![q] = None]
        /\ money' = [money EXCEPT ![p] = Earned(Paid(@, mine), his), ![q] = Earned(Paid(@, his), mine)]
        /\ agreed' = Consents(m_trade', agreed)
        /\ UNCHANGED <<inventory, clones, world, count, bound, unchecked, gone, events>>
    BY <1>1, <1>2 DEF CompleteTrade
  <1>4. /\ m_trade'[p] = None /\ m_trade'[q] = None /\ m_trade' \in [Players -> MaybeTrade]
        /\ \A x \in Players \ {p, q} : m_trade'[x] = m_trade[x]
    BY <1>1, <1>3 DEF Pair, MaybeTrade
  <1>5. TypeOK'
    <2>1. money' \in [Players -> 0..MaxMoney]
      <3>1. money \in [Players -> 0..MaxMoney] /\ p # q
        BY <1>1 DEF Inv, TypeOK, Pair
      <3>2. /\ Earned(Paid(money[p], mine), his) \in 0..MaxMoney
            /\ Earned(Paid(money[q], his), mine) \in 0..MaxMoney
        BY <3>1, MoneyBounds
      <3>3. QED
        BY <1>3, <3>1, <3>2
    <2>2. NoItems \in [TradedSlots -> Items \cup {None}] /\ 0 \in 0..NumSlots
      BY NumbersAssumption DEF NoItems
    <2>3. QED
      BY <1>3, <1>4, <2>1, <2>2 DEF Inv, TypeOK, MaybeTrade
  <1>6. Closed(p, q)
    BY <1>1, PairClosed
  <1>7. TradeSymmetric'
    <2>1. \A x \in Players \ {p, q} : Symmetric(x)'
      BY <1>4, <1>6, OthersSymmetric
    <2>2. QED
      BY <1>3, <1>4, <2>1 DEF TradeSymmetric, Symmetric, GetTrader
  <1>8. \A x \in Players \ {p, q} : Alone(x)
    <2> SUFFICES ASSUME NEW x \in Players \ {p, q} PROVE Alone(x)
      OBVIOUS
    <2>1. Untouched(x)
      BY <1>1 DEF Untouched
    <2>2. m_trade[x] # None /\ m_trade[x].accepted => agreed'[x] = agreed[x]
      BY <1>3, <1>4 DEF Consents
    <2>3. QED
      BY <1>3, <1>4, <2>1, <2>2 DEF Alone
  <1>9. OfferOf(p)' /\ OfferOf(q)' /\ ConsentOf(p)' /\ ConsentOf(q)'
    BY <1>4 DEF OfferOf, ConsentOf
  <1>10. \A x \in Players : OfferOf(x)' /\ ConsentOf(x)'
    BY <1>6, <1>8, <1>9, OthersKeep
  <1>11. (DOMAIN agreed)' = Players
    BY <1>3 DEF Consents
  <1>12. PlaceInv'
    BY <1>3 DEF Inv, PlaceInv
  <1>13. QED
    BY <1>5, <1>7, <1>10, <1>11, <1>12, ByPlayerNext DEF Inv
-----------------------------------------------------------------------------
(* The invariant holds initially,                                              *)
LEMMA InitInv == Init => Inv
  <1> SUFFICES ASSUME Init PROVE Inv
    OBVIOUS
  <1>1. TypeOK
    BY NumbersAssumption DEF Init, TypeOK, NoItems
  <1>2. TradeSymmetric /\ OfferInv /\ PlaceInv /\ ConsentInv
    BY DEF Init, TradeSymmetric, OfferInv, PlaceInv, ConsentInv
  <1>3. QED
    BY <1>1, <1>2 DEF Inv

(* in a step that changes nothing,                                             *)
LEMMA StutterInv == Inv /\ UNCHANGED vars => Inv'
  <1> SUFFICES ASSUME Inv, UNCHANGED vars PROVE Inv'
    OBVIOUS
  <1> USE DEF vars, goods, handler
  <1>1. TypeOK' /\ TradeSymmetric'
    BY DEF Inv, TypeOK, TradeSymmetric, GetTrader
  <1>2. PlaceInv'
    BY DEF Inv, PlaceInv
  <1>3. OfferInv'
    BY DEF Inv, OfferInv, Untouched, GetTrader
  <1>4. ConsentInv'
    BY DEF Inv, ConsentInv, Untouched, GetTrader, AsAgreed
  <1>5. QED
    BY <1>1, <1>2, <1>3, <1>4 DEF Inv

(* and in every step.                                                          *)
LEMMA NextInv == Inv /\ [Next]_vars => Inv'
  <1> SUFFICES ASSUME Inv, [Next]_vars PROVE Inv'
    OBVIOUS
  <1>1. CASE UNCHANGED vars
    BY <1>1, StutterInv
  <1>2. CASE MoveItems
    BY <1>2, MoveStep
  <1>3. CASE CompleteTrade
    BY <1>3, CompleteStep
  <1>4. ASSUME NEW p \in Players,
               \/ \E q \in Players : HandleInitiateTradeOpcode(p, q)
               \/ TradeCancel(p) \/ SetSpell(p) \/ HandleUnacceptTradeOpcode(p) \/ ModifyMoney(p)
               \/ \E amount \in Amounts : HandleSetTradeGoldOpcode(p, amount)
               \/ \E s \in TradeSlots : HandleClearTradeItemOpcode(p, s)
        PROVE  Inv'
    BY <1>4, InitiateStep, CancelStep, SpellStep, UnacceptStep, MoneyStep, GoldStep, ClearItemStep
  <1>5. ASSUME NEW p \in Players, HandleAcceptTradeOpcode(p)
        PROVE  Inv'
    BY <1>5, TooFarStep, RefusedStep, FirstStep, SpellFailsStep, NoRoomStep, SecondStep DEF HandleAcceptTradeOpcode
  <1>6. ASSUME NEW p \in Players, NEW i \in Items,
               \/ \E s \in TradeSlots : HandleSetTradeItemOpcode(p, s, i)
               \/ RemoveItem(p, i) \/ StoreNewItem(p, i) \/ SetCount(p, i) \/ SetBinding(p, i)
        PROVE  Inv'
    BY <1>6, SetItemStep, RemoveStep, StoreNewStep, CountStep, BindingStep
  <1>7. QED
    BY <1>1, <1>2, <1>3, <1>4, <1>5, <1>6 DEF Next

(* The strengthened invariant holds in every state.                            *)
THEOREM Inductive == Spec => []Inv
  BY InitInv, NextInv, PTL DEF Spec

(* The state has its type; no sequence of trades and earnings gives a player   *)
(* MAX_MONEY_AMOUNT or more (Player::ModifyMoney).                             *)
THEOREM TypeCorrect == Spec => []TypeOK
  <1>1. Inv => TypeOK
    BY DEF Inv
  <1>2. QED
    BY <1>1, Inductive, PTL

(* The two TradeData of a trade point at each other, whichever of the handlers *)
(* run in whatever order and however many pairs trade.                         *)
THEOREM PointersMatch == Spec => []TradeSymmetric
  <1>1. Inv => TradeSymmetric
    BY DEF Inv
  <1>2. QED
    BY <1>1, Inductive, PTL

(* A consent is never older than the last change of what it was given for.     *)
THEOREM ConsentsCurrent == Spec => []AcceptedAsAgreed
  <1>1. Inv => AcceptedAsAgreed
    BY DEF Inv, ConsentInv, AcceptedAsAgreed, Untouched
  <1>2. QED
    BY <1>1, Inductive, PTL
-----------------------------------------------------------------------------
(* A step outside the exchange, or its end, that leaves the goods in place.    *)
Quiet == step # "move" /\ step' = "idle" /\ UNCHANGED <<inventory, clones, world, unchecked>>

Outdoors(p, i) == RemoveItem(p, i) \/ StoreNewItem(p, i)

(* The steps as the exchange sees them.                                        *)
LEMMA StepKinds ==
  ASSUME [Next]_vars
  PROVE  \/ MoveItems \/ UNCHANGED vars \/ Quiet
         \/ \E p \in Players : AcceptSecond(p)
         \/ \E p \in Players, i \in Items : Outdoors(p, i)
  <1>1. CompleteTrade => Quiet
    BY DEF CompleteTrade, Quiet
  <1>2. ASSUME NEW p \in Players, HandleAcceptTradeOpcode(p), ~AcceptSecond(p)
        PROVE  Quiet
    BY <1>2 DEF HandleAcceptTradeOpcode, AcceptTooFar, AcceptRefused, AcceptFirst, AcceptSpellFails, AcceptNoRoom,
                BothAccept, Accepting, Trading, handler, Quiet
  <1>3. ASSUME NEW p \in Players,
               \/ \E q \in Players : HandleInitiateTradeOpcode(p, q)
               \/ TradeCancel(p) \/ SetSpell(p) \/ HandleUnacceptTradeOpcode(p) \/ ModifyMoney(p)
               \/ \E amount \in Amounts : HandleSetTradeGoldOpcode(p, amount)
               \/ \E s \in TradeSlots : HandleClearTradeItemOpcode(p, s)
        PROVE  Quiet
    BY <1>3 DEF HandleInitiateTradeOpcode, TradeCancel, SetSpell, HandleUnacceptTradeOpcode, ModifyMoney,
                HandleSetTradeGoldOpcode, HandleClearTradeItemOpcode, Trading, Outside, handler, goods, Quiet
  <1>4. ASSUME NEW p \in Players, NEW i \in Items,
               (\E s \in TradeSlots : HandleSetTradeItemOpcode(p, s, i)) \/ SetCount(p, i) \/ SetBinding(p, i)
        PROVE  Quiet
    BY <1>4 DEF HandleSetTradeItemOpcode, SetCount, SetBinding, Trading, Outside, handler, goods, Quiet
  <1>5. QED
    BY <1>1, <1>2, <1>3, <1>4 DEF Next, Outdoors
-----------------------------------------------------------------------------
(* The gold.  From the second consent to the payment both can pay what they    *)
(* offer and have room for what they get, and that is what was agreed.         *)
DealInv ==
    step # "idle" =>
        LET q == GetTrader(who) IN
          /\ agreed[who].his.money = m_trade[q].money /\ agreed[q].his.money = m_trade[who].money
          /\ HasEnoughMoney(who) /\ HasEnoughMoney(q)
          /\ ~TooMuchGold(who, q) /\ ~TooMuchGold(q, who)

(* What an accept packet without objection has checked about the gold.         *)
LEMMA NoObjection ==
  ASSUME NEW p, NEW q, Objection(p, q) = "none"
  PROVE  HasEnoughMoney(p) /\ HasEnoughMoney(q) /\ ~TooMuchGold(p, q) /\ ~TooMuchGold(q, p)
  <1> DEFINE a == HasEnoughMoney(p)
             b == HasEnoughMoney(q)
             c == TooMuchGold(p, q)
             d == TooMuchGold(q, p)
  <1>1. Objection(p, q) = CASE ~a -> "mine" [] a /\ ~b -> "his" [] a /\ b /\ c -> "mine"
                            [] a /\ b /\ ~c /\ d -> "his"
                            [] OTHER -> IF NotTradable(p) \/ NotTradable(q) THEN "item" ELSE "none"
    BY DEF Objection
  <1>2. "mine" # "none" /\ "his" # "none"
    OBVIOUS
  <1> HIDE DEF a, b, c, d
  <1>3. a /\ b /\ ~c /\ ~d
    BY <1>1, <1>2, Zenon
  <1>4. QED
    BY <1>3 DEF a, b, c, d

(* The second consent establishes DealInv: the first one was for the same      *)
(* offers.                                                                     *)
LEMMA SecondDeal ==
  ASSUME Inv, NEW p \in Players, AcceptSecond(p)
  PROVE  DealInv'
  <1>1. PICK q : q = GetTrader(p) /\ Pair(m_trade, p, q) /\ step = "idle"
    BY TradersPair DEF Inv, AcceptSecond, BothAccept, Accepting, Trading
  <1>2. /\ q \in Players /\ p # q /\ m_trade[q] # None /\ m_trade[q].trader = p /\ m_trade[q].accepted
    BY <1>1, NoTradeAssumption DEF Pair, AcceptSecond, BothAccept
  <1>3. m_trade' = Given(m_trade, p)
    BY DEF AcceptSecond, Given
  <1>4. /\ m_trade'[p].trader = q /\ m_trade'[p].money = m_trade[p].money /\ m_trade'[q].money = m_trade[q].money
    BY <1>1, <1>3, GivenFacts DEF SamePairs, Pair, SameGoods
  <1>5. agreed[q].his.money = m_trade[p].money
    BY <1>1, <1>2 DEF Inv, ConsentInv, Untouched, AsAgreed, GetTrader
  <1>6. agreed'[p] = Offers(p) /\ agreed'[q] = agreed[q]
    BY <1>2 DEF AcceptSecond, Inv, ConsentInv
  <1>7. agreed'[p].his.money = m_trade[q].money
    BY <1>1, <1>6 DEF Offers, Offer
  <1>8. HasEnoughMoney(p) /\ HasEnoughMoney(q) /\ ~TooMuchGold(p, q) /\ ~TooMuchGold(q, p)
    <2>1. Objection(p, q) = "none"
      BY <1>1 DEF AcceptSecond, BothAccept
    <2>2. QED
      BY <2>1, NoObjection
  <1>9. who' = p /\ money' = money
    BY DEF AcceptSecond, BothAccept, Accepting
  <1>10. QED
    BY <1>4, <1>5, <1>6, <1>7, <1>8, <1>9 DEF DealInv, GetTrader, HasEnoughMoney, TooMuchGold

(* moveItems keeps it: neither gold nor offers of gold change.                 *)
LEMMA MoveDeal ==
  ASSUME Inv, DealInv, MoveItems
  PROVE  DealInv'
  <1>1. PICK p \in Players, q \in Players : p = who /\ q = GetTrader(p) /\ Pair(m_trade, p, q)
    BY TradersPair DEF Inv, TradeSymmetric, MoveItems, Pair
  <1>2. PairKept(p, q)
    BY <1>1, RoundFacts
  <1>3. /\ m_trade'[p].trader = q /\ m_trade'[p].money = m_trade[p].money /\ m_trade'[q].money = m_trade[q].money
    BY <1>2 DEF PairKept
  <1>4. step # "idle" /\ who' = p /\ money' = money /\ agreed' = agreed
    BY <1>1 DEF MoveItems
  <1>5. QED
    BY <1>1, <1>3, <1>4 DEF DealInv, GetTrader, HasEnoughMoney, TooMuchGold

(* Every step keeps it.                                                        *)
LEMMA NextDeal == Inv /\ DealInv /\ [Next]_vars => DealInv'
  <1> SUFFICES ASSUME Inv, DealInv, [Next]_vars PROVE DealInv'
    OBVIOUS
  <1>1. CASE MoveItems
    BY <1>1, MoveDeal
  <1>2. CASE \E p \in Players : AcceptSecond(p)
    BY <1>2, SecondDeal
  <1>3. CASE UNCHANGED vars
    BY <1>3 DEF vars, goods, handler, DealInv, GetTrader, HasEnoughMoney, TooMuchGold
  <1>4. CASE Quiet
    BY <1>4 DEF Quiet, DealInv
  <1>5. ASSUME NEW p \in Players, NEW i \in Items, Outdoors(p, i)
        PROVE  step' = "idle"
    BY <1>5 DEF Outdoors, RemoveItem, StoreNewItem, Outside, handler
  <1>6. QED
    BY <1>1, <1>2, <1>3, <1>4, <1>5, StepKinds DEF DealInv

(* The arithmetic of a payment that was checked when the trade was accepted.   *)
LEMMA PaymentExact ==
  ASSUME NEW has \in 0..MaxMoney, NEW pays \in Nat, NEW gets \in Nat,
         has >= pays, ~(has >= MaxMoney - gets)
  PROVE  Earned(Paid(has, pays), gets) = has - pays + gets
  BY NumbersAssumption DEF Earned, Paid

(* The only step of the state "pay" is the payment, and it is exact.           *)
LEMMA StepPays ==
  ASSUME Inv, DealInv, [Next]_vars, step = "pay", ~UNCHANGED vars
  PROVE  LET q == GetTrader(who) IN
           /\ money'[who] = money[who] - agreed[q].his.money + agreed[who].his.money
           /\ money'[q] = money[q] - agreed[who].his.money + agreed[q].his.money
  <1>1. CompleteTrade
    BY DEF Next, MoveItems, HandleInitiateTradeOpcode, TradeCancel, SetSpell, HandleUnacceptTradeOpcode, ModifyMoney,
           HandleSetTradeGoldOpcode, HandleClearTradeItemOpcode, HandleSetTradeItemOpcode, RemoveItem, StoreNewItem,
           SetCount, SetBinding, HandleAcceptTradeOpcode, AcceptTooFar, AcceptRefused, AcceptFirst, AcceptSpellFails,
           AcceptNoRoom, AcceptSecond, BothAccept, Accepting, Trading, Outside
  <1>2. PICK p \in Players, q \in Players : p = who /\ q = GetTrader(p) /\ Pair(m_trade, p, q)
    BY <1>1, TradersPair DEF Inv, TradeSymmetric, CompleteTrade, Pair
  <1>3. PICK mine \in Nat, his \in Nat : mine = m_trade[p].money /\ his = m_trade[q].money
    BY <1>2 DEF Pair, TradeDataType
  <1>4. /\ agreed[p].his.money = his /\ agreed[q].his.money = mine
        /\ money[p] >= mine /\ money[q] >= his
        /\ ~(money[p] >= MaxMoney - his) /\ ~(money[q] >= MaxMoney - mine)
    BY <1>2, <1>3 DEF DealInv, HasEnoughMoney, TooMuchGold
  <1>5. money' = [money EXCEPT ![p] = Earned(Paid(@, mine), his), ![q] = Earned(Paid(@, his), mine)]
    BY <1>1, <1>2, <1>3 DEF CompleteTrade
  <1>6. money \in [Players -> 0..MaxMoney] /\ p # q
    BY <1>2 DEF Inv, TypeOK, Pair
  <1>7. /\ Earned(Paid(money[p], mine), his) = money[p] - mine + his
        /\ Earned(Paid(money[q], his), mine) = money[q] - his + mine
    BY <1>4, <1>6, PaymentExact
  <1>8. money'[p] = money[p] - mine + his /\ money'[q] = money[q] - his + mine
    BY <1>5, <1>6, <1>7
  <1>9. QED
    BY <1>2, <1>4, <1>8

(* Both pay in full what the other one accepted: the clamps of ModifyMoney,    *)
(* which would destroy or withhold gold silently, are never met, whatever was  *)
(* earned or spent between the two consents.                                   *)
THEOREM PaymentsAgreed == Spec => PaidAsAgreed
  <1> DEFINE A == step = "pay" =>
                    LET q == GetTrader(who) IN
                      /\ money'[who] = money[who] - agreed[q].his.money + agreed[who].his.money
                      /\ money'[q] = money[q] - agreed[who].his.money + agreed[q].his.money
  <1>1. Init => DealInv
    BY DEF Init, DealInv
  <1>2. Inv /\ DealInv /\ [Next]_vars => [A]_vars
    BY StepPays
  <1>3. Spec => [][A]_vars
    BY <1>1, <1>2, NextDeal, Inductive, PTL DEF Spec
  <1>4. QED
    BY <1>3 DEF PaidAsAgreed
-----------------------------------------------------------------------------
(* The goods.  What one side takes out of its inventory, the other side having *)
(* agreed to the items offered, and what is missing has left its owner.        *)
TakenOf(items, offered, left) ==
    \A s \in TradedSlots :
        /\ items[s] = None /\ offered[s] # None => offered[s] \in left
        /\ items[s] # None => items[s] = offered[s]

(* An item that was offered and is not found has left its owner.               *)
LEMMA MissingHasLeft ==
  ASSUME Inv, step = "idle", NEW p \in Players, m_trade[p] # None
  PROVE  TakenOf(ItemsOf(p), m_trade[p].items, gone[p])
  <1>1. TradedSlots \subseteq TradeSlots
    BY NumbersAssumption DEF TradedSlots, TradeSlots
  <1>2. \A s \in TradeSlots : m_trade[p].items[s] # None /\ m_trade[p].items[s] \notin gone[p] => m_trade[p].items[s] \in inventory[p]
    BY DEF Inv, OfferInv, Untouched
  <1>3. \A s \in TradedSlots : ItemsOf(p)[s] = IF m_trade[p].items[s] \in inventory[p] THEN m_trade[p].items[s] ELSE None
    BY DEF ItemsOf, GetItem
  <1>4. None \notin inventory[p]
    BY NoneAssumption DEF Inv, TypeOK
  <1>5. QED
    BY <1>1, <1>2, <1>3, <1>4 DEF TakenOf

(* The second consent takes what the first one was given for.                  *)
LEMMA SecondTaken ==
  ASSUME Inv, NEW p \in Players, AcceptSecond(p)
  PROVE  TakenAsAgreed'
  <1>1. PICK q : q = GetTrader(p) /\ Pair(m_trade, p, q) /\ step = "idle"
    BY TradersPair DEF Inv, AcceptSecond, BothAccept, Accepting, Trading
  <1>2. /\ q \in Players /\ p # q /\ m_trade[p] # None /\ m_trade[q] # None /\ m_trade[q].trader = p /\ m_trade[q].accepted
    BY <1>1, NoTradeAssumption DEF Pair, AcceptSecond, BothAccept
  <1>3. /\ agreed[q].his.money = m_trade[p].money /\ agreed[q].his.items = m_trade[p].items
        /\ agreed[q].mine.money = m_trade[q].money
    BY <1>1, <1>2 DEF Inv, ConsentInv, Untouched, AsAgreed, GetTrader
  <1>4. agreed'[p] = Offers(p) /\ agreed'[q] = agreed[q]
    BY <1>2 DEF AcceptSecond, Inv, ConsentInv
  <1>5. /\ agreed'[p].his.money = m_trade[q].money /\ agreed'[p].his.items = m_trade[q].items
        /\ agreed'[p].mine.money = m_trade[p].money
    BY <1>1, <1>4 DEF Offers, Offer
  <1>6. TakenOf(ItemsOf(p), m_trade[p].items, gone[p]) /\ TakenOf(ItemsOf(q), m_trade[q].items, gone[q])
    BY <1>1, <1>2, MissingHasLeft
  <1>7. /\ who' = p /\ gone' = gone /\ myItems' = ItemsOf(p) /\ hisItems' = ItemsOf(q)
        /\ m_trade' = Given(m_trade, p)
    BY <1>1 DEF AcceptSecond, BothAccept, Accepting, Given
  <1>8. m_trade'[p].trader = q
    BY <1>1, <1>7, GivenFacts DEF SamePairs, Pair
  <1>9. /\ agreed'[p].mine.money = agreed'[q].his.money /\ agreed'[q].mine.money = agreed'[p].his.money
        /\ TakenOf(myItems', agreed'[q].his.items, gone'[p]) /\ TakenOf(hisItems', agreed'[p].his.items, gone'[q])
    BY <1>3, <1>4, <1>5, <1>6, <1>7
  <1>10. QED
    BY <1>7, <1>8, <1>9 DEF TakenAsAgreed, TakenOf, GetTrader

(* Every step keeps it.                                                        *)
LEMMA NextTaken == Inv /\ TakenAsAgreed /\ [Next]_vars => TakenAsAgreed'
  <1> SUFFICES ASSUME Inv, TakenAsAgreed, [Next]_vars PROVE TakenAsAgreed'
    OBVIOUS
  <1>1. CASE MoveItems
    <2>1. PICK p \in Players, q \in Players : p = who /\ q = GetTrader(p) /\ Pair(m_trade, p, q)
      BY <1>1, TradersPair DEF Inv, TradeSymmetric, MoveItems, Pair
    <2>2. PairKept(p, q)
      BY <1>1, <2>1, RoundFacts
    <2>3. m_trade'[p].trader = q
      BY <2>2 DEF PairKept
    <2>4. step # "idle" /\ UNCHANGED <<who, agreed, gone, myItems, hisItems>>
      BY <1>1 DEF MoveItems
    <2>5. QED
      BY <2>1, <2>3, <2>4 DEF TakenAsAgreed, GetTrader
  <1>2. CASE \E p \in Players : AcceptSecond(p)
    BY <1>2, SecondTaken
  <1>3. CASE UNCHANGED vars
    BY <1>3 DEF vars, goods, handler, TakenAsAgreed, GetTrader
  <1>4. CASE Quiet
    BY <1>4 DEF Quiet, TakenAsAgreed
  <1>5. ASSUME NEW p \in Players, NEW i \in Items, Outdoors(p, i)
        PROVE  step' = "idle"
    BY <1>5 DEF Outdoors, RemoveItem, StoreNewItem, Outside, handler
  <1>6. QED
    BY <1>1, <1>2, <1>3, <1>4, <1>5, StepKinds DEF TakenAsAgreed

(* Everything that is counted is finite.                                       *)
LEMMA Countable ==
  ASSUME NEW S \in SUBSET Items
  PROVE  IsFiniteSet(S) /\ Cardinality(S) \in Nat
  BY LimitAssumption, FS_Subset, FS_CardinalityType

(* A subset has no more members.                                               *)
LEMMA CountLess ==
  ASSUME NEW S \in SUBSET Items, NEW T \in SUBSET S
  PROVE  Cardinality(T) \in Nat /\ Cardinality(S) \in Nat /\ Cardinality(T) <= Cardinality(S)
  <1>1. IsFiniteSet(S) /\ Cardinality(S) \in Nat /\ Cardinality(T) \in Nat
    BY Countable
  <1>2. QED
    BY <1>1, FS_Subset

(* One more, and one less.                                                     *)
LEMMA CountOne ==
  ASSUME NEW S \in SUBSET Items, NEW i \in Items
  PROVE  /\ i \notin S => Cardinality(S \cup {i}) = Cardinality(S) + 1
         /\ i \in S => Cardinality(S \ {i}) = Cardinality(S) - 1
  <1>1. IsFiniteSet(S)
    BY Countable
  <1>2. QED
    BY <1>1, FS_AddElement, FS_RemoveElement

(* What is taken out of a bag leaves that much room.                           *)
LEMMA CountTaken ==
  ASSUME NEW S \in SUBSET Items, NEW T \in SUBSET S
  PROVE  Cardinality(S \ T) = Cardinality(S) - Cardinality(T)
  <1>1. IsFiniteSet(S)
    BY Countable
  <1>2. Cardinality(S \ T) = Cardinality(S) - Cardinality(S \cap T)
    BY <1>1, FS_Difference
  <1>3. S \cap T = T
    OBVIOUS
  <1>4. QED
    BY <1>2, <1>3

(* The room and the limits with the bag as a parameter.                        *)
Alike(S, i) == {j \in S \ {i} : Kind[j] = Kind[i]}
Takes(S, c, i) == MaxCount[Kind[i]] = 0 \/ Cardinality(Alike(S, i)) + c + 1 <= MaxCount[Kind[i]]

(* An item of a unique template that can be taken is the only one.             *)
LEMMA TakesUnique ==
  ASSUME NEW S \in SUBSET Items, NEW i \in Items, NEW c \in Nat, Takes(S, c, i), MaxCount[Kind[i]] = 1
  PROVE  \A j \in S : Kind[j] = Kind[i] => j = i
  <1>1. Alike(S, i) \in SUBSET Items
    BY DEF Alike
  <1>2. IsFiniteSet(Alike(S, i)) /\ Cardinality(Alike(S, i)) \in Nat
    BY <1>1, Countable
  <1>3. Cardinality(Alike(S, i)) = 0
    BY <1>2 DEF Takes
  <1>4. Alike(S, i) = {}
    BY <1>2, <1>3, FS_EmptySet
  <1>5. QED
    BY <1>4 DEF Alike

(* Another item that is not of its template, or has no limit, is no obstacle.  *)
LEMMA TakesAfter ==
  ASSUME NEW S \in SUBSET Items, NEW i \in Items, NEW k \in Items, NEW c, Takes(S, c, k),
         Kind[i] = Kind[k] => MaxCount[Kind[k]] = 0
  PROVE  Takes(S \cup {i}, c, k)
  <1>1. CASE MaxCount[Kind[k]] = 0
    BY <1>1 DEF Takes
  <1>2. CASE Kind[i] # Kind[k]
    <2>1. Alike(S \cup {i}, k) = Alike(S, k)
      BY <1>2 DEF Alike
    <2>2. QED
      BY <2>1 DEF Takes
  <1>3. QED
    BY <1>1, <1>2

(* What a fuller bag takes, an emptier one takes too.                          *)
LEMMA TakesFewer ==
  ASSUME NEW S \in SUBSET Items, NEW T \in SUBSET S, NEW k \in Items, NEW c \in Nat, Takes(S, c, k)
  PROVE  Takes(T, c, k)
  <1>1. Alike(S, k) \in SUBSET Items /\ Alike(T, k) \in SUBSET Alike(S, k)
    BY DEF Alike
  <1>2. PICK m \in Nat, n \in Nat : m = Cardinality(Alike(S, k)) /\ n = Cardinality(Alike(T, k)) /\ n <= m
    BY <1>1, CountLess
  <1>3. MaxCount[Kind[k]] \in Nat
    BY LimitAssumption
  <1>4. QED
    BY <1>2, <1>3 DEF Takes

(* The items in C fit into the bag S one after the other, and those of P are   *)
(* in either.                                                                  *)
FitsIn(S, C, room, P) ==
    /\ Cardinality(S) + Cardinality(C) <= room
    /\ \A i \in C : Takes(S, 0, i)
    /\ \A i, j \in C : Kind[i] = Kind[j] /\ MaxCount[Kind[i]] > 0 => i = j
    /\ P \subseteq C \cup S

(* The next of them can be stored.                                             *)
LEMMA FitsNext ==
  ASSUME NEW S \in SUBSET Items, NEW C \in SUBSET Items, NEW room \in Nat, NEW P, NEW i \in C,
         FitsIn(S, C, room, P)
  PROVE  Takes(S, 0, i) /\ Cardinality(S) + 1 <= room
  <1>1. PICK m \in Nat, n \in Nat : m = Cardinality(S) /\ n = Cardinality(C)
    BY Countable
  <1>2. n # 0
    <2>1. IsFiniteSet(C)
      BY Countable
    <2>2. QED
      BY <1>1, <2>1, FS_EmptySet
  <1>3. m + n <= room /\ Takes(S, 0, i)
    BY <1>1 DEF FitsIn
  <1>4. m + 1 <= room
    BY <1>1, <1>2, <1>3
  <1>5. QED
    BY <1>1, <1>3, <1>4

(* And then the others still fit.                                              *)
LEMMA FitsStored ==
  ASSUME NEW S \in SUBSET Items, NEW C \in SUBSET Items, NEW room \in Nat, NEW P, NEW i \in C, i \notin S,
         FitsIn(S, C, room, P)
  PROVE  FitsIn(S \cup {i}, C \ {i}, room, P)
  <1>1. PICK m \in Nat, n \in Nat : m = Cardinality(S) /\ n = Cardinality(C)
    BY Countable
  <1>2. Cardinality(S \cup {i}) = m + 1 /\ Cardinality(C \ {i}) = n - 1
    BY <1>1, CountOne
  <1>3. m + n <= room
    BY <1>1 DEF FitsIn
  <1>4. Cardinality(S \cup {i}) + Cardinality(C \ {i}) <= room
    BY <1>1, <1>2, <1>3
  <1>5. ASSUME NEW k \in C \ {i} PROVE Takes(S \cup {i}, 0, k)
    <2>1. Takes(S, 0, k) /\ (Kind[k] = Kind[i] /\ MaxCount[Kind[k]] > 0 => k = i)
      BY DEF FitsIn
    <2>2. Kind[i] = Kind[k] => MaxCount[Kind[k]] = 0
      BY <2>1, LimitAssumption
    <2>3. QED
      BY <2>1, <2>2, TakesAfter
  <1>6. P \subseteq (C \ {i}) \cup (S \cup {i})
    BY DEF FitsIn
  <1>7. \A k, j \in C \ {i} : Kind[k] = Kind[j] /\ MaxCount[Kind[k]] > 0 => k = j
    BY DEF FitsIn
  <1>8. QED
    BY <1>4, <1>5, <1>6, <1>7 DEF FitsIn

(* They do at first, when CanStoreItems has agreed and none of them competes.  *)
LEMMA FitsFirst ==
  ASSUME NEW A \in SUBSET Items, NEW G \in SUBSET A, NEW C \in SUBSET Items, NEW room \in Nat,
         Cardinality(A) - Cardinality(G) + Cardinality(C) <= room,
         \A i \in C : Takes(A, 0, i),
         \A i, j \in C : Kind[i] = Kind[j] /\ MaxCount[Kind[i]] > 0 => i = j
  PROVE  FitsIn(A \ G, C, room, C)
  <1>1. Cardinality(A \ G) = Cardinality(A) - Cardinality(G)
    BY CountTaken
  <1>2. \A i \in C : Takes(A \ G, 0, i)
    BY TakesFewer
  <1>3. QED
    BY <1>1, <1>2 DEF FitsIn

(* Deliverable is about the bag as it is, while there are no clones.           *)
LEMMA DeliverableFits ==
  ASSUME TypeOK, NEW x \in Players, clones[x] = {}, NEW items
  PROVE  /\ Deliverable(items, x) <=> FitsIn(inventory[x], Coming(items), Room[x], Present(items))
         /\ Occupied(x) = Cardinality(inventory[x]) /\ Cardinality(inventory[x]) \in Nat
         /\ \A i : CanTakeMoreSimilarItems(x, i) <=> Takes(inventory[x], 0, i)
  <1>1. PICK S \in SUBSET Items : S = inventory[x]
    BY DEF TypeOK
  <1>2. Cardinality(S) \in Nat /\ Cardinality({}) = 0
    BY Countable, FS_EmptySet
  <1>3. Occupied(x) = Cardinality(S)
    BY <1>1, <1>2 DEF Occupied
  <1>4. ASSUME NEW i PROVE CanTakeMoreSimilarItems(x, i) <=> Takes(S, 0, i)
    <2>1. {j \in clones[x] : Kind[j] = Kind[i]} = {}
      OBVIOUS
    <2>2. Similar(x, i) = Cardinality(Alike(S, i)) + 0
      BY <1>1, <1>2, <2>1 DEF Similar, Alike
    <2>3. QED
      BY <2>2 DEF CanTakeMoreSimilarItems, Takes
  <1>5. QED
    BY <1>1, <1>2, <1>3, <1>4 DEF Deliverable, FitsIn

(* The same of the state after a step.                                         *)
LEMMA DeliverableFitsAfter ==
  ASSUME TypeOK', NEW x \in Players, clones'[x] = {}, NEW items
  PROVE  Deliverable(items, x)' <=> FitsIn(inventory'[x], Coming(items)', Room[x], Present(items))
  <1>1. PICK S \in SUBSET Items : S = inventory'[x]
    BY DEF TypeOK
  <1>2. Cardinality(S) \in Nat /\ Cardinality({}) = 0
    BY Countable, FS_EmptySet
  <1>3. Occupied(x)' = Cardinality(S)
    BY <1>1, <1>2 DEF Occupied
  <1>4. ASSUME NEW i PROVE CanTakeMoreSimilarItems(x, i)' <=> Takes(S, 0, i)
    <2>1. {j \in clones'[x] : Kind[j] = Kind[i]} = {}
      OBVIOUS
    <2>2. Similar(x, i)' = Cardinality(Alike(S, i)) + 0
      BY <1>1, <1>2, <2>1 DEF Similar, Alike
    <2>3. QED
      BY <2>2 DEF CanTakeMoreSimilarItems, Takes
  <1>5. QED
    BY <1>1, <1>2, <1>3, <1>4 DEF Deliverable, FitsIn

(* What a round of moveItems leaves to be given.                               *)
LEMMA ComingStep ==
  ASSUME NEW items \in [TradedSlots -> Items \cup {None}], slot \in TradedSlots, slot' = slot + 1,
         \A s, t \in slot..(NumSlots - 1) : items[s] # None /\ items[s] = items[t] => s = t
  PROVE  /\ Coming(items) \in SUBSET Items
         /\ items[slot] # None => items[slot] \in Coming(items)
         /\ Coming(items)' = Coming(items) \ {items[slot]}
  <1>1. PICK n \in TradedSlots : n = slot /\ slot' = n + 1
    OBVIOUS
  <1>2. /\ n \in n..(NumSlots - 1) /\ n..(NumSlots - 1) \subseteq TradedSlots
        /\ \A s : s \in n..(NumSlots - 1) <=> s = n \/ s \in (n + 1)..(NumSlots - 1)
        /\ n \notin (n + 1)..(NumSlots - 1)
    BY NumbersAssumption DEF TradedSlots
  <1>3. Coming(items) = {items[s] : s \in n..(NumSlots - 1)} \ {None}
    BY <1>1 DEF Coming
  <1>4. Coming(items)' = {items[s] : s \in (n + 1)..(NumSlots - 1)} \ {None}
    BY <1>1 DEF Coming
  <1>5. QED
    BY <1>1, <1>2, <1>3, <1>4

(* All that is kept about the goods.                                           *)
ItemsInv == ItemsConserved /\ UniqueInv /\ FitInv

(* An item that is coming to x can be traded to x.                             *)
LEMMA TradeWorks ==
  ASSUME TypeOK, NEW x \in Players, clones[x] = {}, NEW items, NEW i,
         Coming(items) \in SUBSET Items, i # None => i \in Coming(items), Deliverable(items, x)
  PROVE  CanTrade(x, i)
  <1> SUFFICES ASSUME i # None PROVE CanStoreItem(x, i, 0)
    BY DEF CanTrade
  <1>1. FitsIn(inventory[x], Coming(items), Room[x], Present(items))
    BY DeliverableFits
  <1>2. inventory[x] \in SUBSET Items /\ Room[x] \in Nat
    BY RoomAssumption DEF TypeOK
  <1>3. PICK S, C, r, P : S = inventory[x] /\ C = Coming(items) /\ r = Room[x] /\ P = Present(items)
    OBVIOUS
  <1>4. S \in SUBSET Items /\ C \in SUBSET Items /\ r \in Nat /\ i \in C /\ FitsIn(S, C, r, P)
    BY <1>1, <1>2, <1>3
  <1>5. Takes(S, 0, i) /\ Cardinality(S) + 1 <= r
    BY <1>4, FitsNext
  <1>6. Occupied(x) = Cardinality(S) /\ Cardinality(S) \in Nat /\ CanTakeMoreSimilarItems(x, i)
    BY <1>3, <1>5, DeliverableFits
  <1>7. QED
    BY <1>3, <1>5, <1>6 DEF CanStoreItem

(* The others still fit when it is stored.                                     *)
LEMMA StoredFits ==
  ASSUME TypeOK, TypeOK', NEW x \in Players, clones[x] = {}, clones' = clones, NEW items, NEW i,
         Coming(items) \in SUBSET Items, i # None => i \in Coming(items), Deliverable(items, x),
         i \notin inventory[x], inventory'[x] = inventory[x] \cup Optional(i),
         Coming(items)' = Coming(items) \ {i}
  PROVE  Deliverable(items, x)'
  <1>1. FitsIn(inventory[x], Coming(items), Room[x], Present(items))
    BY DeliverableFits
  <1>2. inventory[x] \in SUBSET Items /\ Room[x] \in Nat
    BY RoomAssumption DEF TypeOK
  <1>3. PICK S, C, r, P : S = inventory[x] /\ C = Coming(items) /\ r = Room[x] /\ P = Present(items)
    OBVIOUS
  <1>4. S \in SUBSET Items /\ C \in SUBSET Items /\ r \in Nat /\ FitsIn(S, C, r, P) /\ i \notin S
    BY <1>1, <1>2, <1>3
  <1>5. FitsIn(S \cup Optional(i), C \ {i}, r, P)
    <2>1. CASE i = None
      <3>1. None \notin C
        BY <1>3 DEF Coming
      <3>2. S \cup Optional(i) = S /\ C \ {i} = C
        BY <2>1, <3>1 DEF Optional
      <3>3. QED
        BY <1>4, <3>2
    <2>2. CASE i # None
      <3>1. i \in C /\ Optional(i) = {i}
        BY <1>3, <2>2 DEF Optional
      <3>2. QED
        BY <1>4, <3>1, FitsStored
    <2>3. QED
      BY <2>1, <2>2
  <1>6. FitsIn(inventory'[x], Coming(items)', Room[x], Present(items))
    BY <1>3, <1>5
  <1>7. clones'[x] = {}
    OBVIOUS
  <1>8. QED
    BY <1>6, <1>7, DeliverableFitsAfter

(* Nor does the bag get a second item of a unique template.                    *)
LEMMA StoredUnique ==
  ASSUME TypeOK, NEW x \in Players, clones[x] = {}, NEW i, i # None => i \in Items /\ CanTakeMoreSimilarItems(x, i),
         inventory'[x] = inventory[x] \cup Optional(i),
         \A j, k \in inventory[x] : Kind[j] = Kind[k] /\ MaxCount[Kind[j]] = 1 => j = k
  PROVE  \A j, k \in inventory'[x] : Kind[j] = Kind[k] /\ MaxCount[Kind[j]] = 1 => j = k
  <1>1. CASE i = None
    BY <1>1 DEF Optional
  <1>2. CASE i # None
    <2>1. PICK S \in SUBSET Items : S = inventory[x]
      BY DEF TypeOK
    <2>2. Takes(S, 0, i)
      BY <1>2, <2>1, DeliverableFits
    <2>3. MaxCount[Kind[i]] = 1 => \A j \in S : Kind[j] = Kind[i] => j = i
      BY <1>2, <2>2, TakesUnique
    <2>4. inventory'[x] = S \cup {i}
      BY <1>2, <2>1 DEF Optional
    <2>5. QED
      BY <2>1, <2>3, <2>4
  <1>3. QED
    BY <1>1, <1>2

(* Of ItemsConserved all that is not in PlaceInv: no clones, and every item is *)
(* somewhere.                                                                  *)
LEMMA ConservedAfter ==
  ASSUME TypeOK', PlaceInv', \A x \in Players : clones'[x] = {},
         \A k \in Items : k \in world' \/ k \in InTransit' \/ \E x \in Players : k \in inventory'[x]
  PROVE  ItemsConserved'
  <1>1. InTransit' \subseteq Items /\ world' \subseteq Items /\ \A x \in Players : inventory'[x] \subseteq Items
    BY DEF InTransit, TypeOK
  <1>2. ASSUME NEW k \in InTransit' PROVE k \notin world' /\ \A x \in Players : k \notin inventory'[x]
    <2>1. PICK s \in slot'..(NumSlots - 1) : step' = "move" /\ k \in {myItems'[s], hisItems'[s]} /\ k # None
      BY NoneAssumption DEF InTransit
    <2>2. QED
      BY <2>1 DEF PlaceInv
  <1>3. Items = world' \cup InTransit' \cup UNION {inventory'[x] : x \in Players}
    BY <1>1
  <1>4. /\ \A x \in Players : inventory'[x] \cap (world' \cup InTransit') = {}
        /\ \A x, y \in Players : x # y => inventory'[x] \cap inventory'[y] = {}
        /\ world' \cap InTransit' = {}
    BY <1>2 DEF PlaceInv
  <1>5. QED
    BY <1>3, <1>4 DEF ItemsConserved

(* A round of moveItems gives both players what is in the slot.                *)
LEMMA MoveGoods ==
  ASSUME Inv, Inv', ItemsInv, MoveItems, unchecked = {}
  PROVE  ItemsInv'
  <1>1. PICK p \in Players, q \in Players : p = who /\ q = GetTrader(p) /\ Pair(m_trade, p, q)
    BY TradersPair DEF Inv, TradeSymmetric, MoveItems, Pair
  <1>2. PICK mine, his, i, j : mine = myItems /\ his = hisItems /\ i = mine[slot] /\ j = his[slot]
    OBVIOUS
  <1>3. /\ step = "move" /\ slot \in TradedSlots /\ slot' = slot + 1 /\ slot \in slot..(NumSlots - 1) /\ slot \in Nat
        /\ mine \in [TradedSlots -> Items \cup {None}] /\ his \in [TradedSlots -> Items \cup {None}]
    BY <1>2, NumbersAssumption DEF Inv, TypeOK, MoveItems, TradedSlots
  <1>4. (\A x \in Players : clones[x] = {}) /\ Deliverable(mine, q) /\ Deliverable(his, p)
    BY <1>1, <1>2, <1>3 DEF ItemsInv, ItemsConserved, FitInv
  <1>5. /\ \A s, t \in slot..(NumSlots - 1) : mine[s] # None /\ mine[s] = mine[t] => s = t
        /\ \A s, t \in slot..(NumSlots - 1) : his[s] # None /\ his[s] = his[t] => s = t
    BY <1>2, <1>3 DEF Inv, PlaceInv
  <1>6. /\ Coming(mine) \in SUBSET Items /\ (i # None => i \in Coming(mine)) /\ Coming(mine)' = Coming(mine) \ {i}
        /\ Coming(his) \in SUBSET Items /\ (j # None => j \in Coming(his)) /\ Coming(his)' = Coming(his) \ {j}
    BY <1>2, <1>3, <1>5, ComingStep
  <1>7. TypeOK /\ TypeOK' /\ PlaceInv' /\ p # q
    BY <1>1 DEF Inv, Pair
  <1>8. CanTrade(q, i) /\ CanTrade(p, j)
    BY <1>4, <1>6, <1>7, TradeWorks
  <1>9. /\ inventory' = [inventory EXCEPT ![p] = @ \cup Optional(j), ![q] = @ \cup Optional(i)] /\ clones' = clones
        /\ UNCHANGED <<who, myItems, hisItems, unchecked, world>>
        /\ step' = (IF slot + 1 = NumSlots THEN "pay" ELSE "move")
    BY <1>1, <1>2, <1>8 DEF MoveItems, SlotWorks, Store, LastSlot
  <1>10. /\ inventory'[p] = inventory[p] \cup Optional(j) /\ inventory'[q] = inventory[q] \cup Optional(i)
         /\ \A x \in Players \ {p, q} : inventory'[x] = inventory[x]
    BY <1>7, <1>9 DEF TypeOK
  <1>11. i \notin inventory[q] /\ j \notin inventory[p] /\ (i # None => i \in Items) /\ (j # None => j \in Items)
    <2>1. \A k \in {i, j} \ {None} : \A x \in Players : k \notin inventory[x]
      BY <1>2, <1>3 DEF Inv, PlaceInv
    <2>2. None \notin inventory[p] /\ None \notin inventory[q]
      BY <1>7, NoneAssumption DEF TypeOK
    <2>3. QED
      BY <1>2, <1>3, <2>1, <2>2
  <1>12. Deliverable(mine, q)' /\ Deliverable(his, p)'
    BY <1>4, <1>6, <1>7, <1>9, <1>10, <1>11, StoredFits
  <1>13. FitInv'
    <2>1. who' = p /\ GetTrader(p)' = q
      <3>1. PairKept(p, q)
        BY <1>1, RoundFacts
      <3>2. m_trade'[p].trader = q
        BY <3>1 DEF PairKept
      <3>3. QED
        BY <1>1, <1>9, <3>2 DEF GetTrader
    <2>2. step' = "pay" => slot' = NumSlots
      BY <1>3, <1>9
    <2>3. QED
      BY <1>2, <1>9, <1>12, <2>1, <2>2 DEF FitInv
  <1>14. UniqueInv'
    <2>1. \A x \in Players : \A k, l \in inventory[x] : Kind[k] = Kind[l] /\ MaxCount[Kind[k]] = 1 => k = l
      BY DEF ItemsInv, UniqueInv
    <2>2. (i # None => CanTakeMoreSimilarItems(q, i)) /\ (j # None => CanTakeMoreSimilarItems(p, j))
      BY <1>8 DEF CanTrade, CanStoreItem
    <2>3. /\ \A k, l \in inventory'[q] : Kind[k] = Kind[l] /\ MaxCount[Kind[k]] = 1 => k = l
          /\ \A k, l \in inventory'[p] : Kind[k] = Kind[l] /\ MaxCount[Kind[k]] = 1 => k = l
      BY <1>4, <1>7, <1>10, <1>11, <2>1, <2>2, StoredUnique
    <2>4. QED
      BY <1>10, <2>1, <2>3 DEF UniqueInv
  <1>15. ItemsConserved'
    <2>1. ASSUME NEW k \in Items
          PROVE  k \in world' \/ k \in InTransit' \/ \E x \in Players : k \in inventory'[x]
      <3>1. k \in world \/ k \in InTransit \/ \E x \in Players : k \in inventory[x]
        BY DEF ItemsInv, ItemsConserved
      <3>2. CASE k \in InTransit
        <4>1. PICK s \in slot..(NumSlots - 1) : k \in {mine[s], his[s]}
          BY <1>2, <3>2 DEF InTransit
        <4>2. CASE s = slot
          <5>1. k \in Optional(i) \/ k \in Optional(j)
            BY <1>2, <4>1, <4>2, NoneAssumption DEF Optional
          <5>2. QED
            BY <1>10, <5>1
        <4>3. CASE s # slot
          <5>1. s \in slot'..(NumSlots - 1) /\ step' = "move"
            BY <1>3, <1>9, <4>1, <4>3, NumbersAssumption
          <5>2. QED
            BY <1>2, <1>9, <4>1, <5>1 DEF InTransit
        <4>4. QED
          BY <4>2, <4>3
      <3>3. \A x \in Players : inventory[x] \subseteq inventory'[x]
        BY <1>10
      <3>4. QED
        BY <1>9, <3>1, <3>2, <3>3
    <2>2. QED
      BY <1>4, <1>7, <1>9, <2>1, ConservedAfter
  <1>16. QED
    BY <1>13, <1>14, <1>15 DEF ItemsInv

(* What CanStoreItems says of the items get that x is to have for the items    *)
(* give, when none of get competes: they fit.                                  *)
LEMMA CheckedFits ==
  ASSUME TypeOK, TypeOK', NEW x \in Players, clones[x] = {}, clones' = clones, slot' = 0,
         NEW get, NEW give, CanStoreItems(x, get, give), Present(get) \in SUBSET Items,
         Present(give) \in SUBSET inventory[x], inventory'[x] = inventory[x] \ Present(give),
         \A i, j \in Present(get) : Kind[i] = Kind[j] /\ MaxCount[Kind[i]] > 0 => i = j
  PROVE  Deliverable(get, x)'
  <1>1. PICK A, G, C, r : A = inventory[x] /\ G = Present(give) /\ C = Present(get) /\ r = Room[x]
    OBVIOUS
  <1>2. A \in SUBSET Items /\ G \in SUBSET A /\ C \in SUBSET Items /\ r \in Nat
    BY <1>1, RoomAssumption DEF TypeOK
  <1>3. Cardinality(A) - Cardinality(G) + Cardinality(C) <= r /\ \A i \in C : Takes(A, 0, i)
    <2>1. Occupied(x) - Cardinality(G) + Cardinality(C) <= r /\ \A i \in C : CanTakeMoreSimilarItems(x, i)
      BY <1>1 DEF CanStoreItems
    <2>2. QED
      BY <1>1, <2>1, DeliverableFits
  <1>4. \A i, j \in C : Kind[i] = Kind[j] /\ MaxCount[Kind[i]] > 0 => i = j
    BY <1>1
  <1>5. FitsIn(A \ G, C, r, C)
    BY <1>2, <1>3, <1>4, FitsFirst
  <1>6. Coming(get)' = C
    BY <1>1 DEF Coming, Present, TradedSlots
  <1>7. FitsIn(inventory'[x], Coming(get)', Room[x], Present(get))
    BY <1>1, <1>5, <1>6
  <1>8. clones'[x] = {}
    OBVIOUS
  <1>9. QED
    BY <1>7, <1>8, DeliverableFitsAfter

(* Items of one player that do not compete.                                    *)
LEMMA NoCompetition ==
  ASSUME NEW items, NEW S, Present(items) \in SUBSET S, S \in SUBSET Items, Competing(items) = {},
         \A i, j \in S : Kind[i] = Kind[j] /\ MaxCount[Kind[i]] = 1 => i = j
  PROVE  \A i, j \in Present(items) : Kind[i] = Kind[j] /\ MaxCount[Kind[i]] > 0 => i = j
  <1> SUFFICES ASSUME NEW i \in Present(items), NEW j \in Present(items), Kind[i] = Kind[j], MaxCount[Kind[i]] > 0, i # j
               PROVE  FALSE
    OBVIOUS
  <1>1. MaxCount[Kind[i]] \in Nat
    BY LimitAssumption
  <1>2. CASE MaxCount[Kind[i]] = 1
    BY <1>2
  <1>3. CASE MaxCount[Kind[i]] > 1
    <2>1. i \in {k \in Present(items) : MaxCount[Kind[k]] > 1 /\ \E l \in Present(items) \ {k} : Kind[l] = Kind[k]}
      BY <1>3
    <2>2. QED
      BY <2>1 DEF Competing
  <1>4. QED
    BY <1>1, <1>2, <1>3

(* The second consent: everything moveItems holds fits.                        *)
LEMMA SecondGoods ==
  ASSUME Inv, Inv', ItemsInv, NEW p \in Players, AcceptSecond(p), unchecked' = {}
  PROVE  ItemsInv'
  <1>1. PICK q : q = GetTrader(p) /\ Pair(m_trade, p, q) /\ step = "idle"
    BY TradersPair DEF Inv, AcceptSecond, BothAccept, Accepting, Trading
  <1>2. PICK mine, his : mine = ItemsOf(p) /\ his = ItemsOf(q)
    OBVIOUS
  <1>3. q \in Players /\ p # q /\ m_trade[p] # None /\ m_trade[q] # None /\ TypeOK /\ TypeOK' /\ PlaceInv'
    BY <1>1, NoTradeAssumption DEF Pair, Inv
  <1>4. /\ mine \in [TradedSlots -> Items \cup {None}] /\ his \in [TradedSlots -> Items \cup {None}]
        /\ \A s \in TradedSlots : mine[s] # None => mine[s] \in inventory[p]
        /\ \A s \in TradedSlots : his[s] # None => his[s] \in inventory[q]
    BY <1>1, <1>2, <1>3, TakenItems
  <1>5. /\ step' = "move" /\ who' = p /\ slot' = 0 /\ myItems' = mine /\ hisItems' = his
        /\ inventory' = [x \in Players |-> inventory[x] \ (Present(mine) \cup Present(his))]
        /\ unchecked' = unchecked \cup Competing(mine) \cup Competing(his)
        /\ clones' = clones /\ world' = world /\ m_trade' = Given(m_trade, p)
    BY <1>1, <1>2 DEF AcceptSecond, BothAccept, Accepting, Given
  <1>6. unchecked = {} /\ Competing(mine) = {} /\ Competing(his) = {}
    BY <1>5
  <1>7. Present(mine) \in SUBSET inventory[p] /\ Present(his) \in SUBSET inventory[q]
    BY <1>4 DEF Present
  <1>8. inventory[p] \in SUBSET Items /\ inventory[q] \in SUBSET Items /\ inventory[p] \cap inventory[q] = {}
    BY <1>3 DEF Inv, TypeOK, PlaceInv
  <1>9. \A x \in Players : clones[x] = {}
    BY <1>6 DEF ItemsInv, ItemsConserved
  <1>10. inventory'[p] = inventory[p] \ Present(mine) /\ inventory'[q] = inventory[q] \ Present(his)
    <2>1. /\ inventory'[p] = inventory[p] \ (Present(mine) \cup Present(his))
          /\ inventory'[q] = inventory[q] \ (Present(mine) \cup Present(his))
      BY <1>3, <1>5
    <2>2. QED
      BY <1>7, <1>8, <2>1
  <1>11. CanStoreItems(q, mine, his) /\ CanStoreItems(p, his, mine)
    BY <1>1, <1>2 DEF AcceptSecond, AllFit
  <1>12. \A x \in Players : \A k, l \in inventory[x] : Kind[k] = Kind[l] /\ MaxCount[Kind[k]] = 1 => k = l
    BY <1>6 DEF ItemsInv, UniqueInv
  <1>13. /\ \A i, j \in Present(mine) : Kind[i] = Kind[j] /\ MaxCount[Kind[i]] > 0 => i = j
         /\ \A i, j \in Present(his) : Kind[i] = Kind[j] /\ MaxCount[Kind[i]] > 0 => i = j
    BY <1>3, <1>6, <1>7, <1>8, <1>12, NoCompetition
  <1>14. Present(mine) \in SUBSET Items /\ Present(his) \in SUBSET Items
    BY <1>7, <1>8
  <1>15. Deliverable(mine, q)' /\ Deliverable(his, p)'
    BY <1>3, <1>5, <1>7, <1>9, <1>10, <1>11, <1>13, <1>14, CheckedFits
  <1>16. FitInv'
    <2>1. m_trade'[p].trader = q
      BY <1>1, <1>5, GivenFacts DEF SamePairs, Pair
    <2>2. QED
      BY <1>5, <1>15, <2>1 DEF FitInv, GetTrader
  <1>17. UniqueInv'
    BY <1>5, <1>12 DEF UniqueInv
  <1>18. ItemsConserved'
    <2>1. ASSUME NEW k \in Items
          PROVE  k \in world' \/ k \in InTransit' \/ \E x \in Players : k \in inventory'[x]
      <3>1. k \in world \/ \E x \in Players : k \in inventory[x]
        BY <1>1, <1>6 DEF ItemsInv, ItemsConserved, InTransit
      <3>2. k \in Present(mine) \cup Present(his) => k \in InTransit'
        BY <1>5 DEF Present, InTransit, TradedSlots
      <3>3. QED
        BY <1>5, <3>1, <3>2
    <2>2. QED
      BY <1>3, <1>5, <1>9, <2>1, ConservedAfter
  <1>19. QED
    BY <1>16, <1>17, <1>18 DEF ItemsInv

(* Outside the trade items come and go one by one.                             *)
LEMMA OutdoorsGoods ==
  ASSUME Inv, Inv', ItemsInv, NEW p \in Players, NEW i \in Items, Outdoors(p, i), unchecked = {}
  PROVE  ItemsInv'
  <1>1. step = "idle" /\ step' = "idle" /\ clones' = clones /\ TypeOK /\ TypeOK' /\ PlaceInv'
    BY DEF Outdoors, RemoveItem, StoreNewItem, Outside, handler, Inv
  <1>2. /\ \A x \in Players : clones[x] = {}
        /\ \A k \in Items : k \in world \/ \E x \in Players : k \in inventory[x]
        /\ \A x \in Players : \A k, l \in inventory[x] : Kind[k] = Kind[l] /\ MaxCount[Kind[k]] = 1 => k = l
    BY <1>1 DEF ItemsInv, ItemsConserved, UniqueInv, InTransit
  <1>3. FitInv'
    BY <1>1 DEF FitInv
  <1>4. CASE RemoveItem(p, i)
    <2>1. /\ world' = world \cup {i} /\ \A x \in Players : inventory'[x] = IF x = p THEN inventory[x] \ {i} ELSE inventory[x]
      BY <1>1, <1>4 DEF RemoveItem, TypeOK
    <2>2. UniqueInv'
      BY <1>2, <2>1 DEF UniqueInv
    <2>3. \A k \in Items : k \in world' \/ \E x \in Players : k \in inventory'[x]
      BY <1>2, <2>1
    <2>4. ItemsConserved'
      BY <1>1, <1>2, <2>3, ConservedAfter
    <2>5. QED
      BY <1>3, <2>2, <2>4 DEF ItemsInv
  <1>5. CASE StoreNewItem(p, i)
    <2>1. /\ world' = world \ {i} /\ CanStoreItem(p, i, 0)
          /\ \A x \in Players : inventory'[x] = IF x = p THEN inventory[x] \cup {i} ELSE inventory[x]
      BY <1>1, <1>5 DEF StoreNewItem, TypeOK
    <2>2. UniqueInv'
      <3>1. i # None /\ Optional(i) = {i} /\ CanTakeMoreSimilarItems(p, i)
        BY <2>1, NoneAssumption DEF Optional, CanStoreItem
      <3>2. \A k, l \in inventory'[p] : Kind[k] = Kind[l] /\ MaxCount[Kind[k]] = 1 => k = l
        <4>1. inventory'[p] = inventory[p] \cup Optional(i) /\ clones[p] = {}
          BY <1>2, <2>1, <3>1
        <4>2. \A k, l \in inventory[p] : Kind[k] = Kind[l] /\ MaxCount[Kind[k]] = 1 => k = l
          BY <1>2
        <4>3. QED
          BY <1>1, <3>1, <4>1, <4>2, StoredUnique
      <3>3. QED
        BY <1>2, <2>1, <3>2 DEF UniqueInv
    <2>3. \A k \in Items : k \in world' \/ \E x \in Players : k \in inventory'[x]
      BY <1>2, <2>1
    <2>4. ItemsConserved'
      BY <1>1, <1>2, <2>3, ConservedAfter
    <2>5. QED
      BY <1>3, <2>2, <2>4 DEF ItemsInv
  <1>6. QED
    BY <1>4, <1>5 DEF Outdoors

(* Every step keeps the goods.                                                 *)
LEMMA NextGoods == Inv /\ Inv' /\ ItemsInv /\ [Next]_vars => ItemsInv'
  <1> SUFFICES ASSUME Inv, Inv', ItemsInv, [Next]_vars PROVE ItemsInv'
    OBVIOUS
  <1>1. CASE unchecked' # {}
    BY <1>1 DEF ItemsInv, ItemsConserved, UniqueInv, FitInv
  <1>2. CASE unchecked' = {}
    <2>1. CASE MoveItems
      <3>1. unchecked = {}
        BY <1>2, <2>1 DEF MoveItems
      <3>2. QED
        BY <2>1, <3>1, MoveGoods
    <2>2. CASE \E p \in Players : AcceptSecond(p)
      BY <1>2, <2>2, SecondGoods
    <2>3. CASE UNCHANGED vars
      <3>1. UNCHANGED <<m_trade, inventory, clones, world, step, who, slot, myItems, hisItems, unchecked>>
        BY <2>3 DEF vars, goods, handler
      <3>2. ItemsConserved' /\ UniqueInv'
        BY <3>1 DEF ItemsInv, ItemsConserved, UniqueInv, InTransit
      <3>3. \A items, x : Deliverable(items, x)' <=> Deliverable(items, x)
        BY <3>1 DEF Deliverable, Coming, Occupied, CanTakeMoreSimilarItems, Similar
      <3>4. FitInv'
        BY <3>1, <3>3 DEF ItemsInv, FitInv, GetTrader
      <3>5. QED
        BY <3>2, <3>4 DEF ItemsInv
    <2>4. CASE Quiet
      BY <2>4 DEF Quiet, ItemsInv, ItemsConserved, UniqueInv, FitInv, InTransit
    <2>5. ASSUME NEW p \in Players, NEW i \in Items, Outdoors(p, i)
          PROVE  unchecked' = unchecked
      BY <2>5 DEF Outdoors, RemoveItem, StoreNewItem, handler
    <2>6. QED
      BY <1>2, <2>1, <2>2, <2>3, <2>4, <2>5, StepKinds, OutdoorsGoods
  <1>3. QED
    BY <1>1, <1>2

(* They are in order at first.                                                 *)
LEMMA InitGoods == Init => ItemsInv /\ TakenAsAgreed
  <1> SUFFICES ASSUME Init PROVE ItemsInv /\ TakenAsAgreed
    OBVIOUS
  <1>1. step = "idle" /\ InTransit = {}
    BY DEF Init, InTransit
  <1>2. ItemsConserved
    BY <1>1 DEF Init, ItemsConserved
  <1>3. UniqueInv
    <2> SUFFICES ASSUME NEW p \in Players, NEW i \in inventory[p], NEW j \in inventory[p],
                        Kind[i] = Kind[j], MaxCount[Kind[i]] = 1
                 PROVE  i = j
      BY DEF UniqueInv
    <2>1. PICK S \in SUBSET Items : S = {k \in inventory[p] : Kind[k] = Kind[i]}
      BY DEF Init
    <2>2. Cardinality(S) <= 1 /\ IsFiniteSet(S) /\ Cardinality(S) \in Nat /\ i \in S /\ j \in S
      BY <2>1, Countable DEF Init
    <2>3. {i} \in SUBSET S /\ Cardinality({i}) = 1
      BY <2>2, FS_Singleton
    <2>4. Cardinality({i}) <= Cardinality(S) /\ (Cardinality(S) = Cardinality({i}) => S = {i})
      BY <2>2, <2>3, FS_Subset
    <2>5. S = {i}
      BY <2>2, <2>3, <2>4
    <2>6. QED
      BY <2>2, <2>5
  <1>4. QED
    BY <1>1, <1>2, <1>3 DEF ItemsInv, FitInv, TakenAsAgreed

(* Every item is in one bag, in the hands of moveItems or in the world, and    *)
(* nobody has it twice, over any sequence of trades, as long as no limited     *)
(* template with a limit above one was exchanged more than once at a time.     *)
THEOREM ItemsKept == Spec => []ItemsConserved
  <1>1. ItemsInv => ItemsConserved
    BY DEF ItemsInv
  <1>2. QED
    BY <1>1, InitGoods, NextGoods, Inductive, PTL DEF Spec

(* What changes hands is what both accepted, less what its owner did not have  *)
(* any more, and before the gold is paid all of it has arrived: the check of   *)
(* HandleAcceptTradeOpcode is enough for every round of moveItems.             *)
THEOREM ExchangeKept == Spec => []ExchangeAsAgreed
  <1>1. Inv /\ ItemsInv /\ TakenAsAgreed => ExchangeAsAgreed
    <2> SUFFICES ASSUME Inv, ItemsInv, step = "pay", unchecked = {}
                 PROVE  Arrived(myItems, GetTrader(who)) /\ Arrived(hisItems, who)
      BY DEF ExchangeAsAgreed
    <2>1. slot = NumSlots /\ Deliverable(myItems, GetTrader(who)) /\ Deliverable(hisItems, who)
      BY DEF ItemsInv, FitInv
    <2>2. slot..(NumSlots - 1) = {}
      BY <2>1, NumbersAssumption
    <2>3. Coming(myItems) = {} /\ Coming(hisItems) = {}
      BY <2>2 DEF Coming
    <2>4. QED
      BY <2>1, <2>3 DEF Deliverable, Arrived
  <1>2. QED
    BY <1>1, InitGoods, NextGoods, NextTaken, Inductive, PTL DEF Spec
=============================================================================
