-------------------------------- MODULE Trade --------------------------------
(* The trade window of two players: WorldSession's trade handlers, TradeData   *)
(* and the parts of Player and Item they rest on.  The handlers run in the     *)
(* world thread, one after the other; the exchange itself is a loop over the   *)
(* slots, whose rounds are steps of their own here (nothing else runs then).   *)
(* Between two handlers the players go on playing: items are sold, used,       *)
(* bound, looted and counted, money comes and goes.                            *)
(* Items are single objects: one item needs one place, stacks are not merged   *)
(* (so that an item fits or does not, never in part), an item is limited by    *)
(* its template or by its limit category, not by both, and a limited item is   *)
(* not a stack: its count is 1.                                                *)
EXTENDS Integers, FiniteSets

CONSTANTS
    Players, Items,
    None,            \* no item, no trade
    Kind,            \* Kind[i]: what limits item i, its template or its limit category
    MaxCount,        \* MaxCount[k]: how many of kind k a player may have, 0 for any
    Room,            \* Room[p]: the places in the bags of p
    NumSlots,        \* TRADE_SLOT_TRADED_COUNT
    MaxMoney,        \* MAX_MONEY_AMOUNT
    Amounts,         \* the amounts of gold a client offers
    MaxEvents        \* bound: how often something happens outside the trade

ASSUME NoneAssumption == None \notin Players \cup Items
ASSUME NumbersAssumption == NumSlots \in Nat \ {0} /\ MaxMoney \in Nat \ {0} /\ MaxEvents \in Nat
ASSUME AmountsAssumption == Amounts \subseteq Nat
ASSUME RoomAssumption == Room \in [Players -> Nat]
ASSUME LimitAssumption == IsFiniteSet(Items) /\ \A i \in Items : MaxCount[Kind[i]] \in Nat

VARIABLES
    m_trade,         \* Player::m_trade: the TradeData of a player, or None
    inventory,       \* the items of a player
    clones,          \* the items a player has a second time
    world,           \* the items nobody has: sold, mailed, not yet looted
    count,           \* ITEM_FIELD_STACK_COUNT
    bound,           \* the items that cannot be traded (any more)
    money,           \* Player::GetMoney
    step,            \* where HandleAcceptTradeOpcode is: "idle", "move" or "pay"
    who, slot,       \* the player whose handler it is, the slot of moveItems
    myItems, hisItems,
    agreed,          \* history: the offers a player has accepted
    gone,            \* history: the items that left a player since he offered them
    unchecked,       \* history: limited kinds of which several items were exchanged at once
    events           \* history: what happened outside the trade

handler == <<step, who, slot, myItems, hisItems, unchecked>>
goods == <<inventory, clones, world, count, bound, money>>
vars == <<m_trade, goods, handler, agreed, gone, events>>

TradedSlots == 0..(NumSlots - 1)
TRADE_SLOT_NONTRADED == NumSlots
TradeSlots == 0..NumSlots
NoItems == [s \in TradedSlots |-> None]

TradeDataType ==
    [trader : Players, accepted : BOOLEAN, money : Nat, spell : BOOLEAN,
     items : [TradeSlots -> Items \cup {None}]]

ASSUME NoTradeAssumption == None \notin TradeDataType

Init ==
    /\ m_trade = [p \in Players |-> None]
    /\ inventory \in [Players -> SUBSET Items]
    /\ \A p, q \in Players : p # q => inventory[p] \cap inventory[q] = {}
    /\ \A p \in Players : /\ Cardinality(inventory[p]) <= Room[p]
                          /\ \A i \in inventory[p] : MaxCount[Kind[i]] > 0 =>
                                Cardinality({j \in inventory[p] : Kind[j] = Kind[i]}) <= MaxCount[Kind[i]]
    /\ clones = [p \in Players |-> {}]
    /\ world = {i \in Items : \A p \in Players : i \notin inventory[p]}
    /\ count = [i \in Items |-> 1]
    /\ bound = {}
    /\ money \in [Players -> 0..MaxMoney]
    /\ step = "idle" /\ who = None /\ slot = 0 /\ myItems = NoItems /\ hisItems = NoItems
    /\ agreed = [p \in Players |-> None]
    /\ gone = [p \in Players |-> {}] /\ unchecked = {} /\ events = 0
-----------------------------------------------------------------------------
(* TradeData.                                                                  *)
TradeData(q) == [trader |-> q, accepted |-> FALSE, money |-> 0, spell |-> FALSE,
                 items |-> [s \in TradeSlots |-> None]]

Trading(p) == step = "idle" /\ m_trade[p] # None
GetTrader(p) == m_trade[p].trader

(* An item is looked up among the items its owner has now.                     *)
GetItem(p, s) == IF m_trade[p].items[s] \in inventory[p] THEN m_trade[p].items[s] ELSE None
HasItem(p, i) == \E s \in TradeSlots : m_trade[p].items[s] = i

(* What the trades are after trades t were changed by a player p: both have to *)
(* accept again.  Variant: only the one who made the change.                   *)
OnlyMineUnaccepted(t, p) == [t EXCEPT ![p].accepted = FALSE]

Unaccepted(t, p) == [t EXCEPT ![p].accepted = FALSE, ![t[p].trader].accepted = FALSE]

(* SetSpell(0).                                                                *)
WithoutSpell(t, p) == IF t[p].spell THEN Unaccepted([t EXCEPT ![p].spell = FALSE], p) ELSE t

(* SetItem, when the slot changes or the item in it has changed.               *)
WithItem(t, p, s, i) ==
    LET u == Unaccepted([t EXCEPT ![p].items[s] = i], p)
        v == IF s = TRADE_SLOT_NONTRADED THEN WithoutSpell(u, t[p].trader) ELSE u
    IN  WithoutSpell(v, p)

(* What a player offers, and both offers as he sees them.                      *)
Offer(p) == [money |-> m_trade[p].money, spell |-> m_trade[p].spell, items |-> m_trade[p].items,
             counts |-> [s \in TradeSlots |-> IF m_trade[p].items[s] = None THEN 0
                                              ELSE count[m_trade[p].items[s]]]]
Offers(p) == [mine |-> Offer(p), his |-> Offer(GetTrader(p))]

(* The history of consents when the trades become t.                           *)
Consents(t, now) == [p \in Players |-> IF t[p] # None /\ t[p].accepted THEN now[p] ELSE None]
-----------------------------------------------------------------------------
(* The handlers that prepare a trade.                                          *)
HandleInitiateTradeOpcode(p, q) ==
    /\ step = "idle" /\ p # q
    /\ m_trade[p] = None /\ m_trade[q] = None
    /\ m_trade' = [m_trade EXCEPT ![p] = TradeData(q), ![q] = TradeData(p)]
    /\ agreed' = Consents(m_trade', agreed)
    /\ UNCHANGED <<goods, handler, gone, events>>

(* Variant: the trade of the other player is left as it is.                    *)
CancelOnlyMine(p) ==
    /\ Trading(p)
    /\ m_trade' = [m_trade EXCEPT ![p] = None]
    /\ agreed' = Consents(m_trade', agreed)
    /\ UNCHANGED <<goods, handler, gone, events>>

(* Cancelled, refused (busy, ignore), logged out or in flight.                 *)
TradeCancel(p) ==
    /\ Trading(p)
    /\ m_trade' = [m_trade EXCEPT ![p] = None, ![GetTrader(p)] = None]
    /\ agreed' = Consents(m_trade', agreed)
    /\ UNCHANGED <<goods, handler, gone, events>>

(* SetMoney: an amount the player does not have is refused.                    *)
HandleSetTradeGoldOpcode(p, amount) ==
    /\ Trading(p) /\ m_trade[p].money # amount /\ money[p] >= amount
    /\ m_trade' = Unaccepted([m_trade EXCEPT ![p].money = amount], p)
    /\ agreed' = Consents(m_trade', agreed)
    /\ UNCHANGED <<goods, handler, gone, events>>

(* Variant: an item can be placed into two slots.                              *)
SetTradeItemTwice(p, s, i) ==
    /\ Trading(p)
    /\ i \in inventory[p] /\ (s = TRADE_SLOT_NONTRADED \/ i \notin bound)
    /\ m_trade' = WithItem(m_trade, p, s, i)
    /\ gone' = [gone EXCEPT ![p] = @ \ {i}]
    /\ agreed' = Consents(m_trade', agreed)
    /\ UNCHANGED <<goods, handler, events>>

HandleSetTradeItemOpcode(p, s, i) ==
    /\ Trading(p)
    /\ i \in inventory[p] /\ (s = TRADE_SLOT_NONTRADED \/ i \notin bound)
    /\ ~HasItem(p, i)
    /\ m_trade' = WithItem(m_trade, p, s, i)
    /\ gone' = [gone EXCEPT ![p] = @ \ {i}]
    /\ agreed' = Consents(m_trade', agreed)
    /\ UNCHANGED <<goods, handler, events>>

HandleClearTradeItemOpcode(p, s) ==
    /\ Trading(p) /\ m_trade[p].items[s] # None
    /\ m_trade' = WithItem(m_trade, p, s, None)
    /\ agreed' = Consents(m_trade', agreed)
    /\ UNCHANGED <<goods, handler, gone, events>>

(* Spell::cast on the item in the last slot of the other player: the spell is  *)
(* remembered until the trade is complete.                                     *)
SetSpell(p) ==
    /\ Trading(p) /\ ~m_trade[p].spell
    /\ GetItem(GetTrader(p), TRADE_SLOT_NONTRADED) # None
    /\ m_trade' = Unaccepted([m_trade EXCEPT ![p].spell = TRUE], p)
    /\ agreed' = Consents(m_trade', agreed)
    /\ UNCHANGED <<goods, handler, gone, events>>

HandleUnacceptTradeOpcode(p) ==
    /\ Trading(p) /\ m_trade' = [m_trade EXCEPT ![p].accepted = FALSE]
    /\ agreed' = Consents(m_trade', agreed)
    /\ UNCHANGED <<goods, handler, gone, events>>
-----------------------------------------------------------------------------
(* HandleAcceptTradeOpcode up to the exchange.                                 *)
HasEnoughMoney(p) == money[p] >= m_trade[p].money

(* Variant: off by one, in the direction ModifyMoney does not allow.           *)
FitsExactly(p, q) == money[p] > MaxMoney - m_trade[q].money

TooMuchGold(p, q) == money[p] >= MaxMoney - m_trade[q].money

NotTradable(p) == \E s \in TradedSlots : GetItem(p, s) \in bound

(* The first objection, if any: to what the player offers or gets, to what the *)
(* other one offers or gets, or to an item of either.                          *)
Objection(p, q) ==
    CASE ~HasEnoughMoney(p) -> "mine"
      [] HasEnoughMoney(p) /\ ~HasEnoughMoney(q) -> "his"
      [] HasEnoughMoney(p) /\ HasEnoughMoney(q) /\ TooMuchGold(p, q) -> "mine"
      [] HasEnoughMoney(p) /\ HasEnoughMoney(q) /\ ~TooMuchGold(p, q) /\ TooMuchGold(q, p) -> "his"
      [] OTHER -> IF NotTradable(p) \/ NotTradable(q) THEN "item" ELSE "none"

ItemsOf(p) == [s \in TradedSlots |-> GetItem(p, s)]
Present(items) == {items[s] : s \in TradedSlots} \ {None}

Occupied(p) == Cardinality(inventory[p]) + Cardinality(clones[p])
Similar(p, i) == Cardinality({j \in inventory[p] \ {i} : Kind[j] = Kind[i]})
                 + Cardinality({j \in clones[p] : Kind[j] = Kind[i]})
CanTakeMoreSimilarItems(p, i) == MaxCount[Kind[i]] = 0 \/ Similar(p, i) + 1 <= MaxCount[Kind[i]]

(* CanStoreItem, when the caller's list of places has some entries already.    *)
CanStoreItem(p, i, places) == CanTakeMoreSimilarItems(p, i) /\ Occupied(p) + places + 1 <= Room[p]

(* Player::CanStoreItems: the items the player gives away make room, but every *)
(* item is held against the limits alone.                                      *)
CanStoreItems(p, get, give) ==
    /\ \A i \in Present(get) : CanTakeMoreSimilarItems(p, i)
    /\ Occupied(p) - Cardinality(Present(give)) + Cardinality(Present(get)) <= Room[p]

(* The accept packet: the player's trade is marked as accepted, which some     *)
(* refusals take back.                                                         *)
Accepting(p) ==
    /\ Trading(p) /\ m_trade[GetTrader(p)] # None
    /\ UNCHANGED <<clones, world, count, bound, money, gone, events>>

(* The other player is too far away.                                           *)
AcceptTooFar(p) ==
    /\ Accepting(p)
    /\ m_trade' = [m_trade EXCEPT ![p].accepted = FALSE]
    /\ agreed' = Consents(m_trade', [agreed EXCEPT ![p] = Offers(p)])
    /\ UNCHANGED <<inventory, handler>>

AcceptRefused(p) ==
    /\ Accepting(p)
    /\ LET q == GetTrader(p) IN
         m_trade' = CASE Objection(p, q) = "mine" -> [m_trade EXCEPT ![p].accepted = FALSE]
                      [] Objection(p, q) = "his" -> [m_trade EXCEPT ![p].accepted = TRUE, ![q].accepted = FALSE]
                      [] OTHER -> [m_trade EXCEPT ![p].accepted = TRUE]
    /\ Objection(p, GetTrader(p)) # "none"
    /\ agreed' = Consents(m_trade', [agreed EXCEPT ![p] = Offers(p)])
    /\ UNCHANGED <<inventory, handler>>

(* The first of the two to accept.                                             *)
AcceptFirst(p) ==
    /\ Accepting(p)
    /\ Objection(p, GetTrader(p)) = "none" /\ ~m_trade[GetTrader(p)].accepted
    /\ m_trade' = [m_trade EXCEPT ![p].accepted = TRUE]
    /\ agreed' = Consents(m_trade', [agreed EXCEPT ![p] = Offers(p)])
    /\ UNCHANGED <<inventory, handler>>

BothAccept(p) ==
    /\ Accepting(p)
    /\ Objection(p, GetTrader(p)) = "none" /\ m_trade[GetTrader(p)].accepted

(* The spell of one of them cannot be cast (any more).                         *)
AcceptSpellFails(p) ==
    /\ BothAccept(p)
    /\ \E x \in {p, GetTrader(p)} : m_trade[x].spell /\ m_trade' = WithoutSpell(m_trade, x)
    /\ agreed' = Consents(m_trade', [agreed EXCEPT ![p] = Offers(p)])
    /\ UNCHANGED <<inventory, handler>>

SpellsTargeted(p) ==
    \A x \in {p, GetTrader(p)} : m_trade[x].spell => GetItem(GetTrader(x), TRADE_SLOT_NONTRADED) # None

AllFit(p) ==
    LET q == GetTrader(p)
    IN  CanStoreItems(q, ItemsOf(p), ItemsOf(q)) /\ CanStoreItems(p, ItemsOf(q), ItemsOf(p))

AcceptNoRoom(p) ==
    /\ BothAccept(p) /\ SpellsTargeted(p) /\ ~AllFit(p)
    /\ m_trade' = Unaccepted(m_trade, p)
    /\ agreed' = Consents(m_trade', [agreed EXCEPT ![p] = Offers(p)])
    /\ UNCHANGED <<inventory, handler>>

(* Of several items of a kind limited to more than one each passes alone.      *)
Competing(items) ==
    {Kind[i] : i \in {k \in Present(items) : MaxCount[Kind[k]] > 1 /\ \E j \in Present(items) \ {k} : Kind[j] = Kind[k]}}

(* The exchange begins: the items are taken out of both inventories.           *)
AcceptSecond(p) ==
    /\ BothAccept(p) /\ SpellsTargeted(p) /\ AllFit(p)
    /\ m_trade' = [m_trade EXCEPT ![p].accepted = TRUE]
    /\ agreed' = [agreed EXCEPT ![p] = Offers(p)]
    /\ step' = "move" /\ who' = p /\ slot' = 0
    /\ myItems' = ItemsOf(p) /\ hisItems' = ItemsOf(GetTrader(p))
    /\ unchecked' = unchecked \cup Competing(myItems') \cup Competing(hisItems')
    /\ inventory' = [x \in Players |-> inventory[x] \ (Present(ItemsOf(p)) \cup Present(ItemsOf(GetTrader(p))))]
-----------------------------------------------------------------------------
(* moveItems, a slot.  x gets item i, y item j.                                *)
Optional(i) == {i} \ {None}
CanTrade(x, i) == i # None => CanStoreItem(x, i, 0)

(* Item i goes back to x, whose list of places holds one for an item j that x  *)
(* could have taken: with two places, i is stored at one and a copy of it at   *)
(* the other.                                                                  *)
Places(x, j) == IF j # None /\ CanTrade(x, j) THEN 1 ELSE 0
Back(x, i, j) == {k \in Optional(i) : CanStoreItem(x, k, Places(x, j))}
Doubled(x, i, j) == {k \in Back(x, i, j) : Places(x, j) = 1}

Store(p, q, get, give) ==
    inventory' = [inventory EXCEPT ![p] = @ \cup get, ![q] = @ \cup give]

SlotWorks(p, q, i, j) == CanTrade(q, i) /\ CanTrade(p, j)

(* Variant: one slot too many.                                                 *)
LastSlotLate(s) == s = NumSlots

LastSlot(s) == s + 1 = NumSlots

(* An item of x that is stored, with either player, is counted while x still   *)
(* owns it: Item::SetCount updates its slot, which takes back both consents    *)
(* and the spell of x.                                                         *)
Stored(p, q, mine, his) ==
    m_trade' = [m_trade EXCEPT ![p].accepted = @ /\ mine \cup his = {}, ![p].spell = @ /\ mine = {},
                               ![q].accepted = @ /\ mine \cup his = {}, ![q].spell = @ /\ his = {}]

MoveItems ==
    /\ step = "move"
    /\ LET p == who
           q == GetTrader(who)
           i == myItems[slot]
           j == hisItems[slot]
       IN  IF SlotWorks(p, q, i, j)
           THEN /\ Store(p, q, Optional(j), Optional(i)) /\ UNCHANGED clones
                /\ Stored(p, q, Optional(i), Optional(j))
           ELSE /\ Store(p, q, Back(p, i, j), Back(q, j, i))
                /\ clones' = [clones EXCEPT ![p] = @ \cup Doubled(p, i, j),
                                            ![q] = @ \cup Doubled(q, j, i)]
                /\ Stored(p, q, Back(p, i, j), Back(q, j, i))
    /\ slot' = slot + 1
    /\ step' = IF LastSlot(slot) THEN "pay" ELSE "move"
    /\ UNCHANGED <<who, myItems, hisItems, unchecked, world, count, bound, money, agreed, gone, events>>

(* Player::ModifyMoney.                                                        *)
Paid(has, amount) == IF has > amount THEN has - amount ELSE 0
Earned(has, amount) == IF has < MaxMoney - amount THEN has + amount ELSE has

(* Both pay, the trade is over, the characters are saved in one transaction.   *)
CompleteTrade ==
    /\ step = "pay"
    /\ LET q == GetTrader(who)
           mine == m_trade[who].money
           his == m_trade[q].money
       IN  /\ money' = [money EXCEPT ![who] = Earned(Paid(@, mine), his),
                                     ![q] = Earned(Paid(@, his), mine)]
           /\ m_trade' = [m_trade EXCEPT ![who] = None, ![q] = None]
    /\ step' = "idle" /\ who' = None /\ slot' = 0 /\ myItems' = NoItems /\ hisItems' = NoItems
    /\ agreed' = Consents(m_trade', agreed)
    /\ UNCHANGED <<inventory, clones, world, count, bound, unchecked, gone, events>>
-----------------------------------------------------------------------------
(* What happens outside the trade, between two handlers.                       *)
Outside == step = "idle" /\ events < MaxEvents /\ events' = events + 1

(* The item is sold, used up, mailed or destroyed.                             *)
RemoveItem(p, i) ==
    /\ Outside /\ i \in inventory[p]
    /\ inventory' = [inventory EXCEPT ![p] = @ \ {i}]
    /\ world' = world \cup {i}
    /\ gone' = [gone EXCEPT ![p] = @ \cup {i}]
    /\ UNCHANGED <<m_trade, clones, count, bound, money, handler, agreed>>

(* The item is looted, bought, or bought back.                                 *)
StoreNewItem(p, i) ==
    /\ Outside /\ i \in world /\ CanStoreItem(p, i, 0)
    /\ inventory' = [inventory EXCEPT ![p] = @ \cup {i}]
    /\ world' = world \ {i}
    /\ UNCHANGED <<m_trade, clones, count, bound, money, handler, agreed, gone>>

(* Item::SetCount tells the trade window.  Variant: it does not.               *)
SetCountSilently(p, i) ==
    /\ Outside /\ i \in inventory[p] /\ MaxCount[Kind[i]] = 0
    /\ count' = [count EXCEPT ![i] = 3 - @]
    /\ UNCHANGED <<m_trade, inventory, clones, world, bound, money, handler, agreed, gone>>

SetCount(p, i) ==
    /\ Outside /\ i \in inventory[p] /\ MaxCount[Kind[i]] = 0
    /\ count' = [count EXCEPT ![i] = 3 - @]
    /\ m_trade' = IF m_trade[p] # None /\ HasItem(p, i)
                  THEN WithItem(m_trade, p, CHOOSE s \in TradeSlots : m_trade[p].items[s] = i, i)
                  ELSE m_trade
    /\ agreed' = Consents(m_trade', agreed)
    /\ UNCHANGED <<inventory, clones, world, bound, money, handler, gone>>

(* The item is put on, or enchanted, and is bound to the player by that.       *)
SetBinding(p, i) ==
    /\ Outside /\ i \in inventory[p] /\ bound' = bound \cup {i}
    /\ UNCHANGED <<m_trade, inventory, clones, world, count, money, handler, agreed, gone>>

ModifyMoney(p) ==
    /\ Outside /\ money' \in {[money EXCEPT ![p] = m] : m \in 0..MaxMoney}
    /\ UNCHANGED <<m_trade, inventory, clones, world, count, bound, handler, agreed, gone>>
-----------------------------------------------------------------------------
HandleAcceptTradeOpcode(p) ==
    AcceptTooFar(p) \/ AcceptRefused(p) \/ AcceptFirst(p) \/ AcceptSpellFails(p) \/ AcceptNoRoom(p) \/ AcceptSecond(p)

Next ==
    \/ MoveItems \/ CompleteTrade
    \/ \E p \in Players :
         \/ \E q \in Players : HandleInitiateTradeOpcode(p, q)
         \/ TradeCancel(p) \/ SetSpell(p) \/ HandleUnacceptTradeOpcode(p)
         \/ HandleAcceptTradeOpcode(p) \/ ModifyMoney(p)
         \/ \E amount \in Amounts : HandleSetTradeGoldOpcode(p, amount)
         \/ \E s \in TradeSlots : HandleClearTradeItemOpcode(p, s)
         \/ \E i \in Items :
              \/ \E s \in TradeSlots : HandleSetTradeItemOpcode(p, s, i)
              \/ RemoveItem(p, i) \/ StoreNewItem(p, i) \/ SetCount(p, i) \/ SetBinding(p, i)

Spec == Init /\ [][Next]_vars
-----------------------------------------------------------------------------
(* Properties.                                                                 *)
(* The type of the state; no player ever has more than MAX_MONEY_AMOUNT.       *)
TypeOK ==
    /\ m_trade \in [Players -> TradeDataType \cup {None}]
    /\ inventory \in [Players -> SUBSET Items] /\ clones \in [Players -> SUBSET Items]
    /\ world \subseteq Items /\ count \in [Items -> 1..2] /\ bound \subseteq Items
    /\ money \in [Players -> 0..MaxMoney]
    /\ step \in {"idle", "move", "pay"} /\ who \in Players \cup {None} /\ slot \in 0..NumSlots
    /\ step = "move" => slot \in TradedSlots
    /\ myItems \in [TradedSlots -> Items \cup {None}] /\ hisItems \in [TradedSlots -> Items \cup {None}]
    /\ gone \in [Players -> SUBSET Items] /\ events \in 0..MaxEvents /\ unchecked \subseteq {Kind[i] : i \in Items}

(* m_trade of two players point at each other: a pointer to a player whose     *)
(* trade is over, or is with somebody else, would be used by every handler     *)
(* (GetTraderData is never tested for null).                                   *)
TradeSymmetric ==
    /\ \A p \in Players : m_trade[p] # None =>
         LET q == GetTrader(p) IN p # q /\ m_trade[q] # None /\ GetTrader(q) = p
    /\ step # "idle" => who \in Players /\ m_trade[who] # None

(* An offer is as it was when it was accepted, but for items that have left    *)
(* the inventory of their owner since.                                         *)
AsAgreed(offer, p) ==
    /\ offer.money = m_trade[p].money /\ offer.spell = m_trade[p].spell
    /\ offer.items = m_trade[p].items
    /\ \A s \in TradeSlots : LET i == offer.items[s] IN
         i # None /\ i \notin gone[p] => i \in inventory[p] /\ offer.counts[s] = count[i]

(* _accepted never outlives the offers it was given for: every change of       *)
(* items, stacks, money or spells of either side takes both consents back.     *)
AcceptedAsAgreed ==
    step = "idle" => \A p \in Players : m_trade[p] # None /\ m_trade[p].accepted =>
        AsAgreed(agreed[p].mine, p) /\ AsAgreed(agreed[p].his, GetTrader(p))

InTransit == {i \in Items : step = "move" /\ \E s \in slot..(NumSlots - 1) : i \in {myItems[s], hisItems[s]}}

(* Trading neither loses nor doubles an item: each is in one inventory, or in  *)
(* the hands of moveItems, or in the world.  This holds as long as             *)
(* CanStoreItems has looked at what moveItems will find: when it has not, an   *)
(* item that comes back to its owner may be stored twice or not at all.        *)
ItemsConserved ==
    unchecked = {} =>
        /\ \A p \in Players : clones[p] = {}
        /\ \A p \in Players : inventory[p] \cap (world \cup InTransit) = {}
        /\ \A p, q \in Players : p # q => inventory[p] \cap inventory[q] = {}
        /\ world \cap InTransit = {}
        /\ Items = world \cup InTransit \cup UNION {inventory[p] : p \in Players}

(* What changes hands is what both have accepted: the same offers on both      *)
(* sides, less only what its owner did not have any more.                      *)
TakenAsAgreed ==
    step # "idle" =>
        LET q == GetTrader(who) IN
          /\ agreed[who].mine.money = agreed[q].his.money /\ agreed[q].mine.money = agreed[who].his.money
          /\ \A s \in TradedSlots :
               /\ myItems[s] = None /\ agreed[q].his.items[s] # None => agreed[q].his.items[s] \in gone[who]
               /\ myItems[s] # None => myItems[s] = agreed[q].his.items[s]
               /\ hisItems[s] = None /\ agreed[who].his.items[s] # None => agreed[who].his.items[s] \in gone[q]
               /\ hisItems[s] # None => hisItems[s] = agreed[who].his.items[s]

(* And all of it does (TradeHandler.cpp:140, "If we trade in both directions   *)
(* we had to check, if the trade will work before we actually do it"): when it *)
(* comes to paying, both have got the items, except where the check is too     *)
(* weak.                                                                       *)
Arrived(items, p) == \A i \in Present(items) : i \in inventory[p]

ExchangeAsAgreed ==
    /\ TakenAsAgreed
    /\ step = "pay" /\ unchecked = {} => Arrived(myItems, GetTrader(who)) /\ Arrived(hisItems, who)

(* Money: both pay in full what the other one has accepted, although Paid and  *)
(* Earned stop at the limits of what a player can have.                        *)
PaidAsAgreed ==
    [][step = "pay" =>
         LET q == GetTrader(who) IN
           /\ money'[who] = money[who] - agreed[q].his.money + agreed[who].his.money
           /\ money'[q] = money[q] - agreed[who].his.money + agreed[q].his.money]_vars
-----------------------------------------------------------------------------
(* What makes the properties inductive.  The players whose goods moveItems     *)
(* does not hold.                                                              *)
Untouched(p) == step = "idle" \/ p \notin {who, GetTrader(who)}

(* No item is in two slots of an offer, and an offered item is where its owner *)
(* had it unless it is known to have left him.                                 *)
OfferInv ==
    \A p \in Players : m_trade[p] # None =>
        LET items == m_trade[p].items IN
          /\ \A s, t \in TradeSlots : items[s] = items[t] /\ items[s] # None => s = t
          /\ Untouched(p) => \A s \in TradeSlots :
                items[s] # None /\ items[s] \notin gone[p] => items[s] \in inventory[p]

(* No item is in two places, the hands of moveItems included.                  *)
PlaceInv ==
    /\ \A p, q \in Players : p # q => inventory[p] \cap inventory[q] = {}
    /\ \A p \in Players : inventory[p] \cap world = {}
    /\ step = "move" => \A s, t \in slot..(NumSlots - 1) :
          /\ myItems[s] # None => myItems[s] # hisItems[t] /\ (myItems[s] = myItems[t] => s = t)
          /\ hisItems[s] # None => (hisItems[s] = hisItems[t] => s = t)
          /\ \A i \in {myItems[s], hisItems[s]} \ {None} :
                i \notin world /\ \A p \in Players : i \notin inventory[p]

(* Consents are for the offers as they are, those of other pairs also while    *)
(* two players exchange their items.                                           *)
ConsentInv ==
    /\ DOMAIN agreed = Players
    /\ \A p \in Players : m_trade[p] # None /\ m_trade[p].accepted /\ Untouched(p) =>
          AsAgreed(agreed[p].mine, p) /\ AsAgreed(agreed[p].his, GetTrader(p))

(* What ItemsConserved and ExchangeAsAgreed need.  Nobody has two items of a   *)
(* kind of which he may have one.                                              *)
UniqueInv ==
    unchecked = {} => \A p \in Players : \A i, j \in inventory[p] :
        Kind[i] = Kind[j] /\ MaxCount[Kind[i]] = 1 => i = j

(* The items player x is still to get from moveItems fit, whatever arrived     *)
(* before them; x has the others.                                              *)
Coming(items) == {items[s] : s \in slot..(NumSlots - 1)} \ {None}

Deliverable(items, x) ==
    /\ Occupied(x) + Cardinality(Coming(items)) <= Room[x]
    /\ \A i \in Coming(items) : CanTakeMoreSimilarItems(x, i)
    /\ \A i, j \in Coming(items) : Kind[i] = Kind[j] /\ MaxCount[Kind[i]] > 0 => i = j
    /\ Present(items) \subseteq Coming(items) \cup inventory[x]

FitInv ==
    step # "idle" /\ unchecked = {} =>
        /\ step = "pay" => slot = NumSlots
        /\ Deliverable(myItems, GetTrader(who)) /\ Deliverable(hisItems, who)
=============================================================================
