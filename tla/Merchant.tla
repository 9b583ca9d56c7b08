------------------------------- MODULE Merchant -------------------------------
(***************************************************************************)
(* The shop (shop.cpp).  site.wares is the stock, a slot being             *)
(* [kind, what, up, price, sold]; site.cost is the price of a card         *)
(* removal, of which there is one; site.screen is "menu" or "purge".       *)
(* The stock is one card, one relic of a rolled tier, one of the shop's    *)
(* tier and one potion, where the game has seven, two, one and three; a    *)
(* price is the middle of the range it is rolled from.                     *)
(***************************************************************************)
EXTENDS RewardScreen

BasePrice == [card |-> 50, relic |-> 150, potion |-> 50]

kPurgeCostRamp == 25
kSmilingMaskPurgeCost == 50
kMealTicketHeal == 15

\* The discounts of the relics that bear on a price.
Discounted(r, price) ==
  LET couriered == IF Owns(r, "the_courier") THEN RoundedPercent(price, 80) ELSE price
  IN  IF Owns(r, "membership_card") THEN RoundedPercent(couriered, 50) ELSE couriered

shop_purge_cost_at_init(r) ==
  CASE Owns(r, "smiling_mask") -> kSmilingMaskPurgeCost
    [] Owns(r, "membership_card") -> RoundedPercent(r.purge, 50)
    [] Owns(r, "the_courier") -> RoundedPercent(r.purge, 80)
    [] OTHER -> r.purge

shop_purge_cost_after_purge(r) ==
  IF Owns(r, "smiling_mask") THEN kSmilingMaskPurgeCost ELSE Discounted(r, r.purge)

Ware(r, kind, what, up) ==
  [kind |-> kind, what |-> what, up |-> up, sold |-> FALSE,
   price |-> Discounted(r, BasePrice[kind])]

CardWares(r) == {Ware(r, "card", k, Hatched(r, Fresh(k, 0)).up) : k \in RandomCards}

PotionWares(r) == {Ware(r, "potion", p, 0) : p \in RandomPotions}

\* generate_shop, the relics from the far end of their pools.
generate_shop(r) ==
  UNION {LET d == DrawFromEnd(r, t, TRUE)
             e == DrawFromEnd(d.run, "shop", TRUE)
         IN  {[run |-> e.run,
               wares |-> <<c, Ware(r, "relic", d.got, 0), Ware(r, "relic", e.got, 0), p>>] :
                c \in CardWares(r), p \in PotionWares(r)} : t \in RollTiers}

\* dispatch_just_entered_room_relics: Meal Ticket.
ShopEnter(w) ==
  LET fed(r) == IF Owns(r, "meal_ticket") THEN HealOutOfCombat(r, kMealTicketHeal) ELSE r
  IN  {[On(w, fed(s.run)) EXCEPT
          !.phase = "shop",
          !.site = [screen |-> "menu", wares |-> s.wares, purge |-> TRUE,
                    cost |-> shop_purge_cost_at_init(w.run)]] : s \in generate_shop(w.run)}

-----------------------------------------------------------------------------
shop_buy_legal(w, i) ==
  LET ware == w.site.wares[i]
  IN  /\ ~ware.sold /\ w.run.gold >= ware.price
      /\ CASE ware.kind = "card"   -> Len(w.run.deck) < DeckCap
           [] ware.kind = "relic"  -> TRUE
           [] ware.kind = "potion" -> ~Owns(w.run, "sozu") /\ EmptySlots(w.run) # {}

\* A slot emptied: sold, or with The Courier filled again.
Sold(w, i) == [w EXCEPT !.site.wares[i].sold = TRUE]
Restocked(w, i, ware) == [w EXCEPT !.site.wares[i] = ware]

shop_buy_card(w, i) ==
  LET ware == w.site.wares[i]
      v == On(w, AddCopy(SpendGold(w.run, ware.price), Fresh(ware.what, ware.up)))
  IN  IF Owns(w.run, "the_courier") THEN {Restocked(v, i, c) : c \in CardWares(v.run)}
      ELSE {Sold(v, i)}

\* What a relic just bought does to the rest of the stock.
apply_price_discount(w, percent) ==
  LET cheaper(ware) == [ware EXCEPT !.price = RoundedPercent(@, percent)]
  IN  [w EXCEPT !.site.wares = [i \in DOMAIN @ |-> IF @[i].sold THEN @[i] ELSE cheaper(@[i])]]

Repriced(w, x) ==
  LET halved == [apply_price_discount(w, 50) EXCEPT
                   !.site.cost = IF Owns(w.run, "smiling_mask") THEN kSmilingMaskPurgeCost
                                 ELSE RoundedPercent(w.run.purge, 50)]
      hatched(ware) == IF ware.kind = "card" /\ ~ware.sold
                       THEN [ware EXCEPT !.up = Hatched(w.run, Fresh(ware.what, @)).up] ELSE ware
  IN  CASE x = "membership_card" -> halved
        [] x = "smiling_mask" -> [w EXCEPT !.site.cost = kSmilingMaskPurgeCost]
        [] OTHER -> [w EXCEPT !.site.wares = [i \in DOMAIN @ |-> hatched(@[i])]]

\* A relic that lays out rows closes the shop behind it.
shop_buy_relic(w, i) ==
  LET ware == w.site.wares[i]
      paid == Sold(On(w, SpendGold(w.run, ware.price)), i)
      again(v, t) == LET d == DrawFromEnd(v.run, t, TRUE)
                     IN  Restocked(On(v, d.run), i, Ware(d.run, "relic", d.got, 0))
      stocked(v) == IF Owns(v.run, "the_courier") THEN {again(v, t) : t \in RollTiers} ELSE {v}
  IN  {apply_claim_equip_request(u) :
         u \in UNION {stocked(Repriced(v, ware.what)) : v \in AcquireWithScreen(paid, ware.what)}}

shop_buy_potion(w, i) ==
  LET ware == w.site.wares[i]
      v == On(w, SpendGold(PutPotion(w.run, ware.what), ware.price))
  IN  IF Owns(w.run, "the_courier") THEN {Restocked(v, i, p) : p \in PotionWares(v.run)}
      ELSE {Sold(v, i)}

shop_buy(w, i) ==
  CASE w.site.wares[i].kind = "card"   -> shop_buy_card(w, i)
    [] w.site.wares[i].kind = "relic"  -> shop_buy_relic(w, i)
    [] w.site.wares[i].kind = "potion" -> shop_buy_potion(w, i)

-----------------------------------------------------------------------------
shop_purge_legal(w) ==
  w.site.purge /\ w.run.gold >= w.site.cost /\ PurgeableUnbottled(w.run) # {}

PurgeOpened(w) == [w EXCEPT !.site.screen = "purge"]
PurgeClosed(w) == [w EXCEPT !.site.screen = "menu"]

\* The next removal is dearer, in this run and, by then, never in this shop.
shop_purge_card(w, i) ==
  LET paid == [SpendGold(w.run, w.site.cost) EXCEPT !.purge = @ + kPurgeCostRamp]
  IN  [On(w, RemoveCard(paid, i)) EXCEPT
         !.site.cost = shop_purge_cost_after_purge(paid), !.site.purge = FALSE,
         !.site.screen = "menu"]

ShopLeft(w) == [w EXCEPT !.phase = "map", !.site = [screen |-> "none"]]

=============================================================================
