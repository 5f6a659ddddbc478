------------------------- MODULE PaperTradingProofs -------------------------
(* A paper session, for any bars, signals, risk parameters and absences: its   *)
(* orders wait for the next open, its cash is conserved, its entries obey the  *)
(* risk rules, its stops are honoured, and its reports are the backtest of the *)
(* bars it has processed.                                                     *)
EXTENDS PaperTrading, Extremes, SequenceTheorems, TLAPS

-----------------------------------------------------------------------------
(* Arithmetic of the simulator.                                               *)

\* Division of natural numbers rounds down.
LEMMA Quotient ==
    ASSUME NEW a \in Nat, NEW b \in Nat \ {0}
    PROVE  a \div b \in Nat /\ b * (a \div b) <= a /\ a < b * (a \div b) + b
  OBVIOUS

\* Products of amounts, and what may be cancelled from them.
LEMMA ProductIsNat == \A a, b \in Nat : a * b \in Nat
  OBVIOUS

LEMMA PositiveProduct == \A a, b \in Nat \ {0} : a * b \in Nat \ {0}
  OBVIOUS

LEMMA ProductGrows == \A a, b, c \in Nat : a <= b => a * c <= b * c /\ c * a <= c * b
  OBVIOUS

LEMMA Cancel == \A a, b \in Int : \A c \in Nat \ {0} : c * a <= c * b => a <= b
  OBVIOUS

\* A part of an amount (a fraction of it, a rate on it) is an amount.
LEMMA OfIsNat == ASSUME NEW a \in Nat, NEW f \in Nat PROVE Of(a, f) \in Nat
  BY RiskAssumption, ProductIsNat, Quotient DEF Of

\* No more than the whole is part of an amount.
LEMMA OfIsPart == ASSUME NEW a \in Nat, NEW f \in 0 .. One PROVE Of(a, f) <= a
  <1>1. a * f \in Nat /\ One \in Nat \ {0} /\ f \in Nat
    BY RiskAssumption, ProductIsNat
  <1>2. One * Of(a, f) <= a * f
    BY <1>1, Quotient DEF Of
  <1>3. a * f <= One * a
    BY <1>1, ProductGrows
  <1>4. One * Of(a, f) <= One * a
    <2>1. One * Of(a, f) \in Nat /\ One * a \in Nat
      BY <1>1, OfIsNat, ProductIsNat
    <2> QED
      BY <1>1, <1>2, <1>3, <2>1
  <1> QED
    BY <1>1, <1>4, OfIsNat, Cancel

\* A price with slippage on top is positive.
LEMMA RaisedPrice ==
    ASSUME NEW a \in Nat \ {0}, NEW f \in Nat
    PROVE  Of(a, One + f) \in Nat \ {0}
  <1>1. One \in Nat \ {0} /\ One + f \in Nat
    BY RiskAssumption
  <1>2. Of(a, One + f) \in Nat
    BY <1>1, OfIsNat
  <1>3. ASSUME Of(a, One + f) = 0 PROVE FALSE
    <2>1. a * (One + f) < One
      BY <1>1, <1>3, Quotient, ProductIsNat DEF Of
    <2>2. 1 * (One + f) <= a * (One + f)
      BY <1>1, ProductGrows
    <2>3. One <= a * (One + f)
      BY <1>1, <2>2, ProductIsNat
    <2> QED
      BY <2>1, <2>3, <1>1, ProductIsNat
  <1> QED
    BY <1>2, <1>3

\* Whole lots bought for an allocation leave room for their cost in it.
LEMMA LotsFit ==
    ASSUME NEW allocation \in Nat, NEW price \in Nat \ {0}, NEW rate \in Nat,
           NEW lots, lots = (allocation * One) \div (price * (One + rate)),
           NEW notional, notional = lots * price
    PROVE  lots \in Nat /\ notional \in Nat /\ notional + Of(notional, rate) <= allocation
  <1>1. One \in Nat \ {0} /\ One + rate \in Nat \ {0}
    BY RiskAssumption
  <1> DEFINE unit == price * (One + rate)
  <1>2. unit \in Nat \ {0} /\ allocation * One \in Nat
    BY <1>1, PositiveProduct, ProductIsNat
  <1> HIDE DEF unit
  <1>3. lots \in Nat /\ unit * lots <= allocation * One
    BY <1>2, Quotient DEF unit
  <1>4. notional \in Nat
    BY <1>3, ProductIsNat
  <1>5. unit * lots = notional * (One + rate)
    BY <1>1, <1>3 DEF unit
  <1>6. notional * (One + rate) = One * notional + notional * rate
    BY <1>1, <1>4
  <1>7. One * Of(notional, rate) <= notional * rate
    BY <1>1, <1>4, Quotient, ProductIsNat DEF Of
  <1>8. Of(notional, rate) \in Nat
    BY <1>4, OfIsNat
  <1>9. One * (notional + Of(notional, rate)) = One * notional + One * Of(notional, rate)
    BY <1>1, <1>4, <1>8
  <1>10. One * (notional + Of(notional, rate)) <= One * allocation
    <2>1. /\ One * notional \in Nat /\ notional * rate \in Nat
          /\ One * Of(notional, rate) \in Nat /\ unit * lots \in Nat
      BY <1>1, <1>2, <1>3, <1>4, <1>8, ProductIsNat
    <2>2. allocation * One = One * allocation
      BY <1>1
    <2> QED
      BY <1>2, <1>3, <1>5, <1>6, <1>7, <1>9, <2>1, <2>2
  <1> QED
    BY <1>1, <1>3, <1>4, <1>8, <1>10, Cancel

-----------------------------------------------------------------------------
(* Extremes of the sets the rules compare.                                    *)

\* Maxima and minima, as FiniteSetsExt chooses them.
LEMMA MaxIs ==
    ASSUME NEW S \in SUBSET Int, NEW x \in S, \A y \in S : y <= x
    PROVE  Max(S) = x
  <1>1. \A z \in S : (\A y \in S : z >= y) => z = x
    OBVIOUS
  <1>2. \A y \in S : x >= y
    OBVIOUS
  <1> QED
    BY <1>1, <1>2 DEF Max

LEMMA MinIsLeast ==
    ASSUME NEW S \in SUBSET Nat, S # {}
    PROVE  Min(S) \in S /\ \A y \in S : Min(S) <= y
  BY LeastExists DEF Min

LEMMA MaxOfTwo ==
    ASSUME NEW a \in Int, NEW b \in Int
    PROVE  Max({a, b}) = IF a <= b THEN b ELSE a
  BY MaxIs

\* What an amount has above a floor.
LEMMA AboveIsNat ==
    ASSUME NEW a \in Int, NEW b \in Int
    PROVE  Above(a, b) = IF b <= a THEN a - b ELSE 0
  <1>1. a - b \in Int /\ 0 \in Int
    OBVIOUS
  <1> QED
    BY <1>1, MaxOfTwo DEF Above

-----------------------------------------------------------------------------
(* What the risk manager and the simulator return.                            *)

\* A configured rule is a fraction or an amount.
LEMMA LimitsSound ==
    /\ \A rule \in Fractions : \A f \in Limit(rule) : f \in 0 .. One /\ f \in Nat /\ One - f \in Nat
    /\ \A rule \in Amounts : Limit(rule) \subseteq Nat
  BY RiskAssumption DEF Limit

LEMMA IntQuotient == ASSUME NEW a \in Int, NEW b \in Nat \ {0} PROVE a \div b \in Int
  OBVIOUS

LEMMA RemainderIsNat == ASSUME NEW f \in 0 .. One PROVE One - f \in 0 .. One /\ One - f \in Nat
  BY RiskAssumption

\* What an entry may spend is in cash and leaves the reserve.
LEMMA AllocationIsAffordable ==
    ASSUME NEW context, context.cash \in Nat, context.equity \in Nat, context.exposure \in Nat,
           NEW allocation, allocation = ApprovedAllocation(context)
    PROVE  /\ allocation \in Nat /\ allocation <= context.cash
           /\ allocation > 0 =>
                /\ ~ EntryRejected(context)
                /\ \A reserve \in Limit("minimum_cash_reserve") :
                     reserve \in Nat /\ allocation <= context.cash - reserve
  <1> DEFINE requested == RequestedAllocation(context.equity)
             caps == AllocationCaps(context)
  <1>1. requested \in Nat
    BY OfIsNat, RiskAssumption DEF RequestedAllocation
  <1>2. \A rule \in Fractions : \A f \in Limit(rule) : Of(context.equity, f) \in Nat
    BY LimitsSound, OfIsNat
  <1>3. \A a \in Nat, b \in Nat : Above(a, b) \in Nat
    BY AboveIsNat
  <1>4. caps \in SUBSET Nat
    <2>1. \A f \in Limit("maximum_position_size") : Of(context.equity, f) \in Nat
      BY <1>2 DEF Fractions
    <2>2. Limit("maximum_position_size_fixed") \subseteq Nat
      BY LimitsSound DEF Amounts
    <2>3. \A f \in Limit("maximum_portfolio_exposure") \cup Limit("maximum_asset_exposure") :
             Above(Of(context.equity, f), context.exposure) \in Nat
      BY <1>2, <1>3 DEF Fractions
    <2>4. \A reserve \in Limit("minimum_cash_reserve") : Above(context.cash, reserve) \in Nat
      BY <1>3, LimitsSound DEF Amounts
    <2> QED
      BY <2>1, <2>2, <2>3, <2>4 DEF AllocationCaps
  <1>5. context.cash \in caps
    BY DEF AllocationCaps
  <1>6. \A reserve \in Limit("minimum_cash_reserve") : Above(context.cash, reserve) \in caps
    BY DEF AllocationCaps
  <1> DEFINE least == Min(caps \cup {requested})
  <1> HIDE DEF caps, requested
  <1>7. least \in Nat /\ \A cap \in caps : least <= cap
    <2>1. caps \cup {requested} \in SUBSET Nat /\ caps \cup {requested} # {}
      BY <1>1, <1>4
    <2> QED
      BY <2>1, MinIsLeast
  <1>8. allocation = IF EntryRejected(context) THEN 0 ELSE least
    <2>1. Max({0, least}) = least
      BY <1>7, MaxOfTwo
    <2> QED
      BY <2>1 DEF ApprovedAllocation, caps, requested
  <1> HIDE DEF least
  <1>9. ASSUME allocation > 0, NEW reserve \in Limit("minimum_cash_reserve")
        PROVE  reserve \in Nat /\ allocation <= context.cash - reserve
    <2>1. reserve \in Nat
      BY LimitsSound DEF Amounts
    <2>2. least <= Above(context.cash, reserve)
      BY <1>6, <1>7
    <2>3. allocation = least /\ least # 0
      BY <1>7, <1>8, <1>9
    <2> QED
      BY <1>7, <2>1, <2>2, <2>3, AboveIsNat
  <1>10. allocation > 0 => ~ EntryRejected(context)
    BY <1>8
  <1> QED
    BY <1>5, <1>7, <1>8, <1>9, <1>10

\* A purchase that buys anything at all costs no more than its allocation.
LEMMA BuyFillIsSound ==
    ASSUME NEW signal_day \in Nat, NEW day \in Nat, NEW reference \in Nat \ {0},
           NEW allocation \in Nat, NEW fill, fill = BuyFill(signal_day, day, reference, allocation),
           fill.quantity # 0
    PROVE  /\ fill \in Fills /\ fill.side = "buy" /\ fill.signal_day = signal_day
           /\ fill.day = day /\ fill.reference = reference
           /\ fill.cash_delta \in Int /\ 0 <= allocation + fill.cash_delta
  <1> DEFINE price == Of(reference, One + Backtest.slippage)
             lots == (allocation * One) \div (price * (One + Backtest.transaction_cost))
             notional == lots * price
             cost == Of(notional, Backtest.transaction_cost)
  <1>1. Backtest.slippage \in Nat /\ Backtest.transaction_cost \in Nat
    BY RiskAssumption
  <1>2. price \in Nat \ {0}
    BY <1>1, RaisedPrice
  <1>3. lots \in Nat /\ notional \in Nat /\ notional + cost <= allocation
    BY <1>1, <1>2, LotsFit
  <1>4. cost \in Nat
    BY <1>1, <1>3, OfIsNat
  <1>5. fill = [side |-> "buy", signal_day |-> signal_day, day |-> day, reference |-> reference,
                price |-> price, quantity |-> lots, cash_delta |-> -(notional + cost)]
    BY DEF BuyFill
  <1> HIDE DEF price, lots, notional, cost
  <1>6. -(notional + cost) \in Int /\ 0 <= allocation + -(notional + cost)
    BY <1>3, <1>4
  <1>7. lots \in Nat \ {0}
    BY <1>3, <1>5
  <1> QED
    BY <1>2, <1>5, <1>6, <1>7 DEF Fills

\* A sale fills what it is asked to and brings cash in.
LEMMA SellFillIsSound ==
    ASSUME NEW signal_day, NEW day, NEW reference, NEW quantity,
           signal_day \in Nat, day \in Nat, reference \in Nat, quantity \in Nat \ {0}, NEW fill, fill = SellFill(signal_day, day, reference, quantity)
    PROVE  /\ fill \in Fills /\ fill.side = "sell" /\ fill.signal_day = signal_day
           /\ fill.day = day /\ fill.reference = reference /\ fill.quantity = quantity
           /\ fill.cash_delta \in Nat
  <1> DEFINE price == Of(reference, One - Backtest.slippage)
             notional == quantity * price
             cost == Of(notional, Backtest.transaction_cost)
  <1>1. One - Backtest.slippage \in Nat /\ Backtest.transaction_cost \in 0 .. One
        /\ Backtest.transaction_cost \in Nat
    BY RiskAssumption
  <1>2. price \in Nat
    BY <1>1, OfIsNat
  <1>3. notional \in Nat
    BY <1>2, ProductIsNat
  <1>4. cost \in Nat /\ cost <= notional
    BY <1>1, <1>3, OfIsNat, OfIsPart
  <1>5. fill = [side |-> "sell", signal_day |-> signal_day, day |-> day, reference |-> reference,
                price |-> price, quantity |-> quantity, cash_delta |-> notional - cost]
    BY DEF SellFill
  <1> HIDE DEF price, notional, cost
  <1>6. notional - cost \in Nat
    BY <1>3, <1>4
  <1> QED
    BY <1>2, <1>5, <1>6 DEF Fills

\* A forced exit executes within the range of its bar; a bar that forces none
\* touched neither the stop-loss nor the trailing stop.
LEMMA ForcedExitIsSound ==
    ASSUME NEW bar \in Bars, NEW position \in Positions, NEW cash \in Nat, NEW peak \in Nat,
           NEW previous \in Nat,
           NEW reference, reference = ForcedExit(bar, position, cash, peak, previous)
    PROVE  /\ reference # None =>
                reference \in Nat /\ bar.low <= reference /\ reference <= bar.high
           /\ reference = None =>
                /\ \A f \in Limit("stop_loss") : bar.low > Of(position.entry_price, One - f)
                /\ \A f \in Limit("trailing_stop") :
                     bar.low > Of(position.high_watermark, One - f)
  <1> DEFINE Trigger(equity, f) == (Of(equity, One - f) - cash) \div position.quantity
             protective ==
               {Of(position.entry_price, One - f) : f \in Limit("stop_loss")}
               \cup {Of(position.high_watermark, One - f) : f \in Limit("trailing_stop")}
               \cup {Trigger(previous, f) : f \in Limit("daily_loss_limit")}
               \cup {Trigger(peak, f) : f \in Limit("maximum_drawdown")}
             hit == {trigger \in protective : bar.low <= trigger}
             profit == {trigger \in {Of(position.entry_price, One + f) :
                                       f \in Limit("take_profit")} : bar.high >= trigger}
  <1>1. /\ bar.low \in Nat \ {0} /\ bar.high \in Nat
        /\ bar.open \in Nat /\ bar.low <= bar.open /\ bar.open <= bar.high
    BY BarAssumption
  <1>2. position.entry_price \in Nat /\ position.high_watermark \in Nat
        /\ position.quantity \in Nat \ {0}
    BY DEF Positions
  <1>3. \A rule \in Fractions : \A f \in Limit(rule) : One - f \in Nat
    BY LimitsSound
  <1>4. \A equity \in Nat : \A rule \in Fractions : \A f \in Limit(rule) :
           Trigger(equity, f) \in Int
    <2> TAKE equity \in Nat
    <2> TAKE rule \in Fractions
    <2> TAKE f \in Limit(rule)
    <2>1. Of(equity, One - f) - cash \in Int
      BY <1>3, OfIsNat
    <2> QED
      BY <1>2, <2>1, IntQuotient
  <1> HIDE DEF Trigger
  <1>5. protective \subseteq Int
    <2>1. \A f \in Limit("stop_loss") : Of(position.entry_price, One - f) \in Int
      <3> TAKE f \in Limit("stop_loss")
      <3>1. One - f \in Nat
        BY <1>3 DEF Fractions
      <3>2. Of(position.entry_price, One - f) \in Nat
        BY <1>2, <3>1, OfIsNat
      <3> QED
        BY <3>2
    <2>2. \A f \in Limit("trailing_stop") : Of(position.high_watermark, One - f) \in Int
      <3> TAKE f \in Limit("trailing_stop")
      <3>1. One - f \in Nat
        BY <1>3 DEF Fractions
      <3>2. Of(position.high_watermark, One - f) \in Nat
        BY <1>2, <3>1, OfIsNat
      <3> QED
        BY <3>2
    <2>3. \A f \in Limit("daily_loss_limit") : Trigger(previous, f) \in Int
      BY <1>4 DEF Fractions
    <2>4. \A f \in Limit("maximum_drawdown") : Trigger(peak, f) \in Int
      BY <1>4 DEF Fractions
    <2> QED
      BY <2>1, <2>2, <2>3, <2>4
  <1>6. reference = IF hit # {} THEN Min(hit \cup {bar.open})
                    ELSE IF profit # {} THEN Max(profit \cup {bar.open}) ELSE None
    BY DEF ForcedExit, Trigger
  <1>7. profit \subseteq 0 .. bar.high
    <2>1. \A f \in Limit("take_profit") : Of(position.entry_price, One + f) \in Nat
      <3> TAKE f \in Limit("take_profit")
      <3>1. One + f \in Nat
        BY LimitsSound, RiskAssumption DEF Amounts
      <3> QED
        BY <1>2, <3>1, OfIsNat
    <2> QED
      BY <1>1, <2>1
  <1>8. /\ \A f \in Limit("stop_loss") : Of(position.entry_price, One - f) \in protective
        /\ \A f \in Limit("trailing_stop") : Of(position.high_watermark, One - f) \in protective
    OBVIOUS
  <1> HIDE DEF protective, profit
  <1>9. CASE hit # {}
    <2>1. hit \cup {bar.open} \in SUBSET Nat /\ hit \cup {bar.open} # {}
      <3>1. \A trigger \in hit : trigger \in Nat
        BY <1>1, <1>5
      <3> HIDE DEF hit
      <3> QED
        BY <1>1, <3>1
    <2>2. /\ Min(hit \cup {bar.open}) \in hit \cup {bar.open}
          /\ Min(hit \cup {bar.open}) <= bar.open
      BY <2>1, MinIsLeast
    <2>3. reference \in hit \cup {bar.open} /\ reference <= bar.open
      BY <1>6, <1>9, <2>2
    <2>4. reference \in Nat /\ bar.low <= reference /\ reference <= bar.high
      BY <1>1, <2>1, <2>3
    <2> QED
      BY <2>4, RiskAssumption
  <1>10. CASE hit = {} /\ profit # {}
    <2>1. profit \cup {bar.open} \in SUBSET (0 .. bar.high) /\ profit \cup {bar.open} # {}
      <3>1. bar.open \in 0 .. bar.high
        BY <1>1
      <3> QED
        BY <1>7, <3>1
    <2>2. Max(profit \cup {bar.open}) \in profit \cup {bar.open}
      BY <1>1, <2>1, MinMaxAreMembers
    <2>3. \E x \in profit \cup {bar.open} : \A y \in profit \cup {bar.open} : x >= y
      BY <1>1, <2>1, GreatestExists
    <2>4. Max(profit \cup {bar.open}) >= bar.open
      BY <2>3 DEF Max
    <2>5. reference \in 0 .. bar.high /\ reference >= bar.open
      BY <1>6, <1>10, <2>1, <2>2, <2>4
    <2> QED
      BY <1>1, <2>5, RiskAssumption
  <1>11. CASE hit = {} /\ profit = {}
    <2>1. reference = None
      BY <1>6, <1>11
    <2>2. \A trigger \in protective : bar.low > trigger
      BY <1>1, <1>5, <1>11
    <2> QED
      BY <1>8, <2>1, <2>2


  <1> QED
    BY <1>9, <1>10, <1>11

-----------------------------------------------------------------------------
(* One observation, step by step.                                             *)

\* The position a purchase opens is the one of its fill.
LEMMA OpenedIsSound ==
    ASSUME NEW fill \in Fills
    PROVE  /\ Opened(fill) \in Positions /\ Opened(fill) # None
           /\ Opened(fill).entry_day = fill.day /\ Opened(fill).entry_price = fill.price
           /\ Opened(fill).quantity = fill.quantity /\ Opened(fill).high_watermark = fill.price
  <1>1. Opened(fill) \in Positions
    BY DEF Opened, Positions, Fills
  <1> QED
    BY <1>1, AbsenceAssumption DEF Opened

\* The parts of a book, and that it has no others.
LEMMA BookFields ==
    ASSUME NEW b \in Books
    PROVE  /\ b.cash \in Nat /\ b.position \in Positions \cup {None} /\ b.peak \in Nat
           /\ b.previous_close \in Nat /\ b.last_exit \in Nat \cup {None}
           /\ b.fills \in Seq(Fills) /\ b.closes \in Seq(Nat)
           /\ b = [cash |-> b.cash, position |-> b.position, peak |-> b.peak,
                   previous_close |-> b.previous_close, last_exit |-> b.last_exit,
                   fills |-> b.fills, closes |-> b.closes]
  BY DEF Books

\* How the position manager books a purchase.
LEMMA Bought ==
    ASSUME NEW b \in Books, NEW fill \in Fills, 0 <= b.cash + fill.cash_delta,
           NEW o, o = Buy(b, fill)
    PROVE  /\ o \in Books /\ o.cash = b.cash + fill.cash_delta /\ o.position = Opened(fill)
           /\ o.peak = b.peak /\ o.previous_close = b.previous_close
           /\ o.last_exit = b.last_exit /\ o.closes = b.closes
           /\ o.fills = Append(b.fills, fill)
  <1>1. o = [cash |-> b.cash + fill.cash_delta, position |-> Opened(fill), peak |-> b.peak,
             previous_close |-> b.previous_close, last_exit |-> b.last_exit,
             fills |-> Append(b.fills, fill), closes |-> b.closes]
    BY DEF Buy, Books
  <1>2. b.cash + fill.cash_delta \in Nat
    BY DEF Books, Fills
  <1>3. Append(b.fills, fill) \in Seq(Fills)
    BY BookFields
  <1> QED
    BY <1>1, <1>2, <1>3, BookFields, OpenedIsSound DEF Books

\* How it books a sale.
LEMMA Sold ==
    ASSUME NEW b \in Books, NEW fill \in Fills, fill.cash_delta \in Nat, NEW index, index \in Nat,
           NEW o, o = Sell(b, fill, index)
    PROVE  /\ o \in Books /\ o.cash = b.cash + fill.cash_delta /\ o.position = None
           /\ o.peak = b.peak /\ o.previous_close = b.previous_close
           /\ o.last_exit = index /\ o.closes = b.closes
           /\ o.fills = Append(b.fills, fill)
  <1>1. o = [cash |-> b.cash + fill.cash_delta, position |-> None, peak |-> b.peak,
             previous_close |-> b.previous_close, last_exit |-> index,
             fills |-> Append(b.fills, fill), closes |-> b.closes]
    BY DEF Sell, Books
  <1>2. b.cash + fill.cash_delta \in Nat
    BY BookFields
  <1>3. Append(b.fills, fill) \in Seq(Fills)
    BY BookFields
  <1> QED
    BY <1>1, <1>2, <1>3, BookFields DEF Books

\* A book that holds a position holds one with a quantity, a price and a day.
LEMMA Held ==
    ASSUME NEW b \in Books, b.position # None
    PROVE  /\ b.position \in Positions /\ b.position.quantity \in Nat \ {0}
           /\ b.position.entry_price \in Nat /\ b.position.entry_day \in Nat
           /\ b.position.high_watermark \in Nat
  BY DEF Books, Positions

\* A position the completed bar leaves open, with the watermark that follows.
Watched(b, o, bar) ==
    /\ b.position # None /\ o.position # None /\ o \in Books
    /\ \A f \in Limit("stop_loss") : bar.low > Of(b.position.entry_price, One - f)
    /\ \A f \in Limit("trailing_stop") : bar.low > Of(b.position.high_watermark, One - f)
    /\ o.position.entry_day = b.position.entry_day
    /\ o.position.entry_price = b.position.entry_price
    /\ o.position.quantity = b.position.quantity
    /\ o.position.high_watermark = Max({b.position.high_watermark, bar.high})
    /\ o.cash = b.cash /\ o.peak = b.peak /\ o.previous_close = b.previous_close
    /\ o.last_exit = b.last_exit /\ o.fills = b.fills /\ o.closes = b.closes

\* The completed bar: nothing held, a forced exit, or a watermark that follows.
LEMMA Protected ==
    ASSUME NEW b \in Books, NEW bar \in Bars, NEW day, NEW index, day \in Nat,
           index \in Nat, NEW p, p = Protect(b, bar, day, index)
    PROVE  \/ b.position = None /\ p = b
           \/ /\ b.position # None
              /\ \E reference \in Nat :
                   /\ bar.low <= reference /\ reference <= bar.high
                   /\ p = Sell(b, SellFill(day, day, reference, b.position.quantity), index)
           \/ Watched(b, p, bar)
  <1> SUFFICES ASSUME b.position # None
               PROVE  \/ \E reference \in Nat :
                           /\ bar.low <= reference /\ reference <= bar.high
                           /\ p = Sell(b, SellFill(day, day, reference, b.position.quantity), index)
                      \/ Watched(b, p, bar)
    BY DEF Protect
  <1> DEFINE held == b.position
             reference == ForcedExit(bar, held, b.cash, b.peak, b.previous_close)
             high == Max({held.high_watermark, bar.high})
  <1>1. held \in Positions /\ held.high_watermark \in Nat /\ bar.high \in Nat
    BY Held, BarAssumption
  <1>2. /\ reference # None =>
             reference \in Nat /\ bar.low <= reference /\ reference <= bar.high
        /\ reference = None =>
             /\ \A f \in Limit("stop_loss") : bar.low > Of(held.entry_price, One - f)
             /\ \A f \in Limit("trailing_stop") : bar.low > Of(held.high_watermark, One - f)
    BY <1>1, BookFields, ForcedExitIsSound
  <1>3. p = IF reference # None
            THEN Sell(b, SellFill(day, day, reference, b.position.quantity), index)
            ELSE [b EXCEPT !.position.high_watermark = high]
    BY DEF Protect
  <1>4. high \in Nat
    BY <1>1, MaxOfTwo
  <1> HIDE DEF reference, high
  <1>5. CASE reference # None
    BY <1>2, <1>3, <1>5
  <1>6. CASE reference = None
    <2>1. PICK raised : raised = [held EXCEPT !.high_watermark = high]
      OBVIOUS
    <2>2. raised = [entry_day |-> held.entry_day, entry_price |-> held.entry_price,
                    quantity |-> held.quantity, high_watermark |-> high]
      BY <1>1, <2>1 DEF Positions
    <2>3. raised \in Positions /\ raised # None
      BY <1>1, <1>4, <2>2, AbsenceAssumption DEF Positions
    <2>4. p = [b EXCEPT !.position = raised]
      BY <1>3, <1>6, <2>1
    <2>5. p = [cash |-> b.cash, position |-> raised, peak |-> b.peak,
               previous_close |-> b.previous_close, last_exit |-> b.last_exit,
               fills |-> b.fills, closes |-> b.closes]
      BY <2>4 DEF Books
    <2>6. p \in Books /\ p.position = raised
      BY <2>3, <2>5, BookFields DEF Books
    <2>7. /\ p.position.entry_day = held.entry_day /\ p.position.entry_price = held.entry_price
          /\ p.position.quantity = held.quantity /\ p.position.high_watermark = high
      BY <2>2, <2>6
    <2>8. /\ p.cash = b.cash /\ p.peak = b.peak /\ p.previous_close = b.previous_close
          /\ p.last_exit = b.last_exit /\ p.fills = b.fills /\ p.closes = b.closes
      BY <2>5
    <2> QED
      BY <1>2, <1>6, <2>3, <2>6, <2>7, <2>8 DEF high, Watched
  <1> QED
    BY <1>5, <1>6

\* How a book is marked at a close: only its equity series, and its peak, change.
LEMMA Marked ==
    ASSUME NEW b \in Books, NEW bar \in Bars, NEW m, m = MarkToMarket(b, bar)
    PROVE  /\ m \in Books
           /\ b.position = None => m.previous_close = b.cash
           /\ m.peak = Max({b.peak, m.previous_close})
           /\ m.closes = Append(b.closes, m.previous_close)
           /\ m.cash = b.cash /\ m.position = b.position /\ m.fills = b.fills
           /\ m.last_exit = b.last_exit
  <1> DEFINE quantity == IF b.position = None THEN 0 ELSE b.position.quantity
             value == b.cash + quantity * bar.close
  <1>1. quantity \in Nat /\ bar.close \in Nat /\ b.cash \in Nat
    BY BookFields, Held, BarAssumption
  <1>2. value \in Nat
    BY <1>1, ProductIsNat
  <1>3. b.position = None => value = b.cash
    BY <1>1
  <1>4. m = [b EXCEPT !.peak = Max({@, value}), !.previous_close = value,
                      !.closes = Append(@, value)]
    BY DEF MarkToMarket
  <1> HIDE DEF quantity, value
  <1>5. Max({b.peak, value}) \in Nat
    <2>1. b.peak \in Nat
      BY BookFields
    <2> QED
      BY <1>2, <2>1, MaxOfTwo
  <1>6. Append(b.closes, value) \in Seq(Nat)
    BY <1>2, BookFields
  <1>7. m = [cash |-> b.cash, position |-> b.position, peak |-> Max({b.peak, value}),
             previous_close |-> value, last_exit |-> b.last_exit, fills |-> b.fills,
             closes |-> Append(b.closes, value)]
    BY <1>4 DEF Books
  <1> QED
    BY <1>2, <1>3, <1>5, <1>6, <1>7, BookFields DEF Books

\* What an entry of the paper session is judged on.
EntryContext(s) ==
    [index |-> s.sequence, cash |-> s.book.cash, equity |-> s.book.cash,
     exposure |-> 0, open_position_count |-> 0, peak |-> s.book.peak,
     previous_close |-> s.book.previous_close, last_exit |-> s.book.last_exit]

\* The pending order: nothing, an entry, or an exit.
LEMMA Ordered ==
    ASSUME NEW s \in States, NEW bar \in Bars, NEW day \in Nat,
           NEW o, o = PaperOrder(s, bar, day), o # None
    PROVE  \/ o = s.book
           \/ /\ s.pending # None /\ s.pending.action = "BUY" /\ s.book.position = None
              /\ \E fill \in Fills :
                   /\ fill.side = "buy" /\ fill.signal_day = s.pending.day /\ fill.day = day
                   /\ fill.reference = bar.open
                   /\ 0 <= s.book.cash + fill.cash_delta
                   /\ ~ EntryRejected(EntryContext(s))
                   /\ \A reserve \in Limit("minimum_cash_reserve") :
                        reserve \in Nat /\ reserve <= s.book.cash + fill.cash_delta
                   /\ o = Buy(s.book, fill)
           \/ /\ s.pending # None /\ s.pending.action = "EXIT" /\ s.book.position # None
              /\ o = Sell(s.book, SellFill(s.pending.day, day, bar.open,
                                           s.book.position.quantity), s.sequence)
  <1> DEFINE allocation == ApprovedAllocation(EntryContext(s))
             fill == BuyFill(s.pending.day, day, bar.open, allocation)
  <1>1. o = CASE s.pending # None /\ s.pending.action = "BUY" /\ s.book.position = None
                   /\ allocation > 0
                  -> IF fill.quantity = 0 THEN None ELSE Buy(s.book, fill)
              [] s.pending # None /\ s.pending.action = "EXIT" /\ s.book.position # None
                  -> Sell(s.book, SellFill(s.pending.day, day, bar.open,
                                           s.book.position.quantity), s.sequence)
              [] OTHER -> s.book
    BY DEF PaperOrder, EntryContext
  <1>2. s.book \in Books /\ s.book.cash \in Nat
    BY BookFields DEF States
  <1>3. /\ allocation \in Nat /\ allocation <= s.book.cash
        /\ allocation > 0 =>
             /\ ~ EntryRejected(EntryContext(s))
             /\ \A reserve \in Limit("minimum_cash_reserve") :
                  reserve \in Nat /\ allocation <= s.book.cash - reserve
    <2>1. EntryContext(s).cash = s.book.cash /\ EntryContext(s).equity = s.book.cash
          /\ EntryContext(s).exposure = 0
      BY DEF EntryContext
    <2>2. 0 \in Nat
      OBVIOUS
    <2> QED
      BY <1>2, <2>1, <2>2, AllocationIsAffordable
  <1>4. ASSUME s.pending # None, s.pending.action = "BUY", s.book.position = None,
               allocation > 0, fill.quantity # 0
        PROVE  /\ fill \in Fills /\ fill.side = "buy" /\ fill.signal_day = s.pending.day
               /\ fill.day = day /\ fill.reference = bar.open
               /\ 0 <= s.book.cash + fill.cash_delta
               /\ \A reserve \in Limit("minimum_cash_reserve") :
                    reserve \in Nat /\ reserve <= s.book.cash + fill.cash_delta
    <2>1. s.pending.day \in Nat
      BY <1>4 DEF States, Signals
    <2>2. bar.open \in Nat \ {0}
      BY BarAssumption
    <2> HIDE DEF allocation
    <2>3. /\ fill \in Fills /\ fill.side = "buy" /\ fill.signal_day = s.pending.day
          /\ fill.day = day /\ fill.reference = bar.open
          /\ fill.cash_delta \in Int /\ 0 <= allocation + fill.cash_delta
      BY <1>3, <1>4, <2>1, <2>2, BuyFillIsSound
    <2> HIDE DEF fill
    <2> QED
      BY <1>2, <1>3, <1>4, <2>3
  <1> HIDE DEF allocation, fill
  <1>5. CASE s.pending # None /\ s.pending.action = "BUY" /\ s.book.position = None
               /\ allocation > 0
    <2>1. o = Buy(s.book, fill) /\ fill.quantity # 0
      BY <1>1, <1>5
    <2> QED
      BY <1>3, <1>4, <1>5, <2>1
  <1>6. CASE s.pending # None /\ s.pending.action = "EXIT" /\ s.book.position # None
    BY <1>1, <1>6
  <1>7. CASE /\ ~ (s.pending # None /\ s.pending.action = "BUY" /\ s.book.position = None
                     /\ allocation > 0)
             /\ ~ (s.pending # None /\ s.pending.action = "EXIT" /\ s.book.position # None)
    BY <1>1, <1>7
  <1> QED
    BY <1>5, <1>6, <1>7

-----------------------------------------------------------------------------
(* What a book says of the days before, its fills and its closes.             *)

\* The clause of OrdersExecuteAtNextOpen for one fill.
FillSound(fill, bars, signals) ==
    IF fill.side = "sell" /\ fill.signal_day = fill.day
    THEN bars[fill.day].low <= fill.reference /\ fill.reference <= bars[fill.day].high
    ELSE /\ fill.day = fill.signal_day + 1
         /\ fill.reference = bars[fill.day].open
         /\ [day |-> fill.signal_day, action |-> IF fill.side = "buy" THEN "BUY" ELSE "EXIT"]
               \in Range(signals)

Orders(fills, bars, signals, first, through) ==
    \A i \in 1 .. Len(fills) :
        fills[i].day \in first + 1 .. through /\ FillSound(fills[i], bars, signals)

Alternates(b) ==
    /\ \A i \in 1 .. Len(b.fills) :
         /\ b.fills[i].side = IF i % 2 = 1 THEN "buy" ELSE "sell"
         /\ i % 2 = 0 => b.fills[i].quantity = b.fills[i - 1].quantity
    /\ (b.position # None) = (Len(b.fills) % 2 = 1)
    /\ b.position # None =>
         /\ b.position.quantity = b.fills[Len(b.fills)].quantity
         /\ b.position.entry_day = b.fills[Len(b.fills)].day

\* The cash after each fill.
Balances(fills, c) ==
    /\ c \in [0 .. Len(fills) -> Int] /\ c[0] = Backtest.initial_capital
    /\ \A i \in 1 .. Len(fills) :
         /\ c[i] = c[i - 1] + fills[i].cash_delta
         /\ \A reserve \in Limit("minimum_cash_reserve") : reserve <= c[i]

Balanced(b) == \E c : Balances(b.fills, c) /\ c[Len(b.fills)] = b.cash

\* The closes so far, the last of them and the highest.
Closed(b, n) ==
    /\ Len(b.closes) = n
    /\ b.previous_close = IF n = 0 THEN Backtest.initial_capital ELSE b.closes[n]
    /\ b.peak \in Range(b.closes) \cup {Backtest.initial_capital}
    /\ \A value \in Range(b.closes) \cup {Backtest.initial_capital} : value <= b.peak

\* The clause of NoEntryAgainstRisk for one entry.
EntrySound(fills, closes, first, i) ==
    LET seen == SubSeq(closes, 1, fills[i].day - first)
        peak == Max(Range(seen) \cup {Backtest.initial_capital})
    IN  /\ \A n \in Limit("trading_cooldown") : i > 1 => fills[i].day - fills[i - 1].day > n
        /\ \A drawdown \in Limit("maximum_drawdown") : Last(seen) > Of(peak, One - drawdown)

Entries(b, first) ==
    \A i \in 1 .. Len(b.fills) :
        b.fills[i].side = "buy" =>
            /\ b.fills[i].day - first \in 1 .. Len(b.closes)
            /\ EntrySound(b.fills, b.closes, first, i)

\* A book without a position remembers the day of its last fill, an exit.
ExitKnown(b, first) ==
    b.position = None /\ Len(b.fills) # 0 =>
        b.last_exit = b.fills[Len(b.fills)].day - first

Ledger(b, bars, signals, first, through, n) ==
    /\ b \in Books
    /\ Orders(b.fills, bars, signals, first, through)
    /\ Alternates(b) /\ Balanced(b) /\ Closed(b, n)
    /\ Entries(b, first) /\ ExitKnown(b, first)

\* Of a position: the days it was held before a day, none of which touched its
\* stops, and the highest price of them.
Highs(held, bars, day) ==
    {bars[d].high : d \in held.entry_day .. (day - 1)} \cup {held.entry_price}

Stops(b, bars, day) ==
    b.position # None =>
        LET held == b.position
        IN  /\ held.entry_day \in 1 .. day
            /\ held.high_watermark \in Highs(held, bars, day)
            /\ \A high \in Highs(held, bars, day) : high <= held.high_watermark
            /\ \A d \in held.entry_day .. (day - 1) :
                 /\ \A f \in Limit("stop_loss") : bars[d].low > Of(held.entry_price, One - f)
                 /\ \A f \in Limit("trailing_stop") :
                      bars[d].low > Of(Max(Highs(held, bars, d)), One - f)

-----------------------------------------------------------------------------
(* The moves of one observation.                                              *)

Entered(b, o, bars, signals, first, day) ==
    /\ b.position = None
    /\ \E fill \in Fills :
         /\ fill.side = "buy" /\ fill.day = day /\ FillSound(fill, bars, signals)
         /\ 0 <= b.cash + fill.cash_delta
         /\ \A reserve \in Limit("minimum_cash_reserve") : reserve <= b.cash + fill.cash_delta
         /\ ~ EntryRejected([index |-> day - first, cash |-> b.cash, equity |-> b.cash,
                             exposure |-> 0, open_position_count |-> 0, peak |-> b.peak,
                             previous_close |-> b.previous_close, last_exit |-> b.last_exit])
         /\ o = Buy(b, fill)

Exited(b, o, bars, signals, first, day) ==
    /\ b.position # None
    /\ \E fill \in Fills :
         /\ fill.side = "sell" /\ fill.day = day /\ FillSound(fill, bars, signals)
         /\ fill.quantity = b.position.quantity /\ fill.cash_delta \in Nat
         /\ o = Sell(b, fill, day - first)

\* What appending leaves alone.
LEMMA Appended ==
    ASSUME NEW S, NEW s \in Seq(S), NEW x \in S
    PROVE  /\ Append(s, x) \in Seq(S) /\ Len(Append(s, x)) = Len(s) + 1 /\ Len(s) \in Nat
           /\ Append(s, x)[Len(s) + 1] = x
           /\ \A i \in 1 .. Len(s) : Append(s, x)[i] = s[i] /\ s[i] \in S
           /\ \A i \in 1 .. Len(s) + 1 : i \in 1 .. Len(s) \/ i = Len(s) + 1
  OBVIOUS

\* One more order of the day, after all others, keeps the orders in order.
LEMMA OrdersAppend ==
    ASSUME NEW fills \in Seq(Fills), NEW bars, NEW signals, NEW first \in Nat, NEW day \in Nat,
           NEW through \in Nat, through <= day, first < day,
           Orders(fills, bars, signals, first, through),
           NEW fill \in Fills, fill.day = day, FillSound(fill, bars, signals)
    PROVE  Orders(Append(fills, fill), bars, signals, first, day)
  <1>1. \A i \in 1 .. Len(fills) : fills[i].day \in first + 1 .. day
    BY DEF Orders
  <1>2. fill.day \in first + 1 .. day
    OBVIOUS
  <1> QED
    BY <1>1, <1>2, Appended DEF Orders

\* Purchases are the odd fills.
LEMMA Parity ==
    \A n \in Nat : /\ n % 2 = 0 \/ n % 2 = 1
                   /\ n % 2 = 0 => (n + 1) % 2 = 1
                   /\ n % 2 = 1 => (n + 1) % 2 = 0
  OBVIOUS

\* A purchase by a flat book leaves its fills alternating.
LEMMA EnteredAlternates ==
    ASSUME NEW b \in Books, NEW fill \in Fills, NEW o \in Books, b.position = None,
           Alternates(b), fill.side = "buy", o.fills = Append(b.fills, fill),
           o.position = Opened(fill)
    PROVE  Alternates(o)
  <1> DEFINE n == Len(b.fills)
  <1>1. b.fills \in Seq(Fills) /\ n \in Nat
    BY BookFields
  <1>2. /\ Len(o.fills) = n + 1 /\ o.fills[n + 1] = fill
        /\ \A i \in 1 .. n : o.fills[i] = b.fills[i]
        /\ \A i \in 1 .. n + 1 : i \in 1 .. n \/ i = n + 1
    BY <1>1, Appended
  <1>3. n % 2 = 0
    <2>1. ~ (n % 2 = 1)
      BY DEF Alternates
    <2> HIDE DEF n
    <2> QED
      BY <1>1, <2>1, Parity
  <1> HIDE DEF n
  <1>4. (n + 1) % 2 = 1
    BY <1>1, <1>3
  <1>5. o.position # None /\ o.position.quantity = fill.quantity /\ o.position.entry_day = fill.day
    BY OpenedIsSound
  <1>6. ASSUME NEW i \in 1 .. n + 1
        PROVE  /\ o.fills[i].side = IF i % 2 = 1 THEN "buy" ELSE "sell"
               /\ i % 2 = 0 => o.fills[i].quantity = o.fills[i - 1].quantity
    <2>1. CASE i = n + 1
      BY <1>2, <1>4, <2>1
    <2>2. CASE i \in 1 .. n
      <3>1. o.fills[i] = b.fills[i]
        BY <1>2, <2>2
      <3>2. i % 2 = 0 => i - 1 \in 1 .. n
        BY <1>1, <2>2
      <3>3. i % 2 = 0 => o.fills[i - 1] = b.fills[i - 1]
        BY <1>2, <3>2
      <3> QED
        BY <2>2, <3>1, <3>3 DEF Alternates, n
    <2> QED
      BY <1>2, <2>1, <2>2
  <1> QED
    BY <1>2, <1>4, <1>5, <1>6 DEF Alternates

\* So does the sale of all that is held.
LEMMA ExitedAlternates ==
    ASSUME NEW b \in Books, NEW fill \in Fills, NEW o \in Books, b.position # None,
           Alternates(b), fill.side = "sell", fill.quantity = b.position.quantity,
           o.fills = Append(b.fills, fill), o.position = None
    PROVE  Alternates(o)
  <1> DEFINE n == Len(b.fills)
  <1>1. b.fills \in Seq(Fills) /\ n \in Nat
    BY BookFields
  <1>2. /\ Len(o.fills) = n + 1 /\ o.fills[n + 1] = fill
        /\ \A i \in 1 .. n : o.fills[i] = b.fills[i]
        /\ \A i \in 1 .. n + 1 : i \in 1 .. n \/ i = n + 1
    BY <1>1, Appended
  <1>3. n % 2 = 1 /\ fill.quantity = b.fills[n].quantity
    BY <1>1 DEF Alternates
  <1> HIDE DEF n
  <1>4. (n + 1) % 2 = 0 /\ n \in 1 .. n /\ n + 1 - 1 = n
    <2>1. n # 0
      BY <1>3
    <2>2. (n + 1) % 2 = 0
      BY ONLY <1>1, <1>3, Parity
    <2>3. n \in 1 .. n /\ n + 1 - 1 = n
      BY ONLY <1>1, <2>1
    <2> QED
      BY <2>2, <2>3
  <1>5. ASSUME NEW i \in 1 .. n + 1
        PROVE  /\ o.fills[i].side = IF i % 2 = 1 THEN "buy" ELSE "sell"
               /\ i % 2 = 0 => o.fills[i].quantity = o.fills[i - 1].quantity
    <2>1. CASE i = n + 1
      <3>1. o.fills[n] = b.fills[n]
        BY <1>2, <1>4
      <3>2. o.fills[i - 1] = b.fills[n] /\ o.fills[i] = fill
        BY <1>1, <1>2, <1>4, <2>1, <3>1
      <3>3. o.fills[i].quantity = o.fills[i - 1].quantity
        BY <1>3, <3>2
      <3>4. i % 2 = 0
        BY <1>4, <2>1
      <3> QED
        BY <3>2, <3>3, <3>4
    <2>2. CASE i \in 1 .. n
      <3>1. o.fills[i] = b.fills[i]
        BY <1>2, <2>2
      <3>2. i % 2 = 0 => i - 1 \in 1 .. n
        BY <1>1, <2>2
      <3>3. i % 2 = 0 => o.fills[i - 1] = b.fills[i - 1]
        BY <1>2, <3>2
      <3> QED
        BY <2>2, <3>1, <3>3 DEF Alternates, n
    <2> QED
      BY <1>2, <2>1, <2>2
  <1> QED
    BY <1>2, <1>4, <1>5 DEF Alternates

\* A fill that respects the reserve keeps the running balance above it.
LEMMA StillBalanced ==
    ASSUME NEW b \in Books, NEW fill \in Fills, NEW o \in Books, Balanced(b),
           o.fills = Append(b.fills, fill), o.cash = b.cash + fill.cash_delta,
           \A reserve \in Limit("minimum_cash_reserve") : reserve <= o.cash
    PROVE  Balanced(o)
  <1> DEFINE n == Len(b.fills)
  <1>1. b.fills \in Seq(Fills) /\ n \in Nat
    BY BookFields
  <1>2. /\ Len(o.fills) = n + 1 /\ o.fills[n + 1] = fill
        /\ \A i \in 1 .. n : o.fills[i] = b.fills[i]
        /\ \A i \in 1 .. n + 1 : i \in 1 .. n \/ i = n + 1
    BY <1>1, Appended
  <1>3. PICK c : Balances(b.fills, c) /\ c[n] = b.cash
    BY DEF Balanced
  <1>4. o.cash \in Int
    BY BookFields
  <1> DEFINE d == [i \in 0 .. n + 1 |-> IF i = n + 1 THEN o.cash ELSE c[i]]
  <1>5. /\ d \in [0 .. n + 1 -> Int] /\ d[n + 1] = o.cash /\ \A i \in 0 .. n : d[i] = c[i]
    BY <1>1, <1>3, <1>4 DEF Balances
  <1> HIDE DEF d, n
  <1>6. d[0] = Backtest.initial_capital
    BY <1>1, <1>3, <1>5 DEF Balances
  <1>7. ASSUME NEW i \in 1 .. n + 1
        PROVE  /\ d[i] = d[i - 1] + o.fills[i].cash_delta
               /\ \A reserve \in Limit("minimum_cash_reserve") : reserve <= d[i]
    <2>1. CASE i = n + 1
      <3>1. d[n] = b.cash /\ n + 1 - 1 = n
        BY <1>1, <1>3, <1>5
      <3>2. d[i] = o.cash /\ d[i - 1] = b.cash /\ o.fills[i] = fill
        BY <1>1, <1>2, <1>5, <2>1, <3>1
      <3> QED
        BY <3>2
    <2>2. CASE i \in 1 .. n
      <3>1. i \in 0 .. n /\ i - 1 \in 0 .. n
        BY <1>1, <2>2
      <3>2. d[i] = c[i] /\ d[i - 1] = c[i - 1] /\ o.fills[i] = b.fills[i]
        BY <1>2, <1>5, <2>2, <3>1
      <3> QED
        BY <1>3, <2>2, <3>2 DEF Balances, n
    <2> QED
      BY <1>2, <2>1, <2>2
  <1> QED
    BY <1>2, <1>5, <1>6, <1>7 DEF Balanced, Balances

-----------------------------------------------------------------------------
(* The moves keep the book.                                                   *)

\* Orders up to a day are orders up to any later day.
LEMMA OrdersLater ==
    ASSUME NEW fills \in Seq(Fills), NEW bars, NEW signals, NEW first \in Nat,
           NEW through \in Nat, NEW day \in Nat, through <= day,
           Orders(fills, bars, signals, first, through)
    PROVE  Orders(fills, bars, signals, first, day)
  BY DEF Orders

\* Orders are explained by signals that stay: one more changes nothing.
LEMMA SignalsGrow ==
    ASSUME NEW fills \in Seq(Fills), NEW bars, NEW signals \in Seq(Signals), NEW x \in Signals,
           NEW first \in Nat, NEW day \in Nat, Orders(fills, bars, signals, first, day)
    PROVE  Orders(fills, bars, Append(signals, x), first, day)
  <1>1. Range(signals) \subseteq Range(Append(signals, x))
    <2>1. \A i \in DOMAIN signals :
             i \in DOMAIN Append(signals, x) /\ Append(signals, x)[i] = signals[i]
      OBVIOUS
    <2> QED
      BY <2>1 DEF Range
  <1>2. \A fill : FillSound(fill, bars, signals) => FillSound(fill, bars, Append(signals, x))
    BY <1>1 DEF FillSound
  <1> QED
    BY <1>2 DEF Orders

\* Nor does a candle that completes later.
LEMMA BarsGrow ==
    ASSUME NEW fills \in Seq(Fills), NEW bars, NEW signals, NEW first \in Nat, NEW day \in Nat,
           NEW later, \A d \in 1 .. day : later[d] = bars[d],
           Orders(fills, bars, signals, first, day)
    PROVE  Orders(fills, later, signals, first, day)
  <1>1. \A i \in 1 .. Len(fills) : fills[i].day \in first + 1 .. day
    BY DEF Orders
  <1>2. \A i \in 1 .. Len(fills) : later[fills[i].day] = bars[fills[i].day]
    <2> TAKE i \in 1 .. Len(fills)
    <2>1. fills[i].day \in 1 .. day
      BY <1>1
    <2> QED
      BY <2>1
  <1> QED
    BY <1>1, <1>2 DEF Orders, FillSound

\* The closes an entry was decided on are a prefix of the series, and stay one.
LEMMA WholePrefix ==
    ASSUME NEW closes \in Seq(Nat), NEW n, n = Len(closes)
    PROVE  SubSeq(closes, 1, n) = closes
  OBVIOUS

LEMMA SamePrefix ==
    ASSUME NEW closes \in Seq(Nat), NEW value \in Nat, NEW k \in 1 .. Len(closes)
    PROVE  /\ SubSeq(Append(closes, value), 1, k) = SubSeq(closes, 1, k)
           /\ k \in 1 .. Len(Append(closes, value))
  OBVIOUS

\* What was true of an entry when it was made stays true.
LEMMA EntryStands ==
    ASSUME NEW fills \in Seq(Fills), NEW fill \in Fills, NEW closes, NEW first,
           NEW i \in 1 .. Len(fills), EntrySound(fills, closes, first, i)
    PROVE  EntrySound(Append(fills, fill), closes, first, i)
  <1>1. Append(fills, fill)[i] = fills[i] /\ (i > 1 => Append(fills, fill)[i - 1] = fills[i - 1])
    OBVIOUS
  <1> QED
    BY <1>1 DEF EntrySound

\* What an entry must have respected, given the closes it was decided on.
LEMMA EntrySoundIs ==
    ASSUME NEW fills, NEW closes, NEW first, NEW i, NEW seen,
           seen = SubSeq(closes, 1, fills[i].day - first),
           \A n \in Limit("trading_cooldown") : i > 1 => fills[i].day - fills[i - 1].day > n,
           \A drawdown \in Limit("maximum_drawdown") :
              Last(seen) > Of(Max(Range(seen) \cup {Backtest.initial_capital}), One - drawdown)
    PROVE  EntrySound(fills, closes, first, i)
  BY DEF EntrySound

\* An entry the risk manager lets pass respects the limits on the whole history.
LEMMA EntryRespectsRisk ==
    ASSUME NEW b \in Books, NEW first \in Nat, NEW day \in Nat, first < day,
           b.position = None, b.previous_close = b.cash,
           Closed(b, day - first), ExitKnown(b, first), NEW fill \in Fills, fill.day = day,
           \A i \in 1 .. Len(b.fills) : b.fills[i].day \in first + 1 .. day,
           ~ EntryRejected([index |-> day - first, cash |-> b.cash, equity |-> b.cash,
                            exposure |-> 0, open_position_count |-> 0, peak |-> b.peak,
                            previous_close |-> b.previous_close, last_exit |-> b.last_exit])
    PROVE  EntrySound(Append(b.fills, fill), b.closes, first, Len(b.fills) + 1)
  <1> DEFINE n == Len(b.fills)
             context == [index |-> day - first, cash |-> b.cash, equity |-> b.cash,
                         exposure |-> 0, open_position_count |-> 0, peak |-> b.peak,
                         previous_close |-> b.previous_close, last_exit |-> b.last_exit]
  <1>1. b.fills \in Seq(Fills) /\ n \in Nat /\ b.closes \in Seq(Nat) /\ b.cash \in Nat /\ b.peak \in Nat
    BY BookFields
  <1>2. Append(b.fills, fill)[n + 1] = fill /\ \A i \in 1 .. n : Append(b.fills, fill)[i] = b.fills[i]
    BY <1>1, Appended
  <1>3. /\ context.index = day - first /\ context.equity = b.cash /\ context.peak = b.peak
        /\ context.last_exit = b.last_exit
    OBVIOUS
  <1>4. /\ \A k \in Limit("trading_cooldown") :
             ~ (b.last_exit # None /\ day - first - b.last_exit <= k)
        /\ \A f \in Limit("maximum_drawdown") : ~ (b.cash <= Of(b.peak, One - f))
    <2> HIDE DEF context
    <2>1. ~ EntryRejected(context)
      BY DEF context
    <2> QED
      BY <1>3, <2>1 DEF EntryRejected
  <1> HIDE DEF context
  <1>5. ASSUME NEW k \in Limit("trading_cooldown"), n + 1 > 1
        PROVE  Append(b.fills, fill)[n + 1].day - Append(b.fills, fill)[n].day > k
    <2>1. n \in 1 .. n /\ Len(b.fills) # 0
      BY <1>1, <1>5
    <2>2. b.last_exit = b.fills[n].day - first /\ b.fills[n].day \in first + 1 .. day
      BY <2>1 DEF ExitKnown
    <2>3. b.fills[n].day \in Nat /\ b.last_exit \in Int /\ b.last_exit # None /\ k \in Nat
      <3>1. k \in Nat
        BY LimitsSound DEF Amounts
      <3>2. b.fills[n].day \in Nat
        BY <2>2
      <3>3. b.last_exit \in Int
        BY <2>2, <3>2
      <3> QED
        BY <3>1, <3>2, <3>3, RiskAssumption
    <2> HIDE DEF n
    <2>4. ~ (day - first - b.last_exit <= k)
      BY <1>4, <2>3
    <2>5. Append(b.fills, fill)[n] = b.fills[n]
      BY <1>2, <2>1
    <2>6. day - b.fills[n].day > k
      BY <2>2, <2>3, <2>4
    <2> QED
      BY <1>2, <2>5, <2>6
  <1>6. ASSUME NEW f \in Limit("maximum_drawdown")
        PROVE  Last(SubSeq(b.closes, 1, day - first))
                 > Of(Max(Range(SubSeq(b.closes, 1, day - first)) \cup {Backtest.initial_capital}),
                      One - f)
    <2>1. day - first \in Nat /\ day - first # 0 /\ Len(b.closes) = day - first
      BY DEF Closed
    <2>2. SubSeq(b.closes, 1, day - first) = b.closes
      BY <1>1, <2>1, WholePrefix
    <2>3. Last(b.closes) = b.cash
      BY <2>1 DEF Closed, Last
    <2>4. Max(Range(b.closes) \cup {Backtest.initial_capital}) = b.peak
      <3>1. Range(b.closes) \cup {Backtest.initial_capital} \in SUBSET Int
        BY <1>1, RiskAssumption DEF Range
      <3> QED
        BY <3>1, MaxIs DEF Closed
    <2>5. Of(b.peak, One - f) \in Nat
      <3>1. One - f \in Nat
        BY LimitsSound DEF Fractions
      <3> QED
        BY <1>1, <3>1, OfIsNat
    <2> QED
      <3>1. ~ (b.cash <= Of(b.peak, One - f))
        BY <1>4
      <3>2. b.cash > Of(b.peak, One - f)
        BY <1>1, <2>5, <3>1
      <3> QED
        BY <2>2, <2>3, <2>4, <3>2
  <1> DEFINE all == Append(b.fills, fill)
             at == n + 1
             seen == SubSeq(b.closes, 1, all[at].day - first)
  <1>7. at - 1 = n
    BY <1>1
  <1>8. seen = SubSeq(b.closes, 1, day - first)
    BY <1>2
  <1>9. /\ \A k \in Limit("trading_cooldown") : at > 1 => all[at].day - all[at - 1].day > k
        /\ \A f \in Limit("maximum_drawdown") :
             Last(seen) > Of(Max(Range(seen) \cup {Backtest.initial_capital}), One - f)
    BY <1>5, <1>6, <1>7, <1>8
  <1>10. seen = SubSeq(b.closes, 1, all[at].day - first)
    OBVIOUS
  <1> HIDE DEF n, all, at, seen
  <1>11. EntrySound(all, b.closes, first, at)
    BY <1>9, <1>10, EntrySoundIs, Zenon
  <1> QED
    BY <1>11 DEF all, at, n

\* An entry at an open keeps the books: this is where the risk rules are needed.
LEMMA LedgerEntered ==
    ASSUME NEW bars, NEW signals, NEW first \in Nat, NEW day \in Nat, NEW through \in Nat,
           through <= day, first < day, NEW b, NEW o,
           Ledger(b, bars, signals, first, through, day - first), b.previous_close = b.cash,
           Entered(b, o, bars, signals, first, day)
    PROVE  Ledger(o, bars, signals, first, day, day - first)
  <1>1. PICK fill \in Fills :
          /\ fill.side = "buy" /\ fill.day = day /\ FillSound(fill, bars, signals)
          /\ 0 <= b.cash + fill.cash_delta
          /\ \A reserve \in Limit("minimum_cash_reserve") : reserve <= b.cash + fill.cash_delta
          /\ ~ EntryRejected([index |-> day - first, cash |-> b.cash, equity |-> b.cash,
                              exposure |-> 0, open_position_count |-> 0, peak |-> b.peak,
                              previous_close |-> b.previous_close, last_exit |-> b.last_exit])
          /\ o = Buy(b, fill)
    BY DEF Entered
  <1>2. b.position = None /\ b \in Books
    BY DEF Entered, Ledger
  <1>3. /\ o \in Books /\ o.cash = b.cash + fill.cash_delta /\ o.position = Opened(fill)
        /\ o.peak = b.peak /\ o.previous_close = b.previous_close
        /\ o.last_exit = b.last_exit /\ o.closes = b.closes
        /\ o.fills = Append(b.fills, fill)
    BY <1>1, <1>2, Bought
  <1>4. b.fills \in Seq(Fills) /\ Len(b.fills) \in Nat
    BY <1>2, BookFields
  <1>5. Orders(o.fills, bars, signals, first, day)
    BY <1>1, <1>3, <1>4, OrdersAppend DEF Ledger
  <1>6. Alternates(o)
    BY <1>1, <1>2, <1>3, EnteredAlternates DEF Ledger
  <1>7. Balanced(o)
    BY <1>1, <1>2, <1>3, StillBalanced DEF Ledger
  <1>8. Closed(o, day - first)
    BY <1>3 DEF Closed, Ledger
  <1>9. ExitKnown(o, first)
    BY <1>3, OpenedIsSound DEF ExitKnown
  <1>10. Entries(o, first)
    <2>1. EntrySound(o.fills, o.closes, first, Len(b.fills) + 1)
      <3>1. \A i \in 1 .. Len(b.fills) : b.fills[i].day \in first + 1 .. day
        <4>1. Orders(b.fills, bars, signals, first, day)
          BY <1>4, OrdersLater DEF Ledger
        <4> QED
          BY <4>1 DEF Orders
      <3> QED
        BY <1>1, <1>2, <1>3, <3>1, EntryRespectsRisk DEF Ledger
    <2>2. ASSUME NEW i \in 1 .. Len(o.fills), o.fills[i].side = "buy"
          PROVE  /\ o.fills[i].day - first \in 1 .. Len(o.closes)
                 /\ EntrySound(o.fills, o.closes, first, i)
      <3>1. CASE i = Len(b.fills) + 1
        <4>1. o.fills[i] = fill /\ Len(o.closes) = day - first
          BY <1>3, <1>4, <1>8, <3>1, Appended DEF Closed
        <4>2. day - first \in 1 .. day - first
          OBVIOUS
        <4> QED
          BY <1>1, <2>1, <3>1, <4>1, <4>2
      <3>2. CASE i \in 1 .. Len(b.fills)
        <4>1. o.fills[i] = b.fills[i]
          BY <1>3, <1>4, <3>2, Appended
        <4>2. /\ b.fills[i].day - first \in 1 .. Len(b.closes)
              /\ EntrySound(b.fills, b.closes, first, i)
          BY <2>2, <3>2, <4>1 DEF Ledger, Entries
        <4> QED
          BY <1>3, <1>4, <3>2, <4>1, <4>2, EntryStands
      <3> QED
        BY <1>3, <1>4, <3>1, <3>2, Appended
    <2> QED
      BY <2>2 DEF Entries
  <1> QED
    BY <1>3, <1>5, <1>6, <1>7, <1>8, <1>9, <1>10 DEF Ledger

LEMMA OddIsPositive == ASSUME NEW n \in Nat, n % 2 = 1 PROVE n # 0
  OBVIOUS

\* An exit keeps the books.
LEMMA LedgerExited ==
    ASSUME NEW bars, NEW signals, NEW first \in Nat, NEW day \in Nat, NEW through \in Nat,
           through <= day, first < day, NEW b, NEW o,
           Ledger(b, bars, signals, first, through, day - first),
           Exited(b, o, bars, signals, first, day)
    PROVE  Ledger(o, bars, signals, first, day, day - first)
  <1>1. PICK fill \in Fills :
          /\ fill.side = "sell" /\ fill.day = day /\ FillSound(fill, bars, signals)
          /\ fill.quantity = b.position.quantity /\ fill.cash_delta \in Nat
          /\ o = Sell(b, fill, day - first)
    BY DEF Exited
  <1>2. b.position # None /\ b \in Books /\ day - first \in Nat
    BY DEF Exited, Ledger
  <1>3. /\ o \in Books /\ o.cash = b.cash + fill.cash_delta /\ o.position = None
        /\ o.peak = b.peak /\ o.previous_close = b.previous_close
        /\ o.last_exit = day - first /\ o.closes = b.closes
        /\ o.fills = Append(b.fills, fill)
    <2> DEFINE index == day - first
    <2>1. index \in Nat
      BY <1>2
    <2> HIDE DEF index
    <2>2. o = Sell(b, fill, index)
      BY <1>1 DEF index
    <2>3. /\ o \in Books /\ o.cash = b.cash + fill.cash_delta /\ o.position = None
          /\ o.peak = b.peak /\ o.previous_close = b.previous_close
          /\ o.last_exit = index /\ o.closes = b.closes
          /\ o.fills = Append(b.fills, fill)
      <3>1. b \in Books /\ fill \in Fills /\ fill.cash_delta \in Nat
        BY <1>1, <1>2
      <3> QED
        BY <2>1, <2>2, <3>1, Sold
    <2> QED
      BY <2>3 DEF index
  <1>4. b.fills \in Seq(Fills) /\ Len(b.fills) \in Nat /\ b.cash \in Nat
    BY <1>2, BookFields
  <1>5. Orders(o.fills, bars, signals, first, day)
    BY <1>1, <1>3, <1>4, OrdersAppend DEF Ledger
  <1>6. Alternates(o)
    BY <1>1, <1>2, <1>3, ExitedAlternates DEF Ledger
  <1>7. Balanced(o)
    <2>1. ASSUME NEW reserve \in Limit("minimum_cash_reserve") PROVE reserve <= o.cash
      <3>1. PICK c : Balances(b.fills, c) /\ c[Len(b.fills)] = b.cash
        BY DEF Ledger, Balanced
      <3>2. Len(b.fills) # 0
        <4>1. Len(b.fills) % 2 = 1
          BY <1>2 DEF Ledger, Alternates
        <4> QED
          BY <1>4, <4>1, OddIsPositive
      <3>3. reserve <= b.cash
        BY <1>4, <3>1, <3>2 DEF Balances
      <3>4. reserve \in Nat
        BY LimitsSound DEF Amounts
      <3> QED
        BY <1>1, <1>3, <1>4, <3>3, <3>4
    <2> QED
      BY <1>1, <1>2, <1>3, <2>1, StillBalanced DEF Ledger
  <1>8. Closed(o, day - first)
    BY <1>3 DEF Closed, Ledger
  <1>9. ExitKnown(o, first)
    <2>1. o.fills[Len(o.fills)] = fill
      BY <1>3, <1>4, Appended
    <2> QED
      BY <1>1, <1>3, <2>1 DEF ExitKnown
  <1>10. Entries(o, first)
    <2>1. ASSUME NEW i \in 1 .. Len(o.fills), o.fills[i].side = "buy"
          PROVE  /\ o.fills[i].day - first \in 1 .. Len(o.closes)
                 /\ EntrySound(o.fills, o.closes, first, i)
      <3>1. CASE i = Len(b.fills) + 1
        <4>1. o.fills[i] = fill
          BY <1>3, <1>4, <3>1, Appended
        <4> QED
          BY <1>1, <2>1, <4>1
      <3>2. CASE i \in 1 .. Len(b.fills)
        <4>1. o.fills[i] = b.fills[i]
          BY <1>3, <1>4, <3>2, Appended
        <4>2. /\ b.fills[i].day - first \in 1 .. Len(b.closes)
              /\ EntrySound(b.fills, b.closes, first, i)
          BY <2>1, <3>2, <4>1 DEF Ledger, Entries
        <4> QED
          BY <1>3, <1>4, <3>2, <4>1, <4>2, EntryStands
      <3> QED
        BY <1>3, <1>4, <3>1, <3>2, Appended
    <2> QED
      BY <2>1 DEF Entries
  <1> QED
    BY <1>3, <1>5, <1>6, <1>7, <1>8, <1>9, <1>10 DEF Ledger

\* A day without orders keeps the books.
LEMMA LedgerLater ==
    ASSUME NEW bars, NEW signals, NEW first \in Nat, NEW day \in Nat, NEW through \in Nat, NEW n,
           through <= day, NEW b, Ledger(b, bars, signals, first, through, n)
    PROVE  Ledger(b, bars, signals, first, day, n)
  <1>1. b.fills \in Seq(Fills)
    BY BookFields DEF Ledger
  <1> QED
    BY <1>1, OrdersLater DEF Ledger

\* Raising the watermark of a position that is kept changes no record.
LEMMA LedgerWatched ==
    ASSUME NEW bars, NEW signals, NEW first \in Nat, NEW day \in Nat, NEW n,
           NEW b, NEW o, Ledger(b, bars, signals, first, day, n), Watched(b, o, bars[day])
    PROVE  Ledger(o, bars, signals, first, day, n)
  <1>1. /\ o \in Books /\ b.position # None /\ o.position # None
        /\ o.position.quantity = b.position.quantity
        /\ o.position.entry_day = b.position.entry_day
        /\ o.cash = b.cash /\ o.peak = b.peak /\ o.previous_close = b.previous_close
        /\ o.last_exit = b.last_exit /\ o.fills = b.fills /\ o.closes = b.closes
    BY DEF Watched
  <1>2. Alternates(o)
    BY <1>1 DEF Ledger, Alternates
  <1>3. Balanced(o) /\ Closed(o, n) /\ Entries(o, first) /\ ExitKnown(o, first)
    BY <1>1 DEF Ledger, Balanced, Closed, Entries, ExitKnown
  <1> QED
    BY <1>1, <1>2, <1>3 DEF Ledger

\* Marking at the close keeps the books, with one close more.
LEMMA LedgerMarked ==
    ASSUME NEW bars, NEW signals, NEW first, NEW day, NEW n, first \in Nat, day \in Nat,
           n \in Nat, NEW b, NEW bar \in Bars, NEW m, Ledger(b, bars, signals, first, day, n),
           m = MarkToMarket(b, bar)
    PROVE  Ledger(m, bars, signals, first, day, n + 1)
  <1>1. b \in Books
    BY DEF Ledger
  <1>2. /\ m \in Books
        /\ b.position = None => m.previous_close = b.cash
        /\ m.peak = Max({b.peak, m.previous_close})
        /\ m.closes = Append(b.closes, m.previous_close)
        /\ m.cash = b.cash /\ m.position = b.position /\ m.fills = b.fills
        /\ m.last_exit = b.last_exit
    BY <1>1, Marked
  <1>3. b.closes \in Seq(Nat) /\ m.previous_close \in Nat /\ b.peak \in Nat /\ Len(b.closes) = n
        /\ b.fills \in Seq(Fills)
    BY <1>1, <1>2, BookFields DEF Ledger, Closed
  <1>4. Closed(m, n + 1)
    <2>1. /\ Len(m.closes) = n + 1 /\ m.closes[n + 1] = m.previous_close
          /\ \A i \in 1 .. n : m.closes[i] = b.closes[i]
          /\ \A i \in 1 .. n + 1 : i \in 1 .. n \/ i = n + 1
      <3> DEFINE value == m.previous_close
                 all == Append(b.closes, value)
      <3>1. value \in Nat
        BY <1>3
      <3> HIDE DEF value
      <3>2. /\ Len(all) = n + 1 /\ all[n + 1] = value
            /\ \A i \in 1 .. n : all[i] = b.closes[i]
            /\ \A i \in 1 .. n + 1 : i \in 1 .. n \/ i = n + 1
        BY <1>3, <3>1, Appended
      <3>3. m.closes = all
        BY <1>2 DEF value
      <3> QED
        BY <3>2, <3>3 DEF value
    <2>2. Range(m.closes) = Range(b.closes) \cup {m.previous_close}
      <3>1. DOMAIN m.closes = 1 .. n + 1 /\ DOMAIN b.closes = 1 .. n
        BY <1>2, <1>3, <2>1
      <3>2. n + 1 \in 1 .. n + 1 /\ \A i \in 1 .. n : i \in 1 .. n + 1
        OBVIOUS
      <3> QED
        BY <2>1, <3>1, <3>2 DEF Range
    <2>3. \A value \in Range(b.closes) \cup {Backtest.initial_capital} : value \in Int
      <3>1. \A i \in DOMAIN b.closes : b.closes[i] \in Nat
        BY <1>3
      <3>2. \A value \in Range(b.closes) : value \in Nat
        BY <3>1 DEF Range
      <3> QED
        BY <3>2, RiskAssumption
    <2>4. m.peak = IF b.peak <= m.previous_close THEN m.previous_close ELSE b.peak
      <3>1. b.peak \in Int /\ m.previous_close \in Int
        BY <1>3
      <3>2. Max({b.peak, m.previous_close})
               = IF b.peak <= m.previous_close THEN m.previous_close ELSE b.peak
        BY <3>1, MaxOfTwo
      <3> QED
        BY <1>2, <3>2
    <2>5. /\ b.peak \in Range(b.closes) \cup {Backtest.initial_capital}
          /\ \A value \in Range(b.closes) \cup {Backtest.initial_capital} : value <= b.peak
      BY DEF Ledger, Closed
    <2>6. m.peak \in Range(m.closes) \cup {Backtest.initial_capital}
      BY <2>2, <2>4, <2>5
    <2>7. \A value \in Range(m.closes) \cup {Backtest.initial_capital} : value <= m.peak
      <3>1. m.previous_close <= m.peak /\ b.peak <= m.peak /\ m.peak \in Nat
        BY <1>3, <2>4
      <3>2. ASSUME NEW value \in Range(m.closes) \cup {Backtest.initial_capital}
            PROVE  value <= m.peak
        <4>1. CASE value = m.previous_close
          BY <3>1, <4>1
        <4>2. CASE value \in Range(b.closes) \cup {Backtest.initial_capital}
          <5>1. value \in Int /\ value <= b.peak
            BY <2>3, <2>5, <4>2
          <5> QED
            BY <1>3, <3>1, <5>1
        <4> QED
          BY <2>2, <3>2, <4>1, <4>2
      <3> QED
        BY <3>2
    <2>8. n + 1 # 0
      OBVIOUS
    <2> QED
      BY <2>1, <2>6, <2>7, <2>8 DEF Closed
  <1>5. Alternates(m) /\ Balanced(m) /\ ExitKnown(m, first)
    BY <1>2 DEF Ledger, Alternates, Balanced, ExitKnown
  <1>6. Entries(m, first)
    <2>1. ASSUME NEW i \in 1 .. Len(m.fills), m.fills[i].side = "buy"
          PROVE  /\ m.fills[i].day - first \in 1 .. Len(m.closes)
                 /\ EntrySound(m.fills, m.closes, first, i)
      <3>1. /\ b.fills[i].day - first \in 1 .. Len(b.closes)
            /\ EntrySound(b.fills, b.closes, first, i)
        BY <1>2, <2>1 DEF Ledger, Entries
      <3>2. /\ SubSeq(m.closes, 1, b.fills[i].day - first)
                 = SubSeq(b.closes, 1, b.fills[i].day - first)
            /\ b.fills[i].day - first \in 1 .. Len(m.closes)
        BY <1>2, <1>3, <3>1, SamePrefix
      <3> QED
        BY <1>2, <3>1, <3>2 DEF EntrySound
    <2> QED
      BY <2>1 DEF Entries
  <1>7. Orders(m.fills, bars, signals, first, day)
    BY <1>2 DEF Ledger
  <1> QED
    BY <1>2, <1>4, <1>5, <1>6, <1>7 DEF Ledger

-----------------------------------------------------------------------------
(* The stops of the position a book holds.                                    *)

\* The highs of the days a position has been held.
LEMMA HighsAreNat ==
    ASSUME NEW bars \in Seq(Bars), NEW held \in Positions, NEW day \in Nat, day <= Len(bars) + 1,
           held.entry_day \in 1 .. day
    PROVE  Highs(held, bars, day) \in SUBSET Nat
  <1>1. held.entry_price \in Nat
    BY DEF Positions
  <1>2. ASSUME NEW d \in held.entry_day .. (day - 1) PROVE bars[d].high \in Nat
    <2>1. held.entry_day \in Nat /\ 1 <= held.entry_day /\ held.entry_day <= day
      BY DEF Positions
    <2>2. d \in 1 .. Len(bars)
      BY <2>1
    <2> QED
      BY <2>2, BarAssumption
  <1> QED
    BY <1>1, <1>2 DEF Highs

\* A position opened today has no day behind it that could have stopped it.
LEMMA StopsEntered ==
    ASSUME NEW bars, NEW signals, NEW first \in Nat, NEW day \in Nat, 1 <= day, NEW b, NEW o,
           b \in Books, Entered(b, o, bars, signals, first, day)
    PROVE  Stops(o, bars, day) /\ o.position # None
  <1>1. PICK fill \in Fills : fill.day = day /\ 0 <= b.cash + fill.cash_delta /\ o = Buy(b, fill)
    BY DEF Entered
  <1>2. o.position = Opened(fill)
    BY <1>1, Bought
  <1>3. /\ o.position # None /\ o.position.entry_day = day
        /\ o.position.high_watermark = o.position.entry_price
        /\ o.position.entry_price \in Nat
    BY <1>1, <1>2, OpenedIsSound DEF Fills
  <1>4. day .. (day - 1) = {} /\ day \in 1 .. day
    OBVIOUS
  <1>5. Highs(o.position, bars, day) = {o.position.entry_price}
    BY <1>3, <1>4 DEF Highs
  <1> QED
    BY <1>3, <1>4, <1>5 DEF Stops

\* After an exit there is no position to protect.
LEMMA StopsExited ==
    ASSUME NEW bars, NEW signals, NEW first \in Nat, NEW day \in Nat, first <= day, NEW b, NEW o,
           b \in Books, Exited(b, o, bars, signals, first, day)
    PROVE  o.position = None
  <1>1. PICK fill \in Fills : fill.cash_delta \in Nat /\ o = Sell(b, fill, day - first)
    BY DEF Exited
  <1>2. day - first \in Nat
    OBVIOUS
  <1> QED
    BY <1>1, <1>2, Sold

\* A position kept through a day survived its stops on that day too.
LEMMA StopsWatched ==
    ASSUME NEW bars \in Seq(Bars), NEW day \in 1 .. Len(bars), NEW b \in Books, NEW o,
           Stops(b, bars, day), Watched(b, o, bars[day])
    PROVE  Stops(o, bars, day + 1)
  <1> DEFINE held == b.position
             kept == o.position
             now == Highs(held, bars, day)
             next == Highs(kept, bars, day + 1)
  <1>1. /\ held # None /\ kept # None /\ kept.entry_day = held.entry_day
        /\ kept.entry_price = held.entry_price
        /\ kept.high_watermark = Max({held.high_watermark, bars[day].high})
        /\ \A f \in Limit("stop_loss") : bars[day].low > Of(held.entry_price, One - f)
        /\ \A f \in Limit("trailing_stop") : bars[day].low > Of(held.high_watermark, One - f)
    BY DEF Watched
  <1>2. held \in Positions /\ held.entry_day \in Nat /\ held.high_watermark \in Nat
    BY <1>1, Held
  <1>3. /\ held.entry_day \in 1 .. day /\ held.high_watermark \in now
        /\ \A high \in now : high <= held.high_watermark
        /\ \A d \in held.entry_day .. (day - 1) :
             /\ \A f \in Limit("stop_loss") : bars[d].low > Of(held.entry_price, One - f)
             /\ \A f \in Limit("trailing_stop") : bars[d].low > Of(Max(Highs(held, bars, d)), One - f)
    BY <1>1 DEF Stops
  <1>4. day \in Nat /\ day <= Len(bars) /\ bars[day].high \in Nat
    BY BarAssumption
  <1>5. now \in SUBSET Nat
    BY <1>2, <1>3, <1>4, HighsAreNat
  <1>6. \A d : Highs(kept, bars, d) = Highs(held, bars, d)
    BY <1>1 DEF Highs
  <1>7. next = now \cup {bars[day].high}
    <2>1. \A d : d \in held.entry_day .. (day + 1 - 1)
                    <=> (d \in held.entry_day .. (day - 1) \/ d = day)
      BY <1>2, <1>3, <1>4
    <2> QED
      BY <1>1, <2>1 DEF Highs
  <1>8. Max(now) = held.high_watermark
    BY <1>3, <1>5, MaxIs
  <1> HIDE DEF held, kept, now, next
  <1>9. kept.high_watermark = IF held.high_watermark <= bars[day].high THEN bars[day].high
                              ELSE held.high_watermark
    <2>1. held.high_watermark \in Int /\ bars[day].high \in Int
      BY <1>2, <1>4
    <2> QED
      BY <1>1, <2>1, MaxOfTwo
  <1>10. kept.high_watermark \in next /\ \A high \in next : high <= kept.high_watermark
    BY <1>2, <1>3, <1>4, <1>5, <1>7, <1>9
  <1>11. kept.entry_day \in 1 .. day + 1
    BY <1>1, <1>3, <1>4
  <1>12. ASSUME NEW d \in kept.entry_day .. (day + 1 - 1)
         PROVE  /\ \A f \in Limit("stop_loss") : bars[d].low > Of(kept.entry_price, One - f)
                /\ \A f \in Limit("trailing_stop") :
                     bars[d].low > Of(Max(Highs(kept, bars, d)), One - f)
    <2>1. CASE d = day
      BY <1>1, <1>6, <1>8, <2>1 DEF now
    <2>2. CASE d # day
      <3>1. d \in held.entry_day .. (day - 1)
        BY <1>1, <1>2, <1>4, <2>2
      <3> QED
        BY <1>1, <1>3, <1>6, <3>1
    <2> QED
      BY <2>1, <2>2
  <1> QED
    BY <1>10, <1>11, <1>12 DEF Stops, kept, next

\* What is said of the days before is kept when the market moves on.
LEMMA StopsBarsGrow ==
    ASSUME NEW bars, NEW later, NEW day \in Nat, \A d \in 1 .. (day - 1) : later[d] = bars[d],
           NEW b \in Books, Stops(b, bars, day)
    PROVE  Stops(b, later, day)
  <1> SUFFICES ASSUME b.position # None
               PROVE  Stops(b, later, day)
    BY DEF Stops
  <1> DEFINE held == b.position
  <1>1. held.entry_day \in Nat /\ held.entry_day \in 1 .. day
    BY Held DEF Stops
  <1>2. \A d \in held.entry_day .. (day - 1) : later[d] = bars[d]
    BY <1>1
  <1>3. \A d \in held.entry_day .. day : Highs(held, later, d) = Highs(held, bars, d)
    <2> TAKE d \in held.entry_day .. day
    <2>1. \A e \in held.entry_day .. (d - 1) : later[e] = bars[e]
      BY <1>1, <1>2
    <2> QED
      BY <2>1 DEF Highs
  <1>4. Highs(held, later, day) = Highs(held, bars, day)
    BY <1>1, <1>3
  <1>5. \A d \in held.entry_day .. (day - 1) : Highs(held, later, d) = Highs(held, bars, d)
    BY <1>1, <1>3
  <1> HIDE DEF held
  <1> QED
    BY <1>2, <1>4, <1>5 DEF Stops, held

\* The books are about candles and signals that are there: more change nothing.
LEMMA LedgerBarsGrow ==
    ASSUME NEW bars, NEW later, NEW signals, NEW first \in Nat, NEW day \in Nat, NEW n,
           \A d \in 1 .. day : later[d] = bars[d], NEW b, Ledger(b, bars, signals, first, day, n)
    PROVE  Ledger(b, later, signals, first, day, n)
  <1>1. b.fills \in Seq(Fills)
    BY BookFields DEF Ledger
  <1> QED
    BY <1>1, BarsGrow DEF Ledger

LEMMA LedgerSignalsGrow ==
    ASSUME NEW bars, NEW signals \in Seq(Signals), NEW x \in Signals, NEW first \in Nat,
           NEW day \in Nat, NEW n, NEW b, Ledger(b, bars, signals, first, day, n)
    PROVE  Ledger(b, bars, Append(signals, x), first, day, n)
  <1>1. b.fills \in Seq(Fills)
    BY BookFields DEF Ledger
  <1> QED
    BY <1>1, SignalsGrow DEF Ledger

-----------------------------------------------------------------------------
(* The state between two observations.                                        *)

\* A risk limit of one position, under which both simulators size an entry alike.
OnePosition == \E most \in Limit("maximum_concurrent_positions") : most <= 1

\* The backtest of the signals so far, bar by bar, ends in the book.
Traced(s, bars) ==
    \E path : /\ path[0] = InitialBook /\ path[s.sequence] = s.book
              /\ \A i \in 1 .. s.sequence :
                   path[i] = BookAfter(bars, s.signals, path[i - 1], i)

FirstDay(s, day) == day - s.sequence

StateSound(s, bars, day) ==
    /\ s \in States /\ FirstDay(s, day) \in 1 .. day
    /\ Len(s.signals) = s.sequence
    /\ \A i \in 1 .. s.sequence : s.signals[i].day = FirstDay(s, day) + i - 1
    /\ s.sequence = 0 => s = InitialState
    /\ s.sequence # 0 => s.last = day - 1 /\ s.pending = s.signals[s.sequence]
    /\ Ledger(s.book, bars, s.signals, FirstDay(s, day), day - 1, s.sequence)
    /\ s.book.position = None => s.book.previous_close = s.book.cash
    /\ Stops(s.book, bars, day)
    /\ OnePosition => Traced(s, bars)

\* The parts of an engine state, and that it has no others.
LEMMA StateFields ==
    ASSUME NEW s \in States
    PROVE  /\ s.book \in Books /\ s.sequence \in Nat /\ s.last \in Nat \cup {None}
           /\ s.pending \in Signals \cup {None} /\ s.signals \in Seq(Signals)
           /\ s = [book |-> s.book, sequence |-> s.sequence, last |-> s.last,
                   pending |-> s.pending, signals |-> s.signals]
  BY DEF States

\* A session starts with its capital, flat.
LEMMA InitialBookIsSound ==
    /\ InitialBook \in Books /\ InitialBook.position = None /\ InitialBook.fills = << >>
    /\ InitialBook.closes = << >> /\ InitialBook.cash = Backtest.initial_capital
    /\ InitialBook.previous_close = Backtest.initial_capital
    /\ InitialBook.peak = Backtest.initial_capital
  <1>1. Backtest.initial_capital \in Nat
    BY RiskAssumption
  <1> QED
    BY <1>1 DEF InitialBook, Books

\* The state before the first report is sound, at any day.
LEMMA InitialStateIsSound ==
    ASSUME NEW bars, NEW day \in Nat \ {0}
    PROVE  StateSound(InitialState, bars, day)
  <1>1. /\ InitialState \in States /\ InitialState.sequence = 0 /\ InitialState.signals = << >>
        /\ InitialState.book = InitialBook
    BY InitialBookIsSound DEF InitialState, States
  <1>2. FirstDay(InitialState, day) = day /\ day \in 1 .. day /\ Len(<< >>) = 0
    BY <1>1 DEF FirstDay
  <1>3. Ledger(InitialBook, bars, << >>, day, day - 1, 0)
    <2>1. Orders(InitialBook.fills, bars, << >>, day, day - 1)
      BY InitialBookIsSound DEF Orders
    <2>2. Alternates(InitialBook)
      BY InitialBookIsSound DEF Alternates
    <2>3. Balanced(InitialBook)
      <3> DEFINE c == [i \in 0 .. 0 |-> Backtest.initial_capital]
      <3>1. c \in [0 .. 0 -> Int] /\ c[0] = Backtest.initial_capital
        BY RiskAssumption
      <3> HIDE DEF c
      <3>2. Balances(<< >>, c)
        BY <3>1 DEF Balances
      <3> QED
        BY <3>1, <3>2, InitialBookIsSound DEF Balanced
    <2>4. Closed(InitialBook, 0)
      <3>1. Range(<< >>) = {} /\ Backtest.initial_capital \in Nat
        BY RiskAssumption DEF Range
      <3> QED
        BY <3>1, InitialBookIsSound DEF Closed
    <2>5. Entries(InitialBook, day) /\ ExitKnown(InitialBook, day)
      BY InitialBookIsSound DEF Entries, ExitKnown
    <2> QED
      BY <2>1, <2>2, <2>3, <2>4, <2>5, InitialBookIsSound DEF Ledger
  <1>4. Stops(InitialBook, bars, day)
    BY InitialBookIsSound DEF Stops
  <1>5. Traced(InitialState, bars)
    <2> DEFINE path == [i \in 0 .. 0 |-> InitialBook]
    <2>1. path[0] = InitialBook
      OBVIOUS
    <2> HIDE DEF path
    <2> QED
      BY <1>1, <2>1 DEF Traced
  <1> QED
    BY <1>1, <1>2, <1>3, <1>4, <1>5, InitialBookIsSound DEF StateSound

\* A sound state is reloaded as it was: its watermark is no less than its entry.
LEMMA LoadedIsSame ==
    ASSUME NEW bars, NEW day, NEW s, StateSound(s, bars, day)
    PROVE  Loaded(s) = s
  <1> SUFFICES ASSUME s.book.position # None
               PROVE  Loaded(s) = s
    BY DEF Loaded
  <1> DEFINE book == s.book
             held == book.position
  <1>1. s \in States /\ book \in Books
    BY StateFields DEF StateSound
  <1>2. held \in Positions /\ held.entry_price \in Nat /\ held.high_watermark \in Nat
    BY <1>1, Held
  <1>3. held.entry_price <= held.high_watermark
    BY DEF StateSound, Stops, Highs
  <1>4. Max({held.entry_price, held.high_watermark}) = held.high_watermark
    <2>1. held.entry_price \in Int /\ held.high_watermark \in Int
      BY <1>2
    <2> HIDE DEF held
    <2> QED
      BY <1>3, <2>1, MaxOfTwo
  <1>5. Loaded(s) = [s EXCEPT !.book = [book EXCEPT !.position =
                       [held EXCEPT !.high_watermark = held.high_watermark]]]
    BY <1>4 DEF Loaded
  <1>6. [held EXCEPT !.high_watermark = held.high_watermark] = held
    BY <1>2 DEF Positions
  <1>7. [book EXCEPT !.position = held] = book
    BY <1>1, BookFields
  <1>8. [s EXCEPT !.book = book] = s
    BY <1>1, StateFields
  <1> QED
    BY <1>5, <1>6, <1>7, <1>8

-----------------------------------------------------------------------------
(* One observation keeps the state sound.                                     *)

\* The pending order of a sound state.
LEMMA OrderMoves ==
    ASSUME NEW bars \in Seq(Bars), NEW day \in 1 .. Len(bars), NEW s, StateSound(s, bars, day),
           NEW o, o = PaperOrder(s, bars[day], day), o # None
    PROVE  \/ o = s.book
           \/ /\ s.sequence # 0
              /\ \/ Entered(s.book, o, bars, s.signals, FirstDay(s, day), day)
                 \/ Exited(s.book, o, bars, s.signals, FirstDay(s, day), day)
  <1> DEFINE first == FirstDay(s, day)
             bar == bars[day]
             pending == s.pending
  <1>1. s \in States /\ bar \in Bars /\ day \in Nat
    BY DEF StateSound
  <1>2. s.book \in Books /\ s.sequence \in Nat /\ s.signals \in Seq(Signals)
    BY <1>1, StateFields
  <1>3. first \in Nat /\ day - first = s.sequence
    BY <1>1, <1>2 DEF StateSound, FirstDay
  <1>4. ASSUME pending # None
        PROVE  /\ s.sequence # 0 /\ pending \in Signals /\ pending.day \in Nat
               /\ day = pending.day + 1 /\ pending \in Range(s.signals)
               /\ pending = [day |-> pending.day, action |-> pending.action]
    <2>1. s.sequence # 0
      <3>1. InitialState.pending = None
        BY DEF InitialState
      <3> QED
        BY <1>4, <3>1 DEF StateSound
    <2>2. /\ Len(s.signals) = s.sequence /\ s.sequence \in 1 .. s.sequence
          /\ pending = s.signals[s.sequence]
          /\ s.signals[s.sequence].day = first + s.sequence - 1
      BY <1>2, <2>1 DEF StateSound
    <2>3. pending \in Signals
      BY <1>2, <2>2
    <2>4. pending \in Range(s.signals)
      BY <1>2, <2>2 DEF Range
    <2> HIDE DEF pending, first
    <2>5. pending.day = first + s.sequence - 1
      BY <2>2
    <2>6. pending.day \in Nat /\ pending = [day |-> pending.day, action |-> pending.action]
      BY <2>3 DEF Signals
    <2>7. day = pending.day + 1
      BY <1>1, <1>2, <1>3, <2>5
    <2> QED
      BY <2>1, <2>3, <2>4, <2>6, <2>7
  <1>5. \/ o = s.book
        \/ /\ pending # None /\ pending.action = "BUY" /\ s.book.position = None
           /\ \E fill \in Fills :
                /\ fill.side = "buy" /\ fill.signal_day = pending.day /\ fill.day = day
                /\ fill.reference = bar.open
                /\ 0 <= s.book.cash + fill.cash_delta
                /\ ~ EntryRejected(EntryContext(s))
                /\ \A reserve \in Limit("minimum_cash_reserve") :
                     reserve \in Nat /\ reserve <= s.book.cash + fill.cash_delta
                /\ o = Buy(s.book, fill)
        \/ /\ pending # None /\ pending.action = "EXIT" /\ s.book.position # None
           /\ o = Sell(s.book, SellFill(pending.day, day, bar.open,
                                        s.book.position.quantity), s.sequence)
    BY <1>1, Ordered
  <1>6. CASE pending # None /\ pending.action = "BUY" /\ s.book.position = None /\ o # s.book
    <2>1. PICK fill \in Fills :
            /\ fill.side = "buy" /\ fill.signal_day = pending.day /\ fill.day = day
            /\ fill.reference = bar.open
            /\ 0 <= s.book.cash + fill.cash_delta
            /\ ~ EntryRejected(EntryContext(s))
            /\ \A reserve \in Limit("minimum_cash_reserve") :
                 reserve \in Nat /\ reserve <= s.book.cash + fill.cash_delta
            /\ o = Buy(s.book, fill)
      BY <1>5, <1>6
    <2>2. FillSound(fill, bars, s.signals)
      <3>1. [day |-> fill.signal_day, action |-> "BUY"] \in Range(s.signals)
        BY <1>4, <1>6, <2>1
      <3>2. fill.day = fill.signal_day + 1
        BY <1>4, <1>6, <2>1
      <3> QED
        BY <2>1, <3>1, <3>2 DEF FillSound
    <2>3. ~ EntryRejected([index |-> day - first, cash |-> s.book.cash, equity |-> s.book.cash,
                           exposure |-> 0, open_position_count |-> 0, peak |-> s.book.peak,
                           previous_close |-> s.book.previous_close,
                           last_exit |-> s.book.last_exit])
      BY <1>3, <2>1 DEF EntryContext
    <2> HIDE DEF first
    <2>4. Entered(s.book, o, bars, s.signals, first, day)
      BY <1>6, <2>1, <2>2, <2>3 DEF Entered
    <2> QED
      BY <1>4, <1>6, <2>4 DEF first
  <1>7. CASE pending # None /\ pending.action = "EXIT" /\ s.book.position # None /\ o # s.book
    <2> DEFINE quantity == s.book.position.quantity
               fill == SellFill(pending.day, day, bar.open, quantity)
    <2>1. o = Sell(s.book, fill, s.sequence)
      BY <1>5, <1>7
    <2>2. quantity \in Nat \ {0}
      BY <1>2, <1>7, Held
    <2>3. bar.open \in Nat
      BY <1>1, BarAssumption
    <2>4. /\ fill \in Fills /\ fill.side = "sell" /\ fill.signal_day = pending.day
          /\ fill.day = day /\ fill.reference = bar.open /\ fill.quantity = quantity
          /\ fill.cash_delta \in Nat
      BY <1>1, <1>4, <1>7, <2>2, <2>3, SellFillIsSound
    <2> HIDE DEF fill
    <2>5. FillSound(fill, bars, s.signals)
      <3>1. [day |-> fill.signal_day, action |-> "EXIT"] \in Range(s.signals)
        BY <1>4, <1>7, <2>4
      <3>2. fill.day = fill.signal_day + 1 /\ fill.signal_day \in Nat
        BY <1>4, <1>7, <2>4
      <3>3. fill.signal_day # fill.day
        BY <3>2
      <3> QED
        BY <2>4, <3>1, <3>2, <3>3 DEF FillSound
    <2>6. o = Sell(s.book, fill, day - first)
      BY <1>3, <2>1
    <2> HIDE DEF first
    <2>7. Exited(s.book, o, bars, s.signals, first, day)
      BY <1>7, <2>4, <2>5, <2>6 DEF Exited
    <2> QED
      BY <1>4, <1>7, <2>7 DEF first
  <1> QED
    BY <1>5, <1>6, <1>7

\* The protection of the completed bar.
LEMMA ProtectMoves ==
    ASSUME NEW bars \in Seq(Bars), NEW day \in 1 .. Len(bars), NEW signals, NEW first,
           first \in 1 .. day, NEW b \in Books, NEW p,
           NEW index, index = day - first, p = Protect(b, bars[day], day, index)
    PROVE  \/ b.position = None /\ p = b
           \/ Exited(b, p, bars, signals, first, day)
           \/ Watched(b, p, bars[day])
  <1>1. bars[day] \in Bars /\ day \in Nat /\ index \in Nat
    OBVIOUS
  <1>2. \/ b.position = None /\ p = b
        \/ /\ b.position # None
           /\ \E reference \in Nat :
                /\ bars[day].low <= reference /\ reference <= bars[day].high
                /\ p = Sell(b, SellFill(day, day, reference, b.position.quantity), index)
        \/ Watched(b, p, bars[day])
    <2> DEFINE bar == bars[day]
    <2>1. bar \in Bars /\ p = Protect(b, bar, day, index)
      BY <1>1
    <2> HIDE DEF bar
    <2>2. \/ b.position = None /\ p = b
          \/ /\ b.position # None
             /\ \E reference \in Nat :
                  /\ bar.low <= reference /\ reference <= bar.high
                  /\ p = Sell(b, SellFill(day, day, reference, b.position.quantity), index)
          \/ Watched(b, p, bar)
      BY <1>1, <2>1, Protected
    <2> QED
      BY <2>2 DEF bar
  <1>3. ASSUME b.position # None, NEW reference \in Nat,
               bars[day].low <= reference, reference <= bars[day].high,
               p = Sell(b, SellFill(day, day, reference, b.position.quantity), index)
        PROVE  Exited(b, p, bars, signals, first, day)
    <2> DEFINE fill == SellFill(day, day, reference, b.position.quantity)
    <2>1. b.position.quantity \in Nat \ {0}
      BY <1>3, Held
    <2>2. /\ fill \in Fills /\ fill.side = "sell" /\ fill.signal_day = day
          /\ fill.day = day /\ fill.reference = reference
          /\ fill.quantity = b.position.quantity /\ fill.cash_delta \in Nat
      BY <1>1, <1>3, <2>1, SellFillIsSound
    <2>3. p = Sell(b, fill, day - first)
      BY <1>3
    <2> HIDE DEF fill
    <2>4. FillSound(fill, bars, signals)
      BY <1>3, <2>2 DEF FillSound
    <2> QED
      BY <1>3, <2>2, <2>3, <2>4 DEF Exited
  <1> QED
    BY <1>2, <1>3

\* The book through the order, the protection and the close of its bar.
LEMMA BookMoves ==
    ASSUME NEW bars \in Seq(Bars), NEW day \in 1 .. Len(bars), NEW s, StateSound(s, bars, day),
           NEW o, o = PaperOrder(s, bars[day], day), o # None,
           NEW p, p = Protect(o, bars[day], day, s.sequence),
           NEW m, m = MarkToMarket(p, bars[day])
    PROVE  /\ Ledger(m, bars, s.signals, FirstDay(s, day), day, s.sequence + 1)
           /\ m.position = None => m.previous_close = m.cash
           /\ Stops(m, bars, day + 1)
  <1> DEFINE first == FirstDay(s, day)
             n == s.sequence
  <1>1. /\ bars[day] \in Bars /\ day \in Nat /\ day - 1 \in Nat /\ day - 1 <= day
        /\ n \in Nat /\ first \in 1 .. day /\ first \in Nat /\ first <= day /\ n = day - first
        /\ n # 0 => first < day
        /\ s.book \in Books
    <2>1. s \in States /\ first \in 1 .. day
      BY DEF StateSound
    <2>2. n \in Nat /\ s.book \in Books
      BY <2>1, StateFields
    <2>3. n = day - first
      BY <2>2 DEF FirstDay
    <2> QED
      BY <2>1, <2>2, <2>3
  <1>2. Ledger(s.book, bars, s.signals, first, day - 1, n) /\ Stops(s.book, bars, day)
    BY DEF StateSound
  <1>3. \/ o = s.book
        \/ n # 0 /\ Entered(s.book, o, bars, s.signals, first, day)
        \/ n # 0 /\ Exited(s.book, o, bars, s.signals, first, day)
    BY OrderMoves
  <1>4. n = 0 => s.book.position = None
    BY InitialBookIsSound DEF StateSound, InitialState
  <1>5. s.book.position = None => s.book.previous_close = s.book.cash
    BY DEF StateSound
  <1> HIDE DEF first, n
  <1>6. /\ Ledger(o, bars, s.signals, first, day, n) /\ Stops(o, bars, day)
        /\ o.position # None => n # 0
    <2>1. CASE o = s.book
      <3>1. Ledger(s.book, bars, s.signals, first, day, n)
        BY <1>1, <1>2, LedgerLater
      <3> QED
        BY <1>2, <1>4, <2>1, <3>1
    <2>2. CASE n # 0 /\ Entered(s.book, o, bars, s.signals, first, day)
      <3>1. s.book.previous_close = s.book.cash
        BY <1>5, <2>2 DEF Entered
      <3>2. Ledger(s.book, bars, s.signals, first, day - 1, day - first)
        BY <1>1, <1>2
      <3>3. Ledger(o, bars, s.signals, first, day, day - first)
        BY <1>1, <2>2, <3>1, <3>2, LedgerEntered
      <3>4. Stops(o, bars, day)
        BY <1>1, <2>2, StopsEntered
      <3> QED
        BY <1>1, <2>2, <3>3, <3>4
    <2>3. CASE n # 0 /\ Exited(s.book, o, bars, s.signals, first, day)
      <3>1. Ledger(s.book, bars, s.signals, first, day - 1, day - first)
        BY <1>1, <1>2
      <3>2. Ledger(o, bars, s.signals, first, day, day - first)
        BY <1>1, <2>3, <3>1, LedgerExited
      <3>3. o.position = None
        BY <1>1, <2>3, StopsExited
      <3> QED
        BY <1>1, <3>2, <3>3 DEF Stops
    <2> QED
      BY <1>3, <2>1, <2>2, <2>3
  <1>7. o \in Books
    BY <1>6 DEF Ledger
  <1>8. \/ o.position = None /\ p = o
        \/ o.position # None /\ Exited(o, p, bars, s.signals, first, day)
        \/ Watched(o, p, bars[day])
    <2>1. p = Protect(o, bars[day], day, n)
      BY DEF n
    <2>2. \/ o.position = None /\ p = o
          \/ Exited(o, p, bars, s.signals, first, day)
          \/ Watched(o, p, bars[day])
      BY <1>1, <1>7, <2>1, ProtectMoves
    <2> QED
      BY <2>2 DEF Exited
  <1>9. Ledger(p, bars, s.signals, first, day, n) /\ Stops(p, bars, day + 1)
    <2>1. CASE o.position = None /\ p = o
      BY <1>6, <2>1 DEF Stops
    <2>2. CASE o.position # None /\ Exited(o, p, bars, s.signals, first, day)
      <3>1. Ledger(o, bars, s.signals, first, day, day - first)
        BY <1>1, <1>6
      <3>2. Ledger(p, bars, s.signals, first, day, day - first)
        BY <1>1, <1>6, <2>2, <3>1, LedgerExited
      <3>3. p.position = None
        BY <1>1, <1>7, <2>2, StopsExited
      <3> QED
        BY <1>1, <3>2, <3>3 DEF Stops
    <2>3. CASE Watched(o, p, bars[day])
      <3>1. Ledger(p, bars, s.signals, first, day, n)
        BY <1>1, <1>6, <2>3, LedgerWatched
      <3>2. Stops(p, bars, day + 1)
        BY <1>6, <1>7, <2>3, StopsWatched
      <3> QED
        BY <3>1, <3>2
    <2> QED
      BY <1>8, <2>1, <2>2, <2>3
  <1> DEFINE bar == bars[day]
  <1>b. bar \in Bars /\ m = MarkToMarket(p, bar)
    BY <1>1
  <1> HIDE DEF bar
  <1>10. /\ Ledger(m, bars, s.signals, first, day, n + 1)
         /\ m.position = None => m.previous_close = m.cash
    <2>1. first \in Nat /\ day \in Nat /\ n \in Nat
      BY <1>1
    <2>2. Ledger(p, bars, s.signals, first, day, n)
      BY <1>9
    <2>3. Ledger(m, bars, s.signals, first, day, n + 1)
      BY <1>b, <2>1, <2>2, LedgerMarked
    <2>4. m.position = None => m.previous_close = m.cash
      <3>1. p \in Books
        BY <2>2 DEF Ledger
      <3>2. m.position = p.position
        BY <1>b, <3>1, Marked
      <3>3. m.cash = p.cash
        BY <1>b, <3>1, Marked
      <3>4. p.position = None => m.previous_close = p.cash
        BY <1>b, <3>1, Marked
      <3> QED
        BY <3>2, <3>3, <3>4
    <2> QED
      BY <2>3, <2>4
  <1>11. Stops(m, bars, day + 1)
    <2>1. p \in Books
      BY <1>9 DEF Ledger
    <2>2. m.position = p.position
      BY <1>b, <2>1, Marked
    <2> QED
      BY <1>9, <2>2 DEF Stops
  <1> QED
    BY <1>10, <1>11 DEF first, n

-----------------------------------------------------------------------------
(* The backtest of the same signals takes the same step.                      *)

\* With at most one position, the backtest sizes and rejects an order as the
\* paper session does.
LEMMA SameOrder ==
    ASSUME OnePosition, NEW s \in States, s.pending # None, NEW bar \in Bars, NEW day
    PROVE  BacktestOrder(s.book, s.pending, bar, day, s.sequence) = PaperOrder(s, bar, day)
  <1> DEFINE book == s.book
             quantity == IF book.position = None THEN 0 ELSE book.position.quantity
             context == [index |-> s.sequence, cash |-> book.cash,
                         equity |-> book.cash + quantity * bar.open,
                         exposure |-> quantity * bar.open,
                         open_position_count |-> IF book.position = None THEN 0 ELSE 1,
                         peak |-> book.peak, previous_close |-> book.previous_close,
                         last_exit |-> book.last_exit]
  <1>1. book \in Books /\ book.cash \in Nat /\ bar.open \in Nat
    <2>1. bar.open \in Nat
      BY BarAssumption
    <2> QED
      BY <2>1, StateFields, BookFields
  <1>2. CASE book.position = None
    <2>1. quantity * bar.open = 0 /\ book.cash + 0 = book.cash
      BY <1>1, <1>2
    <2>2. context = EntryContext(s)
      BY <1>2, <2>1 DEF EntryContext
    <2> HIDE DEF context
    <2> DEFINE allocation == ApprovedAllocation(EntryContext(s))
               fill == BuyFill(s.pending.day, day, bar.open, allocation)
    <2>3. BacktestOrder(s.book, s.pending, bar, day, s.sequence)
            = CASE s.pending.action = "BUY" /\ allocation > 0
                     -> IF fill.quantity = 0 THEN None ELSE Buy(book, fill)
                [] OTHER -> book
      BY <1>2, <2>2 DEF BacktestOrder, context
    <2>4. PaperOrder(s, bar, day)
            = CASE s.pending.action = "BUY" /\ allocation > 0
                     -> IF fill.quantity = 0 THEN None ELSE Buy(book, fill)
                [] OTHER -> book
      BY <1>2 DEF PaperOrder, EntryContext
    <2> QED
      BY <2>3, <2>4
  <1>3. CASE book.position # None
    <2>1. context.open_position_count = 1
      BY <1>3
    <2> HIDE DEF context
    <2>2. EntryRejected(context)
      <3>1. PICK most \in Limit("maximum_concurrent_positions") : most <= 1
        BY DEF OnePosition
      <3>2. most \in Nat
        BY LimitsSound DEF Amounts
      <3>3. context.open_position_count >= most
        BY <2>1, <3>1, <3>2
      <3> QED
        BY <3>3 DEF EntryRejected
    <2>3. ApprovedAllocation(context) = 0
      BY <2>2 DEF ApprovedAllocation
    <2>4. BacktestOrder(s.book, s.pending, bar, day, s.sequence)
            = IF s.pending.action = "EXIT"
              THEN Sell(book, SellFill(s.pending.day, day, bar.open, book.position.quantity),
                        s.sequence)
              ELSE book
      BY <1>3, <2>3 DEF BacktestOrder, context
    <2>5. PaperOrder(s, bar, day)
            = IF s.pending.action = "EXIT"
              THEN Sell(book, SellFill(s.pending.day, day, bar.open, book.position.quantity),
                        s.sequence)
              ELSE book
      BY <1>3 DEF PaperOrder
    <2> QED
      BY <2>4, <2>5
  <1> QED
    BY <1>2, <1>3

\* The backtest's book after the first day and after any later day.
LEMMA BookAfterFirst ==
    ASSUME NEW bars, NEW signals, NEW book, NEW i, book # None, i = 1,
           NEW day, day = signals[i].day
    PROVE  BookAfter(bars, signals, book, i)
             = MarkToMarket(Protect(book, bars[day], day, i - 1), bars[day])
  BY DEF BookAfter

LEMMA BookAfterNext ==
    ASSUME NEW bars, NEW signals, NEW book, NEW i, book # None, i # 1,
           NEW day, day = signals[i].day,
           NEW o, o = BacktestOrder(book, signals[i - 1], bars[day], day, i - 1), o # None
    PROVE  BookAfter(bars, signals, book, i)
             = MarkToMarket(Protect(o, bars[day], day, i - 1), bars[day])
  BY DEF BookAfter

\* On a day the engine processes, the backtest's order for the signal before it, its
\* protection and its close give the book the engine has: the two differ only in the
\* number of positions they look at before an order, and that is at most one.
LEMMA SameStep ==
    ASSUME OnePosition, NEW bars \in Seq(Bars), NEW day \in 1 .. Len(bars),
           NEW s, StateSound(s, bars, day), NEW x \in Signals, x.day = day,
           NEW o, o = PaperOrder(s, bars[day], day), o # None,
           NEW m, m = MarkToMarket(Protect(o, bars[day], day, s.sequence), bars[day])
    PROVE  BookAfter(bars, Append(s.signals, x), s.book, s.sequence + 1) = m
  <1> DEFINE n == s.sequence
             all == Append(s.signals, x)
             at == n + 1
             bar == bars[day]
  <1>1. s \in States /\ s.book \in Books /\ n \in Nat /\ s.signals \in Seq(Signals)
        /\ Len(s.signals) = n /\ bar \in Bars
    BY StateFields DEF StateSound
  <1>2. all[at] = x /\ \A i \in 1 .. n : all[i] = s.signals[i]
    BY <1>1, Appended
  <1>3. s.book # None
    BY <1>1, AbsenceAssumption
  <1>4. at - 1 = n /\ (at = 1 <=> n = 0)
    BY <1>1
  <1>5. day = all[at].day
    BY <1>2
  <1>6. CASE n = 0
    <2>1. s.pending = None
      BY <1>6 DEF StateSound, InitialState
    <2>2. o = s.book
      BY <2>1 DEF PaperOrder
    <2> HIDE DEF n, all, at
    <2>3. BookAfter(bars, all, s.book, at)
            = MarkToMarket(Protect(s.book, bars[day], day, at - 1), bars[day])
      BY <1>3, <1>4, <1>5, <1>6, BookAfterFirst
    <2>4. BookAfter(bars, all, s.book, at) = m
      BY <1>4, <2>2, <2>3 DEF n
    <2> QED
      BY <2>4 DEF n, all, at
  <1>7. CASE n # 0
    <2>1. n \in 1 .. n
      BY <1>1, <1>7
    <2>2. all[n] = s.pending
      BY <1>2, <1>7, <2>1 DEF StateSound
    <2>3. s.pending \in Signals /\ s.pending # None
      <3>1. s.signals[n] \in Signals
        BY <1>1, <2>1
      <3> QED
        BY <1>7, <3>1, AbsenceAssumption DEF StateSound
    <2>4. BacktestOrder(s.book, s.pending, bar, day, n) = o
      BY <1>1, <2>3, SameOrder
    <2>5. o = BacktestOrder(s.book, all[at - 1], bars[day], day, at - 1)
      BY <1>4, <2>2, <2>4
    <2> HIDE DEF n, all, at
    <2>6. BookAfter(bars, all, s.book, at)
            = MarkToMarket(Protect(o, bars[day], day, at - 1), bars[day])
      BY <1>3, <1>4, <1>5, <1>7, <2>5, BookAfterNext
    <2>7. BookAfter(bars, all, s.book, at) = m
      BY <1>4, <2>6 DEF n
    <2> QED
      BY <2>7 DEF n, all, at
  <1> QED
    BY <1>6, <1>7

\* A trace is extended by the observation's step.
LEMMA TracedObserved ==
    ASSUME NEW bars \in Seq(Bars), NEW day, NEW s, StateSound(s, bars, day), Traced(s, bars),
           NEW x \in Signals, NEW t, t.sequence = s.sequence + 1,
           t.signals = Append(s.signals, x),
           t.book = BookAfter(bars, Append(s.signals, x), s.book, s.sequence + 1)
    PROVE  Traced(t, bars)
  <1> DEFINE n == s.sequence
             all == Append(s.signals, x)
  <1>1. n \in Nat /\ s.signals \in Seq(Signals) /\ Len(s.signals) = n
    BY StateFields DEF StateSound
  <1>2. PICK path : /\ path[0] = InitialBook /\ path[n] = s.book
                    /\ \A i \in 1 .. n : path[i] = BookAfter(bars, s.signals, path[i - 1], i)
    BY DEF Traced
  <1> DEFINE next == [i \in 0 .. n + 1 |-> IF i = n + 1 THEN t.book ELSE path[i]]
  <1>3. next[n + 1] = t.book /\ \A i \in 0 .. n : next[i] = path[i]
    BY <1>1
  <1>4. \A i \in 1 .. n : all[i] = s.signals[i]
    BY <1>1, Appended
  <1> HIDE DEF next
  <1>5. ASSUME NEW i \in 1 .. n + 1
        PROVE  next[i] = BookAfter(bars, all, next[i - 1], i)
    <2>1. CASE i = n + 1
      <3>1. next[i - 1] = s.book
        BY <1>1, <1>2, <1>3, <2>1
      <3> QED
        BY <1>3, <2>1, <3>1
    <2>2. CASE i # n + 1
      <3>1. i \in 1 .. n /\ i \in 0 .. n /\ i - 1 \in 0 .. n /\ (i # 1 => i - 1 \in 1 .. n)
        BY <1>1, <2>2
      <3>2. next[i] = path[i] /\ next[i - 1] = path[i - 1]
        BY <1>3, <3>1
      <3>3. all[i] = s.signals[i] /\ (i # 1 => all[i - 1] = s.signals[i - 1])
        BY <1>4, <3>1
      <3>4. BookAfter(bars, all, path[i - 1], i) = BookAfter(bars, s.signals, path[i - 1], i)
        BY <3>3 DEF BookAfter
      <3> QED
        BY <1>2, <3>1, <3>2, <3>4
    <2> QED
      BY <2>1, <2>2
  <1>6. next[0] = InitialBook
    BY <1>1, <1>2, <1>3
  <1> QED
    BY <1>3, <1>5, <1>6 DEF Traced

\* A trace does not depend on the bars to come.
LEMMA TracedBarsGrow ==
    ASSUME NEW bars, NEW later, NEW day \in Nat, \A d \in 1 .. (day - 1) : later[d] = bars[d],
           NEW s, StateSound(s, bars, day), Traced(s, bars)
    PROVE  Traced(s, later)
  <1> DEFINE n == s.sequence
             first == FirstDay(s, day)
  <1>1. n \in Nat /\ first \in 1 .. day /\ first = day - n
    BY StateFields DEF StateSound, FirstDay
  <1>2. PICK path : /\ path[0] = InitialBook /\ path[n] = s.book
                    /\ \A i \in 1 .. n : path[i] = BookAfter(bars, s.signals, path[i - 1], i)
    BY DEF Traced
  <1>3. ASSUME NEW i \in 1 .. n
        PROVE  path[i] = BookAfter(later, s.signals, path[i - 1], i)
    <2>1. s.signals[i].day = first + i - 1
      BY DEF StateSound
    <2> HIDE DEF first
    <2>2. s.signals[i].day \in 1 .. (day - 1)
      BY <1>1, <2>1
    <2>3. later[s.signals[i].day] = bars[s.signals[i].day]
      BY <2>2
    <2>4. BookAfter(later, s.signals, path[i - 1], i) = BookAfter(bars, s.signals, path[i - 1], i)
      BY <2>3 DEF BookAfter
    <2> QED
      BY <1>2, <2>4
  <1> QED
    BY <1>2, <1>3 DEF Traced

-----------------------------------------------------------------------------
(* Observations and cycles keep the state sound.                              *)

\* Processing one candle keeps the state sound: the order that was pending, the
\* protective exits and the close, in that order.
LEMMA ObserveKeeps ==
    ASSUME NEW bars \in Seq(Bars), NEW day, day \in 1 .. Len(bars), NEW s,
           StateSound(s, bars, day), NEW action \in Actions, NEW t, t = Observe(s, day, bars[day], action), t # None
    PROVE  StateSound(t, bars, day + 1) /\ t.sequence # 0
  <1> DEFINE x == [day |-> day, action |-> action]
             n == s.sequence
             first == FirstDay(s, day)
             all == Append(s.signals, x)
  <1>1. /\ day \in Nat /\ x \in Signals /\ x.day = day
    BY DEF Signals
  <1>2. /\ s \in States /\ s.book \in Books /\ n \in Nat /\ s.signals \in Seq(Signals)
        /\ Len(s.signals) = n /\ first \in 1 .. day /\ first = day - n
    BY StateFields DEF StateSound, FirstDay
  <1>3. PICK o, p, m :
          /\ o = PaperOrder(s, bars[day], day) /\ o # None
          /\ p = Protect(o, bars[day], day, n)
          /\ m = MarkToMarket(p, bars[day])
          /\ t = [book |-> m, sequence |-> n + 1, last |-> day, pending |-> x, signals |-> all]
    <2>1. PICK o : o = PaperOrder(s, bars[day], day)
      OBVIOUS
    <2>2. PICK p : p = Protect(o, bars[day], day, n)
      OBVIOUS
    <2>3. PICK m : m = MarkToMarket(p, bars[day])
      OBVIOUS
    <2>4. Loaded(s) = s
      BY LoadedIsSame
    <2>5. t = IF o = None THEN None
              ELSE [book |-> m, sequence |-> n + 1, last |-> day, pending |-> x,
                    signals |-> all]
      BY <2>1, <2>2, <2>3, <2>4 DEF Observe
    <2> QED
      BY <2>1, <2>2, <2>3, <2>4, <2>5
  <1>4. /\ Ledger(m, bars, s.signals, first, day, n + 1)
        /\ m.position = None => m.previous_close = m.cash
        /\ Stops(m, bars, day + 1)
    BY <1>3, BookMoves
  <1>5. /\ all \in Seq(Signals) /\ Len(all) = n + 1 /\ all[n + 1] = x
        /\ \A i \in 1 .. n : all[i] = s.signals[i]
    BY <1>1, <1>2, Appended
  <1>6. Ledger(m, bars, all, first, day, n + 1)
    <2>1. first \in Nat
      BY <1>2
    <2> HIDE DEF x, n, first
    <2> QED
      BY <1>1, <1>2, <1>4, <2>1, LedgerSignalsGrow
  <1>7. OnePosition => Traced(t, bars)
    <2> SUFFICES ASSUME OnePosition
                 PROVE  Traced(t, bars)
      OBVIOUS
    <2>1. Traced(s, bars)
      BY DEF StateSound
    <2>2. m = MarkToMarket(Protect(o, bars[day], day, s.sequence), bars[day])
      BY <1>3
    <2>3. BookAfter(bars, Append(s.signals, x), s.book, s.sequence + 1) = m
      <3> HIDE DEF x
      <3> QED
        BY <1>1, <1>3, <2>2, SameStep
    <2> QED
      BY <1>1, <1>3, <2>1, <2>3, TracedObserved
  <1> HIDE DEF x, n, first, all
  <1>8. m \in Books
    BY <1>4 DEF Ledger
  <1>9. t.book = m /\ t.sequence = n + 1 /\ t.last = day /\ t.pending = x /\ t.signals = all
    BY <1>3
  <1>10. t \in States
    BY <1>1, <1>2, <1>3, <1>5, <1>8 DEF States
  <1>11. n + 1 # 0 /\ n + 1 \in Nat /\ day + 1 - 1 = day /\ day + 1 - (n + 1) = first
    BY <1>1, <1>2
  <1>12. FirstDay(t, day + 1) = first
    BY <1>9, <1>11 DEF FirstDay
  <1>13. first \in 1 .. day + 1
    BY <1>1, <1>2
  <1>14. \A i \in 1 .. n + 1 : all[i].day = first + i - 1
    <2> TAKE i \in 1 .. n + 1
    <2>1. CASE i = n + 1
      <3>1. all[i].day = day
        BY <1>1, <1>5, <2>1
      <3> QED
        BY <1>1, <1>2, <2>1, <3>1
    <2>2. CASE i # n + 1
      <3>1. i \in 1 .. n
        BY <1>2, <2>2
      <3>2. s.signals[i].day = first + i - 1
        BY <3>1 DEF StateSound, first, n
      <3> QED
        BY <1>5, <3>1, <3>2
    <2> QED
      BY <2>1, <2>2
  <1>15. Ledger(t.book, bars, t.signals, FirstDay(t, day + 1), day + 1 - 1, t.sequence)
    BY <1>6, <1>9, <1>11, <1>12
  <1>16. t.pending = t.signals[t.sequence] /\ t.last = day + 1 - 1
    BY <1>5, <1>9, <1>11
  <1> QED
    BY <1>4, <1>5, <1>7, <1>9, <1>10, <1>11, <1>12, <1>13, <1>14, <1>15, <1>16 DEF StateSound

\* A sound state stays sound when more days complete.
LEMMA StateLater ==
    ASSUME NEW bars, NEW later, NEW day \in Nat, \A d \in 1 .. (day - 1) : later[d] = bars[d],
           NEW s, StateSound(s, bars, day)
    PROVE  StateSound(s, later, day)
  <1> DEFINE first == FirstDay(s, day)
  <1>1. s \in States /\ first \in 1 .. day /\ first \in Nat /\ s.book \in Books
    BY StateFields DEF StateSound
  <1>2. day - 1 \in Nat
    BY <1>1
  <1>3. Ledger(s.book, later, s.signals, first, day - 1, s.sequence)
    <2> DEFINE before == day - 1
    <2>1. before \in Nat /\ Ledger(s.book, bars, s.signals, first, before, s.sequence)
      BY <1>2 DEF StateSound
    <2>2. \A d \in 1 .. before : later[d] = bars[d]
      OBVIOUS
    <2> HIDE DEF before, first
    <2>3. Ledger(s.book, later, s.signals, first, before, s.sequence)
      BY <1>1, <2>1, <2>2, LedgerBarsGrow
    <2> QED
      BY <2>3 DEF before
  <1>4. Stops(s.book, later, day)
    BY <1>1, StopsBarsGrow DEF StateSound
  <1>5. OnePosition => Traced(s, later)
    <2>1. OnePosition => Traced(s, bars)
      BY DEF StateSound
    <2> QED
      BY <2>1, TracedBarsGrow
  <1> QED
    BY <1>3, <1>4, <1>5 DEF StateSound

\* One step of RunCycle.
CycleStep(state, first, forecast, states, day) ==
    IF day < first THEN state
    ELSE LET before == states[day - 1]
         IN  IF before = None THEN None
             ELSE Observe(before, day, market[day], forecast[day])

\* A cycle's states day by day: the function that RunCycle defines exists.
LEMMA StatesUpTo ==
    ASSUME NEW state, NEW first, NEW forecast, NEW through, first \in Nat \ {0},
           through \in Nat, first - 1 <= through
    PROVE  \E g : g = [day \in (first - 1) .. through |->
                         CycleStep(state, first, forecast, g, day)]
  <1> DEFINE Good(k) == \E g : g = [j \in (first - 1) .. k |->
                                       CycleStep(state, first, forecast, g, j)]
             Bad == {k \in (first - 1) .. through : ~ Good(k)}
  <1>1. SUFFICES Bad = {}
    BY through \in (first - 1) .. through
  <1>2. Good(first - 1)
    <2> DEFINE g == [j \in (first - 1) .. (first - 1) |-> state]
    <2>1. \A j \in (first - 1) .. (first - 1) : j < first
      OBVIOUS
    <2>2. g = [j \in (first - 1) .. (first - 1) |-> CycleStep(state, first, forecast, g, j)]
      BY <2>1 DEF CycleStep
    <2> HIDE DEF g
    <2> QED
      BY <2>2
  <1>3. ASSUME NEW k \in (first - 1) .. through, k # first - 1, Good(k - 1)
        PROVE  Good(k)
    <2>1. PICK g : g = [j \in (first - 1) .. (k - 1) |-> CycleStep(state, first, forecast, g, j)]
      BY <1>3
    <2> DEFINE h == [j \in (first - 1) .. k |->
                       IF j = k THEN CycleStep(state, first, forecast, g, k) ELSE g[j]]
    <2>2. \A j \in (first - 1) .. (k - 1) : j \in (first - 1) .. k /\ j # k
      BY <1>3
    <2>3. \A j \in (first - 1) .. (k - 1) : h[j] = g[j]
      BY <2>2
    <2>4. \A j \in (first - 1) .. (k - 1) : g[j] = CycleStep(state, first, forecast, g, j)
      BY <2>1
    <2> HIDE DEF h
    <2>5. \A j \in (first - 1) .. k : j < first \/ j - 1 \in (first - 1) .. (k - 1)
      BY <1>3
    <2>6. \A j \in (first - 1) .. k :
            CycleStep(state, first, forecast, h, j) = CycleStep(state, first, forecast, g, j)
      BY <2>3, <2>5 DEF CycleStep
    <2>7. \A j \in (first - 1) .. k : j = k \/ j \in (first - 1) .. (k - 1)
      BY <1>3
    <2>8. h = [j \in (first - 1) .. k |-> CycleStep(state, first, forecast, g, j)]
      BY <2>4, <2>7 DEF h
    <2>9. h = [j \in (first - 1) .. k |-> CycleStep(state, first, forecast, h, j)]
      BY <2>6, <2>8
    <2> QED
      BY <2>9
  <1> HIDE DEF Good
  <1>4. SUFFICES ASSUME Bad # {} PROVE FALSE
    OBVIOUS
  <1>5. PICK k \in Bad : \A j \in Bad : k <= j
    <2>1. Bad \in SUBSET Nat
      OBVIOUS
    <2> HIDE DEF Bad
    <2> QED
      BY <2>1, <1>4, LeastExists
  <1>6. k # first - 1 /\ k - 1 \in (first - 1) .. through /\ k - 1 \notin Bad
    BY <1>2, <1>5
  <1> QED
    BY <1>3, <1>6

StatesOf(state, first, forecast, through) ==
    CHOOSE f : f = [day \in (first - 1) .. through |->
                      CycleStep(state, first, forecast, f, day)]

\* It satisfies its equation.
LEMMA StatesStep ==
    ASSUME NEW state, NEW first, NEW forecast, NEW through, first \in Nat \ {0},
           through \in Nat, first - 1 <= through,
           NEW f, f = StatesOf(state, first, forecast, through)
    PROVE  \A day \in (first - 1) .. through : f[day] = CycleStep(state, first, forecast, f, day)
  <1>1. f = [day \in (first - 1) .. through |-> CycleStep(state, first, forecast, f, day)]
    <2>1. f = CHOOSE g : g = [day \in (first - 1) .. through |->
                                CycleStep(state, first, forecast, g, day)]
      BY DEF StatesOf
    <2> QED
      BY <2>1, StatesUpTo
  <1> QED
    BY <1>1

\* A cycle leaves a sound state, or raises.
LEMMA RunCycleKeeps ==
    ASSUME market \in Seq(Bars), NEW through, through \in 1 .. Len(market), NEW state,
           NEW first, first \in 1 .. through, StateSound(state, market, first),
           FirstNewDay(state.last, through) = first,
           NEW forecast \in [first .. through -> Actions],
           NEW t, t = RunCycle(state, through, forecast), t # None
    PROVE  StateSound(t, market, through + 1) /\ t.sequence # 0
  <1> DEFINE f == StatesOf(state, first, forecast, through)
  <1>1. first \in Nat \ {0} /\ through \in Nat /\ first - 1 <= through
    OBVIOUS
  <1>2. t = f[through]
    BY DEF RunCycle, CycleStep, StatesOf
  <1> HIDE DEF f
  <1>3. f = StatesOf(state, first, forecast, through)
    BY DEF f
  <1>4. \A day \in (first - 1) .. through : f[day] = CycleStep(state, first, forecast, f, day)
    BY <1>1, <1>3, StatesStep
  <1> DEFINE Good(day) ==
               f[day] = None \/ (/\ StateSound(f[day], market, day + 1)
                                 /\ day >= first => f[day].sequence # 0)
             Bad == {day \in (first - 1) .. through : ~ Good(day)}
  <1>5. Good(first - 1)
    <2>1. f[first - 1] = state
      BY <1>1, <1>4 DEF CycleStep
    <2>2. first - 1 + 1 = first /\ ~ (first - 1 >= first)
      BY <1>1
    <2> QED
      BY <2>1, <2>2
  <1>6. ASSUME NEW day \in (first - 1) .. through, day # first - 1, Good(day - 1)
        PROVE  Good(day)
    <2>1. day \in first .. through /\ day - 1 \in (first - 1) .. through /\ ~ (day < first)
          /\ day - 1 + 1 = day /\ day \in 1 .. Len(market)
      BY <1>1, <1>6
    <2> DEFINE before == f[day - 1]
    <2>2. f[day] = IF before = None THEN None
                   ELSE Observe(before, day, market[day], forecast[day])
      BY <1>4, <2>1 DEF CycleStep
    <2>3. before = None \/ StateSound(before, market, day)
      BY <1>6, <2>1
    <2>4. forecast[day] \in Actions
      BY <2>1
    <2> HIDE DEF before
    <2>5. ASSUME before # None, f[day] # None
          PROVE  StateSound(f[day], market, day + 1) /\ f[day].sequence # 0
      BY <2>1, <2>2, <2>3, <2>4, <2>5, ObserveKeeps
    <2> QED
      BY <2>2, <2>5
  <1> HIDE DEF Good
  <1>7. Bad = {}
    <2> SUFFICES ASSUME Bad # {} PROVE FALSE
      OBVIOUS
    <2>1. PICK k \in Bad : \A j \in Bad : k <= j
      <3>1. Bad \in SUBSET Nat
        BY <1>1
      <3> HIDE DEF Bad
      <3> QED
        BY <3>1, LeastExists
    <2>2. k # first - 1 /\ k - 1 \in (first - 1) .. through /\ k - 1 \notin Bad
      BY <1>1, <1>5, <2>1
    <2> QED
      BY <1>6, <2>2
  <1>8. Good(through) /\ through >= first
    BY <1>1, <1>7
  <1> QED
    BY <1>2, <1>8 DEF Good

-----------------------------------------------------------------------------
(* What the recursive functions compute, from a function that takes the same  *)
(* steps.                                                                     *)

\* Two functions that start alike and step alike arrive alike: the least index where
\* they differ has none before it.
LEMMA SamePath ==
    ASSUME NEW n, n \in Nat, NEW f, NEW g, f[0] = g[0],
           \A i \in 1 .. n : f[i - 1] = g[i - 1] => f[i] = g[i]
    PROVE  f[n] = g[n]
  <1> DEFINE Bad == {i \in 0 .. n : f[i] # g[i]}
  <1>1. SUFFICES ASSUME Bad # {} PROVE FALSE
    OBVIOUS
  <1>2. PICK k \in Bad : \A j \in Bad : k <= j
    <2>1. Bad \in SUBSET Nat
      OBVIOUS
    <2> HIDE DEF Bad
    <2> QED
      BY <2>1, <1>1, LeastExists
  <1>3. k # 0 /\ k \in 1 .. n /\ k - 1 \in 0 .. n /\ k - 1 \notin Bad
    BY <1>2
  <1> QED
    BY <1>2, <1>3

CashStep(fills, cash, i) ==
    IF i = 0 THEN Backtest.initial_capital ELSE cash[i - 1] + fills[i].cash_delta

CashOf(fills) == CHOOSE cash : cash = [i \in 0 .. Len(fills) |-> CashStep(fills, cash, i)]

\* The function that Cash defines satisfies its equation.
LEMMA CashSteps ==
    ASSUME NEW fills, NEW cash, cash = [i \in 0 .. Len(fills) |-> CashStep(fills, cash, i)],
           NEW f, f = CashOf(fills)
    PROVE  \A i \in 0 .. Len(fills) : f[i] = CashStep(fills, f, i)
  <1>1. f = [i \in 0 .. Len(fills) |-> CashStep(fills, f, i)]
    <2>1. f = CHOOSE g : g = [i \in 0 .. Len(fills) |-> CashStep(fills, g, i)]
      BY DEF CashOf
    <2> QED
      BY <2>1
  <1> QED
    BY <1>1

\* The balance recomputed from the fills is the running balance of the book.
LEMMA CashIs ==
    ASSUME NEW fills \in Seq(Fills), NEW c, Balances(fills, c)
    PROVE  Cash(fills) = c[Len(fills)]
  <1> DEFINE n == Len(fills)
             f == CashOf(fills)
  <1>1. n \in Nat
    OBVIOUS
  <1>2. /\ c \in [0 .. n -> Int] /\ c[0] = Backtest.initial_capital
        /\ \A i \in 1 .. n : c[i] = c[i - 1] + fills[i].cash_delta
    BY DEF Balances
  <1> HIDE DEF n
  <1>3. \A i \in 0 .. n : c[i] = CashStep(fills, c, i)
    <2> TAKE i \in 0 .. n
    <2>1. i = 0 \/ i \in 1 .. n
      BY <1>1
    <2> QED
      BY <1>2, <2>1 DEF CashStep
  <1>4. c = [i \in 0 .. n |-> CashStep(fills, c, i)]
    BY <1>2, <1>3
  <1>5. \A i \in 0 .. n : f[i] = CashStep(fills, f, i)
    BY <1>4, CashSteps DEF n
  <1>6. Cash(fills) = f[n]
    BY DEF Cash, CashOf, CashStep, n
  <1> HIDE DEF f
  <1>7. f[0] = c[0]
    BY <1>1, <1>2, <1>5 DEF CashStep
  <1>8. \A i \in 1 .. n : f[i - 1] = c[i - 1] => f[i] = c[i]
    <2> TAKE i \in 1 .. n
    <2>1. i \in 0 .. n /\ i # 0
      BY <1>1
    <2>2. f[i] = f[i - 1] + fills[i].cash_delta
      BY <1>5, <2>1 DEF CashStep
    <2> QED
      BY <1>2, <2>2
  <1>9. f[n] = c[n]
    BY <1>1, <1>7, <1>8, SamePath
  <1> QED
    BY <1>6, <1>9 DEF n

\* And after each of them.
LEMMA BalancesPrefix ==
    ASSUME NEW fills \in Seq(Fills), NEW c, Balances(fills, c), NEW k \in 1 .. Len(fills)
    PROVE  /\ SubSeq(fills, 1, k) \in Seq(Fills) /\ Len(SubSeq(fills, 1, k)) = k
           /\ Balances(SubSeq(fills, 1, k), [i \in 0 .. k |-> c[i]])
  <1> DEFINE part == SubSeq(fills, 1, k)
             d == [i \in 0 .. k |-> c[i]]
  <1>1. part \in Seq(Fills) /\ Len(part) = k /\ \A i \in 1 .. k : part[i] = fills[i]
    OBVIOUS
  <1>2. /\ c \in [0 .. Len(fills) -> Int] /\ c[0] = Backtest.initial_capital
        /\ \A i \in 1 .. Len(fills) :
             /\ c[i] = c[i - 1] + fills[i].cash_delta
             /\ \A reserve \in Limit("minimum_cash_reserve") : reserve <= c[i]
    BY DEF Balances
  <1>3. \A i \in 0 .. k : i \in 0 .. Len(fills) /\ d[i] = c[i]
    OBVIOUS
  <1>4. \A i \in 0 .. k : d[i] \in Int
    BY <1>2, <1>3
  <1>5. d \in [0 .. k -> Int]
    BY <1>4
  <1> HIDE DEF part, d
  <1>6. \A i \in 1 .. k : i \in 1 .. Len(fills) /\ i \in 0 .. k /\ i - 1 \in 0 .. k
    OBVIOUS
  <1>7. ASSUME NEW i \in 1 .. k
        PROVE  /\ d[i] = d[i - 1] + part[i].cash_delta
               /\ \A reserve \in Limit("minimum_cash_reserve") : reserve <= d[i]
    <2>1. i \in 1 .. Len(fills) /\ d[i] = c[i] /\ d[i - 1] = c[i - 1] /\ part[i] = fills[i]
      BY <1>1, <1>3, <1>6
    <2> QED
      BY <1>2, <2>1
  <1>8. d[0] = Backtest.initial_capital
    BY <1>2, <1>3
  <1>9. Balances(part, d)
    BY <1>1, <1>5, <1>7, <1>8 DEF Balances
  <1> QED
    BY <1>1, <1>9 DEF part, d

SimulateStep(bars, signals, books, i) ==
    IF i = 0 THEN InitialBook ELSE BookAfter(bars, signals, books[i - 1], i)

BooksOf(bars, signals) ==
    CHOOSE books : books = [i \in 0 .. Len(signals) |-> SimulateStep(bars, signals, books, i)]

\* The function that Simulate defines satisfies its equation.
LEMMA SimulateSteps ==
    ASSUME NEW bars, NEW signals, NEW books,
           books = [i \in 0 .. Len(signals) |-> SimulateStep(bars, signals, books, i)],
           NEW f, f = BooksOf(bars, signals)
    PROVE  \A i \in 0 .. Len(signals) : f[i] = SimulateStep(bars, signals, f, i)
  <1>1. f = [i \in 0 .. Len(signals) |-> SimulateStep(bars, signals, f, i)]
    <2>1. f = CHOOSE g : g = [i \in 0 .. Len(signals) |-> SimulateStep(bars, signals, g, i)]
      BY DEF BooksOf
    <2> QED
      BY <2>1
  <1> QED
    BY <1>1

\* The backtest of the signals of a traced state ends in its book.
LEMMA TracedSimulates ==
    ASSUME NEW bars, NEW s \in States, Len(s.signals) = s.sequence, Traced(s, bars)
    PROVE  Simulate(bars, s.signals) = s.book
  <1> DEFINE n == s.sequence
             f == BooksOf(bars, s.signals)
  <1>1. n \in Nat /\ n = Len(s.signals)
    BY StateFields
  <1>2. PICK path : /\ path[0] = InitialBook /\ path[n] = s.book
                    /\ \A i \in 1 .. n : path[i] = BookAfter(bars, s.signals, path[i - 1], i)
    BY DEF Traced
  <1> DEFINE g == [i \in 0 .. n |-> path[i]]
  <1>3. \A i \in 0 .. n : g[i] = path[i]
    OBVIOUS
  <1>4. \A i \in 0 .. n : path[i] = SimulateStep(bars, s.signals, g, i)
    <2> TAKE i \in 0 .. n
    <2>1. i = 0 \/ (i \in 1 .. n /\ i - 1 \in 0 .. n /\ i # 0)
      BY <1>1
    <2> HIDE DEF g
    <2> QED
      BY <1>2, <1>3, <2>1 DEF SimulateStep
  <1>5. g = [i \in 0 .. n |-> SimulateStep(bars, s.signals, g, i)]
    BY <1>4
  <1>6. Simulate(bars, s.signals) = f[n]
    BY <1>1 DEF Simulate, BooksOf, SimulateStep
  <1> HIDE DEF g, n
  <1>7. \A i \in 0 .. n : f[i] = SimulateStep(bars, s.signals, f, i)
    BY <1>1, <1>5, SimulateSteps
  <1> HIDE DEF f
  <1>8. f[0] = g[0]
    BY <1>1, <1>2, <1>3, <1>7 DEF SimulateStep
  <1>9. \A i \in 1 .. n : f[i - 1] = g[i - 1] => f[i] = g[i]
    <2> TAKE i \in 1 .. n
    <2>1. i \in 0 .. n /\ i # 0 /\ i - 1 \in 0 .. n
      BY <1>1
    <2>2. f[i] = BookAfter(bars, s.signals, f[i - 1], i)
      BY <1>7, <2>1 DEF SimulateStep
    <2>3. g[i] = BookAfter(bars, s.signals, g[i - 1], i)
      BY <1>2, <1>3, <2>1
    <2> QED
      BY <2>2, <2>3
  <1>10. f[n] = g[n]
    BY <1>1, <1>8, <1>9, SamePath
  <1>11. g[n] = path[n]
    BY <1>1, <1>3
  <1> QED
    BY <1>2, <1>6, <1>10, <1>11

-----------------------------------------------------------------------------
(* The session.                                                               *)

\* A report carries the sound state of the day after its cycle end.
ReportSound(r, bars) ==
    /\ r \in Reports /\ r.cycle_end \in 1 .. Len(bars)
    /\ r.state.sequence # 0 /\ StateSound(r.state, bars, r.cycle_end + 1)

CycleSound(call, bars) ==
    \/ call = Idle
    \/ \E through \in 1 .. Len(bars) : call = [phase |-> "fetched", through |-> through]
    \/ \E r : ReportSound(r, bars) /\ call = [phase |-> "flush", report |-> r]

SessionInv ==
    /\ market \in Seq(Bars) /\ Len(market) # 0
    /\ \A r \in reports : ReportSound(r, market)
    /\ DOMAIN cycle = Workers
    /\ \A w \in Workers : CycleSound(cycle[w], market)

\* A report stays sound when the market has more candles.
LEMMA ReportLater ==
    ASSUME NEW bars \in Seq(Bars), NEW later \in Seq(Bars), Len(bars) <= Len(later),
           \A d \in 1 .. Len(bars) : later[d] = bars[d], NEW r, ReportSound(r, bars)
    PROVE  ReportSound(r, later)
  <1> DEFINE day == r.cycle_end + 1
  <1>1. /\ r \in Reports /\ r.cycle_end \in 1 .. Len(bars) /\ r.state.sequence # 0
        /\ StateSound(r.state, bars, day)
    BY DEF ReportSound
  <1>2. day \in Nat /\ \A d \in 1 .. (day - 1) : later[d] = bars[d]
    BY <1>1
  <1>3. r.cycle_end \in 1 .. Len(later)
    BY <1>1
  <1> HIDE DEF day
  <1>4. StateSound(r.state, later, day)
    BY <1>1, <1>2, StateLater
  <1> QED
    BY <1>1, <1>3, <1>4 DEF ReportSound, day

\* The latest report is one of them.
LEMMA LatestIsReport ==
    ASSUME SessionInv, reports # {}
    PROVE  Latest \in reports
  <1> DEFINE ends == {r.cycle_end : r \in reports}
  <1>1. Len(market) \in Nat /\ \A r \in reports : r.cycle_end \in 0 .. Len(market)
    BY DEF SessionInv, ReportSound
  <1>2. ends \in SUBSET (0 .. Len(market)) /\ ends # {}
    BY <1>1
  <1>3. PICK most \in ends : \A e \in ends : most >= e
    <2> HIDE DEF ends
    <2> QED
      BY <1>1, <1>2, GreatestExists
  <1>4. PICK r \in reports : r.cycle_end = most
    BY <1>3
  <1>5. \A other \in reports : other.cycle_end <= r.cycle_end
    BY <1>1, <1>3, <1>4
  <1> QED
    BY <1>5 DEF Latest

\* A step that only moves one worker keeps the invariant when what that worker then
\* holds is sound.
LEMMA CycleMoves ==
    ASSUME SessionInv, NEW w \in Workers, NEW call, CycleSound(call, market),
           cycle' = [cycle EXCEPT ![w] = call], market' = market,
           \A r \in reports' : ReportSound(r, market)
    PROVE  SessionInv'
  <1>1. DOMAIN cycle' = Workers /\ \A v \in Workers : CycleSound(cycle'[v], market)
    BY DEF SessionInv
  <1> QED
    BY <1>1 DEF SessionInv

\* The session invariant holds at first.
LEMMA InitIsSound == Init => SessionInv
  <1> SUFFICES ASSUME Init PROVE SessionInv
    OBVIOUS
  <1>1. market \in Seq(Bars) /\ Len(market) # 0
    BY BarAssumption DEF Init
  <1> QED
    BY <1>1 DEF Init, SessionInv, CycleSound

\* A completed candle disturbs neither reports nor cycles in flight.
LEMMA CandleKeeps == SessionInv /\ CompleteCandle => SessionInv'
  <1> SUFFICES ASSUME SessionInv, CompleteCandle PROVE SessionInv'
    OBVIOUS
  <1>1. PICK bar \in Bars : market' = Append(market, bar)
    BY DEF CompleteCandle
  <1>2. /\ market \in Seq(Bars) /\ market' \in Seq(Bars) /\ Len(market') = Len(market) + 1
        /\ Len(market) \in Nat /\ Len(market') # 0 /\ Len(market) <= Len(market')
        /\ \A d \in 1 .. Len(market) : market'[d] = market[d]
    <2>1. market \in Seq(Bars)
      BY DEF SessionInv
    <2>2. /\ Append(market, bar) \in Seq(Bars) /\ Len(Append(market, bar)) = Len(market) + 1
          /\ Len(market) \in Nat /\ \A d \in 1 .. Len(market) : Append(market, bar)[d] = market[d]
      BY <2>1, Appended
    <2> QED
      BY <1>1, <2>1, <2>2
  <1>3. \A r : ReportSound(r, market) => ReportSound(r, market')
    BY <1>2, ReportLater
  <1>4. \A call : CycleSound(call, market) => CycleSound(call, market')
    <2>1. \A through \in 1 .. Len(market) : through \in 1 .. Len(market')
      BY <1>2
    <2> QED
      BY <1>3, <2>1 DEF CycleSound
  <1>5. reports' = reports /\ cycle' = cycle
    BY DEF CompleteCandle
  <1> QED
    BY <1>2, <1>3, <1>4, <1>5 DEF SessionInv

\* The state a cycle starts from, and what it leaves.
LEMMA CycleReports ==
    ASSUME SessionInv, NEW through, through \in 1 .. Len(market), NEW previous, previous = Latest,
           previous = None \/ through > previous.cycle_end,
           NEW first, first = IF previous = None THEN through ELSE previous.cycle_end + 1,
           NEW forecast \in [first .. through -> Actions],
           NEW state, state = RunCycle(PriorState(previous), through, forecast), state # None
    PROVE  ReportSound(Report(previous, through, state), market)
  <1>1. previous # None => previous \in reports /\ ReportSound(previous, market)
    BY LatestIsReport DEF Latest, SessionInv
  <1>2. market \in Seq(Bars) /\ through \in Nat /\ through # 0
    BY DEF SessionInv
  <1>3. first \in 1 .. through
    BY <1>1, <1>2 DEF ReportSound
  <1> DEFINE prior == PriorState(previous)
  <1>4. StateSound(prior, market, first)
    <2>1. CASE previous = None
      BY <1>2, <2>1, InitialStateIsSound DEF PriorState
    <2>2. CASE previous # None
      BY <1>1, <2>2 DEF ReportSound, PriorState
    <2> QED
      BY <2>1, <2>2
  <1>5. FirstNewDay(prior.last, through) = first
    <2>1. FirstNewDay(prior.last, through) # None
      BY DEF RunCycle
    <2>2. CASE previous = None
      BY <2>2 DEF PriorState, InitialState, FirstNewDay
    <2>3. CASE previous # None
      <3>1. /\ prior = previous.state /\ previous.cycle_end \in Nat
            /\ prior.last = previous.cycle_end + 1 - 1
        BY <1>1, <2>3 DEF ReportSound, StateSound, PriorState
      <3>2. prior.last = previous.cycle_end /\ prior.last # None
        BY <3>1, RiskAssumption
      <3> QED
        BY <2>1, <2>3, <3>2 DEF FirstNewDay
    <2> QED
      BY <2>2, <2>3
  <1> HIDE DEF prior
  <1>6. StateSound(state, market, through + 1) /\ state.sequence # 0
    <2>1. state = RunCycle(prior, through, forecast)
      BY DEF prior
    <2> QED
      BY <1>2, <1>3, <1>4, <1>5, <2>1, RunCycleKeeps
  <1>7. state \in States
    BY <1>6 DEF StateSound
  <1> DEFINE r == Report(previous, through, state)
  <1>8. r.cycle_end = through /\ r.state = state
    BY DEF Report
  <1>9. r \in Reports
    <2>1. CASE previous = None
      BY <1>2, <1>7, <2>1 DEF Report, Reports
    <2>2. CASE previous # None
      <3>1. previous.cycle_sequence \in Nat \ {0} /\ previous.cycle_end \in Nat
        BY <1>1, <2>2 DEF ReportSound, Reports
      <3>2. previous.cycle_sequence + 1 \in Nat \ {0}
        BY <3>1
      <3> QED
        BY <1>2, <1>7, <2>2, <3>1, <3>2 DEF Report, Reports
    <2> QED
      BY <2>1, <2>2
  <1> HIDE DEF r
  <1>10. ReportSound(r, market)
    BY <1>6, <1>8, <1>9 DEF ReportSound
  <1> QED
    BY <1>10 DEF r

\* What a worker inserts is the sound report it computed (persistence/paper_trading.py).
LEMMA PersistKeeps ==
    ASSUME SessionInv, NEW w \in Workers, PersistCycle(w)
    PROVE  SessionInv'
  <1>1. PICK through \in 1 .. Len(market) : cycle[w] = [phase |-> "fetched", through |-> through]
    BY DEF SessionInv, PersistCycle, CycleSound, Idle
  <1>2. /\ market' = market /\ reports' = reports
        /\ \A r \in reports' : ReportSound(r, market)
    BY DEF PersistCycle, SessionInv
  <1>3. PICK call : cycle' = [cycle EXCEPT ![w] = call] /\ CycleSound(call, market)
    <2> DEFINE previous == Latest
               first == IF previous = None THEN through ELSE previous.cycle_end + 1
    <2>1. CASE previous # None /\ through <= previous.cycle_end
      <3>1. cycle' = [cycle EXCEPT ![w] = Idle]
        BY <1>1, <2>1 DEF PersistCycle
      <3> QED
        BY <3>1 DEF CycleSound
    <2>2. CASE ~ (previous # None /\ through <= previous.cycle_end)
      <3>1. PICK forecast \in [first .. through -> Actions] :
              cycle' = [cycle EXCEPT ![w] =
                 IF RunCycle(PriorState(previous), through, forecast) = None THEN Idle
                 ELSE [phase |-> "flush",
                       report |-> Report(previous, through,
                                         RunCycle(PriorState(previous), through, forecast))]]
        BY <1>1, <2>2 DEF PersistCycle
      <3> DEFINE state == RunCycle(PriorState(previous), through, forecast)
      <3>2. CASE state = None
        BY <3>1, <3>2 DEF CycleSound
      <3>3. CASE state # None
        <4>1. previous = None \/ through > previous.cycle_end
          <5>1. ASSUME previous # None PROVE previous.cycle_end \in Nat
            <6>1. previous \in reports
              BY <5>1, LatestIsReport DEF Latest
            <6> QED
              BY <6>1 DEF SessionInv, ReportSound, Reports
          <5> HIDE DEF previous
          <5> QED
            BY <2>2, <5>1
        <4>2. ReportSound(Report(previous, through, state), market)
          <5> HIDE DEF state, first
          <5>1. /\ previous = Latest /\ state = RunCycle(PriorState(previous), through, forecast)
                /\ first = IF previous = None THEN through ELSE previous.cycle_end + 1
            BY DEF state, first
          <5> HIDE DEF previous
          <5> QED
            BY <3>3, <4>1, <5>1, CycleReports
        <4> DEFINE report == Report(previous, through, state)
        <4>3. cycle' = [cycle EXCEPT ![w] = [phase |-> "flush", report |-> report]]
          BY <3>1, <3>3
        <4>4. CycleSound([phase |-> "flush", report |-> report], market)
          <5> HIDE DEF report
          <5> QED
            BY <4>2 DEF CycleSound, report
        <4> QED
          BY <4>3, <4>4
      <3> QED
        BY <3>2, <3>3
    <2> QED
      BY <2>1, <2>2
  <1> QED
    BY <1>2, <1>3, CycleMoves

\* The end of a transaction keeps the invariant.
LEMMA FlushKeeps ==
    ASSUME SessionInv, NEW w \in Workers, Flush(w)
    PROVE  SessionInv'
  <1>1. PICK r : ReportSound(r, market) /\ cycle[w] = [phase |-> "flush", report |-> r]
    BY DEF SessionInv, Flush, CycleSound, Idle
  <1>2. reports' \subseteq reports \cup {r}
    BY <1>1 DEF Flush
  <1>3. \A q \in reports' : ReportSound(q, market)
    BY <1>1, <1>2 DEF SessionInv
  <1>4. market' = market /\ cycle' = [cycle EXCEPT ![w] = Idle]
    BY DEF Flush
  <1>5. CycleSound(Idle, market)
    BY DEF CycleSound
  <1> QED
    BY <1>3, <1>4, <1>5, CycleMoves

\* The session invariant holds throughout.
LEMMA SessionInvariant == Spec => []SessionInv
  <1>1. SessionInv /\ [Next]_vars => SessionInv'
    <2> SUFFICES ASSUME SessionInv, [Next]_vars PROVE SessionInv'
      OBVIOUS
    <2>1. CASE CompleteCandle
      BY <2>1, CandleKeeps
    <2>2. ASSUME NEW w \in Workers, fetch_completed_candles(w) PROVE SessionInv'
      <3>1. /\ market' = market /\ reports' = reports
            /\ cycle' = [cycle EXCEPT ![w] = [phase |-> "fetched", through |-> Len(market)]]
        BY <2>2 DEF fetch_completed_candles, Today
      <3>2. Len(market) \in 1 .. Len(market)
        BY DEF SessionInv
      <3>3. CycleSound([phase |-> "fetched", through |-> Len(market)], market)
        BY <3>2 DEF CycleSound
      <3>4. \A r \in reports' : ReportSound(r, market)
        BY <3>1 DEF SessionInv
      <3> QED
        BY <3>1, <3>3, <3>4, CycleMoves
    <2>3. ASSUME NEW w \in Workers, PersistCycle(w) PROVE SessionInv'
      BY <2>3, PersistKeeps
    <2>4. ASSUME NEW w \in Workers, Flush(w) PROVE SessionInv'
      BY <2>4, FlushKeeps
    <2>5. ASSUME NEW w \in Workers, Abandon(w) PROVE SessionInv'
      <3>1. /\ market' = market /\ reports' = reports
            /\ cycle' = [cycle EXCEPT ![w] = Idle]
        BY <2>5 DEF Abandon
      <3>2. CycleSound(Idle, market)
        BY DEF CycleSound
      <3>3. \A r \in reports' : ReportSound(r, market)
        BY <3>1 DEF SessionInv
      <3> QED
        BY <3>1, <3>2, <3>3, CycleMoves
    <2>6. CASE UNCHANGED vars
      BY <2>6 DEF vars, SessionInv
    <2> QED
      BY <2>1, <2>2, <2>3, <2>4, <2>5, <2>6 DEF Next
  <1> QED
    BY InitIsSound, <1>1, PTL DEF Spec

-----------------------------------------------------------------------------
(* The theorems.                                                              *)

\* Every report, cycle and market of a session is of the declared shape: no cycle of
\* engine.py leaves cash negative or a position without quantity.
THEOREM SessionTypeOK == Spec => []TypeOK
  <1>1. SessionInv => TypeOK
    <2> SUFFICES ASSUME SessionInv PROVE TypeOK
      OBVIOUS
    <2>1. market \in Seq(Bars) /\ reports \subseteq Reports
      BY DEF SessionInv, ReportSound
    <2>2. ASSUME NEW w \in Workers
          PROVE  \/ cycle[w] = Idle
                 \/ cycle[w] \in [phase : {"fetched"}, through : Nat]
                 \/ cycle[w] \in [phase : {"flush"}, report : Reports]
      BY DEF SessionInv, CycleSound, ReportSound
    <2> QED
      BY <2>1, <2>2 DEF TypeOK
  <1> QED
    BY <1>1, SessionInvariant, PTL

\* What a sound report says, in the terms of the properties.
LEMMA ReportSays ==
    ASSUME NEW bars \in Seq(Bars), NEW r, ReportSound(r, bars),
           NEW first, first = FirstDay(r.state, r.cycle_end + 1)
    PROVE  /\ r.state \in States /\ r.state.book \in Books /\ r.cycle_end \in Nat
           /\ r.state.book.fills \in Seq(Fills)
           /\ Ledger(r.state.book, bars, r.state.signals, first, r.cycle_end, r.state.sequence)
           /\ Started(r.state) = first /\ r.state.sequence \in Nat
           /\ Len(r.state.signals) = r.state.sequence /\ r.state.signals \in Seq(Signals)
           /\ \A i \in 1 .. r.state.sequence : r.state.signals[i].day = first + i - 1
           /\ r.state.signals[r.state.sequence].day = r.cycle_end
  <1> DEFINE s == r.state
             day == r.cycle_end + 1
             n == s.sequence
  <1>1. /\ StateSound(s, bars, day) /\ n # 0 /\ r.cycle_end \in Nat
    BY DEF ReportSound, Reports
  <1>2. day \in Nat /\ day - 1 = r.cycle_end
    BY <1>1
  <1> HIDE DEF day
  <1>3. s \in States /\ s.book \in Books /\ n \in Nat /\ s.signals \in Seq(Signals)
        /\ Len(s.signals) = n
    BY <1>1, StateFields DEF StateSound
  <1>4. s.book.fills \in Seq(Fills)
    BY <1>3, BookFields
  <1>5. first = day - n /\ first \in Nat
    BY <1>1, <1>2, <1>3 DEF StateSound, FirstDay, day
  <1>6. Ledger(s.book, bars, s.signals, first, r.cycle_end, n)
    <2>1. Ledger(s.book, bars, s.signals, FirstDay(s, day), day - 1, n)
      BY <1>1 DEF StateSound
    <2> QED
      BY <1>2, <2>1 DEF day
  <1>7. \A i \in 1 .. n : s.signals[i].day = first + i - 1
    <2>1. \A i \in 1 .. n : s.signals[i].day = FirstDay(s, day) + i - 1
      BY <1>1 DEF StateSound
    <2> QED
      BY <2>1 DEF day
  <1> HIDE DEF n
  <1>8. 1 \in 1 .. n /\ n \in 1 .. n
    BY <1>1, <1>3
  <1>9. Started(s) = first
    <2>1. Head(s.signals) = s.signals[1]
      BY <1>3, <1>8
    <2>2. s.signals[1].day = first + 1 - 1
      BY <1>7, <1>8
    <2> QED
      BY <1>5, <2>1, <2>2 DEF Started
  <1>10. s.signals[n].day = r.cycle_end
    <2>1. s.signals[n].day = first + n - 1
      BY <1>7, <1>8
    <2> QED
      BY <1>2, <1>3, <1>5, <2>1
  <1> QED
    BY <1>1, <1>3, <1>4, <1>6, <1>7, <1>9, <1>10 DEF n

\* No order executes at the close that produced its signal: an entry or a
\* signalled exit executes at the open of the next day, a forced exit within the
\* range of the bar that forced it (engine.py, portfolio.py).
THEOREM SessionExecutesAtNextOpen == Spec => []OrdersExecuteAtNextOpen
  <1>1. SessionInv => OrdersExecuteAtNextOpen
    <2> SUFFICES ASSUME SessionInv, NEW r \in reports, NEW fill \in Range(r.state.book.fills)
                 PROVE  LET bar == market[fill.day]
                        IN  IF fill.side = "sell" /\ fill.signal_day = fill.day
                            THEN bar.low <= fill.reference /\ fill.reference <= bar.high
                            ELSE /\ fill.day = fill.signal_day + 1
                                 /\ fill.reference = bar.open
                                 /\ [day |-> fill.signal_day,
                                     action |-> IF fill.side = "buy" THEN "BUY" ELSE "EXIT"]
                                       \in Range(r.state.signals)
      BY DEF OrdersExecuteAtNextOpen
    <2>1. PICK first : first = FirstDay(r.state, r.cycle_end + 1)
      OBVIOUS
    <2>2. market \in Seq(Bars) /\ ReportSound(r, market)
      BY DEF SessionInv
    <2>3. /\ r.state.book.fills \in Seq(Fills)
          /\ Ledger(r.state.book, market, r.state.signals, first, r.cycle_end, r.state.sequence)
      BY <2>1, <2>2, ReportSays
    <2>4. PICK i \in 1 .. Len(r.state.book.fills) : r.state.book.fills[i] = fill
      BY <2>3 DEF Range
    <2>5. FillSound(fill, market, r.state.signals)
      BY <2>3, <2>4 DEF Ledger, Orders
    <2> QED
      BY <2>5 DEF FillSound
  <1> QED
    BY <1>1, SessionInvariant, PTL

\* Entries and full exits alternate, the cash of a book is what its fills left of
\* the initial capital, and no entry took it below the reserve (portfolio.py,
\* backtesting/positions.py, risk/rules.py).
THEOREM SessionConservesCash == Spec => []CashIsConserved
  <1>1. SessionInv => CashIsConserved
    <2> SUFFICES ASSUME SessionInv, NEW r \in reports, NEW book, book = r.state.book
                 PROVE  /\ \A i \in DOMAIN book.fills :
                             /\ book.fills[i].side = IF i % 2 = 1 THEN "buy" ELSE "sell"
                             /\ i % 2 = 0 => book.fills[i].quantity = book.fills[i - 1].quantity
                             /\ \A reserve \in Limit("minimum_cash_reserve") :
                                   Cash(SubSeq(book.fills, 1, i)) >= reserve
                        /\ (book.position # None) = (Len(book.fills) % 2 = 1)
                        /\ book.cash = Cash(book.fills)
      BY DEF CashIsConserved
    <2>1. PICK first : first = FirstDay(r.state, r.cycle_end + 1)
      OBVIOUS
    <2>2. market \in Seq(Bars) /\ ReportSound(r, market)
      BY DEF SessionInv
    <2>3. /\ book \in Books /\ book.fills \in Seq(Fills)
          /\ Ledger(book, market, r.state.signals, first, r.cycle_end, r.state.sequence)
      BY <2>1, <2>2, ReportSays
    <2>4. Alternates(book) /\ Balanced(book)
      BY <2>3 DEF Ledger
    <2>5. PICK c : Balances(book.fills, c) /\ c[Len(book.fills)] = book.cash
      BY <2>4 DEF Balanced
    <2>6. book.cash = Cash(book.fills)
      BY <2>3, <2>5, CashIs
    <2>7. ASSUME NEW i \in 1 .. Len(book.fills), NEW reserve \in Limit("minimum_cash_reserve")
          PROVE  Cash(SubSeq(book.fills, 1, i)) >= reserve
      <3> DEFINE part == SubSeq(book.fills, 1, i)
                 d == [j \in 0 .. i |-> c[j]]
      <3>1. part \in Seq(Fills) /\ Len(part) = i /\ Balances(part, d)
        BY <2>3, <2>5, BalancesPrefix
      <3>2. d[i] = c[i]
        OBVIOUS
      <3> HIDE DEF part, d
      <3>3. Cash(part) = d[i]
        BY <3>1, CashIs
      <3>4. reserve <= c[i] /\ c[i] \in Int /\ reserve \in Nat
        <4>1. reserve \in Nat
          BY LimitsSound DEF Amounts
        <4>2. i \in 0 .. Len(book.fills)
          OBVIOUS
        <4> QED
          BY <2>5, <4>1, <4>2 DEF Balances
      <3>5. Cash(part) >= reserve
        BY <3>2, <3>3, <3>4
      <3> QED
        BY <3>5 DEF part
    <2>8. DOMAIN book.fills = 1 .. Len(book.fills)
      BY <2>3
    <2> QED
      BY <2>4, <2>6, <2>7, <2>8 DEF Alternates
  <1> QED
    BY <1>1, SessionInvariant, PTL

\* No position is entered during the cooldown after an exit, or at a drawdown from
\* the highest close of the whole session (risk/rules.py entry_rejections over
\* the state of load_risk_manager).
THEOREM SessionHeedsRisk == Spec => []NoEntryAgainstRisk
  <1>1. SessionInv => NoEntryAgainstRisk
    <2> SUFFICES ASSUME SessionInv, NEW r \in reports,
                        NEW i \in DOMAIN r.state.book.fills, r.state.book.fills[i].side = "buy"
                 PROVE  EntrySound(r.state.book.fills, r.state.book.closes, Started(r.state), i)
      BY DEF NoEntryAgainstRisk, EntrySound
    <2>1. PICK first : first = FirstDay(r.state, r.cycle_end + 1)
      OBVIOUS
    <2>2. market \in Seq(Bars) /\ ReportSound(r, market)
      BY DEF SessionInv
    <2>3. /\ r.state.book.fills \in Seq(Fills) /\ Started(r.state) = first
          /\ Ledger(r.state.book, market, r.state.signals, first, r.cycle_end, r.state.sequence)
      BY <2>1, <2>2, ReportSays
    <2>4. i \in 1 .. Len(r.state.book.fills)
      BY <2>3
    <2> QED
      BY <2>3, <2>4 DEF Ledger, Entries
  <1> QED
    BY <1>1, SessionInvariant, PTL

\* A position still open at a report's close was touched on no day by its
\* stop-loss or its trailing stop, in whichever cycles it was held and reloaded
\* (risk/manager.py protective exits over state_from_report).
THEOREM SessionHonoursStops == Spec => []OpenPositionSurvivedItsStops
  <1>1. SessionInv => OpenPositionSurvivedItsStops
    <2> SUFFICES ASSUME SessionInv, NEW r \in reports, NEW held, held = r.state.book.position,
                        held # None, NEW day \in held.entry_day .. r.cycle_end
                 PROVE  /\ \A f \in Limit("stop_loss") :
                             market[day].low > Of(held.entry_price, One - f)
                        /\ \A f \in Limit("trailing_stop") :
                             market[day].low > Of(Max(Highs(held, market, day)), One - f)
      BY DEF OpenPositionSurvivedItsStops, Highs
    <2>1. ReportSound(r, market)
      BY DEF SessionInv
    <2>2. Stops(r.state.book, market, r.cycle_end + 1) /\ r.cycle_end \in Nat
      BY <2>1 DEF ReportSound, StateSound
    <2>3. day \in held.entry_day .. (r.cycle_end + 1 - 1)
      BY <2>2
    <2> QED
      BY <2>2, <2>3 DEF Stops
  <1> QED
    BY <1>1, SessionInvariant, PTL

\* However cycles were batched, raced, failed and were retried, the book of a
\* report is the one the backtest of the session's signals computes in one pass,
\* when the risk manager allows one position (paper_trading/engine.py against
\* backtesting/risk/portfolio.py).
THEOREM SessionMatchesBacktest == ASSUME OnePosition PROVE Spec => []PaperMatchesBacktest
  <1>1. SessionInv => PaperMatchesBacktest
    <2> SUFFICES ASSUME SessionInv, NEW r \in reports
                 PROVE  /\ \A i \in DOMAIN r.state.signals :
                             r.state.signals[i].day = Started(r.state) + i - 1
                        /\ Last(r.state.signals).day = r.cycle_end
                        /\ Simulate(market, r.state.signals) = r.state.book
      BY DEF PaperMatchesBacktest
    <2>1. PICK first : first = FirstDay(r.state, r.cycle_end + 1)
      OBVIOUS
    <2>2. market \in Seq(Bars) /\ ReportSound(r, market)
      BY DEF SessionInv
    <2>3. /\ r.state \in States /\ Started(r.state) = first
          /\ Len(r.state.signals) = r.state.sequence /\ r.state.signals \in Seq(Signals)
          /\ \A i \in 1 .. r.state.sequence : r.state.signals[i].day = first + i - 1
          /\ r.state.signals[r.state.sequence].day = r.cycle_end
      BY <2>1, <2>2, ReportSays
    <2>4. Simulate(market, r.state.signals) = r.state.book
      <3>1. Traced(r.state, market)
        BY <2>2, OnePosition DEF ReportSound, StateSound
      <3> QED
        BY <2>3, <3>1, TracedSimulates
    <2>5. Last(r.state.signals).day = r.cycle_end
      BY <2>3 DEF Last
    <2> QED
      BY <2>3, <2>4, <2>5
  <1> QED
    BY <1>1, SessionInvariant, PTL
=============================================================================
