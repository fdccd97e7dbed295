------------------------------ MODULE TickPrices ------------------------------
(***************************************************************************)
(* The prices of one ticker's ticks (generation/stock_producer.py,         *)
(* _fetch_tick) and what TickEvent (generation/schema/events.py) accepts,  *)
(* in parts of a cent as small as one likes.  A fetch that fails simulates *)
(* a tick from the cached price, which the last fetch, live or simulated,  *)
(* has left, also when TickEvent then refused the live tick.  A simulated  *)
(* tick that is refused too raises out of the loop and ends the ticker's   *)
(* thread.  A live price that is not a number passes price <= 0.           *)
(***************************************************************************)
EXTENDS Integers

CONSTANTS Cent,         \* parts of a cent
          Whole,        \* the random change is in this many parts of the price
          NoNumber,     \* not a number
          FirstPrices,  \* _fallback_prices, and 100.0 for other tickers
          LivePrices,   \* last prices that yfinance answers, none of zero or less
          Quotes,       \* its year_high, year_low and previous_close; never 0, which is replaced
          Moves,        \* the random change
          MaxFetches    \* bound: fetches of a behaviour

\* A fallback price is a cent or more; a change is at most half a percent (stock_producer.py:43-48, :87).
ASSUME PriceConstants == /\ Cent \in Nat \ {0} /\ Whole \in Nat \ {0} /\ Whole % 500 = 0
                         /\ NoNumber \notin Int
                         /\ \A p \in FirstPrices : p \in Nat /\ p >= Cent
                         /\ \A p \in LivePrices : p = NoNumber \/ (p \in Nat /\ p > 0)
                         /\ \A q \in Quotes : q = NoNumber \/ q \in Int
                         /\ \A m \in Moves : m \in Int /\ -Whole <= 200 * m /\ 200 * m <= Whole

VARIABLES cached,    \* the ticker's entry of _fallback_prices
          live,      \* the last live price that was cached; 0 before the first
          lastTick,  \* the tick that the last fetch made
          ended,     \* the thread ended with an exception
          fetches

priceVars == <<cached, live, lastTick, ended, fetches>>

\* Python's max(a, b) and min(a, b): a comparison with NaN is false, and the first stays.
Higher(a, b) == IF a # NoNumber /\ b # NoNumber /\ b > a THEN b ELSE a
Lower(a, b)  == IF a # NoNumber /\ b # NoNumber /\ b < a THEN b ELSE a

\* Whole cents of a price, and the value of the rest after a change.
Cents(price) == price \div Cent
Rest(price, change) == (price - Cent * Cents(price)) * Whole + price * change

\* Mutant of Rounded: cents are cut off instead of rounded.
RoundedCut(price, change) ==
  IF price = NoNumber THEN {NoNumber}
  ELSE {Cent * (Cents(price) + Rest(price, change) \div (Whole * Cent))}

\* round(price * (1 + change), 2): whole cents.  Half a cent goes up or down, as its float lies.
Rounded(price, change) ==
  IF price = NoNumber THEN {NoNumber}
  ELSE LET twice == 2 * Rest(price, change) + Whole * Cent
       IN  {Cent * (Cents(price) + (twice - tie) \div (2 * (Whole * Cent))) : tie \in {0, 1}}

PriceFields == {"open", "high", "low", "close"}
NoTick == [open |-> 0, high |-> 0, low |-> 0, close |-> 0]
IsNumber(tick) == \A f \in PriceFields : tick[f] # NoNumber

\* TickEvent: every price is above zero.  Whether NaN counts as that is left open.  high_gte_low
\* sees no low: fields are validated in their order, and low comes after high.
Verdicts(tick) == IF \E f \in PriceFields : tick[f] # NoNumber /\ tick[f] <= 0 THEN {FALSE}
                  ELSE IF IsNumber(tick) THEN {TRUE} ELSE BOOLEAN

LiveTick(price, prev, high, low) ==
  [open |-> prev, high |-> Higher(Higher(prev, price), high),
   low |-> Lower(Lower(prev, price), low), close |-> price]

PriceInit == /\ cached \in FirstPrices
             /\ live = 0
             /\ lastTick = NoTick
             /\ ended = FALSE
             /\ fetches = 0

\* 0.002, which the high and the low of a simulated tick are off the prices.
Spread == Whole \div 500

\* The new price is cached before TickEvent sees it.
Simulates(base) ==
  \E move \in Moves, open \in Rounded(base, 0) : \E new \in Rounded(base, move) :
  \E high \in Rounded(Higher(base, new), Spread), low \in Rounded(Lower(base, new), -Spread) :
    LET tick == [open |-> open, high |-> high, low |-> low, close |-> new]
    IN  \E taken \in Verdicts(tick) :
          /\ cached' = new
          /\ lastTick' = IF taken THEN tick ELSE NoTick
          /\ ended' = ~taken

\* yfinance answers, and TickEvent takes the tick or refuses it.
FetchAnswered ==
  \E price \in LivePrices, prev, high, low \in Quotes :
    LET tick == LiveTick(price, prev, high, low)
    IN  /\ live' = price
        /\ \E taken \in Verdicts(tick) :
             \/ taken /\ cached' = price /\ lastTick' = tick /\ UNCHANGED ended
             \/ ~taken /\ Simulates(price)

\* yfinance raises, its price is not above zero, or its volume is not a number.
FetchFails == Simulates(cached) /\ UNCHANGED live

PriceNext == /\ ~ended
             /\ fetches < MaxFetches
             /\ fetches' = fetches + 1
             /\ FetchAnswered \/ FetchFails

PriceSpec == PriceInit /\ [][PriceNext]_priceVars

-----------------------------------------------------------------------------
\* What a consumer of ticks counts on.
Ordered(tick) ==
  /\ \A f \in PriceFields : tick[f] > 0
  /\ \A p \in {tick.open, tick.close} : tick.low <= p /\ p <= tick.high

\* A price that a change of half a percent can bring down to half a cent or less.
FallsToHalfACent(price) == price > 0 /\ 199 * price <= 100 * Cent

(* Whatever a fetch met, its tick closes on the price that the next one is *)
(* simulated from, and unless a field is not a number it has its low and   *)
(* high around its open and close, which TickEvent does not look at; a     *)
(* price that is no number comes from the last live one, and stays cached  *)
(* until the next; only such a one, or a live price that falls to half a   *)
(* cent, ends a thread, never simulation however long it goes on; and      *)
(* simulated prices under a dollar never move again                        *)
(* (stock_producer.py:57-102, events.py:25-40).                            *)
PricesSound ==
  /\ lastTick # NoTick => /\ lastTick.close = cached
                          /\ IsNumber(lastTick) => Ordered(lastTick)
  /\ cached = NoNumber => live = NoNumber
  /\ ended => live = NoNumber \/ FallsToHalfACent(live)
  /\ cached # NoNumber /\ cached = Cent * Cents(cached) /\ cached < 100 * Cent =>
       \A m \in Moves : Rounded(cached, m) = {cached}
=============================================================================
