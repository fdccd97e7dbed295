------------------------------ MODULE Dashboard ------------------------------
(***************************************************************************)
(* The dashboard page (serving/api/static/app.js): one event loop on which *)
(* the start-up, the polls of setInterval and the handler of the ticker    *)
(* selector run as coroutines.  Each gives up the loop at every fetch and  *)
(* goes on when its answer arrives, whatever the page shows by then.       *)
(*                                                                         *)
(* External: the network, which answers in any order, and the API, whose   *)
(* rows satisfy low <= close <= high and whose histories are never empty.  *)
(***************************************************************************)
EXTENDS Integers, SequencesExt

CONSTANTS
  Tickers,        \* tickers of the selector, and of GET /tickers
  DefaultTicker,  \* "AAPL"
  MaxPrice,       \* prices are 1..MaxPrice
  MaxOverlap,     \* bound: polls that are under way at once
  MaxSelections   \* bound: changes of the selector

ASSUME TickersAssumption == DefaultTicker \in Tickers
ASSUME DashboardBoundsAssumption ==
  MaxPrice \in Nat /\ MaxOverlap \in Nat /\ MaxSelections \in Nat

VARIABLES
  selected,     \* what the selector shows
  active,       \* activeTicker
  ready,        \* initApp has registered the interval and the handler
  waiting,      \* Seq(Coroutines): in the order in which they sent their requests
  chart,        \* historyCache: none, or whose rows they are and the last of them
  metric,       \* the ticker of the metrics, or none
  cached,       \* tickers that have an entry in tickerPriceData
  selections,   \* changes of the selector so far
  overtaken,    \* history: some answer overtook one that was asked for earlier
  lost          \* history: some history could not be fetched

shown == <<chart, metric, cached>>
vars  == <<selected, active, ready, waiting, shown, selections, overtaken, lost>>

Candles == {k \in [low : 1 .. MaxPrice, close : 1 .. MaxPrice, high : 1 .. MaxPrice] :
              k.low <= k.close /\ k.close <= k.high}

\* Of a chart only the last candle ever changes; from: the tickers it mixes.
Charts == [series : Tickers, last : [low : 1 .. MaxPrice, close : 1 .. MaxPrice,
                                     high : 1 .. MaxPrice], from : SUBSET Tickers]

\* Who waits for which request, for which ticker, and the tape's tickers to come.
Coroutines ==
  [run : {"init", "poll", "select"}, for : {"health", "tickers", "price", "history", "latest"},
   ticker : Tickers, tape : SUBSET Tickers]

Coroutine(run, for, t, tape) == [run |-> run, for |-> for, ticker |-> t, tape |-> tape]

Init ==
  /\ selected = DefaultTicker
  /\ active = DefaultTicker
  /\ ready = FALSE
  /\ waiting = <<Coroutine("init", "health", DefaultTicker, {})>>
  /\ chart = {}
  /\ metric = {}
  /\ cached = {}
  /\ selections = 0
  /\ overtaken = FALSE
  /\ lost = FALSE

-----------------------------------------------------------------------------
(* Timer and user                                                          *)

\* setInterval does not wait for the poll it started before.
Tick ==
  /\ ready
  /\ Cardinality({i \in DOMAIN waiting : waiting[i].run = "poll"}) < MaxOverlap
  /\ waiting' = Append(waiting, Coroutine("poll", "health", DefaultTicker, {}))
  /\ UNCHANGED <<selected, active, ready, shown, selections, overtaken, lost>>

\* Mutant of Select: activeTicker keeps its value.
SelectKeepsActive(t) ==
  /\ t # selected
  /\ selections < MaxSelections
  /\ selections' = selections + 1
  /\ selected' = t
  /\ waiting' = IF ready THEN Append(waiting, Coroutine("select", "history", t, {}))
                         ELSE waiting
  /\ UNCHANGED <<active, ready, shown, overtaken, lost>>

\* Mutant of Select: leaves the chart to the next poll.
SelectFetchesNothing(t) ==
  /\ t # selected
  /\ selections < MaxSelections
  /\ selections' = selections + 1
  /\ selected' = t
  /\ active' = IF ready THEN t ELSE active
  /\ UNCHANGED <<ready, waiting, shown, overtaken, lost>>

\* The change event has a handler only once initApp has registered it.
Select(t) ==
  /\ t # selected
  /\ selections < MaxSelections
  /\ selections' = selections + 1
  /\ selected' = t
  /\ IF ready
     THEN /\ active' = t
          /\ waiting' = Append(waiting, Coroutine("select", "history", t, {}))
     ELSE UNCHANGED <<active, waiting>>
  /\ UNCHANGED <<ready, shown, overtaken, lost>>

-----------------------------------------------------------------------------
(* Answers                                                                 *)

Waits(i, for) == i \in DOMAIN waiting /\ waiting[i].for = for

\* The coroutine at i has its answer and sends the requests of next.
Resumes(i, next) ==
  /\ waiting' = RemoveAt(waiting, i) \o next
  /\ overtaken' = (overtaken \/ i # 1)
  /\ UNCHANGED <<selected, active, selections>>

\* After the tape: the ticker is the one that is active now.
AfterTape(k) ==
  <<Coroutine(k.run, IF k.run = "init" THEN "history" ELSE "latest", active, {})>>

\* updateTickerTape asks for the prices that are not cached, one by one.
TapeRequests(k, tape, have) ==
  IF tape \subseteq have
  THEN {AfterTape(k)}
  ELSE {<<Coroutine(k.run, "price", t, tape \ {t})>> : t \in tape \ have}

\* updateHealth catches its own errors.
AnswerHealth(i) ==
  /\ Waits(i, "health")
  /\ Resumes(i, <<[waiting[i] EXCEPT !.for = "tickers"]>>)
  /\ UNCHANGED <<ready, shown, lost>>

AnswerTickers(i) ==
  /\ Waits(i, "tickers")
  /\ \E next \in TapeRequests(waiting[i], Tickers, cached) : Resumes(i, next)
  /\ UNCHANGED <<ready, shown, lost>>

\* updateTickerTape catches its own errors as well.
TickersFail(i) ==
  /\ Waits(i, "tickers")
  /\ Resumes(i, AfterTape(waiting[i]))
  /\ UNCHANGED <<ready, shown, lost>>

\* A price that cannot be fetched is shown from a table and not cached.
AnswerPrice(i) ==
  /\ Waits(i, "price")
  /\ cached' \in {cached, cached \cup {waiting[i].ticker}}
  /\ \E next \in TapeRequests(waiting[i], waiting[i].tape, cached') : Resumes(i, next)
  /\ UNCHANGED <<ready, chart, metric, lost>>

\* updateUIWithLatest.
ShowLatest(t) ==
  /\ metric' = {t}
  /\ cached' = cached \cup {t}

\* initApp goes on to register its handlers.
Finishes(i) ==
  /\ Resumes(i, <<>>)
  /\ ready' = (ready \/ waiting[i].run = "init")

AnswerHistory(i) ==
  /\ Waits(i, "history")
  /\ \E k \in Candles :
       chart' = {[series |-> waiting[i].ticker, last |-> k, from |-> {waiting[i].ticker}]}
  /\ ShowLatest(waiting[i].ticker)
  /\ Finishes(i)
  /\ UNCHANGED lost

\* fetchHistory catches the error: the chart stays as it is.
HistoryFails(i) ==
  /\ Waits(i, "history")
  /\ lost' = TRUE
  /\ Finishes(i)
  /\ UNCHANGED shown

Higher(a, b) == IF a > b THEN a ELSE b
Lower(a, b) == IF a < b THEN a ELSE b

\* Mutant of Merged: the range of the day is not widened.
MergedClose(h, t, k) ==
  [h EXCEPT !.from = @ \cup {t}, !.last.close = k.close]

\* The latest price k of ticker t, merged into the last candle of the chart.
Merged(h, t, k) ==
  [h EXCEPT !.from = @ \cup {t},
            !.last = [low   |-> Lower(@.low, k.low),
                      close |-> k.close,
                      high  |-> Higher(@.high, k.high)]]

\* fetchLatestPrice; an empty historyCache leaves the metrics alone too.
AnswerLatest(i) ==
  /\ Waits(i, "latest")
  /\ IF chart = {}
     THEN UNCHANGED shown
     ELSE /\ \E k \in Candles : chart' = {Merged(h, waiting[i].ticker, k) : h \in chart}
          /\ ShowLatest(waiting[i].ticker)
  /\ Finishes(i)
  /\ UNCHANGED lost

LatestFails(i) ==
  /\ Waits(i, "latest")
  /\ Finishes(i)
  /\ UNCHANGED <<shown, lost>>

-----------------------------------------------------------------------------

Answer(i) ==
  \/ AnswerHealth(i)
  \/ AnswerTickers(i)
  \/ TickersFail(i)
  \/ AnswerPrice(i)
  \/ AnswerHistory(i)
  \/ HistoryFails(i)
  \/ AnswerLatest(i)
  \/ LatestFails(i)

Next ==
  \/ Tick
  \/ \E t \in Tickers : Select(t)
  \/ \E i \in DOMAIN waiting : Answer(i)

Spec == Init /\ [][Next]_vars

\* Every request is answered or fails in the end (the browser gives it up).
FairSpec == Spec /\ WF_vars(Answer(1))

-----------------------------------------------------------------------------
(* Properties                                                              *)

TypeOK ==
  /\ selected \in Tickers
  /\ active \in Tickers
  /\ ready \in BOOLEAN
  /\ waiting \in Seq(Coroutines)
  /\ \A h \in chart : h \in Charts
  /\ metric \subseteq Tickers
  /\ cached \subseteq Tickers
  /\ selections \in 0 .. MaxSelections
  /\ overtaken \in BOOLEAN
  /\ lost \in BOOLEAN

Undisturbed == ~overtaken /\ ~lost

\* The page never mixes tickers while the network answers in order and delivers
\* every history: the chart, the candle that each poll changes and the metrics
\* beside it are of one ticker, however polls and selections overlap.
OneTickerShown ==
  Undisturbed => \A h \in chart : h.from = {h.series} /\ metric = {h.series}

\* Whatever is merged into it, in whatever order, the last candle stays a candle.
CandleSound == \A h \in chart : h.last \in Candles

\* The places before i in the queue q at which histories are asked for.
HistoriesBefore(q, i) == {j \in 1 .. i - 1 : q[j].for = "history"}

\* When all of q before i is answered, in order, the chart c is that of t.
Finds(q, c, i, t) ==
  IF HistoriesBefore(q, i) = {}
  THEN \A h \in c : h.series = t
  ELSE \E j \in HistoriesBefore(q, i) :
         q[j].ticker = t /\ \A k \in HistoriesBefore(q, i) : k <= j

\* A latest price finds the chart of its own ticker, and so will the next one asked for.
InOrder(q, c, t) ==
  /\ \A i \in DOMAIN q : q[i].for = "latest" => Finds(q, c, i, q[i].ticker)
  /\ Finds(q, c, Len(q) + 1, t)

\* Why the page mixes no tickers.
RequestsInOrder == Undisturbed => InOrder(waiting, chart, active)

\* The inductive invariant.
PageInv == TypeOK /\ CandleSound /\ RequestsInOrder /\ OneTickerShown

\* The page settles on the active ticker.
SettlesOnActive ==
  <>[](Undisturbed => \A h \in chart : h.series = active)
=============================================================================
