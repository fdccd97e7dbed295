---------------------------- MODULE DashboardProof ----------------------------
(***************************************************************************)
(* Proofs about Dashboard, for any tickers, prices and overlap of polls.   *)
(***************************************************************************)
EXTENDS Dashboard, SequenceTheorems, TLAPS

-----------------------------------------------------------------------------
(* The queue of requests                                                   *)

\* What a coroutine that resumes may ask for next, when a is the active ticker.
Requests(a) == {k \in Coroutines : k.for \in {"latest", "history"} => k.ticker = a}

\* RemoveAt leaves out one place.
LEMMA RemoveAtType ==
  \A q \in Seq(Coroutines) : \A i \in DOMAIN q : RemoveAt(q, i) \in Seq(Coroutines)
BY DEF RemoveAt

\* Taking the first element out of a queue moves the others up.
LEMMA RemoveAtOne ==
  \A q \in Seq(Coroutines) :
     q # <<>> => /\ Len(RemoveAt(q, 1)) = Len(q) - 1
                 /\ \A j \in 1 .. Len(q) - 1 : RemoveAt(q, 1)[j] = q[j + 1]
<1>. SUFFICES ASSUME NEW q \in Seq(Coroutines), q # <<>>
              PROVE  /\ Len(RemoveAt(q, 1)) = Len(q) - 1
                     /\ \A j \in 1 .. Len(q) - 1 : RemoveAt(q, 1)[j] = q[j + 1]
  OBVIOUS
<1>. DEFINE none == SubSeq(q, 1, 0)
            rest == SubSeq(q, 2, Len(q))
<1>1. none \in Seq(Coroutines) /\ Len(none) = 0
  OBVIOUS
<1>2. /\ rest \in Seq(Coroutines)
      /\ Len(rest) = Len(q) - 1
      /\ \A j \in 1 .. Len(q) - 1 : rest[j] = q[j + 1]
  <2>1. Len(q) \in Nat \ {0} /\ DOMAIN q = 1 .. Len(q)
    OBVIOUS
  <2>. QED  BY <2>1, SubSeqProperties
<1>3. RemoveAt(q, 1) = none \o rest
  BY DEF RemoveAt
<1>. HIDE DEF none, rest
<1>. QED  BY <1>1, <1>2, <1>3

\* A request sent for the active ticker finds its chart, and leaves it to the next.
LEMMA AppendInOrder ==
  ASSUME NEW a \in Tickers, NEW q \in Seq(Coroutines), NEW c, InOrder(q, c, a),
         NEW k \in Coroutines, NEW b \in Tickers,
         k.for \in {"latest", "history"} => k.ticker = b,
         k.for # "history" => a = b
  PROVE  InOrder(Append(q, k), c, b)
<1>. DEFINE r == Append(q, k)
<1>1. /\ r \in Seq(Coroutines)
      /\ Len(r) = Len(q) + 1
      /\ \A j \in 1 .. Len(q) : r[j] = q[j]
      /\ r[Len(q) + 1] = k
  OBVIOUS
<1>. HIDE DEF r
<1>2. ASSUME NEW i \in 1 .. Len(q) + 1
      PROVE  HistoriesBefore(r, i) = HistoriesBefore(q, i)
  BY <1>1 DEF HistoriesBefore
<1>3. ASSUME NEW i \in 1 .. Len(q) + 1, NEW t, Finds(q, c, i, t)
      PROVE  Finds(r, c, i, t)
  <2>1. \A j \in HistoriesBefore(q, i) : r[j] = q[j]
    BY <1>1 DEF HistoriesBefore
  <2>. QED  BY <1>2, <1>3, <2>1 DEF Finds
<1>4. ASSUME NEW i \in DOMAIN r, r[i].for = "latest"
      PROVE  Finds(r, c, i, r[i].ticker)
  <2>1. CASE i \in DOMAIN q
    BY <1>1, <1>3, <1>4, <2>1 DEF InOrder
  <2>2. CASE i = Len(q) + 1
    BY <1>1, <1>3, <1>4, <2>2 DEF InOrder
  <2>. QED  BY <1>1, <2>1, <2>2
<1>5. Finds(r, c, Len(q) + 2, b)
  <2>1. CASE k.for = "history"
    <3>1. Len(q) + 1 \in HistoriesBefore(r, Len(q) + 2)
      BY <1>1, <2>1 DEF HistoriesBefore
    <3>2. \A j \in HistoriesBefore(r, Len(q) + 2) : j <= Len(q) + 1
      BY DEF HistoriesBefore
    <3>. QED  BY <1>1, <2>1, <3>1, <3>2 DEF Finds
  <2>2. CASE k.for # "history"
    <3>1. HistoriesBefore(r, Len(q) + 2) = HistoriesBefore(r, Len(q) + 1)
      BY <1>1, <2>2 DEF HistoriesBefore
    <3>2. Finds(r, c, Len(q) + 1, b)
      BY <1>3, <2>2 DEF InOrder
    <3>. QED  BY <3>1, <3>2 DEF Finds
  <2>. QED  BY <2>1, <2>2
<1>. QED  BY <1>1, <1>4, <1>5 DEF InOrder, r

\* The answer to the first request: a history makes the chart that of its ticker,
\* every other answer leaves the chart's ticker alone.
LEMMA AnswerInOrder ==
  ASSUME NEW a \in Tickers, NEW q \in Seq(Coroutines), NEW c, InOrder(q, c, a),
         q # <<>>, NEW d,
         \A h \in d : IF q[1].for = "history" THEN h.series = q[1].ticker
                                              ELSE \E g \in c : h.series = g.series
  PROVE  InOrder(RemoveAt(q, 1), d, a)
<1>. DEFINE r == RemoveAt(q, 1)
<1>1. /\ r \in Seq(Coroutines)
      /\ Len(r) = Len(q) - 1
      /\ \A j \in 1 .. Len(q) - 1 : r[j] = q[j + 1]
  <2>1. 1 \in DOMAIN q
    OBVIOUS
  <2>2. r \in Seq(Coroutines)
    BY <2>1, RemoveAtType
  <2>. QED  BY <2>2, RemoveAtOne
<1>. HIDE DEF r
<1>2. ASSUME NEW i \in 1 .. Len(q), NEW t, Finds(q, c, i + 1, t)
      PROVE  Finds(r, d, i, t)
  <2>1. /\ \A j \in HistoriesBefore(r, i) : j + 1 \in HistoriesBefore(q, i + 1) /\ r[j] = q[j + 1]
        /\ \A j \in HistoriesBefore(q, i + 1) : j # 1 => j - 1 \in HistoriesBefore(r, i)
    BY <1>1 DEF HistoriesBefore
  <2>2. 1 \in HistoriesBefore(q, i + 1) <=> q[1].for = "history"
    BY DEF HistoriesBefore
  <2>3. CASE HistoriesBefore(q, i + 1) = {}
    BY <1>2, <2>1, <2>2, <2>3 DEF Finds
  <2>4. CASE HistoriesBefore(q, i + 1) # {}
    <3>1. PICK j \in HistoriesBefore(q, i + 1) :
            q[j].ticker = t /\ \A k \in HistoriesBefore(q, i + 1) : k <= j
      BY <1>2, <2>4 DEF Finds
    <3>2. HistoriesBefore(q, i + 1) \subseteq 1 .. i /\ HistoriesBefore(r, i) \subseteq 1 .. i - 1
      BY DEF HistoriesBefore
    <3>3. CASE j = 1
      <4>1. HistoriesBefore(r, i) = {}
        BY <2>1, <3>1, <3>2, <3>3
      <4>. QED  BY <2>2, <3>1, <3>3, <4>1 DEF Finds
    <3>4. CASE j # 1
      <4>1. j - 1 \in HistoriesBefore(r, i) /\ r[j - 1] = q[j]
        BY <1>1, <2>1, <3>2, <3>4
      <4>2. \A k \in HistoriesBefore(r, i) : k <= j - 1
        BY <2>1, <3>1, <3>2
      <4>. QED  BY <3>1, <4>1, <4>2 DEF Finds
    <3>. QED  BY <3>3, <3>4
  <2>. QED  BY <2>3, <2>4
<1>3. ASSUME NEW i \in DOMAIN r, r[i].for = "latest"
      PROVE  Finds(r, d, i, r[i].ticker)
  BY <1>1, <1>2, <1>3 DEF InOrder
<1>4. Finds(r, d, Len(r) + 1, a)
  BY <1>1, <1>2 DEF InOrder
<1>. QED  BY <1>3, <1>4 DEF InOrder, r

-----------------------------------------------------------------------------
(* The page                                                                *)

\* The merge of a latest price widens the day's range, so that a candle stays one.
LEMMA MergeKeepsCandle ==
  ASSUME NEW h \in Charts, h.last \in Candles, NEW t \in Tickers, NEW k \in Candles
  PROVE  /\ Merged(h, t, k) \in Charts
         /\ Merged(h, t, k).last \in Candles
         /\ Merged(h, t, k).series = h.series
         /\ Merged(h, t, k).from = h.from \cup {t}
<1>. DEFINE c == [low   |-> Lower(h.last.low, k.low), close |-> k.close,
                  high  |-> Higher(h.last.high, k.high)]
<1>1. c \in Candles
  BY DashboardBoundsAssumption DEF Candles, Lower, Higher
<1>2. Merged(h, t, k) = [series |-> h.series, last |-> c, from |-> h.from \cup {t}]
  <2>1. Merged(h, t, k) = [h EXCEPT !.from = h.from \cup {t}, !.last = c]
    BY DEF Merged
  <2>. HIDE DEF c
  <2>. QED  BY <2>1 DEF Charts
<1>. QED  BY <1>1, <1>2 DEF Charts, Candles

\* What the coroutine of an answered request asks for next.
LEMMA NextRequests ==
  ASSUME TypeOK, NEW k \in Coroutines, k.for \in {"health", "tickers", "price"},
         NEW tape \in SUBSET Tickers, NEW have, NEW next \in TapeRequests(k, tape, have)
  PROVE  \E r \in Requests(active) : next = <<r>>
<1>1. Coroutine(k.run, IF k.run = "init" THEN "history" ELSE "latest", active, {})
        \in Requests(active)
  BY DEF TypeOK, Coroutine, Coroutines, Requests
<1>2. \A t \in tape : Coroutine(k.run, "price", t, tape \ {t}) \in Requests(active)
  BY DEF Coroutine, Coroutines, Requests
<1>. QED  BY <1>1, <1>2 DEF TapeRequests, AfterTape

\* The queue after the answer at i.
LEMMA ResumeKeepsOrder ==
  ASSUME TypeOK, RequestsInOrder, NEW i \in DOMAIN waiting, NEW next, Resumes(i, next),
         next = <<>> \/ \E r \in Requests(active) : next = <<r>>,
         lost \in BOOLEAN, lost => lost',
         Undisturbed' => \A h \in chart' :
           IF waiting[i].for = "history" THEN h.series = waiting[i].ticker
                                         ELSE \E g \in chart : h.series = g.series
  PROVE  waiting' \in Seq(Coroutines) /\ RequestsInOrder'
<1>. DEFINE rest == RemoveAt(waiting, i)
<1>1. rest \in Seq(Coroutines)
  BY RemoveAtType DEF TypeOK
<1>2. waiting' = rest \/ \E r \in Requests(active) : waiting' = Append(rest, r)
  <2>1. waiting' = rest \o next
    BY DEF Resumes
  <2>2. rest \o <<>> = rest /\ \A r \in Coroutines : rest \o <<r>> = Append(rest, r)
    BY <1>1
  <2>. HIDE DEF rest
  <2>. QED  BY <2>1, <2>2 DEF Requests
<1>3. waiting' \in Seq(Coroutines)
  <2>. HIDE DEF rest
  <2>. QED  BY <1>1, <1>2 DEF Requests
<1>4. ASSUME Undisturbed' PROVE InOrder(waiting, chart, active)' 
  <2>1. i = 1 /\ Undisturbed /\ active' = active
    BY <1>4 DEF Resumes, Undisturbed, TypeOK
  <2>2. InOrder(waiting, chart, active) /\ waiting # <<>>
    BY <2>1 DEF RequestsInOrder
  <2>3. InOrder(rest, chart', active)
    BY <1>4, <2>1, <2>2, AnswerInOrder DEF TypeOK
  <2>. HIDE DEF rest
  <2>4. ASSUME NEW r \in Requests(active) PROVE InOrder(Append(rest, r), chart', active)
    BY <1>1, <2>3, <2>4, AppendInOrder DEF TypeOK, Requests
  <2>. QED  BY <1>2, <2>1, <2>3, <2>4
<1>. QED  BY <1>3, <1>4 DEF RequestsInOrder

\* Every answer sends one request, for the active ticker, or none.
LEMMA AnswerResumes ==
  ASSUME TypeOK, NEW i \in DOMAIN waiting, Answer(i)
  PROVE  \E next : /\ Resumes(i, next)
                   /\ next = <<>> \/ \E r \in Requests(active) : next = <<r>>
<1>. waiting[i] \in Coroutines
  BY DEF TypeOK
<1>1. CASE AnswerHealth(i)
  <2>1. [waiting[i] EXCEPT !.for = "tickers"] \in Requests(active)
    BY DEF Coroutines, Requests
  <2>. QED  BY <1>1, <2>1 DEF AnswerHealth
<1>2. CASE AnswerTickers(i)
  BY <1>2, NextRequests DEF AnswerTickers, Waits
<1>3. CASE TickersFail(i)
  BY <1>3, NextRequests DEF TickersFail, Waits, TapeRequests
<1>4. CASE AnswerPrice(i)
  <2>1. waiting[i].tape \in SUBSET Tickers
    BY DEF Coroutines
  <2>. QED  BY <1>4, <2>1, NextRequests DEF AnswerPrice, Waits
<1>5. CASE AnswerHistory(i) \/ HistoryFails(i) \/ AnswerLatest(i) \/ LatestFails(i)
  BY <1>5 DEF AnswerHistory, HistoryFails, AnswerLatest, LatestFails, Finishes
<1>. QED  BY <1>1, <1>2, <1>3, <1>4, <1>5 DEF Answer

\* What an answer does to the chart and to what is shown beside it.
LEMMA AnswerShows ==
  ASSUME PageInv, NEW i \in DOMAIN waiting, Answer(i)
  PROVE  /\ \A h \in chart' : h \in Charts /\ h.last \in Candles
         /\ metric' \subseteq Tickers /\ cached' \subseteq Tickers
         /\ ready' \in BOOLEAN /\ lost' \in BOOLEAN /\ (lost => lost')
         /\ Undisturbed' => \A h \in chart' :
              /\ IF waiting[i].for = "history" THEN h.series = waiting[i].ticker
                                               ELSE \E g \in chart : h.series = g.series
              /\ h.from = {h.series} /\ metric' = {h.series}
<1>. DEFINE t == waiting[i].ticker
<1>1. waiting[i] \in Coroutines /\ t \in Tickers
  <2>1. waiting[i] \in Coroutines
    BY DEF PageInv, TypeOK
  <2>. QED  BY <2>1 DEF Coroutines
<1>2. CASE AnswerHistory(i)
  <2>1. PICK k \in Candles : chart' = {[series |-> t, last |-> k, from |-> {t}]}
    BY <1>2 DEF AnswerHistory
  <2>. QED  BY <1>1, <1>2, <2>1 DEF AnswerHistory, Waits, ShowLatest, Finishes, Charts, Candles,
                                   PageInv, TypeOK
<1>3. CASE AnswerLatest(i) /\ chart # {}
  <2>1. PICK k \in Candles : chart' = {Merged(h, t, k) : h \in chart}
    BY <1>3 DEF AnswerLatest
  <2>2. /\ waiting[i].for = "latest" /\ metric' = {t} /\ cached' = cached \cup {t}
        /\ ready' \in BOOLEAN /\ lost' = lost
    BY <1>3 DEF AnswerLatest, Waits, ShowLatest, Finishes, PageInv, TypeOK
  <2>3. \A h \in chart : /\ h \in Charts /\ h.last \in Candles
                          /\ Merged(h, t, k) \in Charts
                          /\ Merged(h, t, k).last \in Candles
                          /\ Merged(h, t, k).series = h.series
                          /\ Merged(h, t, k).from = h.from \cup {t}
    BY <1>1, MergeKeepsCandle DEF PageInv, TypeOK, CandleSound
  <2>4. Undisturbed' => i = 1 /\ Undisturbed
    <3>1. overtaken \in BOOLEAN /\ overtaken' = (overtaken \/ i # 1)
      BY <1>3 DEF AnswerLatest, Finishes, Resumes, PageInv, TypeOK
    <3>. QED  BY <2>2, <3>1 DEF Undisturbed
  <2>5. Undisturbed' => \A h \in chart : h.series = t
    BY <2>2, <2>4 DEF PageInv, RequestsInOrder, InOrder, Finds, HistoriesBefore
  <2>6. Undisturbed => \A h \in chart : h.from = {h.series}
    BY DEF PageInv, OneTickerShown
  <2>. QED  BY <1>1, <2>1, <2>2, <2>3, <2>4, <2>5, <2>6 DEF PageInv, TypeOK
<1>4. CASE AnswerPrice(i)
  BY <1>1, <1>4 DEF AnswerPrice, Resumes, Waits, Undisturbed, PageInv, TypeOK, CandleSound,
                    OneTickerShown
<1>5. CASE AnswerHealth(i) \/ AnswerTickers(i) \/ TickersFail(i)
  BY <1>5 DEF AnswerHealth, AnswerTickers, TickersFail, Resumes, Waits, shown, Undisturbed,
              PageInv, TypeOK, CandleSound, OneTickerShown
<1>6. CASE HistoryFails(i)
  BY <1>6 DEF HistoryFails, Finishes, shown, Undisturbed, PageInv, TypeOK, CandleSound
<1>7. CASE LatestFails(i) \/ (AnswerLatest(i) /\ chart = {})
  BY <1>7 DEF AnswerLatest, LatestFails, Finishes, Resumes, Waits, shown, Undisturbed,
              PageInv, TypeOK, CandleSound, OneTickerShown
<1>. QED  BY <1>2, <1>3, <1>4, <1>5, <1>6, <1>7 DEF Answer

-----------------------------------------------------------------------------
(* Theorems                                                                *)

\* The initial states satisfy the invariant of the page.
LEMMA InitPage == Init => PageInv
<1>. SUFFICES ASSUME Init PROVE PageInv
  OBVIOUS
<1>. DEFINE k == Coroutine("init", "health", DefaultTicker, {})
<1>1. k \in Coroutines /\ k.for = "health"
  BY TickersAssumption DEF Coroutine, Coroutines
<1>. HIDE DEF k
<1>2. waiting = <<k>>
  BY DEF Init, k
<1>3. TypeOK
  <2>1. waiting \in Seq(Coroutines)
    BY <1>1, <1>2
  <2>2. ready \in BOOLEAN /\ overtaken \in BOOLEAN /\ lost \in BOOLEAN
    BY DEF Init
  <2>3. selected \in Tickers /\ active \in Tickers /\ metric \subseteq Tickers /\ cached \subseteq Tickers
    BY TickersAssumption DEF Init
  <2>4. selections \in 0 .. MaxSelections /\ \A h \in chart : h \in Charts
    BY DashboardBoundsAssumption DEF Init
  <2>. QED  BY <2>1, <2>2, <2>3, <2>4 DEF TypeOK
<1>4. InOrder(waiting, chart, active)
  BY <1>1, <1>2 DEF Init, InOrder, Finds, HistoriesBefore
<1>5. CandleSound /\ OneTickerShown
  BY DEF Init, CandleSound, OneTickerShown
<1>. QED  BY <1>3, <1>4, <1>5 DEF PageInv, RequestsInOrder

\* A request sent by the timer or by the user.
LEMMA SendKeepsPage ==
  ASSUME PageInv, NEW k \in Coroutines, waiting' = Append(waiting, k),
         k.for \in {"latest", "history"} => k.ticker = active',
         k.for # "history" => active' = active,
         active' \in Tickers, selected' \in Tickers, selections' \in 0 .. MaxSelections,
         UNCHANGED <<ready, shown, overtaken, lost>>
  PROVE  PageInv'
<1>1. TypeOK' /\ CandleSound' /\ OneTickerShown'
  BY DEF PageInv, TypeOK, CandleSound, OneTickerShown, Undisturbed, shown
<1>2. ASSUME Undisturbed' PROVE InOrder(waiting, chart, active)'
  <2>1. InOrder(waiting, chart, active) /\ chart' = chart
    BY <1>2 DEF PageInv, RequestsInOrder, Undisturbed, shown
  <2>. QED  BY <2>1, AppendInOrder DEF PageInv, TypeOK
<1>. QED  BY <1>1, <1>2 DEF PageInv, RequestsInOrder

\* Every step keeps the invariant of the page.
LEMMA PageStep == PageInv /\ [Next]_vars => PageInv'
<1>. SUFFICES ASSUME PageInv, [Next]_vars PROVE PageInv'
  OBVIOUS
<1>1. CASE Tick
  <2>1. Coroutine("poll", "health", DefaultTicker, {}) \in Coroutines
    BY TickersAssumption DEF Coroutine, Coroutines
  <2>. QED  BY <1>1, <2>1, SendKeepsPage DEF Tick, Coroutine, PageInv, TypeOK
<1>2. ASSUME NEW t \in Tickers, Select(t) PROVE PageInv'
  <2>1. selections' \in 0 .. MaxSelections
    BY <1>2, DashboardBoundsAssumption DEF Select, PageInv, TypeOK
  <2>2. CASE ready
    <3>1. Coroutine("select", "history", t, {}) \in Coroutines
      BY DEF Coroutine, Coroutines
    <3>. QED  BY <1>2, <2>1, <2>2, <3>1, SendKeepsPage DEF Select, Coroutine
  <2>3. CASE ~ready
    BY <1>2, <2>1, <2>3 DEF Select, PageInv, TypeOK, CandleSound, RequestsInOrder,
                            OneTickerShown, Undisturbed, shown
  <2>. QED  BY <2>2, <2>3
<1>3. ASSUME NEW i \in DOMAIN waiting, Answer(i) PROVE PageInv'
  <2>1. PICK next : /\ Resumes(i, next)
                    /\ next = <<>> \/ \E r \in Requests(active) : next = <<r>>
    BY <1>3, AnswerResumes DEF PageInv
  <2>2. /\ \A h \in chart' : h \in Charts /\ h.last \in Candles
        /\ metric' \subseteq Tickers /\ cached' \subseteq Tickers
        /\ ready' \in BOOLEAN /\ lost' \in BOOLEAN /\ (lost => lost')
        /\ Undisturbed' => \A h \in chart' :
             /\ IF waiting[i].for = "history" THEN h.series = waiting[i].ticker
                                              ELSE \E g \in chart : h.series = g.series
             /\ h.from = {h.series} /\ metric' = {h.series}
    BY <1>3, AnswerShows
  <2>3. lost \in BOOLEAN
    BY DEF PageInv, TypeOK
  <2>4. waiting' \in Seq(Coroutines) /\ RequestsInOrder'
    <3>1. Undisturbed' => \A h \in chart' :
            IF waiting[i].for = "history" THEN h.series = waiting[i].ticker
                                          ELSE \E g \in chart : h.series = g.series
      BY <2>2
    <3>2. TypeOK /\ RequestsInOrder
      BY DEF PageInv
    <3>3. lost => lost'
      BY <2>2
    <3>. QED  BY <2>1, <2>3, <3>1, <3>2, <3>3, ResumeKeepsOrder
  <2>5. TypeOK'
    <3>1. UNCHANGED <<selected, active, selections>> /\ overtaken' \in BOOLEAN
      BY <2>1 DEF Resumes
    <3>2. /\ selected \in Tickers /\ active \in Tickers
          /\ selections \in 0 .. MaxSelections
      BY DEF PageInv, TypeOK
    <3>3. /\ \A h \in chart' : h \in Charts
          /\ metric' \subseteq Tickers /\ cached' \subseteq Tickers
          /\ ready' \in BOOLEAN /\ lost' \in BOOLEAN
      BY <2>2
    <3>. QED  BY <2>4, <3>1, <3>2, <3>3 DEF TypeOK
  <2>. QED  BY <2>2, <2>4, <2>5 DEF PageInv, CandleSound, OneTickerShown
<1>4. CASE UNCHANGED vars
  BY <1>4 DEF vars, shown, PageInv, TypeOK, CandleSound, RequestsInOrder, OneTickerShown,
              Undisturbed
<1>. QED  BY <1>1, <1>2, <1>3, <1>4 DEF Next

\* The page's event loop keeps its invariant, for any number of polls under way.
THEOREM PageInvariance == Spec => []PageInv
<1>. QED  BY InitPage, PageStep, PTL DEF Spec

\* app.js, fetchHistory and fetchLatestPrice: while answers keep their order and no
\* history is lost, chart, last candle and metrics are of one ticker.
THEOREM PageShowsOneTicker == Spec => []OneTickerShown
<1>1. PageInv => OneTickerShown
  BY DEF PageInv
<1>. QED  BY <1>1, PageInvariance, PTL

\* app.js, fetchLatestPrice: the last candle keeps low <= close <= high, whichever
\* answers are merged into it in whatever order.
THEOREM CandleStaysSound == Spec => []CandleSound
<1>1. PageInv => CandleSound
  BY DEF PageInv
<1>. QED  BY <1>1, PageInvariance, PTL
=============================================================================
