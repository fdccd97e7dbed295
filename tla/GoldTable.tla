------------------------------ MODULE GoldTable ------------------------------
(***************************************************************************)
(* The tables of a trading day are computed three times in this system:    *)
(* from a list of ticks by storage/minio/gold.py, from Silver by the Spark *)
(* job (transformation/spark/silver_to_gold.py), and from the staging view *)
(* by dbt (daily_ohlcv.sql, rolling_averages.sql, volatility.sql).  This   *)
(* module holds the three computations of one ticker as operators of an    *)
(* input that grows row by row, tick by tick or day by day, and says where *)
(* they give the same table and where they do not.                         *)
(*                                                                         *)
(* A day's ticks are a sequence in the order of their timestamps, which    *)
(* are distinct.  An average or a ratio is the pair of its numerator and   *)
(* denominator; a volatility is the sequence of returns it is taken over,  *)
(* a return being named by the day it leads to.                            *)
(***************************************************************************)
EXTENDS Integers, SequencesExt

CONSTANTS Prices, Volumes,   \* values of a tick
          MaxTicks,          \* bound: ticks of a day
          MaxDays,           \* bound: days of a series
          Windows,           \* lengths of the moving averages
          Longest            \* the window of sma_30 and of the volatility

ASSUME GoldConstants == /\ Prices \subseteq Nat \ {0} /\ Volumes \subseteq Nat
                        /\ MaxTicks \in Nat /\ MaxDays \in Nat
                        /\ Windows \subseteq Nat \ {0}
                        /\ Longest \in Nat /\ Longest >= 3

VARIABLE input   \* [of, s]: what the sequence holds, and the sequence

NULL == <<>>

(* Raw rows as a batch loader hands them to SilverWriter: a field that     *)
(* float() or int() refuses makes the row uncastable.                      *)
RawRows == [castable : BOOLEAN, close : Prices \cup {0}, volume : Volumes \cup {-1}, key : {1, 2}]

(* A clean tick of a day. *)
DayTicks == [open : Prices, high : Prices, low : Prices, close : Prices, volume : Volumes]

GoldInit == input \in [of : {"rows", "ticks", "closes"}, s : {<<>>}]

Grow(kind, values, bound) == /\ input.of = kind
                             /\ Len(input.s) < bound
                             /\ \E v \in values : input' = [input EXCEPT !.s = Append(@, v)]

RowRead   == Grow("rows", RawRows, MaxTicks)
TickOfDay == Grow("ticks", DayTicks, MaxTicks)
DayEnds   == Grow("closes", Prices, MaxDays)

GoldNext == RowRead \/ TickOfDay \/ DayEnds

GoldSpec == GoldInit /\ [][GoldNext]_input

-----------------------------------------------------------------------------
(* storage/minio/silver.py: cast, check the range, drop what was seen.     *)
InRange(row) == row.close > 0 /\ row.volume >= 0

SeenIn(cleaned, row) == \E i \in 1..Len(cleaned) : cleaned[i].key = row.key

Clean(rows) ==
  LET step(cleaned, row) ==
        IF row.castable /\ InRange(row) /\ ~SeenIn(cleaned, row)
        THEN Append(cleaned, row) ELSE cleaned
  IN  FoldLeft(step, <<>>, rows)

(* Whether a file is written: "" is returned for no valid records. *)
SilverFile(rows) == IF Clean(rows) = <<>> THEN NULL ELSE Clean(rows)

-----------------------------------------------------------------------------
(* One day. *)
Total(s, f(_)) == FoldLeft(LAMBDA acc, t : acc + f(t), 0, s)
Largest(s, f(_)) == Max({f(s[i]) : i \in 1..Len(s)})
Smallest(s, f(_)) == Min({f(s[i]) : i \in 1..Len(s)})

(* gold.py: the list as it comes, first and last of it for open and close; *)
(* a day without volume has the last price for its vwap.                   *)
PythonDay(ticks) ==
  LET pv == Total(ticks, LAMBDA t : t.close * t.volume)
      v  == Total(ticks, LAMBDA t : t.volume)
  IN  [open |-> ticks[1].open, close |-> ticks[Len(ticks)].close,
       high |-> Largest(ticks, LAMBDA t : t.high), low |-> Smallest(ticks, LAMBDA t : t.low),
       volume |-> v, vwap |-> IF v > 0 THEN <<pv, v>> ELSE <<ticks[Len(ticks)].close, 1>>,
       count |-> Len(ticks)]

(* The SQL of Spark and dbt works on a set of rows <<timestamp, tick>>:    *)
(* row_number() over the ascending and the descending timestamp.           *)
RankedFirst(rows) == CHOOSE r \in rows : \A q \in rows : r[1] <= q[1]
Newest(rows) == CHOOSE r \in rows : \A q \in rows : q[1] <= r[1]

SqlDay(rows, novolume) ==
  LET pv == MapThenSumSet(LAMBDA r : r[2].close * r[2].volume, rows)
      v  == MapThenSumSet(LAMBDA r : r[2].volume, rows)
  IN  [open |-> RankedFirst(rows)[2].open, close |-> Newest(rows)[2].close,
       high |-> Max({r[2].high : r \in rows}), low |-> Min({r[2].low : r \in rows}),
       volume |-> v, vwap |-> IF v > 0 THEN <<pv, v>> ELSE novolume,
       count |-> Cardinality(rows)]

SparkDay(rows) == SqlDay(rows, <<0, 1>>)    \* otherwise(0.0)
DbtDay(rows)   == SqlDay(rows, NULL)        \* NULLIF(SUM(volume), 0)

-----------------------------------------------------------------------------
(* Moving averages at the last day of a series of daily closes.            *)
LastRows(closes, w) == SubSeq(closes, Max({1, Len(closes) - w + 1}), Len(closes))

Average(s) == <<Total(s, LAMBDA c : c), Len(s)>>

(* gold.py: None while there are fewer closes than the window. *)
PythonAverage(closes, w) == IF Len(closes) >= w THEN Average(LastRows(closes, w)) ELSE NULL

(* silver_to_gold.py: rowsBetween(-(w-1), 0), of the rows there are. *)
SparkAverage(closes, w) == Average(LastRows(closes, w))

(* rolling_averages.sql: the longest average alone is withheld; the signal *)
(* compares with the one that is not.                                      *)
DbtAverage(closes, w) == IF w = Longest /\ Len(closes) < Longest THEN NULL
                         ELSE Average(LastRows(closes, w))

Above(a, b) == a[1] * b[2] > b[1] * a[2]

Signal(closes, short) ==
  LET a == Average(LastRows(closes, short))
      b == Average(LastRows(closes, Longest))
  IN  IF Above(a, b) THEN "BULLISH" ELSE IF Above(b, a) THEN "BEARISH" ELSE "NEUTRAL"

-----------------------------------------------------------------------------
(* Volatility at day n of a series, as the set of days whose returns it is *)
(* taken over.  Of fewer than two, np.std(ddof=1) is NaN, STDDEV is NULL.  *)
NaN == {0}

Returns(from, to) == {d \in 2..to : d >= from}

Deviation(S, undefined) == IF \E d, e \in S : d # e THEN S ELSE undefined

(* gold.py: the returns between the last w closes, w - 1 of them. *)
PythonVolatility(n, w) == IF n < 2 THEN {} ELSE Deviation(Returns(n - w + 2, n), NaN)

(* silver_to_gold.py and volatility.sql: the last w returns. *)
\* Mutant of SqlVolatility: a window of one row more.
SqlVolatilityOneMore(n, w) == Deviation(Returns(n - w, n), {})

SqlVolatility(n, w) == Deviation(Returns(n - w + 1, n), {})

(* volatility.sql: no row for the first day, and no test of a NULL is true *)
(* in the CASE of the regime, which falls through to HIGH.                 *)
Regime(n, w, hundredths) ==
  LET known == SqlVolatility(n, w) # {}
  IN  IF known /\ hundredths < 15 THEN "LOW"
      ELSE IF known /\ hundredths < 35 THEN "MEDIUM" ELSE "HIGH"

VolatilityRows(n, w, hundredths) == {<<d, Regime(d, w, hundredths)>> : d \in 2..n}

-----------------------------------------------------------------------------
(* SilverWriter keeps the first valid row of every key, in order, and no   *)
(* invalid row hides a valid one of the same key (silver.py:80-105).       *)
CleanKeepsFirstValid ==
  input.of = "rows" =>
    LET rows == input.s
        good == {i \in 1..Len(rows) : rows[i].castable /\ InRange(rows[i])}
        first == {i \in good : \A j \in good : j < i => rows[j].key # rows[i].key}
        out == Clean(rows)
    IN  /\ Len(out) = Cardinality(first)
        /\ SilverFile(rows) = NULL <=> first = {}
        /\ \A i \in first : out[Cardinality({j \in first : j <= i})] = rows[i]

(* The three tables of a day agree on a day with volume, and differ in the *)
(* vwap alone on one without (gold.py:61, silver_to_gold.py:81,            *)
(* daily_ohlcv.sql:60).                                                    *)
DaysAgree ==
  (input.of = "ticks" /\ input.s # <<>>) =>
    LET rows == {<<i, input.s[i]>> : i \in 1..Len(input.s)}
        p == PythonDay(input.s)  s == SparkDay(rows)  d == DbtDay(rows)
    IN  /\ p.volume > 0 => p = s /\ s = d
        /\ [p EXCEPT !.vwap = NULL] = [s EXCEPT !.vwap = NULL]
        /\ [s EXCEPT !.vwap = NULL] = [d EXCEPT !.vwap = NULL]

(* With enough days the averages agree; with fewer, gold.py alone has none *)
(* and the tables average what there is.  The signal of rolling_averages   *)
(* follows the averages shown, once the longest is shown (gold.py:85,      *)
(* silver_to_gold.py:109, rolling_averages.sql:61).                        *)
AveragesAgree ==
  (input.of = "closes" /\ input.s # <<>>) => \A w \in Windows :
    LET closes == input.s  n == Len(closes) IN
    /\ n >= w => PythonAverage(closes, w) = SparkAverage(closes, w)
    /\ n >= w => DbtAverage(closes, w) = SparkAverage(closes, w)
    /\ n < w => PythonAverage(closes, w) = NULL /\ SparkAverage(closes, w)[2] = n
    /\ DbtAverage(closes, Longest) # NULL =>
         (Signal(closes, w) = "BULLISH" <=> Above(DbtAverage(closes, w), DbtAverage(closes, Longest)))

(* The volatilities are taken over the same returns while the series is    *)
(* no longer than the window, and then over one return less in gold.py;    *)
(* on its second day a ticker has NaN in one table and NULL in the others, *)
(* and is shown as HIGH (gold.py:105, silver_to_gold.py:125,               *)
(* volatility.sql:47).                                                     *)
VolatilitiesAgree ==
  (input.of = "closes" /\ input.s # <<>>) =>
    LET n == Len(input.s)
        p == PythonVolatility(n, Longest)  s == SqlVolatility(n, Longest)
    IN  /\ n \in 3..Longest => p = s
        /\ n > Longest => s = p \cup {n - Longest + 1}
        /\ n = 2 => p = NaN /\ s = {}
        /\ n >= 2 => <<2, "HIGH">> \in VolatilityRows(n, Longest, 0)
        /\ \A d \in 3..n : <<d, "LOW">> \in VolatilityRows(n, Longest, 0)

(* The rows that reach a table and the figures computed from them are what *)
(* each of the three implementations promises, and they differ nowhere     *)
(* else (gold.py, silver_to_gold.py, the three dbt marts).                 *)
ComputationsAgree == CleanKeepsFirstValid /\ DaysAgree /\ AveragesAgree /\ VolatilitiesAgree
=============================================================================
