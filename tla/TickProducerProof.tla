------------------------- MODULE TickProducerProof -------------------------
(***************************************************************************)
(* Proofs about TickProducer, for any tickers, queue size, bound on ticks  *)
(* and mode of operation.                                                  *)
(***************************************************************************)
EXTENDS TickProducer, TickPrices, TLAPS

\* The tick a thread publishes is a message.
LEMMA TickIsMessage ==
  ASSUME TypeOK, TickInHand, NEW t \in Tickers, tpc[t] = "publish"
  PROVE  Tick(t) \in Messages
<1>1. made[t] \in 1 .. MaxTicks
  BY MaxTicksAssumption DEF TypeOK, TickInHand
<1>. QED  BY <1>1 DEF Tick, Messages

\* Serving reports changes neither what is new nor what the broker has not answered.
LEMMA ServedTypes ==
  ASSUME NEW s \in [Messages -> Status]
  PROVE  /\ Served(s) \in [Messages -> Status]
         /\ \A m \in Messages : Served(s)[m] = "new" <=> s[m] = "new"
         /\ \A m \in Messages : Served(s)[m] = "queued" <=> s[m] = "queued"
         /\ \A m \in Messages : Served(s)[m] \notin {"acked", "failed"}
  BY DEF Served, Status

\* The initial states satisfy the invariant.
LEMMA InitInv == Init => ProducerInv
<1>. SUFFICES ASSUME Init PROVE ProducerInv
  OBVIOUS
<1>1. TypeOK
  <2>1. /\ tpc \in [Tickers -> ThreadControl]
        /\ mpc \in MainControl
        /\ status \in [Messages -> Status]
    BY DEF Init, ThreadControl, MainControl, Status
  <2>2. /\ made \in [Tickers -> 0 .. MaxTicks]
        /\ attempt \in [Tickers -> 0 .. MaxAttempts - 1]
    BY MaxTicksAssumption DEF Init, MaxAttempts
  <2>3. shutdown \in BOOLEAN /\ late \subseteq Messages /\ timedOut \in BOOLEAN
    BY DEF Init
  <2>. QED  BY <2>1, <2>2, <2>3 DEF TypeOK
<1>2. TickInHand /\ LeftIsLate /\ NoGaps
  BY DEF Init, TickInHand, LeftIsLate, NoGaps
<1>. QED  BY <1>1, <1>2 DEF ProducerInv

\* Every step keeps the types.
LEMMA TypeStep == ProducerInv /\ [Next]_vars => TypeOK'
<1>. SUFFICES ASSUME ProducerInv, [Next]_vars PROVE TypeOK'
  OBVIOUS
<1>. USE MaxTicksAssumption
     DEF ProducerInv, TypeOK, ThreadControl, MainControl, MaxAttempts
<1>1. ASSUME NEW t \in Tickers, Fetch(t) \/ FetchRaises(t) \/ LeaveLoop(t) PROVE TypeOK'
  BY <1>1 DEF Fetch, FetchRaises, LeaveLoop
<1>2. ASSUME NEW t \in Tickers, Publish(t) PROVE TypeOK'
  <2>1. Tick(t) \in Messages
    BY <1>2, TickIsMessage DEF Publish
  <2>2. [status EXCEPT ![Tick(t)] = "queued"] \in [Messages -> Status]
    BY <2>1 DEF Status
  <2>3. status' \in [Messages -> Status]
    BY <1>2, <2>2, ServedTypes DEF Publish
  <2>. QED  BY <1>2, <2>1, <2>3 DEF Publish
<1>3. ASSUME NEW t \in Tickers, PublishRaises(t) \/ PublishFull(t) PROVE TypeOK'
  BY <1>3 DEF PublishRaises, PublishFull
<1>4. ASSUME NEW m \in Messages, Answer(m) PROVE TypeOK'
  BY <1>4 DEF Answer, Status
<1>5. CASE Signal \/ Wake \/ JoinReturns \/ SupervisorReturns
  BY <1>5 DEF Signal, Wake, JoinReturns, SupervisorReturns
<1>6. CASE FlushServes
  BY <1>6, ServedTypes DEF FlushServes
<1>7. CASE FlushReturns
  BY <1>7 DEF FlushReturns
<1>8. CASE UNCHANGED vars
  BY <1>8 DEF vars
<1>. QED
  BY <1>1, <1>2, <1>3, <1>4, <1>5, <1>6, <1>7, <1>8 DEF Next, Thread, MainStep

\* A thread reaches publish() only with a fetched tick.
LEMMA TickInHandStep == ProducerInv /\ [Next]_vars => TickInHand'
<1>. SUFFICES ASSUME ProducerInv, [Next]_vars PROVE TickInHand'
  OBVIOUS
<1>. USE MaxTicksAssumption DEF ProducerInv, TypeOK, TickInHand
<1>1. ASSUME NEW t \in Tickers, Thread(t) PROVE TickInHand'
  BY <1>1 DEF Thread, Fetch, FetchRaises, LeaveLoop, Publish, PublishRaises, PublishFull
<1>2. ASSUME NEW m \in Messages, Answer(m) PROVE TickInHand'
  BY <1>2 DEF Answer
<1>3. CASE Signal \/ MainStep
  BY <1>3 DEF Signal, MainStep, Wake, FlushServes, FlushReturns, JoinReturns,
              SupervisorReturns
<1>4. CASE UNCHANGED vars
  BY <1>4 DEF vars
<1>. QED  BY <1>1, <1>2, <1>3, <1>4 DEF Next

\* The queue grows by publish() alone, and after close() that tick is late.
LEMMA LeftIsLateStep == ProducerInv /\ [Next]_vars => LeftIsLate'
<1>. SUFFICES ASSUME ProducerInv, [Next]_vars PROVE LeftIsLate'
  OBVIOUS
<1>. USE DEF ProducerInv, LeftIsLate
<1>1. ASSUME UNCHANGED <<mpc, late, timedOut>>, Outstanding' \subseteq Outstanding
      PROVE  LeftIsLate'
  BY <1>1
<1>2. ASSUME NEW t \in Tickers, Publish(t) PROVE LeftIsLate'
  <2>1. Tick(t) \in Messages
    BY <1>2, TickIsMessage DEF Publish
  <2>. DEFINE s == [status EXCEPT ![Tick(t)] = "queued"]
  <2>2. s \in [Messages -> Status]
    BY DEF TypeOK, Status
  <2>3. Outstanding' \subseteq Outstanding \cup {Tick(t)}
    <3>1. \A m \in Messages : m # Tick(t) => s[m] = status[m]
      BY DEF TypeOK
    <3>2. status' = Served(s)
      BY <1>2 DEF Publish
    <3>. HIDE DEF s
    <3>. QED  BY <2>2, <3>1, <3>2, ServedTypes DEF Outstanding
  <2>. QED  BY <1>2, <2>3 DEF Publish, Alive, Ended
<1>3. ASSUME NEW t \in Tickers, Thread(t), ~Publish(t) PROVE LeftIsLate'
  BY <1>1, <1>3 DEF Thread, Fetch, FetchRaises, LeaveLoop, PublishRaises, PublishFull,
                    Outstanding
<1>4. ASSUME NEW m \in Messages, Answer(m) PROVE LeftIsLate'
  BY <1>1, <1>4 DEF Answer, Outstanding, TypeOK
<1>5. CASE Signal
  BY <1>1, <1>5 DEF Signal, Outstanding
<1>6. CASE Wake
  BY <1>6 DEF Wake
<1>7. CASE FlushServes
  BY <1>1, <1>7, ServedTypes DEF FlushServes, Outstanding, TypeOK
<1>8. CASE FlushReturns
  <2>1. Outstanding' = Outstanding
    BY <1>8 DEF FlushReturns, Outstanding
  <2>. QED  BY <1>8, <2>1 DEF FlushReturns, TypeOK
<1>9. CASE JoinReturns
  <2>1. Outstanding' = Outstanding
    BY <1>9 DEF JoinReturns, Outstanding
  <2>. QED  BY <1>9, <2>1 DEF JoinReturns
<1>10. CASE SupervisorReturns
  BY <1>10 DEF SupervisorReturns
<1>11. CASE UNCHANGED vars
  BY <1>1, <1>11 DEF vars, Outstanding
<1>. QED
  BY <1>2, <1>3, <1>4, <1>5, <1>6, <1>7, <1>8, <1>9, <1>10, <1>11 DEF Next, MainStep

\* A thread fetches its next tick only after it enqueued the one before.
LEMMA NoGapsStep == ProducerInv /\ [Next]_vars => NoGaps'
<1>. SUFFICES ASSUME ProducerInv, [Next]_vars,
                     NEW u \in Tickers, NEW n \in 1 .. made'[u],
                     status'[<<u, n>>] = "new"
              PROVE  n = made'[u] /\ tpc'[u] \in {"publish", "dead"}
  BY DEF NoGaps
<1>. DEFINE Goal == n = made'[u] /\ tpc'[u] \in {"publish", "dead"}
<1>. USE MaxTicksAssumption DEF ProducerInv, TypeOK
<1>1. made'[u] \in 0 .. MaxTicks /\ <<u, n>> \in Messages
  BY TypeStep DEF Messages
<1>2. ASSUME made' = made, status[<<u, n>>] = "new",
             tpc'[u] = tpc[u] \/ tpc'[u] \in {"publish", "dead"}
      PROVE  Goal
  BY <1>2 DEF NoGaps
<1>3. ASSUME NEW t \in Tickers, Fetch(t) PROVE Goal
  <2>1. CASE t = u
    <3>1. tpc[u] = "loop" /\ made'[u] = made[u] + 1 /\ tpc'[u] = "publish"
      BY <1>3, <2>1 DEF Fetch
    <3>2. status[<<u, n>>] = "new"
      BY <1>3 DEF Fetch
    <3>. QED  BY <1>1, <3>1, <3>2 DEF NoGaps
  <2>2. CASE t # u
    BY <1>3, <2>2 DEF Fetch, NoGaps
  <2>. QED  BY <2>1, <2>2
<1>4. ASSUME NEW t \in Tickers, FetchRaises(t) \/ PublishRaises(t) \/ PublishFull(t)
      PROVE  Goal
  BY <1>2, <1>4 DEF FetchRaises, PublishRaises, PublishFull
<1>5. ASSUME NEW t \in Tickers, LeaveLoop(t) PROVE Goal
  BY <1>5 DEF LeaveLoop, NoGaps
<1>6. ASSUME NEW t \in Tickers, Publish(t) PROVE Goal
  <2>1. Tick(t) \in Messages
    BY <1>6, TickIsMessage DEF Publish
  <2>. DEFINE s == [status EXCEPT ![Tick(t)] = "queued"]
  <2>2. s \in [Messages -> Status]
    BY DEF Status
  <2>3. status' = Served(s)
    BY <1>6 DEF Publish
  <2>4. s[<<u, n>>] = "new"
    <3>. HIDE DEF s
    <3>. QED  BY <1>1, <2>2, <2>3, ServedTypes
  <2>5. status[<<u, n>>] = "new" /\ <<u, n>> # Tick(t)
    BY <1>1, <2>1, <2>4
  <2>6. CASE t = u
    <3>1. n # made[u]
      BY <2>5, <2>6 DEF Tick
    <3>. QED  BY <1>6, <2>5, <3>1 DEF Publish, NoGaps
  <2>7. CASE t # u
    BY <1>2, <1>6, <2>5, <2>7 DEF Publish
  <2>. QED  BY <2>6, <2>7
<1>7. ASSUME NEW m \in Messages, Answer(m) PROVE Goal
  BY <1>1, <1>2, <1>7 DEF Answer
<1>8. CASE FlushServes
  BY <1>1, <1>2, <1>8, ServedTypes DEF FlushServes
<1>9. CASE Signal \/ Wake \/ FlushReturns \/ JoinReturns \/ SupervisorReturns
  BY <1>2, <1>9 DEF Signal, Wake, FlushReturns, JoinReturns, SupervisorReturns
<1>10. CASE UNCHANGED vars
  BY <1>2, <1>10 DEF vars
<1>. QED
  BY <1>3, <1>4, <1>5, <1>6, <1>7, <1>8, <1>9, <1>10 DEF Next, Thread, MainStep

\* The invariant holds in every reachable state.
THEOREM ProducerInvariance == Spec => []ProducerInv
<1>1. ProducerInv /\ [Next]_vars => ProducerInv'
  BY TypeStep, TickInHandStep, LeftIsLateStep, NoGapsStep DEF ProducerInv
<1>. QED  BY InitInv, <1>1, PTL DEF Spec

\* stock_producer.py, main: an orderly stop whose flushes end in time leaves
\* undelivered only what was enqueued after close() returned.
THEOREM OrderlyStop == Spec => []LeftIsLate
<1>1. ProducerInv => LeftIsLate
  BY DEF ProducerInv
<1>. QED  BY ProducerInvariance, <1>1, PTL

\* stock_producer.py, _producer_loop: a thread either hands its tick over or ends.
THEOREM NoTickSkippedByThread == Spec => []NoGaps
<1>1. ProducerInv => NoGaps
  BY DEF ProducerInv
<1>. QED  BY ProducerInvariance, <1>1, PTL

-----------------------------------------------------------------------------
(* The prices of TickPrices.                                               *)

\* What integer division leaves.
LEMMA DivisionFacts ==
  ASSUME NEW a \in Int, NEW d \in Nat \ {0}
  PROVE  a \div d \in Int /\ d * (a \div d) <= a /\ a < d * (a \div d) + d
OBVIOUS

\* A product with a positive factor keeps the order, and shows it.
LEMMA ProductOrder ==
  ASSUME NEW a \in Int, NEW b \in Int, NEW d \in Nat \ {0}
  PROVE  /\ a <= b => a * d <= b * d
         /\ a < b => a * d < b * d
         /\ a * d < b * d => a < b
<1>1. a <= b => a * d <= b * d
  OBVIOUS
<1>2. a < b => a * d < b * d
  OBVIOUS
<1>3. b <= a => b * d <= a * d
  OBVIOUS
<1>4. a * d \in Int /\ b * d \in Int
  OBVIOUS
<1>. QED  BY <1>1, <1>2, <1>3, <1>4

\* The whole in parts of a price: what a cent is after a change.
CW == Whole * Cent

LEMMA WholeCent == CW \in Nat \ {0} /\ Cent \in Nat \ {0} /\ Whole \in Nat \ {0}
  BY PriceConstants DEF CW

\* k cents are the value v to half a cent, in CW parts of a cent.
Near(k, v) == 2 * v - CW <= 2 * (k * CW) /\ 2 * (k * CW) <= 2 * v + CW

\* Rounding finds the nearest cents.
LEMMA RoundedIsNear ==
  ASSUME NEW p \in Nat, NEW c \in Int
  PROVE  /\ Rounded(p, c) # {}
         /\ \A x \in Rounded(p, c) : \E k \in Int : x = Cent * k /\ Near(k, p * Whole + p * c)
<1>1. p # NoNumber
  BY PriceConstants
<1>2. PICK q \in Int, r \in Int : q = Cents(p) /\ r = p - Cent * Cents(p) /\ p = Cent * q + r
  <2>1. PICK q \in Int : q = Cents(p)
    BY WholeCent, DivisionFacts DEF Cents
  <2>. QED  BY <2>1, WholeCent
<1>3. PICK t : t = 2 * (r * Whole + p * c) + CW
  OBVIOUS
<1>4. Rounded(p, c) = {Cent * (q + (t - tie) \div (2 * CW)) : tie \in {0, 1}}
  BY <1>1, <1>2, <1>3 DEF Rounded, Rest, CW
<1>5. ASSUME NEW x \in Rounded(p, c)
      PROVE  \E k \in Int : x = Cent * k /\ Near(k, p * Whole + p * c)
  <2>1. PICK tie \in {0, 1} : x = Cent * (q + (t - tie) \div (2 * CW))
    BY <1>4, <1>5
  <2>2. PICK m \in Int, b \in Int, f \in Int : m = p * c /\ b = r * Whole /\ f = q * CW
    BY WholeCent
  <2>3. t \in Int /\ t = 2 * (b + m) + CW
    BY <1>3, <2>2, WholeCent
  <2>4. p * Whole = f + b
    <3>1. p * Whole = (Cent * q + r) * Whole
      BY <1>2
    <3>2. (Cent * q + r) * Whole = q * (Whole * Cent) + r * Whole
      BY WholeCent
    <3>. QED  BY <2>2, <3>1, <3>2 DEF CW
  <2>5. PICK z \in Int : /\ z = (t - tie) \div (2 * CW)
                         /\ 2 * CW * z <= t - tie /\ t - tie < 2 * CW * z + 2 * CW
    <3>1. 2 * CW \in Nat \ {0} /\ t - tie \in Int
      BY <2>3, WholeCent
    <3>. QED  BY <3>1, DivisionFacts
  <2>6. PICK g \in Int : g = z * CW /\ 2 * CW * z = 2 * g
    BY WholeCent
  <2>7. (q + z) * CW = f + g
    BY <2>2, <2>6, WholeCent
  <2>8. Near(q + z, f + b + m)
    BY <2>3, <2>5, <2>6, <2>7, WholeCent DEF Near
  <2>9. q + z \in Int /\ x = Cent * (q + z) /\ f + b + m = p * Whole + p * c
    BY <2>1, <2>2, <2>4, <2>5
  <2>. QED  BY <2>8, <2>9
<1>6. Rounded(p, c) # {}
  BY <1>4
<1>. QED  BY <1>5, <1>6

\* Nearest cents keep the order of the values; and whole cents are nearest to themselves.
LEMMA NearKeepsOrder ==
  ASSUME NEW j \in Int, NEW k \in Int, NEW v \in Int, NEW w \in Int, Near(j, v)
  PROVE  /\ v < w /\ Near(k, w) => j <= k
         /\ v <= k * CW => j <= k
         /\ k * CW <= v => k <= j
         /\ 2 * v > CW => j >= 1
<1>1. PICK a \in Int, b \in Int : a = j * CW /\ b = k * CW
  BY WholeCent
<1>2. 2 * v - CW <= 2 * a /\ 2 * a <= 2 * v + CW
  BY <1>1 DEF Near
<1>3. /\ (k + 1) * CW = b + CW /\ (j + 1) * CW = a + CW /\ 0 * CW = 0
  BY <1>1, WholeCent
<1>4. a < b + CW => j <= k
  <2>1. a < b + CW => j * CW < (k + 1) * CW
    BY <1>1, <1>3
  <2>. QED  BY <2>1, WholeCent, ProductOrder
<1>5. b < a + CW => k <= j
  <2>1. b < a + CW => k * CW < (j + 1) * CW
    BY <1>1, <1>3
  <2>. QED  BY <2>1, WholeCent, ProductOrder
<1>6. 0 < a => j >= 1
  <2>1. 0 < a => 0 * CW < j * CW
    BY <1>1, <1>3
  <2>. QED  BY <2>1, WholeCent, ProductOrder
<1>7. ASSUME v < w, Near(k, w) PROVE j <= k
  <2>1. 2 * w - CW <= 2 * b
    BY <1>1, <1>7 DEF Near
  <2>. QED  BY <1>2, <1>4, <1>7, <2>1, WholeCent
<1>8. v <= k * CW => j <= k
  BY <1>1, <1>2, <1>4, WholeCent
<1>9. k * CW <= v => k <= j
  BY <1>1, <1>2, <1>5, WholeCent
<1>10. 2 * v > CW => j >= 1
  BY <1>2, <1>6, WholeCent
<1>. QED  BY <1>7, <1>8, <1>9, <1>10

\* A change of at most half a percent, of a price above zero; and the spread.
LEMMA ChangeIsSmall ==
  ASSUME NEW p \in Nat, NEW move \in Moves
  PROVE  /\ move \in Int /\ p * move \in Int /\ p * Whole \in Nat
         /\ -(p * Whole) <= 200 * (p * move) /\ 200 * (p * move) <= p * Whole
<1>1. move \in Int /\ -Whole <= 200 * move /\ 200 * move <= Whole /\ Whole \in Nat
  BY PriceConstants
<1>2. p * (-Whole) <= p * (200 * move) /\ p * (200 * move) <= p * Whole
  BY <1>1
<1>3. p * (200 * move) = 200 * (p * move) /\ p * (-Whole) = -(p * Whole)
  BY <1>1
<1>. QED  BY <1>1, <1>2, <1>3

LEMMA SpreadIsSmall ==
  ASSUME NEW p \in Nat
  PROVE  /\ Spread \in Nat \ {0} /\ p * Spread \in Nat /\ p * (-Spread) = -(p * Spread)
         /\ p * Whole = 500 * (p * Spread)
<1>1. Whole \in Nat \ {0} /\ Whole % 500 = 0
  BY PriceConstants
<1>2. Spread \in Nat \ {0} /\ Whole = 500 * Spread
  BY <1>1 DEF Spread
<1>. QED  BY <1>2

\* A simulated tick: its low and high are around its open and close, its new price is
\* whole cents, and all of it is above zero when its base does not fall to half a cent.
LEMMA SimulatedIsSound ==
  ASSUME NEW base \in Nat, base > 0, NEW move \in Moves,
         NEW open \in Rounded(base, 0), NEW new \in Rounded(base, move),
         NEW high \in Rounded(Higher(base, new), Spread),
         NEW low \in Rounded(Lower(base, new), -Spread)
  PROVE  /\ open \in Int /\ new \in Nat /\ high \in Int /\ low \in Int
         /\ low <= open /\ open <= high /\ low <= new /\ new <= high
         /\ new > 0 => new >= Cent
         /\ ~FallsToHalfACent(base) => low > 0
<1>1. PICK A \in Nat, s \in Nat, d \in Int :
        /\ A = base * Whole /\ s = base * Spread /\ d = base * move
        /\ A = 500 * s /\ -A <= 200 * d /\ 200 * d <= A
  BY ChangeIsSmall, SpreadIsSmall
<1>2. A > 0 /\ s > 0
  <2>1. 0 * Whole < base * Whole
    BY WholeCent, ProductOrder
  <2>. QED  BY <1>1, <2>1, WholeCent
<1>3. PICK ko \in Int : open = Cent * ko /\ Near(ko, A)
  <2>1. base * Whole + base * 0 = A
    BY <1>1
  <2>2. \E k \in Int : open = Cent * k /\ Near(k, base * Whole + base * 0)
    BY RoundedIsNear
  <2>. QED  BY <2>1, <2>2
<1>4. PICK kn \in Int : new = Cent * kn /\ Near(kn, A + d)
  <2>1. \E k \in Int : new = Cent * k /\ Near(k, base * Whole + base * move)
    BY ChangeIsSmall, RoundedIsNear
  <2>. QED  BY <1>1, <2>1
<1>5. kn >= 0 /\ new \in Nat
  <2>1. 0 * CW <= A + d /\ A + d \in Int
    BY <1>1, WholeCent
  <2>2. 0 <= kn
    BY <1>4, <2>1, NearKeepsOrder
  <2>. QED  BY <1>4, <2>2, WholeCent
<1>6. PICK N \in Nat, sn \in Nat :
        /\ N = new * Whole /\ sn = new * Spread /\ N = 500 * sn /\ N = kn * CW
  <2>1. new * Whole = kn * CW
    <3>1. (Cent * kn) * Whole = kn * (Whole * Cent)
      BY WholeCent
    <3>. QED  BY <1>4, <3>1 DEF CW
  <2>2. new * Spread \in Nat /\ new * Whole = 500 * (new * Spread)
    BY <1>5, SpreadIsSmall
  <2>3. new * Whole \in Nat
    BY <1>5, WholeCent
  <2>. QED  BY <2>1, <2>2, <2>3
<1>7. base # NoNumber /\ new # NoNumber
  BY <1>5, PriceConstants
<1>8. (new < base => N < A) /\ (new <= base => N <= A) /\ (base <= new => A <= N)
      /\ (base < new => A < N)
  BY <1>1, <1>5, <1>6, WholeCent, ProductOrder
<1>8a. Spread \in Int /\ -Spread \in Int
  BY SpreadIsSmall
<1>9. PICK kl \in Int, vl \in Int :
        /\ low = Cent * kl /\ Near(kl, vl)
        /\ (new < base /\ vl = N - sn) \/ (base <= new /\ vl = A - s)
  <2>1. CASE new < base
    <3>1. Lower(base, new) = new
      BY <1>7, <2>1 DEF Lower
    <3>2. \E k \in Int : low = Cent * k /\ Near(k, new * Whole + new * (-Spread))
      BY <1>5, <1>8a, <3>1, RoundedIsNear
    <3>3. new * Whole + new * (-Spread) = N - sn
      <4>1. new * (-Spread) = -(new * Spread)
        BY <1>5, SpreadIsSmall
      <4>. QED  BY <1>6, <4>1
    <3>. QED  BY <2>1, <3>2, <3>3
  <2>2. CASE base <= new
    <3>1. Lower(base, new) = base
      BY <1>5, <1>7, <2>2 DEF Lower
    <3>2. \E k \in Int : low = Cent * k /\ Near(k, base * Whole + base * (-Spread))
      BY <1>8a, <3>1, RoundedIsNear
    <3>3. base * Whole + base * (-Spread) = A - s
      BY <1>1, SpreadIsSmall
    <3>. QED  BY <2>2, <3>2, <3>3
  <2>. QED  BY <1>5, <2>1, <2>2
<1>10. PICK kh \in Int, vh \in Int :
        /\ high = Cent * kh /\ Near(kh, vh)
        /\ (base < new /\ vh = N + sn) \/ (new <= base /\ vh = A + s)
  <2>1. CASE base < new
    <3>1. Higher(base, new) = new
      BY <1>7, <2>1 DEF Higher
    <3>2. \E k \in Int : high = Cent * k /\ Near(k, new * Whole + new * Spread)
      BY <1>5, <1>8a, <3>1, RoundedIsNear
    <3>3. new * Whole + new * Spread = N + sn
      BY <1>6
    <3>. QED  BY <2>1, <3>2, <3>3
  <2>2. CASE new <= base
    <3>1. Higher(base, new) = base
      BY <1>5, <1>7, <2>2 DEF Higher
    <3>2. \E k \in Int : high = Cent * k /\ Near(k, base * Whole + base * Spread)
      BY <1>8a, <3>1, RoundedIsNear
    <3>3. base * Whole + base * Spread = A + s
      BY <1>1
    <3>. QED  BY <2>2, <3>2, <3>3
  <2>. QED  BY <1>5, <2>1, <2>2
<1>11. vl < A /\ vl <= kn * CW
  BY <1>1, <1>2, <1>6, <1>8, <1>9
<1>12. A < vh /\ kn * CW <= vh
  BY <1>1, <1>2, <1>6, <1>8, <1>10
<1>13. kl <= ko /\ kl <= kn
  <2>1. kl <= ko
    BY <1>3, <1>9, <1>11, NearKeepsOrder
  <2>2. kl <= kn
    BY <1>9, <1>11, NearKeepsOrder
  <2>. QED  BY <2>1, <2>2
<1>14. ko <= kh /\ kn <= kh
  <2>1. ko <= kh
    BY <1>3, <1>10, <1>12, NearKeepsOrder
  <2>2. kn <= kh
    BY <1>10, <1>12, NearKeepsOrder
  <2>. QED  BY <2>1, <2>2
<1>15. \A j, k \in Int : j <= k => Cent * j <= Cent * k
  BY WholeCent, ProductOrder
<1>16. new > 0 => new >= Cent
  <2>1. new > 0 => 1 <= kn
    BY <1>4, <1>5, WholeCent
  <2>2. Cent * 1 = Cent
    BY WholeCent
  <2>. QED  BY <1>4, <1>15, <2>1, <2>2
<1>17. ASSUME ~FallsToHalfACent(base) PROVE low > 0
  <2>1. 199 * A > 100 * CW
    <3>1. 100 * Cent < 199 * base
      BY <1>17, WholeCent DEF FallsToHalfACent
    <3>2. (100 * Cent) * Whole < (199 * base) * Whole
      BY <3>1, WholeCent, ProductOrder
    <3>3. (100 * Cent) * Whole = 100 * CW /\ (199 * base) * Whole = 199 * A
      BY <1>1, WholeCent DEF CW
    <3>. QED  BY <3>2, <3>3
  <2>2. 1 <= kn /\ CW <= N
    <3>1. 2 * (A + d) > CW
      BY <1>1, <2>1, WholeCent
    <3>2. 1 <= kn
      BY <1>4, <3>1, NearKeepsOrder
    <3>3. 1 * CW <= kn * CW /\ 1 * CW = CW
      BY <3>2, WholeCent, ProductOrder
    <3>. QED  BY <1>6, <3>2, <3>3
  <2>3. 2 * vl > CW
    BY <1>1, <1>6, <1>9, <2>1, <2>2, WholeCent
  <2>4. kl >= 1
    BY <1>9, <2>3, NearKeepsOrder
  <2>. QED  BY <1>9, <1>15, <2>4, WholeCent
<1>18. open \in Int /\ high \in Int /\ low \in Int
  BY <1>3, <1>9, <1>10, WholeCent
<1>19. low <= open /\ open <= high /\ low <= new /\ new <= high
  BY <1>3, <1>4, <1>9, <1>10, <1>13, <1>14, <1>15
<1>. QED  BY <1>5, <1>16, <1>17, <1>18, <1>19

\* Half a percent of less than a dollar is less than half a cent.
LEMMA LowCentsStay ==
  ASSUME NEW l \in Nat, l < 100, NEW base \in Nat, base = Cent * l, NEW move \in Moves
  PROVE  Rounded(base, move) = {base}
<1>1. PICK A \in Nat, d \in Int :
        /\ A = base * Whole /\ d = base * move /\ -A <= 200 * d /\ 200 * d <= A
  BY ChangeIsSmall
<1>2. A = l * CW /\ A < 100 * CW
  <2>1. (Cent * l) * Whole = l * (Whole * Cent)
    BY WholeCent
  <2>2. l * CW < 100 * CW
    BY WholeCent, ProductOrder
  <2>. QED  BY <1>1, <2>1, <2>2 DEF CW
<1>3. ASSUME NEW x \in Rounded(base, move) PROVE x = base
  <2>1. PICK k \in Int : x = Cent * k /\ Near(k, A + d)
    BY <1>1, <1>3, ChangeIsSmall, RoundedIsNear
  <2>2. PICK f \in Int : f = k * CW
    BY WholeCent
  <2>3. 2 * (A + d) - CW <= 2 * f /\ 2 * f <= 2 * (A + d) + CW
    BY <2>1, <2>2 DEF Near
  <2>4. A - CW < f /\ f < A + CW
    BY <1>1, <1>2, <2>3, WholeCent
  <2>5. (l + 1) * CW = A + CW /\ (l - 1) * CW = A - CW
    BY <1>2, WholeCent
  <2>6. k < l + 1 /\ l - 1 < k
    BY <2>2, <2>4, <2>5, WholeCent, ProductOrder
  <2>7. k = l
    BY <2>6
  <2>. QED  BY <2>1, <2>7
<1>4. Rounded(base, move) # {}
  BY ChangeIsSmall, RoundedIsNear
<1>. QED  BY <1>3, <1>4

\* TickEvent takes a tick of numbers when all are above zero, and no other.
LEMMA VerdictFacts ==
  ASSUME NEW tick, \A f \in PriceFields : tick[f] = NoNumber \/ tick[f] \in Int,
         NEW taken \in Verdicts(tick)
  PROVE  /\ taken \in BOOLEAN
         /\ taken /\ IsNumber(tick) => \A f \in PriceFields : tick[f] > 0
         /\ IsNumber(tick) /\ (\A f \in PriceFields : tick[f] > 0) => taken
<1>1. CASE \E f \in PriceFields : tick[f] # NoNumber /\ tick[f] <= 0
  <2>1. taken = FALSE
    BY <1>1 DEF Verdicts
  <2>2. ~ \A f \in PriceFields : tick[f] > 0
    BY <1>1
  <2>. QED  BY <2>1, <2>2
<1>2. CASE ~ \E f \in PriceFields : tick[f] # NoNumber /\ tick[f] <= 0
  <2>1. IsNumber(tick) => taken = TRUE
    BY <1>2 DEF Verdicts
  <2>2. IsNumber(tick) => \A f \in PriceFields : tick[f] > 0
    <3>1. IsNumber(tick) => \A f \in PriceFields : tick[f] \in Int /\ ~(tick[f] <= 0)
      BY <1>2 DEF IsNumber
    <3>. QED  BY <3>1
  <2>3. taken \in BOOLEAN
    BY <1>2 DEF Verdicts
  <2>. QED  BY <2>1, <2>2, <2>3
<1>. QED  BY <1>1, <1>2

\* What ties the next price to the ticks: a thread that goes on has a cent or more, or
\* the live price that TickEvent has just taken.
PriceInv ==
  /\ ended \in BOOLEAN
  /\ cached = NoNumber \/ cached \in Nat
  /\ live = NoNumber \/ live \in Nat
  /\ ~ended => cached = NoNumber \/ cached >= Cent \/ (cached = live /\ cached > 0)
  /\ lastTick # NoTick => lastTick.close = cached /\ (IsNumber(lastTick) => Ordered(lastTick))
  /\ cached = NoNumber => live = NoNumber
  /\ ended => live = NoNumber \/ FallsToHalfACent(live)

\* What a simulated tick leaves.
SimulatedFrom(base) ==
  /\ ended' \in BOOLEAN
  /\ cached' = NoNumber \/ cached' \in Nat
  /\ cached' = NoNumber => base = NoNumber
  /\ ~ended' => cached' = NoNumber \/ cached' >= Cent
  /\ lastTick' # NoTick => lastTick'.close = cached' /\ (IsNumber(lastTick') => Ordered(lastTick'))
  /\ ended' => base = NoNumber \/ FallsToHalfACent(base)

\* A tick is simulated, and refused only from a price that falls to half a cent, or from none.
LEMMA SimulatesStep ==
  ASSUME NEW base, base = NoNumber \/ (base \in Nat /\ base > 0), Simulates(base)
  PROVE  SimulatedFrom(base)
<1>0. PICK move \in Moves, open \in Rounded(base, 0) :
        \E new \in Rounded(base, move) :
        \E high \in Rounded(Higher(base, new), Spread),
           low \in Rounded(Lower(base, new), -Spread) :
          LET t == [open |-> open, high |-> high, low |-> low, close |-> new]
          IN  \E taken \in Verdicts(t) :
                /\ cached' = new
                /\ lastTick' = IF taken THEN t ELSE NoTick
                /\ ended' = ~taken
  BY Zenon DEF Simulates
<1>1. PICK new \in Rounded(base, move) :
        \E high \in Rounded(Higher(base, new), Spread),
           low \in Rounded(Lower(base, new), -Spread) :
          LET t == [open |-> open, high |-> high, low |-> low, close |-> new]
          IN  \E taken \in Verdicts(t) :
                /\ cached' = new
                /\ lastTick' = IF taken THEN t ELSE NoTick
                /\ ended' = ~taken
  BY <1>0, Zenon
<1>1a. PICK high \in Rounded(Higher(base, new), Spread),
            low \in Rounded(Lower(base, new), -Spread) :
         LET t == [open |-> open, high |-> high, low |-> low, close |-> new]
         IN  \E taken \in Verdicts(t) :
               /\ cached' = new
               /\ lastTick' = IF taken THEN t ELSE NoTick
               /\ ended' = ~taken
  BY <1>1, Zenon
<1>. DEFINE tick == [open |-> open, high |-> high, low |-> low, close |-> new]
<1>2. PICK taken \in Verdicts(tick) : /\ cached' = new
                                      /\ lastTick' = IF taken THEN tick ELSE NoTick
                                      /\ ended' = ~taken
  BY <1>1a, Zenon
<1>3. /\ tick.open = open /\ tick.high = high /\ tick.low = low /\ tick.close = new
      /\ tick["open"] = open /\ tick["high"] = high /\ tick["low"] = low /\ tick["close"] = new
  OBVIOUS
<1>. HIDE DEF tick
<1>4. CASE base = NoNumber
  <2>1. open = NoNumber /\ new = NoNumber
    BY <1>4 DEF Rounded
  <2>2. high = NoNumber /\ low = NoNumber
    BY <1>4, <2>1 DEF Rounded, Higher, Lower
  <2>3. ~IsNumber(tick)
    BY <1>3, <2>1 DEF IsNumber, PriceFields
  <2>4. taken \in BOOLEAN
    <3>1. \A f \in PriceFields : tick[f] = NoNumber \/ tick[f] \in Int
      BY <1>3, <2>1, <2>2 DEF PriceFields
    <3>. QED  BY <3>1, VerdictFacts
  <2>5. lastTick' # NoTick => lastTick' = tick
    BY <1>2
  <2>6. ended' \in BOOLEAN
    BY <1>2, <2>4
  <2>7. cached' = NoNumber
    BY <1>2, <2>1
  <2>8. lastTick' # NoTick => lastTick'.close = cached' /\ ~IsNumber(lastTick')
    BY <1>3, <2>1, <2>3, <2>5, <2>7
  <2>. QED  BY <1>4, <2>6, <2>7, <2>8 DEF SimulatedFrom
<1>5. CASE base \in Nat /\ base > 0
  <2>1. /\ open \in Int /\ new \in Nat /\ high \in Int /\ low \in Int
        /\ low <= open /\ open <= high /\ low <= new /\ new <= high
        /\ new > 0 => new >= Cent
        /\ ~FallsToHalfACent(base) => low > 0
    BY <1>5, SimulatedIsSound
  <2>2. /\ \A f \in PriceFields : tick[f] = NoNumber \/ tick[f] \in Int
        /\ IsNumber(tick)
    BY <1>3, <2>1, PriceConstants DEF PriceFields, IsNumber
  <2>3. /\ taken \in BOOLEAN
        /\ taken => \A f \in PriceFields : tick[f] > 0
        /\ (\A f \in PriceFields : tick[f] > 0) => taken
    BY <2>2, VerdictFacts
  <2>4. taken => new > 0 /\ Ordered(tick)
    BY <1>3, <2>1, <2>3 DEF Ordered, PriceFields
  <2>5. ~taken => FallsToHalfACent(base)
    <3>1. low > 0 => \A f \in PriceFields : tick[f] > 0
      BY <1>3, <2>1 DEF PriceFields
    <3>. QED  BY <2>1, <2>3, <3>1
  <2>6. lastTick' # NoTick => taken /\ lastTick' = tick
    BY <1>2, <2>3
  <2>7. ended' \in BOOLEAN /\ (ended' <=> ~taken)
    BY <1>2, <2>3
  <2>8. cached' \in Nat /\ cached' # NoNumber
    BY <1>2, <2>1, PriceConstants
  <2>9. ~ended' => cached' >= Cent
    BY <1>2, <2>1, <2>4, <2>7
  <2>10. lastTick' # NoTick => lastTick'.close = cached' /\ Ordered(lastTick')
    BY <1>2, <1>3, <2>4, <2>6
  <2>. QED  BY <2>5, <2>7, <2>8, <2>9, <2>10 DEF SimulatedFrom
<1>. QED  BY <1>4, <1>5

\* A live tick that TickEvent takes is ordered when it is of numbers.
LEMMA LiveTickFacts ==
  ASSUME NEW price \in LivePrices, NEW prev \in Quotes, NEW high \in Quotes, NEW low \in Quotes,
         NEW tick, tick = LiveTick(price, prev, high, low), NEW taken \in Verdicts(tick)
  PROVE  /\ taken \in BOOLEAN /\ tick.close = price
         /\ taken /\ IsNumber(tick) => Ordered(tick)
<1>1. /\ price = NoNumber \/ (price \in Int /\ price > 0)
      /\ prev = NoNumber \/ prev \in Int
      /\ high = NoNumber \/ high \in Int
      /\ low = NoNumber \/ low \in Int
      /\ NoNumber \notin Int
  BY PriceConstants
<1>. DEFINE top == Higher(Higher(prev, price), high)
            bottom == Lower(Lower(prev, price), low)
<1>2. /\ tick.open = prev /\ tick.high = top /\ tick.low = bottom /\ tick.close = price
      /\ tick["open"] = prev /\ tick["high"] = top /\ tick["low"] = bottom
      /\ tick["close"] = price
  BY Zenon DEF LiveTick
<1>3. (top = NoNumber \/ top \in Int) /\ (bottom = NoNumber \/ bottom \in Int)
  BY <1>1 DEF Higher, Lower
<1>4. prev \in Int /\ price \in Int =>
        top >= prev /\ top >= price /\ bottom <= prev /\ bottom <= price
  BY <1>1 DEF Higher, Lower
<1>. HIDE DEF top, bottom
<1>5. \A f \in PriceFields : tick[f] = NoNumber \/ tick[f] \in Int
  BY <1>1, <1>2, <1>3 DEF PriceFields
<1>6. /\ taken \in BOOLEAN
      /\ taken /\ IsNumber(tick) => \A f \in PriceFields : tick[f] > 0
  BY <1>5, VerdictFacts
<1>7. IsNumber(tick) => prev \in Int /\ price \in Int
  BY <1>1, <1>2 DEF IsNumber, PriceFields
<1>8. taken /\ IsNumber(tick) => Ordered(tick)
  BY <1>2, <1>4, <1>6, <1>7 DEF Ordered
<1>. QED  BY <1>2, <1>6, <1>8

\* A fetch, answered or not.
LEMMA PriceStep == PriceInv /\ [PriceNext]_priceVars => PriceInv'
<1>. SUFFICES ASSUME PriceInv, [PriceNext]_priceVars PROVE PriceInv'
  OBVIOUS
<1>1. CASE ~ended /\ FetchFails
  <2>1. Simulates(cached) /\ live' = live
    BY <1>1 DEF FetchFails
  <2>2. cached = NoNumber \/ (cached \in Nat /\ cached > 0)
    BY <1>1, WholeCent DEF PriceInv
  <2>3. SimulatedFrom(cached)
    BY <2>1, <2>2, SimulatesStep
  <2>4. cached # NoNumber /\ FallsToHalfACent(cached) => cached = live
    BY <1>1, <2>2, WholeCent DEF PriceInv, FallsToHalfACent
  <2>5. (cached = NoNumber => live = NoNumber) /\ (live = NoNumber \/ live \in Nat)
    BY DEF PriceInv
  <2>. QED  BY <2>1, <2>3, <2>4, <2>5 DEF SimulatedFrom, PriceInv
<1>2. CASE ~ended /\ FetchAnswered
  <2>0. PICK price \in LivePrices, prev \in Quotes, high \in Quotes, low \in Quotes :
          LET t == LiveTick(price, prev, high, low)
          IN  /\ live' = price
              /\ \E taken \in Verdicts(t) :
                   \/ taken /\ cached' = price /\ lastTick' = t /\ UNCHANGED ended
                   \/ ~taken /\ Simulates(price)
    BY <1>2, Zenon DEF FetchAnswered
  <2>1. PICK tick : tick = LiveTick(price, prev, high, low)
    OBVIOUS
  <2>2. PICK taken \in Verdicts(tick) :
          \/ taken /\ cached' = price /\ lastTick' = tick /\ UNCHANGED ended
          \/ ~taken /\ Simulates(price)
    BY <2>0, <2>1, Zenon
  <2>3. live' = price /\ (price = NoNumber \/ (price \in Nat /\ price > 0))
    BY <2>0, PriceConstants
  <2>4. CASE taken /\ cached' = price /\ lastTick' = tick /\ UNCHANGED ended
    <3>1. tick.close = price /\ (IsNumber(tick) => Ordered(tick))
      BY <2>1, <2>4, LiveTickFacts
    <3>. QED  BY <1>2, <2>3, <2>4, <3>1 DEF PriceInv
  <2>5. CASE Simulates(price)
    <3>1. SimulatedFrom(price)
      BY <2>3, <2>5, SimulatesStep
    <3>. QED  BY <2>3, <3>1 DEF SimulatedFrom, PriceInv
  <2>. QED  BY <2>2, <2>4, <2>5
<1>3. CASE UNCHANGED priceVars
  BY <1>3 DEF priceVars, PriceInv
<1>. QED  BY <1>1, <1>2, <1>3 DEF PriceNext

(* For any prices yfinance answers, not-a-number among them, in cents cut  *)
(* as small as one likes, and however long a ticker is simulated: a tick   *)
(* closes on the price that the next one is simulated from, with its low   *)
(* and high around it unless a field is not a number; only a live price    *)
(* that is none, or that half a percent brings down to half a cent, ends a *)
(* thread; and simulated prices under a dollar never move again            *)
(* (stock_producer.py:57-102, events.py:25-40).                            *)
THEOREM PricesAreSound == PriceSpec => []PricesSound
<1>1. PriceInit => PriceInv
  <2>. SUFFICES ASSUME PriceInit PROVE PriceInv
    OBVIOUS
  <2>1. cached \in Nat /\ cached >= Cent /\ cached # NoNumber
    BY PriceConstants DEF PriceInit
  <2>2. live = 0 /\ ended = FALSE /\ lastTick = NoTick
    BY DEF PriceInit
  <2>. QED  BY <2>1, <2>2 DEF PriceInv
<1>2. PriceInv => PricesSound
  <2>. SUFFICES ASSUME PriceInv PROVE PricesSound
    OBVIOUS
  <2>1. ASSUME NEW m \in Moves, cached # NoNumber, cached = Cent * Cents(cached), cached < 100 * Cent
        PROVE  Rounded(cached, m) = {cached}
    <3>1. cached \in Nat
      BY <2>1 DEF PriceInv
    <3>2. PICK l \in Int : l = Cents(cached) /\ cached = Cent * l
      BY <2>1, <3>1, WholeCent, DivisionFacts DEF Cents
    <3>3. l \in Nat /\ l < 100
      <4>1. 0 * Cent < (l + 1) * Cent
        BY <3>1, <3>2, WholeCent
      <4>2. l * Cent < 100 * Cent
        BY <2>1, <3>2, WholeCent
      <4>3. 0 < l + 1 /\ l < 100
        BY <4>1, <4>2, WholeCent, ProductOrder
      <4>. QED  BY <4>3
    <3>. QED  BY <3>1, <3>2, <3>3, LowCentsStay
  <2>2. \/ lastTick = NoTick
        \/ lastTick.close = cached /\ (IsNumber(lastTick) => Ordered(lastTick))
    BY DEF PriceInv
  <2>3. (cached = NoNumber => live = NoNumber) /\ (ended => live = NoNumber \/ FallsToHalfACent(live))
    BY DEF PriceInv
  <2>. QED  BY <2>1, <2>2, <2>3 DEF PricesSound
<1>. QED  BY <1>1, <1>2, PriceStep, PTL DEF PriceSpec

=============================================================================
