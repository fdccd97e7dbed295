--------------------------- MODULE MedallionProof ---------------------------
(***************************************************************************)
(* Proofs about Medallion, for any ticks, keys, retries and bounds, and    *)
(* about the tables of GoldTable that are computed from the lake, for days *)
(* and series of any length.                                               *)
(***************************************************************************)
EXTENDS Medallion, GoldTable, FiniteSetTheorems, SequenceTheorems, TLAPS

\* Appending gives rows again, loses none and adds rows of the appended ticks only.
LEMMA AddRowsKeeps ==
  ASSUME NEW s \in Rows, NEW S \in SUBSET Ticks
  PROVE  /\ AddRows(s, S) \in Rows
         /\ \A e \in Ticks : AddRows(s, S)[e] >= s[e]
         /\ \A e \in Ticks : AddRows(s, S)[e] > 0 => s[e] > 0 \/ e \in S
  BY LakeBoundsAssumption DEF AddRows, Rows

\* The empty table is a table.
LEMMA NoRowsTyped == NoRows \in Rows /\ \A e \in Ticks : NoRows[e] = 0
  BY LakeBoundsAssumption DEF NoRows, Rows

\* A retry keeps a run well-formed and forgets its input.
LEMMA IngestRetryTyped ==
  ASSUME TypeOK, IngestRetry
  PROVE  /\ ingest' \in [task : IngestTasks, tries : 0 .. IngestRetries, input : SUBSET Ticks]
         /\ ingest'.input = {} /\ ingest'.task # "commit"
<1>1. CASE ingest.tries < IngestRetries
  <2>1. ingest.tries + 1 \in 0 .. IngestRetries
    BY <1>1, RetriesAssumption DEF TypeOK
  <2>2. (IF IngestAt("write") \/ IngestAt("commit") THEN "read" ELSE ingest.task) \in IngestTasks
    BY DEF TypeOK, IngestTasks, IngestAt
  <2>3. (IF IngestAt("write") \/ IngestAt("commit") THEN "read" ELSE ingest.task) # "commit"
    BY DEF IngestAt
  <2>. QED  BY <1>1, <2>1, <2>2, <2>3 DEF IngestRetry
<1>2. CASE ~(ingest.tries < IngestRetries)
  BY <1>2, RetriesAssumption DEF IngestRetry, IngestGoes, IngestTasks
<1>. QED  BY <1>1, <1>2

\* The same of the daily run.
LEMMA DailyRetryTyped ==
  ASSUME TypeOK, DailyRetry
  PROVE  /\ daily' \in [task : DailyTasks, tries : 0 .. DailyRetries, input : Rows]
         /\ daily'.input = NoRows
<1>1. CASE daily.tries < DailyRetries
  <2>1. daily.tries + 1 \in 0 .. DailyRetries
    BY <1>1, RetriesAssumption DEF TypeOK
  <2>. QED  BY <1>1, <2>1, NoRowsTyped DEF DailyRetry, DailyTasks
<1>2. CASE ~(daily.tries < DailyRetries)
  BY <1>2, RetriesAssumption, NoRowsTyped DEF DailyRetry, DailyGoes, DailyTasks
<1>. QED  BY <1>1, <1>2

\* Lemmas about one DAG: what it leaves of the other's state.
LEMMA IngestFrame == IngestStep => UNCHANGED <<bronze, gold, daily>>
  BY DEF IngestStep, ScheduleIngest, TriggerNiFi, WaitBronze, ReadBronze, MoveRows, MovesTo,
         WriteSilver, DataQuality, IngestFindsNothing, IngestDies, lake

\* The daily DAG writes Gold alone.
LEMMA DailyFrame == DailyStep => UNCHANGED <<streamed, bronze, silver, silverFiles, ingest, appends>>
  BY DEF DailyStep, ScheduleDaily, CheckSilver, ReadSilver, DeleteGold, WriteGold,
         DailyFindsNothing, DailyDies, lake

\* The initial states satisfy the invariant.
LEMMA InitLake == Init => LakeInv
<1>. SUFFICES ASSUME Init PROVE LakeInv
  OBVIOUS
<1>1. TypeOK
  <2>1. streamed \in BOOLEAN /\ bronze \subseteq Ticks /\ silverFiles \in BOOLEAN
    BY DEF Init
  <2>2. silver \in Rows /\ gold \in [state : {"absent", "partial", "complete"}, rows : Rows]
    BY NoRowsTyped DEF Init
  <2>3. ingest \in [task : IngestTasks, tries : 0 .. IngestRetries, input : SUBSET Ticks]
    <3>1. 0 \in 0 .. IngestRetries /\ "idle" \in IngestTasks /\ {} \in SUBSET Ticks
      BY RetriesAssumption DEF IngestTasks
    <3>. QED  BY <3>1 DEF Init
  <2>4. daily \in [task : DailyTasks, tries : 0 .. DailyRetries, input : Rows]
    <3>1. 0 \in 0 .. DailyRetries /\ "idle" \in DailyTasks
      BY RetriesAssumption DEF DailyTasks
    <3>. QED  BY <3>1, NoRowsTyped DEF Init
  <2>5. faults \in 0 .. MaxFaults /\ appends \in 0 .. 2
    BY LakeBoundsAssumption DEF Init
  <2>. QED  BY <2>1, <2>2, <2>3, <2>4, <2>5 DEF TypeOK
<1>2. InputsFromLake /\ GoldFromSilver
  BY NoRowsTyped DEF Init, InputsFromLake, GoldFromSilver
<1>3. AppendedOnce
  BY NoRowsTyped DEF Init, AppendedOnce, IngestAt
<1>. QED  BY <1>1, <1>2, <1>3 DEF LakeInv

\* A step of the ingest DAG: the run stays well-formed, Silver only grows, and what
\* is added was validated.
LEMMA IngestKeeps ==
  ASSUME LakeInv, IngestStep
  PROVE  /\ ingest' \in [task : IngestTasks, tries : 0 .. IngestRetries, input : SUBSET Ticks]
         /\ ingest'.input \subseteq bronze \cap Valid
         /\ silver' \in Rows
         /\ \A e \in Ticks : /\ silver'[e] >= silver[e]
                             /\ silver'[e] > 0 => e \in bronze \cap Valid
         /\ silverFiles' \in BOOLEAN /\ faults' \in 0 .. MaxFaults /\ appends' \in 0 .. 2
         /\ streamed' = streamed
<1>. DEFINE Run == [task : IngestTasks, tries : 0 .. IngestRetries, input : SUBSET Ticks]
            Kept == /\ ingest' \in Run
                    /\ ingest'.input \subseteq bronze \cap Valid
                    /\ silver' \in Rows
                    /\ \A e \in Ticks : /\ silver'[e] >= silver[e]
                                        /\ silver'[e] > 0 => e \in bronze \cap Valid
                    /\ silverFiles' \in BOOLEAN /\ faults' \in 0 .. MaxFaults
                    /\ appends' \in 0 .. 2
                    /\ streamed' = streamed
<1>. USE RetriesAssumption, LakeBoundsAssumption DEF LakeInv
<1>1. \A e \in Ticks : silver[e] \in Nat
  BY DEF TypeOK, Rows
<1>2. ASSUME UNCHANGED <<silver, silverFiles, faults, appends, streamed>>,
             ingest' \in Run, ingest'.input \subseteq bronze \cap Valid
      PROVE  Kept
  BY <1>1, <1>2 DEF TypeOK, GoldFromSilver
<1>3. CASE ScheduleIngest \/ TriggerNiFi \/ WaitBronze \/ DataQuality
  <2>1. ingest' \in Run /\ ingest'.input = {}
    BY <1>3 DEF ScheduleIngest, TriggerNiFi, WaitBronze, DataQuality, IngestGoes, IngestTasks
  <2>. QED  BY <1>2, <1>3, <2>1
              DEF ScheduleIngest, TriggerNiFi, WaitBronze, DataQuality, lake
<1>4. CASE ReadBronze
  <2>1. PICK T \in Deduplicated(bronze \cap Valid) :
               ingest' = [ingest EXCEPT !.task = "write", !.input = T]
    BY <1>4 DEF ReadBronze
  <2>2. T \subseteq bronze \cap Valid /\ T \subseteq Ticks
    BY TicksAssumption DEF Deduplicated
  <2>3. ingest' \in Run /\ ingest'.input = T
    BY <2>1, <2>2 DEF TypeOK, IngestTasks
  <2>. QED  BY <1>2, <1>4, <2>2, <2>3 DEF ReadBronze, lake
<1>5. CASE MoveRows
  <2>1. PICK part \in SUBSET ingest.input \ {{}} :
               /\ silver' = AddRows(silver, part)
               /\ ingest' = [ingest EXCEPT !.task = "commit", !.input = @ \ part]
    BY <1>5 DEF MoveRows, MovesTo
  <2>2. ingest' \in Run /\ ingest'.input \subseteq ingest.input
    BY <2>1 DEF TypeOK, IngestTasks
  <2>3. part \in SUBSET Ticks /\ part \subseteq bronze \cap Valid /\ silver \in Rows
    BY <2>1 DEF TypeOK, InputsFromLake
  <2>4. appends' \in 0 .. 2 /\ silverFiles' = TRUE /\ faults' = faults /\ streamed' = streamed
    BY <1>5 DEF MoveRows, MovesTo, Attempted, TypeOK
  <2>. QED  BY <1>1, <2>1, <2>2, <2>3, <2>4, AddRowsKeeps
              DEF InputsFromLake, GoldFromSilver, TypeOK
<1>6. CASE WriteSilver
  <2>1. ingest' \in Run /\ ingest'.input = {}
    BY <1>6 DEF WriteSilver, IngestGoes, IngestTasks
  <2>. QED  BY <1>1, <1>6, <2>1 DEF WriteSilver, GoldFromSilver, TypeOK
<1>7. CASE IngestFindsNothing
  BY <1>2, <1>7, IngestRetryTyped DEF IngestFindsNothing, lake
<1>8. CASE IngestDies
  <2>1. ingest' \in Run /\ ingest'.input = {}
    BY <1>8, IngestRetryTyped DEF IngestDies
  <2>2. faults' \in 0 .. MaxFaults /\ UNCHANGED <<streamed, silver, appends>>
    BY <1>8 DEF IngestDies, TypeOK
  <2>3. silverFiles' \in BOOLEAN
    BY <1>8 DEF IngestDies, TypeOK
  <2>. QED  BY <1>1, <2>1, <2>2, <2>3 DEF TypeOK, GoldFromSilver
<1>. QED  BY <1>3, <1>4, <1>5, <1>6, <1>7, <1>8 DEF IngestStep

\* A step of the daily DAG: the run holds at most what Silver holds, and so does Gold.
LEMMA DailyKeeps ==
  ASSUME LakeInv, DailyStep
  PROVE  /\ daily' \in [task : DailyTasks, tries : 0 .. DailyRetries, input : Rows]
         /\ \A e \in Ticks : daily'.input[e] <= silver[e]
         /\ gold' \in [state : {"absent", "partial", "complete"}, rows : Rows]
         /\ \A e \in Ticks : gold'.rows[e] <= silver[e]
         /\ faults' \in 0 .. MaxFaults
<1>. DEFINE Run == [task : DailyTasks, tries : 0 .. DailyRetries, input : Rows]
            Table == [state : {"absent", "partial", "complete"}, rows : Rows]
            Kept == /\ daily' \in Run
                    /\ \A e \in Ticks : daily'.input[e] <= silver[e]
                    /\ gold' \in Table
                    /\ \A e \in Ticks : gold'.rows[e] <= silver[e]
                    /\ faults' \in 0 .. MaxFaults
<1>. USE RetriesAssumption, LakeBoundsAssumption, NoRowsTyped DEF LakeInv
<1>1. silver \in Rows /\ \A e \in Ticks : silver[e] \in Nat /\ NoRows[e] <= silver[e]
  BY DEF TypeOK, Rows
<1>2. daily.input \in Rows /\ \A e \in Ticks : daily.input[e] \in 0 .. MaxCopies
                                             /\ daily.input[e] <= silver[e]
  BY DEF TypeOK, Rows, InputsFromLake
<1>3. ASSUME UNCHANGED <<gold, faults>>, daily' \in Run,
             \A e \in Ticks : daily'.input[e] <= silver[e]
      PROVE  Kept
  BY <1>3 DEF TypeOK, GoldFromSilver
<1>4. CASE ScheduleDaily \/ CheckSilver
  <2>1. daily' \in Run /\ daily'.input = NoRows
    BY <1>4 DEF ScheduleDaily, CheckSilver, DailyGoes, DailyTasks
  <2>. QED  BY <1>1, <1>3, <1>4, <2>1 DEF ScheduleDaily, CheckSilver, lake
<1>5. CASE ReadSilver
  <2>1. daily' \in Run /\ daily'.input = silver
    BY <1>1, <1>5 DEF ReadSilver, TypeOK, DailyTasks
  <2>. QED  BY <1>1, <1>3, <1>5, <2>1 DEF ReadSilver, lake
<1>6. CASE DeleteGold
  <2>1. daily' \in Run /\ daily'.input = daily.input
    BY <1>6 DEF DeleteGold, TypeOK, DailyTasks
  <2>. QED  BY <1>1, <1>2, <1>6, <2>1 DEF DeleteGold, TypeOK
<1>7. CASE WriteGold
  <2>1. daily' \in Run /\ daily'.input = NoRows
    BY <1>7 DEF WriteGold, DailyGoes, DailyTasks
  <2>. QED  BY <1>1, <1>2, <1>7, <2>1 DEF WriteGold, TypeOK
<1>8. CASE DailyFindsNothing
  BY <1>1, <1>3, <1>8, DailyRetryTyped DEF DailyFindsNothing, lake
<1>9. CASE DailyDies
  <2>1. daily' \in Run /\ daily'.input = NoRows
    BY <1>9, DailyRetryTyped DEF DailyDies
  <2>2. faults' \in 0 .. MaxFaults
    BY <1>9 DEF DailyDies, TypeOK
  <2>3. CASE DailyAt("write")
    <3>1. PICK part \in SUBSET Ticks :
            gold' = [state |-> "partial",
                     rows  |-> [e \in Ticks |-> IF e \in part THEN daily.input[e] ELSE 0]]
      BY <1>9, <2>3 DEF DailyDies
    <3>2. [e \in Ticks |-> IF e \in part THEN daily.input[e] ELSE 0] \in Rows
      BY <1>2 DEF Rows
    <3>3. gold' \in Table
      BY <3>1, <3>2
    <3>4. \A e \in Ticks : gold'.rows[e] <= silver[e]
      BY <1>1, <1>2, <3>1
    <3>. QED  BY <1>1, <2>1, <2>2, <3>3, <3>4
  <2>4. CASE ~DailyAt("write")
    <3>1. UNCHANGED gold
      BY <1>9, <2>4 DEF DailyDies
    <3>. QED  BY <1>1, <2>1, <2>2, <3>1 DEF TypeOK, GoldFromSilver
  <2>. QED  BY <2>3, <2>4
<1>. QED  BY <1>4, <1>5, <1>6, <1>7, <1>8, <1>9 DEF DailyStep

\* Ticks that have no row get one.
LEMMA FirstAppend ==
  ASSUME NEW s \in Rows, NEW S \in SUBSET Ticks, \A e \in S : s[e] = 0
  PROVE  \A e \in Ticks : AddRows(s, S)[e] = IF e \in S THEN 1 ELSE s[e]
  BY LakeBoundsAssumption DEF AddRows, Rows

\* Deduplication holds through a first append, and no step but an append matters.
LEMMA AppendedOnceStep == LakeInv /\ [Next]_vars => AppendedOnce'
<1>. SUFFICES ASSUME LakeInv, [Next]_vars PROVE AppendedOnce'
  OBVIOUS
<1>. USE DEF LakeInv
<1>1. ASSUME UNCHANGED <<silver, appends>>,
             (ingest'.task # "commit" /\ ingest'.input = {}) \/ ingest' = ingest
      PROVE  AppendedOnce'
  BY <1>1 DEF AppendedOnce, IngestAt
<1>2. CASE MoveRows
  <2>1. PICK part \in SUBSET ingest.input \ {{}} :
               /\ silver' = AddRows(silver, part)
               /\ ingest' = [ingest EXCEPT !.task = "commit", !.input = @ \ part]
    BY <1>2 DEF MoveRows, MovesTo
  <2>2. ingest'.input = ingest.input \ part
    BY <2>1 DEF TypeOK
  <2>3. appends' # 0 /\ (appends' < 2 => appends = 0 \/ (appends < 2 /\ IngestAt("commit")))
    BY <1>2 DEF MoveRows, MovesTo, Attempted, TypeOK, AppendedOnce, IngestAt
  <2>4. ASSUME appends' < 2
        PROVE  \A e \in Ticks : /\ silver'[e] = IF e \in part THEN 1 ELSE silver[e]
                                /\ silver[e] > 0 => \A f \in ingest.input : KeyOf[e] # KeyOf[f]
    <3>1. \A e \in Ticks : silver[e] \in Nat
      BY LakeBoundsAssumption DEF TypeOK, Rows
    <3>2. \A e \in Ticks : silver[e] > 0 => \A f \in ingest.input : KeyOf[e] # KeyOf[f]
      BY <2>3, <2>4 DEF AppendedOnce
    <3>3. part \in SUBSET Ticks /\ \A e \in part : silver[e] = 0
      BY <2>1, <3>1, <3>2 DEF TypeOK
    <3>. QED  BY <2>1, <3>2, <3>3, FirstAppend DEF TypeOK
  <2>5. \A e, f \in ingest.input : KeyOf[e] = KeyOf[f] => e = f
    BY DEF AppendedOnce
  <2>6. ASSUME appends' < 2, NEW e \in Ticks, silver'[e] > 0
        PROVE  /\ silver'[e] = 1
               /\ \A f \in Ticks : silver'[f] > 0 /\ KeyOf[e] = KeyOf[f] => e = f
               /\ \A f \in ingest'.input : KeyOf[e] # KeyOf[f]
    <3>1. appends < 2 /\ (silver[e] > 0 => silver[e] = 1)
      BY <2>3, <2>6 DEF AppendedOnce
    <3>2. silver'[e] = 1
      BY <2>4, <2>6, <3>1
    <3>3. ASSUME NEW f \in Ticks, silver'[f] > 0, KeyOf[e] = KeyOf[f] PROVE e = f
      <4>1. CASE e \in part /\ f \in part
        BY <2>1, <2>5, <3>3, <4>1
      <4>2. CASE e \in part /\ f \notin part
        BY <2>1, <2>4, <2>6, <3>3, <4>2
      <4>3. CASE e \notin part /\ f \in part
        BY <2>1, <2>4, <2>6, <3>3, <4>3
      <4>4. CASE e \notin part /\ f \notin part
        <5>1. silver[e] > 0 /\ silver[f] > 0
          BY <2>4, <2>6, <3>3, <4>4
        <5>. QED  BY <3>1, <3>3, <5>1 DEF AppendedOnce
      <4>. QED  BY <4>1, <4>2, <4>3, <4>4
    <3>4. ASSUME NEW f \in ingest'.input PROVE KeyOf[e] # KeyOf[f]
      <4>1. CASE e \in part
        BY <2>1, <2>2, <2>5, <3>4, <4>1
      <4>2. CASE e \notin part
        BY <2>2, <2>4, <2>6, <3>4, <4>2
      <4>. QED  BY <4>1, <4>2
    <3>. QED  BY <3>2, <3>3, <3>4
  <2>. QED  BY <2>2, <2>3, <2>5, <2>6 DEF AppendedOnce
<1>3. CASE ScheduleIngest \/ TriggerNiFi \/ WaitBronze \/ WriteSilver \/ DataQuality
  BY <1>1, <1>3 DEF ScheduleIngest, TriggerNiFi, WaitBronze, WriteSilver, DataQuality,
                    IngestGoes, lake
<1>4. CASE ReadBronze
  <2>1. PICK T \in Deduplicated(bronze \cap Valid) :
               ingest' = [ingest EXCEPT !.task = "write", !.input = T]
    BY <1>4 DEF ReadBronze
  <2>2. ingest'.input = T /\ ingest'.task = "write"
    BY <2>1 DEF TypeOK
  <2>3. \A e, f \in T : KeyOf[e] = KeyOf[f] => e = f
    BY DEF Deduplicated
  <2>. QED  BY <1>4, <2>2, <2>3 DEF ReadBronze, lake, AppendedOnce, IngestAt
<1>5. CASE IngestFindsNothing \/ IngestDies
  <2>1. ingest'.task # "commit" /\ ingest'.input = {}
    BY <1>5, IngestRetryTyped DEF IngestFindsNothing, IngestDies
  <2>. QED  BY <1>1, <1>5, <2>1 DEF IngestFindsNothing, IngestDies, lake
<1>6. CASE Stream \/ \E e \in Ticks : Land(e)
  BY <1>1, <1>6 DEF Stream, Land
<1>7. CASE DailyStep
  BY <1>1, <1>7, DailyFrame
<1>8. CASE UNCHANGED vars
  BY <1>1, <1>8 DEF vars, lake
<1>. QED
  BY <1>2, <1>3, <1>4, <1>5, <1>6, <1>7, <1>8 DEF Next, IngestStep

\* The invariant is kept: each DAG keeps its own part and the other's bounds.
LEMMA LakeStep == LakeInv /\ [Next]_vars => LakeInv'
<1>. SUFFICES ASSUME LakeInv, [Next]_vars PROVE LakeInv'
  OBVIOUS
<1>. USE DEF LakeInv
<1>0. AppendedOnce'
  BY AppendedOnceStep
<1>1. ASSUME Stream \/ \E e \in Ticks : Land(e) PROVE LakeInv'
  BY <1>0, <1>1 DEF Stream, Land, TypeOK, InputsFromLake, GoldFromSilver
<1>2. CASE IngestStep
  <2>1. /\ \A e \in Ticks : gold.rows[e] \in Nat /\ daily.input[e] \in Nat
                            /\ silver[e] \in Nat /\ silver'[e] \in Nat
    BY <1>2, IngestKeeps DEF TypeOK, Rows
  <2>2. TypeOK'
    BY <1>2, IngestKeeps, IngestFrame DEF TypeOK
  <2>3. InputsFromLake' /\ GoldFromSilver'
    BY <1>2, <2>1, IngestKeeps, IngestFrame DEF InputsFromLake, GoldFromSilver
  <2>. QED  BY <1>0, <2>2, <2>3
<1>3. CASE DailyStep
  <2>1. TypeOK'
    BY <1>3, DailyKeeps, DailyFrame DEF TypeOK
  <2>2. InputsFromLake' /\ GoldFromSilver'
    BY <1>3, DailyKeeps, DailyFrame DEF InputsFromLake, GoldFromSilver
  <2>. QED  BY <1>0, <2>1, <2>2
<1>4. CASE UNCHANGED vars
  BY <1>0, <1>4 DEF vars, lake, TypeOK, InputsFromLake, GoldFromSilver
<1>. QED  BY <1>1, <1>2, <1>3, <1>4 DEF Next

\* The invariant holds in every reachable state.
THEOREM LakeInvariance == Spec => []LakeInv
  BY InitLake, LakeStep, PTL DEF Spec

\* silver_to_gold.py under bronze_to_silver.py: whatever runs, dies and is retried
\* at the same time, Gold counts no tick more often than Silver holds it, and
\* Silver holds only validated ticks of Bronze.
THEOREM GoldIsBackedBySilver == Spec => []GoldFromSilver
<1>1. LakeInv => GoldFromSilver
  BY DEF LakeInv
<1>. QED  BY LakeInvariance, <1>1, PTL

\* bronze_to_silver.py: dropDuplicates works within one job, so as long as one
\* append at most was attempted, killed half-way or not, Silver holds one row at
\* most of each (ticker, timestamp, close).
THEOREM OneAppendDeduplicates == Spec => []OneAppendIsUnique
<1>1. LakeInv => OneAppendIsUnique
  <2>. SUFFICES ASSUME LakeInv, appends < 2, NEW k \in Keys
                PROVE  /\ Cardinality(Copies(k)) <= 1
                       /\ \A e \in Copies(k) : silver[e] = 1
    BY DEF OneAppendIsUnique
  <2>1. \A e, f \in Copies(k) : e = f
    BY DEF LakeInv, AppendedOnce, Copies
  <2>2. CASE Copies(k) = {}
    BY <2>2, FS_EmptySet
  <2>3. CASE Copies(k) # {}
    <3>1. PICK e : Copies(k) = {e}
      BY <2>1, <2>3
    <3>2. Cardinality(Copies(k)) = 1
      BY <3>1, FS_Singleton
    <3>3. \A f \in Copies(k) : silver[f] = 1
      BY DEF LakeInv, AppendedOnce, Copies, TypeOK, Rows
    <3>. QED  BY <3>2, <3>3
  <2>. QED  BY <2>2, <2>3
<1>. QED  BY LakeInvariance, <1>1, PTL

-----------------------------------------------------------------------------
(* Induction, for the folds of the tables.  It is over a set of numbers,   *)
(* which the provers can be given, where an operator cannot.               *)

\* A set with 0 and every successor of its members holds every number.
LEMMA SetInduction ==
  ASSUME NEW P, 0 \in P, \A n \in Nat : n \in P => n + 1 \in P
  PROVE  \A n \in Nat : n \in P
<1>. DEFINE R == OpToRel(<, Nat)
            D == Nat \ P
<1>1. SUFFICES ASSUME D # {} PROVE FALSE
  OBVIOUS
<1>2. IsWellFoundedOn(R, Nat)
  BY NatLessThanWellFounded, Zenon
<1>3. \A x, y \in Nat : x < y => <<x, y>> \in R
  BY Zenon DEF OpToRel
<1>4. PICK x \in D : \A y \in D : ~(<<y, x>> \in R)
  <2>. HIDE DEF R
  <2>. QED  BY <1>1, <1>2, WFMin
<1>5. x # 0 /\ x - 1 \in Nat /\ x - 1 < x
  OBVIOUS
<1>6. x - 1 \notin D
  <2>. HIDE DEF R
  <2>. QED  BY <1>3, <1>4, <1>5
<1>. QED  BY <1>5, <1>6

\* A set of numbers up to n has a greatest one.
LEMMA MaxIsGreatest ==
  ASSUME NEW n \in Nat, NEW S \in SUBSET (1..n), S # {}
  PROVE  Max(S) \in S /\ \A e \in S : e <= Max(S)
<1>. DEFINE P == {m \in Nat : \A T \in SUBSET (1..m) : T # {} => \E d \in T : \A e \in T : e <= d}
<1>1. 0 \in P
  <2>1. \A T \in SUBSET (1..0) : T = {}
    OBVIOUS
  <2>. QED  BY <2>1
<1>2. ASSUME NEW m \in Nat, m \in P PROVE m + 1 \in P
  <2>1. SUFFICES ASSUME NEW T \in SUBSET (1..(m + 1)), T # {}
                 PROVE  \E d \in T : \A e \in T : e <= d
    OBVIOUS
  <2>2. CASE m + 1 \in T
    BY <2>2
  <2>3. CASE m + 1 \notin T
    <3>1. T \in SUBSET (1..m)
      BY <2>3
    <3>. QED  BY <1>2, <2>1, <3>1
  <2>. QED  BY <2>2, <2>3
<1>3. n \in P
  <2>. HIDE DEF P
  <2>. QED  BY <1>1, <1>2, SetInduction
<1>4. \E d \in S : \A e \in S : d >= e
  BY <1>3
<1>5. \A e \in S : Max(S) >= e
  BY <1>4, Zenon DEF Max
<1>6. Max(S) \in S
  BY <1>4, Zenon DEF Max
<1>. QED  BY <1>5, <1>6

\* The greatest number of a range is its end.
LEMMA MaxOfRange == ASSUME NEW n \in Nat \ {0} PROVE Max(1..n) = n /\ (1..n) \ {n} = 1..(n - 1)
<1>1. n \in 1..n /\ 1..n \in SUBSET (1..n) /\ 1..n # {}
  OBVIOUS
<1>2. Max(1..n) \in 1..n /\ n <= Max(1..n)
  BY <1>1, MaxIsGreatest
<1>. QED  BY <1>2

NonEmpty(S) == (SUBSET S) \ {{}}

(* g folds the subsets of S, taking the element pick[T] of T last; and g   *)
(* sums v over them, whichever element of T is taken last.                 *)
IsFold(g, S, Q, base, pick, step) ==
  /\ g \in [SUBSET S -> Q]
  /\ \A T \in SUBSET S : g[T] = IF T = {} THEN base ELSE step[pick[T]][g[T \ {pick[T]}]]

IsSum(g, S, v) == /\ g[{}] = 0
                  /\ \A T \in SUBSET S : g[T] \in Int /\ \A x \in T : g[T] = v[x] + g[T \ {x}]

\* A fold over a finite set, whichever element it takes first, has a value for
\* every subset.
LEMMA FoldExists ==
  ASSUME NEW S, IsFiniteSet(S), NEW Q, NEW base \in Q,
         NEW pick \in [NonEmpty(S) -> S], NEW step \in [S -> [Q -> Q]],
         \A T \in NonEmpty(S) : pick[T] \in T
  PROVE  \E g : IsFold(g, S, Q, base, pick, step)
<1>. DEFINE Below(m) == {T \in SUBSET S : Cardinality(T) <= m}
            Folds(g, D) == \A T \in D :
                              g[T] = IF T = {} THEN base ELSE step[pick[T]][g[T \ {pick[T]}]]
            P == {m \in Nat : \E g \in [Below(m) -> Q] : Folds(g, Below(m))}
<1>1. \A T \in SUBSET S : IsFiniteSet(T) /\ Cardinality(T) \in Nat
  BY FS_Subset, FS_CardinalityType
<1>2. \A T \in SUBSET S : T # {} => pick[T] \in T
  BY DEF NonEmpty
<1>3. 0 \in P
  <2>1. \A T \in Below(0) : T = {}
    BY <1>1, FS_EmptySet
  <2>2. [T \in Below(0) |-> base] \in [Below(0) -> Q] /\ Folds([T \in Below(0) |-> base], Below(0))
    BY <2>1
  <2>. QED  BY <2>2
<1>4. ASSUME NEW m \in Nat, m \in P PROVE m + 1 \in P
  <2>1. PICK g \in [Below(m) -> Q] : Folds(g, Below(m))
    BY <1>4
  <2>. DEFINE h == [T \in Below(m + 1) |-> IF T \in Below(m) THEN g[T]
                                           ELSE step[pick[T]][g[T \ {pick[T]}]]]
  <2>2. Below(m) \subseteq Below(m + 1)
    BY <1>1
  <2>3. ASSUME NEW T \in Below(m + 1), T # {}
        PROVE  pick[T] \in S /\ T \ {pick[T]} \in Below(m)
    <3>1. /\ IsFiniteSet(T) /\ Cardinality(T) \in Nat /\ Cardinality(T) <= m + 1
          /\ pick[T] \in T
      BY <1>2, <1>1, <2>3
    <3>2. Cardinality(T \ {pick[T]}) = Cardinality(T) - 1
      BY <3>1, FS_RemoveElement
    <3>3. Cardinality(T \ {pick[T]}) <= m
      BY <3>1, <3>2
    <3>. QED  BY <3>1, <3>3
  <2>4. {} \in Below(m)
    BY FS_EmptySet
  <2>5. h \in [Below(m + 1) -> Q]
    <3>1. ASSUME NEW T \in Below(m + 1) PROVE h[T] \in Q
      <4>1. CASE T \in Below(m)
        BY <2>1, <4>1
      <4>2. CASE T \notin Below(m)
        <5>1. T # {} /\ g[T \ {pick[T]}] \in Q
          BY <2>1, <2>3, <2>4, <4>2
        <5>. QED  BY <2>3, <4>2, <5>1
      <4>. QED  BY <4>1, <4>2
    <3>. QED  BY <3>1
  <2>6. Folds(h, Below(m + 1))
    <3>1. ASSUME NEW T \in Below(m + 1)
          PROVE  h[T] = IF T = {} THEN base ELSE step[pick[T]][h[T \ {pick[T]}]]
      <4>1. T # {} => h[T \ {pick[T]}] = g[T \ {pick[T]}]
        BY <2>2, <2>3
      <4>2. CASE T \in Below(m)
        BY <2>1, <4>1, <4>2
      <4>3. CASE T \notin Below(m)
        BY <2>4, <4>1, <4>3
      <4>. QED  BY <4>2, <4>3
    <3>. QED  BY <3>1
  <2>7. \E f \in [Below(m + 1) -> Q] : Folds(f, Below(m + 1))
    <3>. HIDE DEF h, Folds, Below
    <3>. QED  BY <2>5, <2>6
  <2>. HIDE DEF h, Folds, Below
  <2>. QED  BY <2>7
<1>5. Cardinality(S) \in P
  <2>1. Cardinality(S) \in Nat
    BY FS_CardinalityType
  <2>. HIDE DEF P
  <2>. QED  BY <1>3, <1>4, <2>1, SetInduction
<1>6. Below(Cardinality(S)) = SUBSET S
  BY FS_Subset
<1>. QED  BY <1>5, <1>6 DEF IsFold

\* A sum over a finite set, whichever element it takes first, may take any.
LEMMA SumTakesAny ==
  ASSUME NEW S, IsFiniteSet(S), NEW v \in [S -> Int], NEW g, g[{}] = 0,
         NEW pick \in [NonEmpty(S) -> S],
         \A T \in NonEmpty(S) :
           pick[T] \in T /\ (g[T \ {pick[T]}] \in Int => g[T] = v[pick[T]] + g[T \ {pick[T]}])
  PROVE  IsSum(g, S, v)
<1>. DEFINE Takes(T) == g[T] \in Int /\ \A x \in T : g[T] = v[x] + g[T \ {x}]
            P == {m \in Nat : \A T \in SUBSET S : Cardinality(T) <= m => Takes(T)}
<1>1. \A T \in SUBSET S : IsFiniteSet(T) /\ Cardinality(T) \in Nat
  BY FS_Subset, FS_CardinalityType
<1>2. Takes({})
  OBVIOUS
<1>3. 0 \in P
  <2>1. \A T \in SUBSET S : Cardinality(T) <= 0 => T = {}
    BY <1>1, FS_EmptySet
  <2>. HIDE DEF Takes
  <2>. QED  BY <1>2, <2>1
<1>4. ASSUME NEW m \in Nat, m \in P PROVE m + 1 \in P
  <2>1. ASSUME NEW T \in SUBSET S, Cardinality(T) <= m + 1 PROVE Takes(T)
    <3>1. CASE T = {}
      BY <1>2, <3>1
    <3>2. CASE T # {}
      <4>1. ASSUME NEW x \in T PROVE Takes(T \ {x})
        <5>1. Cardinality(T \ {x}) = Cardinality(T) - 1
          BY <1>1, FS_RemoveElement
        <5>2. Cardinality(T \ {x}) <= m /\ T \ {x} \in SUBSET S
          BY <1>1, <2>1, <5>1
        <5>. QED  BY <1>4, <5>2
      <4>2. PICK p \in T : g[T \ {p}] \in Int => g[T] = v[p] + g[T \ {p}]
        BY <3>2 DEF NonEmpty
      <4>3. g[T] = v[p] + g[T \ {p}]
        BY <4>2, <4>1
      <4>4. g[T] \in Int
        <5>1. g[T \ {p}] \in Int /\ v[p] \in Int
          BY <4>1
        <5>. QED  BY <4>3, <5>1
      <4>5. ASSUME NEW x \in T, x # p PROVE g[T] = v[x] + g[T \ {x}]
        <5>1. p \in T \ {x} /\ x \in T \ {p} /\ (T \ {p}) \ {x} = (T \ {x}) \ {p}
          BY <4>5
        <5>2. g[T \ {p}] = v[x] + g[(T \ {x}) \ {p}] /\ g[T \ {x}] = v[p] + g[(T \ {x}) \ {p}]
          <6>1. Takes(T \ {p}) /\ Takes(T \ {x})
            BY <4>1
          <6>. QED  BY <5>1, <6>1
        <5>3. g[(T \ {x}) \ {p}] \in Int
          <6>1. g[(T \ {x}) \ {p}] = g[T \ {x}] - v[p] \/ g[(T \ {x}) \ {p}] \in Int
            <7>1. Cardinality((T \ {x}) \ {p}) <= m
              <8>1. IsFiniteSet(T \ {x}) /\ Cardinality(T \ {x}) = Cardinality(T) - 1
                BY <1>1, FS_RemoveElement
              <8>2. Cardinality((T \ {x}) \ {p}) = Cardinality(T \ {x}) - 1
                BY <5>1, <8>1, FS_RemoveElement
              <8>. QED  BY <1>1, <2>1, <8>1, <8>2
            <7>2. (T \ {x}) \ {p} \in SUBSET S
              OBVIOUS
            <7>3. Takes((T \ {x}) \ {p})
              BY <1>4, <7>1, <7>2
            <7>. QED  BY <7>3
          <6>2. g[T \ {x}] \in Int /\ v[p] \in Int
            BY <4>1
          <6>. QED  BY <6>1, <6>2
        <5>4. v[x] \in Int /\ v[p] \in Int
          OBVIOUS
        <5>. QED  BY <4>3, <5>2, <5>3, <5>4
      <4>. QED  BY <4>3, <4>4, <4>5
    <3>. QED  BY <3>1, <3>2
  <2>. HIDE DEF Takes
  <2>. QED  BY <2>1
<1>5. Cardinality(S) \in P
  <2>1. Cardinality(S) \in Nat
    BY FS_CardinalityType
  <2>. HIDE DEF P
  <2>. QED  BY <1>3, <1>4, <2>1, SetInduction
<1>6. \A T \in SUBSET S : Cardinality(T) <= Cardinality(S)
  BY FS_Subset
<1>. QED  BY <1>5, <1>6 DEF IsSum

\* The sum SQL takes over a set of rows, which adds v(r) for every row r.
LEMMA SetSumIs ==
  ASSUME NEW S, NEW v(_)
  PROVE  MapThenSumSet(v, S) =
           (CHOOSE h : h = [T \in SUBSET S |-> IF T = {} THEN 0 ELSE v(CHOOSE x \in T : TRUE) + h[T \ {CHOOSE x \in T : TRUE}]])[S]
BY DEF MapThenSumSet, MapThenFoldSet

\* The fold of a list visits its places from the last to the first: it is
\* defined, and is a sum.
LEMMA ListFold ==
  ASSUME NEW n \in Nat, NEW v \in [1..n -> Int], NEW g,
         (\E h : h = [T \in SUBSET (1..n) |-> IF T = {} THEN 0 ELSE h[T \ {Max(T)}] + v[Max(T)]])
         => g = [T \in SUBSET (1..n) |-> IF T = {} THEN 0 ELSE g[T \ {Max(T)}] + v[Max(T)]]
  PROVE  IsSum(g, 1..n, v)
<1>. DEFINE S == 1..n
            pick == [T \in NonEmpty(S) |-> Max(T)]
            step == [x \in S |-> [q \in Int |-> q + v[x]]]
<1>1. IsFiniteSet(S)
  BY FS_Interval
<1>2. ASSUME NEW T \in NonEmpty(S)
      PROVE  Max(T) \in T /\ Max(T) \in S /\ pick[T] = Max(T) /\ v[Max(T)] \in Int
  <2>1. T \in SUBSET (1..n) /\ T # {}
    BY DEF NonEmpty
  <2>2. Max(T) \in T
    BY <2>1, MaxIsGreatest
  <2>. QED  BY <2>1, <2>2
<1>3. \E h : IsFold(h, S, Int, 0, pick, step)
  <2>1. step \in [S -> [Int -> Int]]
    OBVIOUS
  <2>2. pick \in [NonEmpty(S) -> S] /\ \A T \in NonEmpty(S) : pick[T] \in T
    BY <1>2, Zenon
  <2>3. 0 \in Int
    OBVIOUS
  <2>. HIDE DEF step, pick, S
  <2>. QED  BY <1>1, <2>1, <2>2, <2>3, FoldExists
<1>4. \E h : h = [T \in SUBSET S |-> IF T = {} THEN 0 ELSE h[T \ {Max(T)}] + v[Max(T)]]
  <2>1. PICK h : IsFold(h, S, Int, 0, pick, step)
    BY <1>3
  <2>2. \A T \in SUBSET S : h[T] = IF T = {} THEN 0 ELSE h[T \ {Max(T)}] + v[Max(T)]
    BY <1>2, <2>1 DEF IsFold, NonEmpty
  <2>3. h = [T \in SUBSET S |-> IF T = {} THEN 0 ELSE h[T \ {Max(T)}] + v[Max(T)]]
    <3>. HIDE DEF step, pick, S
    <3>. QED  BY <2>1, <2>2 DEF IsFold
  <2>. QED  BY <2>3
<1>5. g = [T \in SUBSET S |-> IF T = {} THEN 0 ELSE g[T \ {Max(T)}] + v[Max(T)]]
  BY <1>4
<1>6. g[{}] = 0
  <2>1. {} \in SUBSET S
    OBVIOUS
  <2>. QED  BY <1>5, <2>1
<1>7. ASSUME NEW T \in NonEmpty(S)
      PROVE  pick[T] \in T /\ (g[T \ {pick[T]}] \in Int => g[T] = v[pick[T]] + g[T \ {pick[T]}])
  <2>1. T \in SUBSET S /\ T # {}
    BY DEF NonEmpty
  <2>2. g[T] = g[T \ {Max(T)}] + v[Max(T)]
    <3>. HIDE DEF S, pick, step
    <3>. QED  BY <1>5, <2>1
  <2>3. PICK p \in T : p = Max(T) /\ p = pick[T] /\ v[p] \in Int
    BY <1>2
  <2>4. g[T \ {p}] \in Int => g[T] = v[p] + g[T \ {p}]
    BY <2>2, <2>3
  <2>. QED  BY <2>3, <2>4
<1>8. pick \in [NonEmpty(S) -> S]
  BY <1>2
<1>9. v \in [S -> Int]
  OBVIOUS
<1>10. IsSum(g, S, v)
  <2>. HIDE DEF S, pick, step
  <2>. QED  BY <1>1, <1>6, <1>7, <1>8, <1>9, SumTakesAny
<1>. QED  BY <1>10

(* The element that a fold over a set takes. *)
Some(T) == CHOOSE x \in T : TRUE

\* The fold of a set visits its elements in an order of its choice: it too is
\* defined, and is a sum.
LEMMA RowFold ==
  ASSUME NEW S, IsFiniteSet(S), NEW v \in [S -> Int], NEW g,
         (\E h : h = [T \in SUBSET S |-> IF T = {} THEN 0 ELSE v[Some(T)] + h[T \ {Some(T)}]])
         => g = [T \in SUBSET S |-> IF T = {} THEN 0 ELSE v[Some(T)] + g[T \ {Some(T)}]]
  PROVE  IsSum(g, S, v)
<1>. DEFINE pick == [T \in NonEmpty(S) |-> Some(T)]
            step == [x \in S |-> [q \in Int |-> v[x] + q]]
<1>1. ASSUME NEW T \in NonEmpty(S)
      PROVE  Some(T) \in T /\ Some(T) \in S /\ pick[T] = Some(T) /\ v[Some(T)] \in Int
  <2>1. T \in SUBSET S /\ T # {}
    BY DEF NonEmpty
  <2>2. Some(T) \in T
    BY <2>1, Zenon DEF Some
  <2>. QED  BY <2>1, <2>2
<1>2. \E h : IsFold(h, S, Int, 0, pick, step)
  <2>1. step \in [S -> [Int -> Int]]
    OBVIOUS
  <2>2. pick \in [NonEmpty(S) -> S] /\ \A T \in NonEmpty(S) : pick[T] \in T
    BY <1>1, Zenon
  <2>3. 0 \in Int
    OBVIOUS
  <2>. HIDE DEF step, pick
  <2>. QED  BY <2>1, <2>2, <2>3, FoldExists
<1>3. \E h : h = [T \in SUBSET S |-> IF T = {} THEN 0 ELSE v[Some(T)] + h[T \ {Some(T)}]]
  <2>1. PICK h : IsFold(h, S, Int, 0, pick, step)
    BY <1>2
  <2>2. \A T \in SUBSET S : h[T] = IF T = {} THEN 0 ELSE v[Some(T)] + h[T \ {Some(T)}]
    BY <1>1, <2>1 DEF IsFold, NonEmpty
  <2>3. h = [T \in SUBSET S |-> IF T = {} THEN 0 ELSE v[Some(T)] + h[T \ {Some(T)}]]
    <3>. HIDE DEF step, pick
    <3>. QED  BY <2>1, <2>2 DEF IsFold
  <2>. QED  BY <2>3
<1>4. g = [T \in SUBSET S |-> IF T = {} THEN 0 ELSE v[Some(T)] + g[T \ {Some(T)}]]
  BY <1>3
<1>5. g[{}] = 0
  <2>1. {} \in SUBSET S
    OBVIOUS
  <2>. QED  BY <1>4, <2>1
<1>6. ASSUME NEW T \in NonEmpty(S)
      PROVE  pick[T] \in T /\ (g[T \ {pick[T]}] \in Int => g[T] = v[pick[T]] + g[T \ {pick[T]}])
  <2>1. T \in SUBSET S /\ T # {}
    BY DEF NonEmpty
  <2>2. g[T] = v[Some(T)] + g[T \ {Some(T)}]
    <3>. HIDE DEF pick, step
    <3>. QED  BY <1>4, <2>1
  <2>3. PICK p \in T : p = Some(T) /\ p = pick[T] /\ v[p] \in Int
    BY <1>1
  <2>4. g[T \ {p}] \in Int => g[T] = v[p] + g[T \ {p}]
    BY <2>2, <2>3
  <2>. QED  BY <2>3, <2>4
<1>7. pick \in [NonEmpty(S) -> S]
  BY <1>1
<1>8. IsSum(g, S, v)
  <2>. HIDE DEF pick, step
  <2>. QED  BY <1>5, <1>6, <1>7, SumTakesAny
<1>. QED  BY <1>8

-----------------------------------------------------------------------------
(* One day, as a list of ticks and as a set of rows.                       *)

RowsOf(s) == {<<i, s[i]>> : i \in 1..Len(s)}
Volumed(s) == [i \in 1..Len(s) |-> s[i].volume]
Priced(s) == [i \in 1..Len(s) |-> s[i].close * s[i].volume]
RowVolumed(s) == [r \in RowsOf(s) |-> r[2].volume]
RowPriced(s) == [r \in RowsOf(s) |-> r[2].close * r[2].volume]

\* The figures that are added are numbers, and those of a row those of its tick.
LEMMA Figures ==
  ASSUME NEW s \in Seq(DayTicks)
  PROVE  /\ Len(s) \in Nat /\ DOMAIN s = 1..Len(s) /\ IsFiniteSet(RowsOf(s))
         /\ \A i \in 1..Len(s) : s[i] \in DayTicks
         /\ Volumed(s) \in [1..Len(s) -> Int] /\ Priced(s) \in [1..Len(s) -> Int]
         /\ RowVolumed(s) \in [RowsOf(s) -> Int] /\ RowPriced(s) \in [RowsOf(s) -> Int]
<1>1. Len(s) \in Nat /\ DOMAIN s = 1..Len(s) /\ \A i \in 1..Len(s) : s[i] \in DayTicks
  OBVIOUS
<1>2. \A t \in DayTicks : t.volume \in Int /\ t.close * t.volume \in Int
  <2>1. ASSUME NEW t \in DayTicks PROVE t.volume \in Int /\ t.close \in Int
    <3>1. t.volume \in Volumes /\ t.close \in Prices
      BY DEF DayTicks
    <3>2. Volumes \subseteq Int /\ Prices \subseteq Int
      BY GoldConstants
    <3>. QED  BY <3>1, <3>2
  <2>. QED  BY <2>1
<1>3. IsFiniteSet(RowsOf(s))
  <2>1. IsFiniteSet(1..Len(s))
    BY <1>1, FS_Interval
  <2>2. [i \in 1..Len(s) |-> <<i, s[i]>>] \in Surjection(1..Len(s), RowsOf(s))
    BY DEF Surjection, RowsOf
  <2>. QED  BY <2>1, <2>2, FS_Surjection
<1>4. \A r \in RowsOf(s) : r[2] \in DayTicks
  BY <1>1 DEF RowsOf
<1>5. Volumed(s) \in [1..Len(s) -> Int] /\ Priced(s) \in [1..Len(s) -> Int]
  BY <1>1, <1>2 DEF Volumed, Priced
<1>6. RowVolumed(s) \in [RowsOf(s) -> Int] /\ RowPriced(s) \in [RowsOf(s) -> Int]
  BY <1>2, <1>4 DEF RowVolumed, RowPriced
<1>. QED  BY <1>1, <1>3, <1>5, <1>6

\* The volume of a list of ticks is a sum of theirs.
LEMMA ListVolume ==
  ASSUME NEW s \in Seq(DayTicks)
  PROVE  \E g : /\ IsSum(g, 1..Len(s), Volumed(s))
                /\ Total(s, LAMBDA t : t.volume) = g[1..Len(s)]
<1>. DEFINE n == Len(s)
            v == Volumed(s)
            Body(h) == [T \in SUBSET (DOMAIN s) |->
                          IF T = {} THEN 0 ELSE h[T \ {Max(T)}] + s[Max(T)].volume]
            Sum(h) == [T \in SUBSET (1..n) |-> IF T = {} THEN 0 ELSE h[T \ {Max(T)}] + v[Max(T)]]
            g == CHOOSE h : h = Body(h)
<1>1. n \in Nat /\ DOMAIN s = 1..n /\ v \in [1..n -> Int]
  BY Figures
<1>2. ASSUME NEW h PROVE Body(h) = Sum(h)
  <2>1. ASSUME NEW T \in SUBSET (1..n), T # {} PROVE v[Max(T)] = s[Max(T)].volume
    <3>1. Max(T) \in 1..n
      BY <1>1, <2>1, MaxIsGreatest
    <3>. QED  BY <3>1 DEF Volumed
  <2>. HIDE DEF v
  <2>. QED  BY <1>1, <2>1
<1>3. (\E h : h = Sum(h)) => g = Sum(g)
  <2>. HIDE DEF Body, Sum
  <2>1. (\E h : h = Body(h)) => g = Body(g)
    OBVIOUS
  <2>. QED  BY <1>2, <2>1
<1>4. IsSum(g, 1..n, v)
  <2>. HIDE DEF g, v, n
  <2>. QED  BY <1>1, <1>3, ListFold
<1>5. Total(s, LAMBDA t : t.volume) = g[DOMAIN s]
  BY DEF Total, FoldLeft, MapThenFoldSet
<1>. QED
  <2>. HIDE DEF g
  <2>. QED  BY <1>1, <1>4, <1>5

\* And so is the sum of price times volume.
LEMMA ListPrice ==
  ASSUME NEW s \in Seq(DayTicks)
  PROVE  \E g : /\ IsSum(g, 1..Len(s), Priced(s))
                /\ Total(s, LAMBDA t : t.close * t.volume) = g[1..Len(s)]
<1>. DEFINE n == Len(s)
            v == Priced(s)
            Body(h) == [T \in SUBSET (DOMAIN s) |->
                          IF T = {} THEN 0 ELSE h[T \ {Max(T)}] + s[Max(T)].close * s[Max(T)].volume]
            Sum(h) == [T \in SUBSET (1..n) |-> IF T = {} THEN 0 ELSE h[T \ {Max(T)}] + v[Max(T)]]
            g == CHOOSE h : h = Body(h)
<1>1. n \in Nat /\ DOMAIN s = 1..n /\ v \in [1..n -> Int]
  BY Figures
<1>2. ASSUME NEW h PROVE Body(h) = Sum(h)
  <2>1. ASSUME NEW T \in SUBSET (1..n), T # {} PROVE v[Max(T)] = s[Max(T)].close * s[Max(T)].volume
    <3>1. Max(T) \in 1..n
      BY <1>1, <2>1, MaxIsGreatest
    <3>. QED  BY <3>1 DEF Priced
  <2>. HIDE DEF v
  <2>. QED  BY <1>1, <2>1
<1>3. (\E h : h = Sum(h)) => g = Sum(g)
  <2>. HIDE DEF Body, Sum
  <2>1. (\E h : h = Body(h)) => g = Body(g)
    OBVIOUS
  <2>. QED  BY <1>2, <2>1
<1>4. IsSum(g, 1..n, v)
  <2>. HIDE DEF g, v, n
  <2>. QED  BY <1>1, <1>3, ListFold
<1>5. Total(s, LAMBDA t : t.close * t.volume) = g[DOMAIN s]
  BY DEF Total, FoldLeft, MapThenFoldSet
<1>. QED
  <2>. HIDE DEF g
  <2>. QED  BY <1>1, <1>4, <1>5

\* The sums of SQL, over a set of rows.
LEMMA RowVolume ==
  ASSUME NEW s \in Seq(DayTicks)
  PROVE  \E g : /\ IsSum(g, RowsOf(s), RowVolumed(s))
                /\ MapThenSumSet(LAMBDA r : r[2].volume, RowsOf(s)) = g[RowsOf(s)]
<1>. DEFINE S == RowsOf(s)
            v == RowVolumed(s)
            Body(h) == [T \in SUBSET S |-> IF T = {} THEN 0 ELSE Some(T)[2].volume + h[T \ {Some(T)}]]
            Sum(h) == [T \in SUBSET S |-> IF T = {} THEN 0 ELSE v[Some(T)] + h[T \ {Some(T)}]]
            g == CHOOSE h : h = Body(h)
<1>1. IsFiniteSet(S) /\ v \in [S -> Int]
  BY Figures
<1>2. ASSUME NEW h PROVE Body(h) = Sum(h)
  <2>1. ASSUME NEW T \in SUBSET S, T # {} PROVE v[Some(T)] = Some(T)[2].volume
    <3>1. Some(T) \in S
      BY <2>1, Zenon DEF Some
    <3>. QED  BY <3>1 DEF RowVolumed
  <2>. HIDE DEF v
  <2>. QED  BY <1>1, <2>1
<1>3. (\E h : h = Sum(h)) => g = Sum(g)
  <2>. HIDE DEF Body, Sum
  <2>1. (\E h : h = Body(h)) => g = Body(g)
    OBVIOUS
  <2>. QED  BY <1>2, <2>1
<1>4. IsSum(g, S, v)
  <2>. HIDE DEF g, v, S
  <2>. QED  BY <1>1, <1>3, RowFold
<1>5. MapThenSumSet(LAMBDA r : r[2].volume, S) = g[S]
  BY DEF MapThenSumSet, MapThenFoldSet, Some
<1>. QED
  <2>. HIDE DEF g
  <2>. QED  BY <1>4, <1>5

\* The same of price times volume.
LEMMA RowPrice ==
  ASSUME NEW s \in Seq(DayTicks)
  PROVE  \E g : /\ IsSum(g, RowsOf(s), RowPriced(s))
                /\ MapThenSumSet(LAMBDA r : r[2].close * r[2].volume, RowsOf(s)) = g[RowsOf(s)]
<1>. DEFINE S == RowsOf(s)
            v == RowPriced(s)
            Body(h) == [T \in SUBSET S |-> IF T = {} THEN 0 ELSE Some(T)[2].close * Some(T)[2].volume + h[T \ {Some(T)}]]
            Sum(h) == [T \in SUBSET S |-> IF T = {} THEN 0 ELSE v[Some(T)] + h[T \ {Some(T)}]]
            g == CHOOSE h : h = Body(h)
<1>1. IsFiniteSet(S) /\ v \in [S -> Int]
  BY Figures
<1>2. ASSUME NEW h PROVE Body(h) = Sum(h)
  <2>1. ASSUME NEW T \in SUBSET S, T # {} PROVE v[Some(T)] = Some(T)[2].close * Some(T)[2].volume
    <3>1. Some(T) \in S
      BY <2>1, Zenon DEF Some
    <3>. QED  BY <3>1 DEF RowPriced
  <2>. HIDE DEF v
  <2>. QED  BY <1>1, <2>1
<1>3. (\E h : h = Sum(h)) => g = Sum(g)
  <2>. HIDE DEF Body, Sum
  <2>1. (\E h : h = Body(h)) => g = Body(g)
    OBVIOUS
  <2>. QED  BY <1>2, <2>1
<1>4. IsSum(g, S, v)
  <2>. HIDE DEF g, v, S
  <2>. QED  BY <1>1, <1>3, RowFold
<1>5. MapThenSumSet(LAMBDA r : r[2].close * r[2].volume, S) = g[S]
  BY DEF MapThenSumSet, MapThenFoldSet, Some
<1>. QED
  <2>. HIDE DEF g
  <2>. QED  BY <1>4, <1>5

\* A sum over a list and a sum over its rows are the same number.
LEMMA SumsAgree ==
  ASSUME NEW s \in Seq(DayTicks), NEW v, NEW w,
         \A i \in 1..Len(s) : v[i] = w[<<i, s[i]>>],
         NEW g, IsSum(g, 1..Len(s), v), NEW h, IsSum(h, RowsOf(s), w)
  PROVE  g[1..Len(s)] = h[RowsOf(s)]
<1>. DEFINE n == Len(s)
            Part(m) == {<<i, s[i]>> : i \in 1..m}
            P == {m \in Nat : m <= n => g[1..m] = h[Part(m)]}
<1>1. n \in Nat
  BY Figures
<1>2. 0 \in P
  <2>1. 1..0 = {} /\ Part(0) = {}
    OBVIOUS
  <2>. QED  BY <2>1 DEF IsSum
<1>3. ASSUME NEW m \in Nat, m \in P PROVE m + 1 \in P
  <2>1. SUFFICES ASSUME m + 1 <= n PROVE g[1..(m + 1)] = h[Part(m + 1)]
    OBVIOUS
  <2>2. /\ 1..(m + 1) \in SUBSET (1..n) /\ m + 1 \in 1..(m + 1) /\ m + 1 \in 1..n
        /\ (1..(m + 1)) \ {m + 1} = 1..m
    BY <1>1, <2>1
  <2>3. g[1..(m + 1)] = v[m + 1] + g[1..m]
    <3>1. \A T \in SUBSET (1..n) : \A x \in T : g[T] = v[x] + g[T \ {x}]
      BY DEF IsSum
    <3>2. \A x \in 1..(m + 1) : g[1..(m + 1)] = v[x] + g[(1..(m + 1)) \ {x}]
      BY <2>2, <3>1, Zenon
    <3>. QED  BY <2>2, <3>2
  <2>4. <<m + 1, s[m + 1]>> \in Part(m + 1) /\ Part(m + 1) \in SUBSET RowsOf(s)
    BY <2>2 DEF RowsOf
  <2>5. Part(m + 1) \ {<<m + 1, s[m + 1]>>} = Part(m)
    OBVIOUS
  <2>6. h[Part(m + 1)] = w[<<m + 1, s[m + 1]>>] + h[Part(m)]
    <3>. HIDE DEF Part
    <3>. QED  BY <2>4, <2>5 DEF IsSum
  <2>7. g[1..m] = h[Part(m)]
    BY <1>1, <1>3, <2>1
  <2>8. v[m + 1] = w[<<m + 1, s[m + 1]>>]
    BY <2>2
  <2>. QED  BY <2>3, <2>6, <2>7, <2>8
<1>4. n \in P
  <2>. HIDE DEF P
  <2>. QED  BY <1>1, <1>2, <1>3, SetInduction
<1>. QED  BY <1>1, <1>4 DEF RowsOf

\* The rows of a day: how many they are, the first and the last of them by
\* their timestamps, and the values they hold.
LEMMA RowsOfADay ==
  ASSUME NEW s \in Seq(DayTicks), s # <<>>
  PROVE  /\ RankedFirst(RowsOf(s)) = <<1, s[1]>>
         /\ Newest(RowsOf(s)) = <<Len(s), s[Len(s)]>>
         /\ Cardinality(RowsOf(s)) = Len(s)
         /\ {r[2].high : r \in RowsOf(s)} = {s[i].high : i \in 1..Len(s)}
         /\ {r[2].low : r \in RowsOf(s)} = {s[i].low : i \in 1..Len(s)}
<1>1. Len(s) \in Nat /\ 1 \in 1..Len(s) /\ Len(s) \in 1..Len(s)
  OBVIOUS
<1>2. /\ \A r \in RowsOf(s) : \E i \in 1..Len(s) : r[2] = s[i]
      /\ \A i \in 1..Len(s) : \E r \in RowsOf(s) : r[2] = s[i]
  <2>1. ASSUME NEW i \in 1..Len(s) PROVE <<i, s[i]>> \in RowsOf(s) /\ <<i, s[i]>>[2] = s[i]
    BY DEF RowsOf
  <2>2. \A r \in RowsOf(s) : \E i \in 1..Len(s) : r[2] = s[i]
    BY DEF RowsOf
  <2>. QED  BY <2>1, <2>2
<1>3. RankedFirst(RowsOf(s)) = <<1, s[1]>>
  <2>1. \A q \in RowsOf(s) : 1 <= q[1]
    BY DEF RowsOf
  <2>2. <<1, s[1]>> \in RowsOf(s)
    BY <1>1 DEF RowsOf
  <2>3. \A r \in RowsOf(s) : r[1] <= 1 => r = <<1, s[1]>>
    BY DEF RowsOf
  <2>4. \E r \in RowsOf(s) : \A q \in RowsOf(s) : r[1] <= q[1]
    BY <2>1, <2>2
  <2>5. /\ RankedFirst(RowsOf(s)) \in RowsOf(s)
        /\ \A q \in RowsOf(s) : RankedFirst(RowsOf(s))[1] <= q[1]
    BY <2>4, Zenon DEF RankedFirst
  <2>. QED  BY <2>2, <2>3, <2>5
<1>4. Newest(RowsOf(s)) = <<Len(s), s[Len(s)]>>
  <2>1. \A q \in RowsOf(s) : q[1] <= Len(s)
    BY DEF RowsOf
  <2>2. <<Len(s), s[Len(s)]>> \in RowsOf(s)
    BY <1>1 DEF RowsOf
  <2>3. \A r \in RowsOf(s) : Len(s) <= r[1] => r = <<Len(s), s[Len(s)]>>
    BY <1>1 DEF RowsOf
  <2>4. \E r \in RowsOf(s) : \A q \in RowsOf(s) : q[1] <= r[1]
    BY <2>1, <2>2
  <2>5. /\ Newest(RowsOf(s)) \in RowsOf(s)
        /\ \A q \in RowsOf(s) : q[1] <= Newest(RowsOf(s))[1]
    BY <2>4, Zenon DEF Newest
  <2>. QED  BY <2>2, <2>3, <2>5
<1>5. Cardinality(RowsOf(s)) = Len(s)
  <2>. DEFINE f == [i \in 1..Len(s) |-> <<i, s[i]>>]
  <2>1. f \in Injection(1..Len(s), RowsOf(s))
    BY DEF Injection, IsInjective, RowsOf
  <2>2. f \in Surjection(1..Len(s), RowsOf(s))
    BY DEF Surjection, RowsOf
  <2>3. ExistsBijection(1..Len(s), RowsOf(s))
    BY <2>1, <2>2 DEF ExistsBijection, Bijection
  <2>. QED  BY <1>1, <2>3, FS_CountingElements
<1>6. {r[2].high : r \in RowsOf(s)} = {s[i].high : i \in 1..Len(s)}
  BY <1>2
<1>7. {r[2].low : r \in RowsOf(s)} = {s[i].low : i \in 1..Len(s)}
  BY <1>2
<1>. QED  BY <1>3, <1>4, <1>5, <1>6, <1>7

\* The three tables of any day agree, but for the vwap of a day without volume.
LEMMA AnyDayAgrees ==
  ASSUME NEW s \in Seq(DayTicks), s # <<>>
  PROVE  /\ PythonDay(s).volume > 0 => PythonDay(s) = SparkDay(RowsOf(s)) /\ SparkDay(RowsOf(s)) = DbtDay(RowsOf(s))
         /\ [PythonDay(s) EXCEPT !.vwap = NULL] = [SparkDay(RowsOf(s)) EXCEPT !.vwap = NULL]
         /\ [SparkDay(RowsOf(s)) EXCEPT !.vwap = NULL] = [DbtDay(RowsOf(s)) EXCEPT !.vwap = NULL]
<1>. DEFINE rows == RowsOf(s)
            v  == Total(s, LAMBDA t : t.volume)
            pv == Total(s, LAMBDA t : t.close * t.volume)
            shared == [open |-> s[1].open, close |-> s[Len(s)].close,
                       high |-> Max({s[i].high : i \in 1..Len(s)}),
                       low |-> Min({s[i].low : i \in 1..Len(s)})]
            day(vwap) == [open |-> shared.open, close |-> shared.close, high |-> shared.high,
                          low |-> shared.low, volume |-> v, vwap |-> vwap, count |-> Len(s)]
<1>1. v = MapThenSumSet(LAMBDA r : r[2].volume, rows)
  <2>1. PICK g : IsSum(g, 1..Len(s), Volumed(s)) /\ v = g[1..Len(s)]
    BY ListVolume
  <2>2. PICK h : /\ IsSum(h, rows, RowVolumed(s))
                 /\ MapThenSumSet(LAMBDA r : r[2].volume, rows) = h[rows]
    BY RowVolume
  <2>3. \A i \in 1..Len(s) : Volumed(s)[i] = RowVolumed(s)[<<i, s[i]>>]
    BY DEF Volumed, RowVolumed, RowsOf
  <2>4. g[1..Len(s)] = h[rows]
    <3>1. IsSum(g, 1..Len(s), Volumed(s)) /\ IsSum(h, RowsOf(s), RowVolumed(s))
      BY <2>1, <2>2
    <3>. HIDE DEF pv, v, rows, shared, day
    <3>. QED  BY <2>3, <3>1, SumsAgree DEF rows
  <2>. QED  BY <2>1, <2>2, <2>4
<1>2. pv = MapThenSumSet(LAMBDA r : r[2].close * r[2].volume, rows)
  <2>1. PICK g : IsSum(g, 1..Len(s), Priced(s)) /\ pv = g[1..Len(s)]
    BY ListPrice
  <2>2. PICK h : /\ IsSum(h, rows, RowPriced(s))
                 /\ MapThenSumSet(LAMBDA r : r[2].close * r[2].volume, rows) = h[rows]
    BY RowPrice
  <2>3. \A i \in 1..Len(s) : Priced(s)[i] = RowPriced(s)[<<i, s[i]>>]
    BY DEF Priced, RowPriced, RowsOf
  <2>4. g[1..Len(s)] = h[rows]
    <3>1. IsSum(g, 1..Len(s), Priced(s)) /\ IsSum(h, RowsOf(s), RowPriced(s))
      BY <2>1, <2>2
    <3>. HIDE DEF pv, v, rows, shared, day
    <3>. QED  BY <2>3, <3>1, SumsAgree DEF rows
  <2>. QED  BY <2>1, <2>2, <2>4
<1>3. PythonDay(s) = day(IF v > 0 THEN <<pv, v>> ELSE <<s[Len(s)].close, 1>>)
  BY DEF PythonDay, Largest, Smallest
<1>4. ASSUME NEW other
      PROVE  SqlDay(rows, other) = day(IF v > 0 THEN <<pv, v>> ELSE other)
  <2>1. /\ RankedFirst(rows)[2] = s[1] /\ Newest(rows)[2] = s[Len(s)] /\ Cardinality(rows) = Len(s)
        /\ {r[2].high : r \in rows} = {s[i].high : i \in 1..Len(s)}
        /\ {r[2].low : r \in rows} = {s[i].low : i \in 1..Len(s)}
    <3>1. /\ RankedFirst(rows) = <<1, s[1]>> /\ Newest(rows) = <<Len(s), s[Len(s)]>>
          /\ Cardinality(rows) = Len(s)
          /\ {r[2].high : r \in rows} = {s[i].high : i \in 1..Len(s)}
          /\ {r[2].low : r \in rows} = {s[i].low : i \in 1..Len(s)}
      BY RowsOfADay
    <3>2. RankedFirst(rows)[2] = <<1, s[1]>>[2] /\ Newest(rows)[2] = <<Len(s), s[Len(s)]>>[2]
      BY <3>1, Zenon
    <3>3. RankedFirst(rows)[2] = s[1] /\ Newest(rows)[2] = s[Len(s)]
      <4>1. ASSUME NEW i, NEW t PROVE <<i, t>>[2] = t
        OBVIOUS
      <4>. QED  BY <3>2, <4>1
    <3>. QED  BY <3>1, <3>3, Zenon
  <2>. HIDE DEF v, pv, rows
  <2>. QED  BY <1>1, <1>2, <2>1 DEF SqlDay
<1>5. SparkDay(rows) = day(IF v > 0 THEN <<pv, v>> ELSE <<0, 1>>)
  <2>. HIDE DEF v, pv, rows, day
  <2>. QED  BY <1>4 DEF SparkDay
<1>6. DbtDay(rows) = day(IF v > 0 THEN <<pv, v>> ELSE NULL)
  <2>. HIDE DEF v, pv, rows, day
  <2>. QED  BY <1>4 DEF DbtDay
<1>7. ASSUME NEW a, NEW b PROVE [day(a) EXCEPT !.vwap = NULL] = [day(b) EXCEPT !.vwap = NULL]
  <2>. HIDE DEF v, shared
  <2>. QED  OBVIOUS
<1>8. day(IF v > 0 THEN <<pv, v>> ELSE NULL).volume = v
  <2>. HIDE DEF v, pv, shared
  <2>. QED  OBVIOUS
<1>9. PythonDay(s).volume = v
  <2>. HIDE DEF v, pv, shared
  <2>. QED  BY <1>3
<1>. QED
  <2>. HIDE DEF v, pv, day, rows
  <2>1. PythonDay(s).volume > 0 => PythonDay(s) = SparkDay(rows) /\ SparkDay(rows) = DbtDay(rows)
    BY <1>3, <1>5, <1>6, <1>9
  <2>2. [PythonDay(s) EXCEPT !.vwap = NULL] = [SparkDay(rows) EXCEPT !.vwap = NULL]
    BY <1>3, <1>5, <1>7
  <2>3. [SparkDay(rows) EXCEPT !.vwap = NULL] = [DbtDay(rows) EXCEPT !.vwap = NULL]
    BY <1>5, <1>6, <1>7
  <2>. QED  BY <2>1, <2>2, <2>3 DEF rows

-----------------------------------------------------------------------------
(* The series of daily closes.                                             *)

\* The averages of any series agree as soon as there are closes enough.
LEMMA AnyAveragesAgree ==
  ASSUME NEW closes \in Seq(Prices), closes # <<>>, NEW w \in Windows
  PROVE  /\ Len(closes) >= w => PythonAverage(closes, w) = SparkAverage(closes, w)
         /\ Len(closes) >= w => DbtAverage(closes, w) = SparkAverage(closes, w)
         /\ Len(closes) < w => PythonAverage(closes, w) = NULL /\ SparkAverage(closes, w)[2] = Len(closes)
         /\ DbtAverage(closes, Longest) # NULL =>
              (Signal(closes, w) = "BULLISH" <=> Above(DbtAverage(closes, w), DbtAverage(closes, Longest)))
<1>. DEFINE n == Len(closes)
            avg(k) == Average(LastRows(closes, k))
<1>1. n \in Nat \ {0} /\ w \in Nat \ {0} /\ Longest \in Nat
  BY GoldConstants
<1>2. n >= w => PythonAverage(closes, w) = avg(w)
  BY DEF PythonAverage
<1>3. SparkAverage(closes, w) = avg(w)
  BY DEF SparkAverage
<1>4. n >= w => DbtAverage(closes, w) = avg(w)
  BY <1>1 DEF DbtAverage
<1>5. ASSUME n < w PROVE PythonAverage(closes, w) = NULL /\ avg(w)[2] = n
  <2>1. PythonAverage(closes, w) = NULL
    BY <1>1, <1>5 DEF PythonAverage
  <2>2. Max({1, n - w + 1}) = 1
    <3>1. \A k \in {1, n - w + 1} : 1 >= k
      BY <1>1, <1>5
    <3>2. /\ Max({1, n - w + 1}) \in {1, n - w + 1}
          /\ \A k \in {1, n - w + 1} : Max({1, n - w + 1}) >= k
      BY <3>1, Zenon DEF Max
    <3>. QED  BY <1>1, <1>5, <3>2
  <2>3. LastRows(closes, w) = SubSeq(closes, 1, n)
    BY <2>2 DEF LastRows
  <2>4. Len(SubSeq(closes, 1, n)) = n
    BY <1>1
  <2>. QED  BY <2>1, <2>3, <2>4 DEF Average
<1>6. ASSUME DbtAverage(closes, Longest) # NULL
      PROVE  Signal(closes, w) = "BULLISH" <=> Above(DbtAverage(closes, w), DbtAverage(closes, Longest))
  <2>1. ~(n < Longest)
    BY <1>6 DEF DbtAverage
  <2>2. DbtAverage(closes, Longest) = avg(Longest) /\ DbtAverage(closes, w) = avg(w)
    BY <2>1 DEF DbtAverage
  <2>3. Signal(closes, w) = "BULLISH" <=> Above(avg(w), avg(Longest))
    <3>1. Signal(closes, w) = IF Above(avg(w), avg(Longest)) THEN "BULLISH"
                              ELSE IF Above(avg(Longest), avg(w)) THEN "BEARISH" ELSE "NEUTRAL"
      BY DEF Signal
    <3>. HIDE DEF avg
    <3>. QED  BY <3>1
  <2>. HIDE DEF avg
  <2>. QED  BY <2>2, <2>3
<1>. HIDE DEF avg
<1>. QED  BY <1>2, <1>3, <1>4, <1>5, <1>6

\* The volatilities of any series differ as the windows do, and nowhere else.
LEMMA AnyVolatilitiesAgree ==
  ASSUME NEW n \in Nat \ {0}
  PROVE  /\ n \in 3..Longest => PythonVolatility(n, Longest) = SqlVolatility(n, Longest)
         /\ n > Longest => SqlVolatility(n, Longest) = PythonVolatility(n, Longest) \cup {n - Longest + 1}
         /\ n = 2 => PythonVolatility(n, Longest) = NaN /\ SqlVolatility(n, Longest) = {}
         /\ n >= 2 => <<2, "HIGH">> \in VolatilityRows(n, Longest, 0)
         /\ \A d \in 3..n : <<d, "LOW">> \in VolatilityRows(n, Longest, 0)
<1>1. Longest \in Nat /\ Longest >= 3
  BY GoldConstants
<1>2. ASSUME NEW m \in Nat, m >= 3
      PROVE  /\ SqlVolatility(m, Longest) = Returns(m - Longest + 1, m)
             /\ PythonVolatility(m, Longest) = Returns(m - Longest + 2, m)
             /\ SqlVolatility(m, Longest) # {}
  <2>1. /\ m \in Returns(m - Longest + 1, m) /\ m - 1 \in Returns(m - Longest + 1, m)
        /\ m \in Returns(m - Longest + 2, m) /\ m - 1 \in Returns(m - Longest + 2, m)
    BY <1>1, <1>2 DEF Returns
  <2>2. m # m - 1 /\ ~(m < 2)
    BY <1>2
  <2>3. SqlVolatility(m, Longest) = Returns(m - Longest + 1, m)
    BY <2>1, <2>2 DEF SqlVolatility, Deviation
  <2>4. PythonVolatility(m, Longest) = Returns(m - Longest + 2, m)
    BY <2>1, <2>2 DEF PythonVolatility, Deviation
  <2>. QED  BY <2>1, <2>3, <2>4
<1>3. SqlVolatility(2, Longest) = {} /\ PythonVolatility(2, Longest) = NaN
  <2>1. \A k \in Int : \A d, e \in Returns(k, 2) : d = e
    BY DEF Returns
  <2>2. 2 - Longest + 1 \in Int /\ 2 - Longest + 2 \in Int /\ ~(2 < 2)
    BY <1>1
  <2>. QED  BY <2>1, <2>2 DEF SqlVolatility, PythonVolatility, Deviation
<1>4. ASSUME n \in 3..Longest PROVE PythonVolatility(n, Longest) = SqlVolatility(n, Longest)
  <2>1. Returns(n - Longest + 1, n) = Returns(n - Longest + 2, n)
    BY <1>1, <1>4 DEF Returns
  <2>. QED  BY <1>1, <1>2, <1>4, <2>1
<1>5. ASSUME n > Longest
      PROVE  SqlVolatility(n, Longest) = PythonVolatility(n, Longest) \cup {n - Longest + 1}
  <2>1. Returns(n - Longest + 1, n) = Returns(n - Longest + 2, n) \cup {n - Longest + 1}
    BY <1>1, <1>5 DEF Returns
  <2>2. n >= 3
    BY <1>1, <1>5
  <2>. QED  BY <1>2, <2>1, <2>2
<1>6. n >= 2 => <<2, "HIGH">> \in VolatilityRows(n, Longest, 0)
  <2>1. Regime(2, Longest, 0) = "HIGH"
    BY <1>3 DEF Regime
  <2>. QED  BY <2>1 DEF VolatilityRows
<1>7. ASSUME NEW d \in 3..n PROVE <<d, "LOW">> \in VolatilityRows(n, Longest, 0)
  <2>1. Regime(d, Longest, 0) = "LOW"
    BY <1>2 DEF Regime
  <2>2. d \in 2..n
    OBVIOUS
  <2>. QED  BY <2>1, <2>2 DEF VolatilityRows
<1>. QED  BY <1>3, <1>4, <1>5, <1>6, <1>7

-----------------------------------------------------------------------------
(* SilverWriter, row by row.                                               *)

Good(rows) == {i \in 1..Len(rows) : rows[i].castable /\ InRange(rows[i])}
First(rows) == {i \in Good(rows) : \A j \in Good(rows) : j < i => rows[j].key # rows[i].key}
Kept(rows, out, i) == IF i \in Good(rows) /\ ~SeenIn(out, rows[i]) THEN Append(out, rows[i]) ELSE out

\* What is kept of a list of rows is what is kept of all but the last, and the
\* last where it is valid and no row like it was kept.
LEMMA CleanRowByRow ==
  ASSUME NEW rows \in Seq(RawRows)
  PROVE  \E out : /\ Clean(rows) = out[Len(rows)] /\ out[0] = <<>>
                  /\ \A k \in 0..Len(rows) : out[k] \in Seq(RawRows)
                  /\ \A k \in 1..Len(rows) : out[k] = Kept(rows, out[k - 1], k)
<1>. DEFINE n == Len(rows)
            S == 1..n
            Q == Seq(RawRows)
            pick == [T \in NonEmpty(S) |-> Max(T)]
            step == [x \in S |-> [q \in Q |-> Kept(rows, q, x)]]
            Body(h) == [T \in SUBSET (DOMAIN rows) |->
                          IF T = {} THEN <<>>
                          ELSE IF rows[Max(T)].castable /\ InRange(rows[Max(T)]) /\ ~SeenIn(h[T \ {Max(T)}], rows[Max(T)])
                               THEN Append(h[T \ {Max(T)}], rows[Max(T)]) ELSE h[T \ {Max(T)}]]
            Keep(h) == [T \in SUBSET S |-> IF T = {} THEN <<>> ELSE Kept(rows, h[T \ {Max(T)}], Max(T))]
            g == CHOOSE h : h = Body(h)
<1>1. n \in Nat /\ DOMAIN rows = S /\ IsFiniteSet(S) /\ \A i \in S : rows[i] \in RawRows
  <2>1. n \in Nat /\ DOMAIN rows = S /\ \A i \in S : rows[i] \in RawRows
    OBVIOUS
  <2>. QED  BY <2>1, FS_Interval
<1>2. ASSUME NEW T \in NonEmpty(S) PROVE Max(T) \in T /\ Max(T) \in S /\ pick[T] = Max(T)
  <2>1. T \in SUBSET (1..n) /\ T # {}
    BY DEF NonEmpty
  <2>2. Max(T) \in T
    BY <1>1, <2>1, MaxIsGreatest
  <2>. QED  BY <2>1, <2>2
<1>3. PICK h : IsFold(h, S, Q, <<>>, pick, step)
  <2>1. step \in [S -> [Q -> Q]]
    <3>1. \A x \in S : \A q \in Q : Kept(rows, q, x) \in Q
      BY <1>1 DEF Kept
    <3>. QED  BY <3>1
  <2>2. pick \in [NonEmpty(S) -> S] /\ \A T \in NonEmpty(S) : pick[T] \in T
    BY <1>2, Zenon
  <2>3. <<>> \in Q
    OBVIOUS
  <2>. HIDE DEF step, pick, S, Q
  <2>. QED  BY <1>1, <2>1, <2>2, <2>3, FoldExists
<1>4. h = Keep(h)
  <2>1. ASSUME NEW T \in SUBSET S, T # {}
        PROVE  h[T] = Kept(rows, h[T \ {Max(T)}], Max(T))
    <3>1. T \in NonEmpty(S) /\ T \ {Max(T)} \in SUBSET S
      BY <2>1 DEF NonEmpty
    <3>2. h[T \ {Max(T)}] \in Q /\ h[T] = step[pick[T]][h[T \ {pick[T]}]]
      BY <1>3, <2>1, <3>1 DEF IsFold
    <3>3. Max(T) \in S /\ pick[T] = Max(T)
      BY <1>2, <3>1
    <3>. HIDE DEF pick, S, Q
    <3>. QED  BY <3>2, <3>3
  <2>2. h[{}] = <<>> /\ h = [T \in SUBSET S |-> h[T]]
    BY <1>3 DEF IsFold
  <2>. HIDE DEF step, pick, S
  <2>. QED  BY <2>1, <2>2
<1>5. ASSUME NEW f PROVE Body(f) = Keep(f)
  <2>1. ASSUME NEW T \in SUBSET S, T # {}
        PROVE  Max(T) \in Good(rows) <=> rows[Max(T)].castable /\ InRange(rows[Max(T)])
    <3>1. Max(T) \in 1..n
      BY <1>1, <2>1, MaxIsGreatest
    <3>. QED  BY <3>1 DEF Good
  <2>. QED  BY <1>1, <2>1 DEF Kept
<1>6. g = Keep(g)
  <2>. HIDE DEF Body, Keep
  <2>1. h = Body(h)
    BY <1>4, <1>5
  <2>2. g = Body(g)
    BY <2>1
  <2>. QED  BY <1>5, <2>2
<1>7. Clean(rows) = g[DOMAIN rows]
  BY DEF Clean, FoldLeft, MapThenFoldSet
<1>. DEFINE out == [k \in 0..n |-> g[1..k]]
<1>8. out[0] = <<>> /\ out[n] = Clean(rows)
  <2>. HIDE DEF g
  <2>1. 1..0 = {} /\ {} \in SUBSET S
    OBVIOUS
  <2>. QED  BY <1>1, <1>6, <1>7, <2>1
<1>9. ASSUME NEW k \in 1..n PROVE out[k] = Kept(rows, out[k - 1], k)
  <2>. HIDE DEF g
  <2>1. k \in Nat \ {0} /\ k <= n /\ k - 1 \in 0..n
    BY <1>1
  <2>2. 1..k \in SUBSET S /\ 1..k # {} /\ k - 1 \in 0..n /\ k \in Nat \ {0}
    <3>1. k \in 1..k /\ \A i \in 1..k : i \in 1..n
      BY <1>1, <2>1
    <3>. QED  BY <2>1, <3>1
  <2>3. Max(1..k) = k /\ (1..k) \ {k} = 1..(k - 1)
    BY <2>2, MaxOfRange
  <2>4. g[1..k] = Kept(rows, g[1..(k - 1)], k)
    BY <1>6, <2>2, <2>3
  <2>. QED  BY <2>2, <2>4
<1>10. \A k \in 0..n : out[k] \in Q
  <2>. DEFINE P == {k \in Nat : k <= n => out[k] \in Q}
  <2>. HIDE DEF out
  <2>1. 0 \in P
    <3>1. <<>> \in Q
      OBVIOUS
    <3>. HIDE DEF Q
    <3>. QED  BY <1>8, <3>1
  <2>2. ASSUME NEW k \in Nat, k \in P PROVE k + 1 \in P
    <3>1. SUFFICES ASSUME k + 1 <= n PROVE out[k + 1] \in Q
      OBVIOUS
    <3>2. k + 1 \in 1..n /\ (k + 1) - 1 = k /\ out[k] \in Q
      BY <1>1, <2>2, <3>1
    <3>3. out[k + 1] = Kept(rows, out[k], k + 1)
      BY <1>9, <3>2
    <3>. QED  BY <1>1, <3>2, <3>3 DEF Kept
  <2>3. \A k \in Nat : k \in P
    <3>. HIDE DEF P
    <3>. QED  BY <2>1, <2>2, SetInduction
  <2>. QED  BY <2>3
<1>. QED
  <2>. HIDE DEF out
  <2>. QED  BY <1>1, <1>8, <1>9, <1>10

Upto(S, k) == {j \in S : j <= k}

(* What is kept of the first k rows: the first valid row of every key, in  *)
(* order, each at its rank.                                                *)
KeptUpto(rows, q, k) ==
  /\ Len(q) = Cardinality(Upto(First(rows), k))
  /\ \A i \in Upto(First(rows), k) : q[Cardinality(Upto(First(rows), i))] = rows[i]
  /\ \A p \in 1..Len(q) : \E j \in Upto(Good(rows), k) : q[p] = rows[j]
  /\ \A j \in Upto(Good(rows), k) : \E p \in 1..Len(q) : q[p].key = rows[j].key

\* One more row keeps what is promised of those before it.
LEMMA OneMoreRow ==
  ASSUME NEW rows \in Seq(RawRows), NEW k \in Nat, k + 1 <= Len(rows),
         NEW q \in Seq(RawRows), KeptUpto(rows, q, k)
  PROVE  KeptUpto(rows, Kept(rows, q, k + 1), k + 1)
<1>. DEFINE n == Len(rows)
            F(m) == Upto(First(rows), m)
            G(m) == Upto(Good(rows), m)
            r == rows[k + 1]
<1>1. n \in Nat /\ k + 1 \in 1..n /\ r \in RawRows /\ Len(q) \in Nat
  OBVIOUS
<1>2. Good(rows) \in SUBSET (1..n) /\ First(rows) \in SUBSET Good(rows)
  BY DEF Good, First
<1>3. \A m \in Nat : IsFiniteSet(F(m)) /\ Cardinality(F(m)) \in Nat
  <2>1. IsFiniteSet(1..n)
    BY <1>1, FS_Interval
  <2>2. ASSUME NEW m \in Nat PROVE F(m) \in SUBSET (1..n)
    BY <1>2 DEF Upto
  <2>. QED  BY <2>1, <2>2, FS_Subset, FS_CardinalityType
<1>4. SeenIn(q, r) <=> \E j \in G(k) : rows[j].key = r.key
  <2>1. SeenIn(q, r) <=> \E p \in 1..Len(q) : q[p].key = r.key
    BY DEF SeenIn
  <2>2. /\ \A p \in 1..Len(q) : \E j \in G(k) : q[p] = rows[j]
        /\ \A j \in G(k) : \E p \in 1..Len(q) : q[p].key = rows[j].key
    BY DEF KeptUpto
  <2>. HIDE DEF G, r
  <2>. QED  BY <2>1, <2>2
<1>5. k + 1 \in First(rows) <=> k + 1 \in Good(rows) /\ ~SeenIn(q, r)
  <2>1. \A j \in Good(rows) : j < k + 1 <=> j \in G(k)
    BY <1>2 DEF Upto
  <2>2. k + 1 \in First(rows) <=>
          k + 1 \in Good(rows) /\ \A j \in Good(rows) : j < k + 1 => rows[j].key # r.key
    BY DEF First
  <2>3. \A j \in G(k) : j \in Good(rows)
    BY DEF Upto
  <2>. HIDE DEF G, r
  <2>. QED  BY <1>4, <2>1, <2>2, <2>3
<1>6. \A i \in F(k) : i <= k /\ i \in Nat /\ Upto(First(rows), i) = Upto(F(k), i)
  BY <1>2 DEF Upto
<1>7. CASE k + 1 \in First(rows)
  <2>1. Kept(rows, q, k + 1) = Append(q, r)
    BY <1>5, <1>7 DEF Kept
  <2>2. F(k + 1) = F(k) \cup {k + 1} /\ k + 1 \notin F(k)
    BY <1>2, <1>7 DEF Upto
  <2>3. Cardinality(F(k + 1)) = Cardinality(F(k)) + 1
    BY <1>3, <2>2, FS_AddElement
  <2>4. /\ Len(Append(q, r)) = Len(q) + 1 /\ Append(q, r)[Len(q) + 1] = r
        /\ \A p \in 1..Len(q) : Append(q, r)[p] = q[p]
    BY <1>1
  <2>5. Len(q) = Cardinality(F(k))
    BY DEF KeptUpto
  <2>6. ASSUME NEW i \in F(k + 1)
        PROVE  Append(q, r)[Cardinality(Upto(First(rows), i))] = rows[i]
    <3>1. CASE i = k + 1
      BY <2>3, <2>4, <2>5, <3>1
    <3>2. CASE i \in F(k)
      <4>1. /\ Upto(First(rows), i) \subseteq F(k) /\ i \in Upto(First(rows), i)
        BY <1>2, <3>2 DEF Upto
      <4>2. i \in Nat /\ Cardinality(Upto(First(rows), i)) \in Nat
        BY <1>3, <1>6, <3>2
      <4>3. Cardinality(Upto(First(rows), i)) <= Len(q)
        BY <1>3, <2>5, <4>1, FS_Subset
      <4>4. Cardinality(Upto(First(rows), i)) # 0
        <5>1. IsFiniteSet(Upto(First(rows), i))
          BY <1>3, <4>2
        <5>. QED  BY <4>1, <5>1, FS_EmptySet
      <4>5. q[Cardinality(Upto(First(rows), i))] = rows[i]
        BY <3>2 DEF KeptUpto
      <4>. QED  BY <1>1, <2>4, <4>2, <4>3, <4>4, <4>5
    <3>. QED  BY <2>2, <3>1, <3>2
  <2>7. ASSUME NEW p \in 1..(Len(q) + 1)
        PROVE  \E j \in G(k + 1) : Append(q, r)[p] = rows[j]
    <3>1. k + 1 \in G(k + 1) /\ G(k) \subseteq G(k + 1)
      BY <1>2, <1>7 DEF Upto
    <3>2. CASE p = Len(q) + 1
      BY <2>4, <3>1, <3>2
    <3>3. CASE p \in 1..Len(q)
      BY <2>4, <3>1, <3>3 DEF KeptUpto
    <3>. QED  BY <1>1, <3>2, <3>3
  <2>8. ASSUME NEW j \in G(k + 1)
        PROVE  \E p \in 1..(Len(q) + 1) : Append(q, r)[p].key = rows[j].key
    <3>1. j = k + 1 \/ j \in G(k)
      BY <1>2 DEF Upto
    <3>2. CASE j = k + 1
      BY <1>1, <2>4, <3>2
    <3>3. CASE j \in G(k)
      <4>1. PICK p \in 1..Len(q) : q[p].key = rows[j].key
        BY <3>3 DEF KeptUpto
      <4>2. p \in 1..(Len(q) + 1) /\ Append(q, r)[p] = q[p]
        BY <1>1, <2>4
      <4>. QED  BY <4>1, <4>2
    <3>. QED  BY <3>1, <3>2, <3>3
  <2>. QED
    <3>1. Len(Append(q, r)) = Cardinality(F(k + 1))
      BY <2>3, <2>4, <2>5
    <3>2. KeptUpto(rows, Append(q, r), k + 1)
      BY <2>4, <2>6, <2>7, <2>8, <3>1 DEF KeptUpto
    <3>. QED  BY <2>1, <3>2
<1>8. CASE k + 1 \notin First(rows)
  <2>1. Kept(rows, q, k + 1) = q
    BY <1>5, <1>8 DEF Kept
  <2>2. F(k + 1) = F(k)
    BY <1>2, <1>8 DEF Upto
  <2>3. G(k) \subseteq G(k + 1)
    BY <1>2 DEF Upto
  <2>4. ASSUME NEW j \in G(k + 1) PROVE \E p \in 1..Len(q) : q[p].key = rows[j].key
    <3>1. CASE j \in G(k)
      BY <3>1 DEF KeptUpto
    <3>2. CASE j \notin G(k)
      <4>1. j = k + 1 /\ j \in Good(rows)
        BY <1>2, <3>2 DEF Upto
      <4>. QED  BY <1>5, <1>8, <4>1 DEF SeenIn
    <3>. QED  BY <3>1, <3>2
  <2>. QED
    <3>1. KeptUpto(rows, q, k + 1)
      <4>1. \A p \in 1..Len(q) : \E j \in G(k + 1) : q[p] = rows[j]
        BY <2>3 DEF KeptUpto
      <4>. QED  BY <2>2, <2>4, <4>1 DEF KeptUpto
    <3>. QED  BY <2>1, <3>1
<1>. QED  BY <1>7, <1>8

\* Of any list of rows the first valid one of every key is kept.
LEMMA AnyCleanKeepsFirstValid ==
  ASSUME NEW rows \in Seq(RawRows)
  PROVE  /\ Len(Clean(rows)) = Cardinality(First(rows))
         /\ SilverFile(rows) = NULL <=> First(rows) = {}
         /\ \A i \in First(rows) : Clean(rows)[Cardinality({j \in First(rows) : j <= i})] = rows[i]
<1>. DEFINE n == Len(rows)
<1>1. n \in Nat
  OBVIOUS
<1>2. PICK out : /\ Clean(rows) = out[n] /\ out[0] = <<>>
                 /\ \A k \in 0..n : out[k] \in Seq(RawRows)
                 /\ \A k \in 1..n : out[k] = Kept(rows, out[k - 1], k)
  BY CleanRowByRow
<1>. DEFINE P == {k \in Nat : k <= n => KeptUpto(rows, out[k], k)}
<1>3. Good(rows) \in SUBSET (1..n) /\ First(rows) \in SUBSET (1..n)
  BY DEF Good, First
<1>4. 0 \in P
  <2>1. Upto(Good(rows), 0) = {} /\ Upto(First(rows), 0) = {}
    BY <1>3 DEF Upto
  <2>2. Len(<<>>) = 0 /\ 1..0 = {} /\ Cardinality({}) = 0
    BY FS_EmptySet
  <2>3. KeptUpto(rows, <<>>, 0)
    BY <2>1, <2>2 DEF KeptUpto
  <2>. QED  BY <1>2, <2>3
<1>5. ASSUME NEW k \in Nat, k \in P PROVE k + 1 \in P
  <2>1. SUFFICES ASSUME k + 1 <= n PROVE KeptUpto(rows, out[k + 1], k + 1)
    OBVIOUS
  <2>2. k \in 0..n /\ k + 1 \in 1..n /\ (k + 1) - 1 = k
    BY <1>1, <2>1
  <2>3. out[k] \in Seq(RawRows) /\ out[k + 1] = Kept(rows, out[k], k + 1)
    BY <1>2, <2>2
  <2>4. KeptUpto(rows, out[k], k)
    BY <1>5, <2>2
  <2>5. KeptUpto(rows, Kept(rows, out[k], k + 1), k + 1)
    BY <2>1, <2>3, <2>4, OneMoreRow
  <2>. QED  BY <2>3, <2>5
<1>6. n \in P
  <2>. HIDE DEF P
  <2>. QED  BY <1>1, <1>4, <1>5, SetInduction
<1>7. KeptUpto(rows, Clean(rows), n) /\ Clean(rows) \in Seq(RawRows)
  BY <1>1, <1>2, <1>6
<1>8. Upto(First(rows), n) = First(rows)
  BY <1>1, <1>3 DEF Upto
<1>9. Len(Clean(rows)) = Cardinality(First(rows))
  BY <1>7, <1>8 DEF KeptUpto
<1>10. Clean(rows) = <<>> <=> First(rows) = {}
  <2>1. IsFiniteSet(First(rows))
    <3>1. IsFiniteSet(1..n)
      BY <1>1, FS_Interval
    <3>. QED  BY <1>3, <3>1, FS_Subset
  <2>2. Cardinality(First(rows)) = 0 <=> First(rows) = {}
    BY <2>1, FS_EmptySet
  <2>3. Clean(rows) = <<>> <=> Len(Clean(rows)) = 0
    BY <1>7
  <2>. QED  BY <1>9, <2>2, <2>3
<1>11. ASSUME NEW i \in First(rows)
       PROVE  Clean(rows)[Cardinality({j \in First(rows) : j <= i})] = rows[i]
  BY <1>7, <1>8 DEF KeptUpto, Upto
<1>. QED  BY <1>9, <1>10, <1>11 DEF SilverFile, NULL

-----------------------------------------------------------------------------
(* What the input may be.                                                  *)
InputType == \/ input.of = "rows" /\ input.s \in Seq(RawRows)
             \/ input.of = "ticks" /\ input.s \in Seq(DayTicks)
             \/ input.of = "closes" /\ input.s \in Seq(Prices)

GoldInputs == [of : {"rows", "ticks", "closes"}, s : Seq(RawRows) \cup Seq(DayTicks) \cup Seq(Prices)]

InputInv == input \in GoldInputs /\ InputType

\* The input grows by elements of its own kind.
LEMMA InputTyped == GoldSpec => []InputInv
<1>1. GoldInit => InputInv
  <2>1. SUFFICES ASSUME GoldInit PROVE InputInv
    OBVIOUS
  <2>2. input \in [of : {"rows", "ticks", "closes"}, s : {<<>>}]
    BY <2>1 DEF GoldInit
  <2>3. input.of \in {"rows", "ticks", "closes"} /\ input.s = <<>>
    BY <2>2
  <2>4. \A S : <<>> \in Seq(S)
    OBVIOUS
  <2>. QED  BY <2>2, <2>3, <2>4 DEF InputInv, GoldInputs, InputType
<1>2. InputInv /\ [GoldNext]_input => InputInv'
  <2>1. SUFFICES ASSUME input \in GoldInputs, InputType, [GoldNext]_input
                 PROVE  input' \in GoldInputs /\ InputType'
    BY DEF InputInv
  <2>2. CASE RowRead
    <3>1. PICK v \in RawRows : input.of = "rows" /\ input' = [input EXCEPT !.s = Append(@, v)]
      BY <2>2 DEF RowRead, Grow
    <3>2. input.s \in Seq(RawRows)
      BY <2>1, <3>1 DEF InputType
    <3>3. Append(input.s, v) \in Seq(RawRows)
      BY <3>2
    <3>4. input' \in GoldInputs /\ input'.of = "rows" /\ input'.s = Append(input.s, v)
      BY <2>1, <3>1, <3>3 DEF GoldInputs
    <3>. QED  BY <3>3, <3>4 DEF InputType
  <2>3. CASE TickOfDay
    <3>1. PICK v \in DayTicks : input.of = "ticks" /\ input' = [input EXCEPT !.s = Append(@, v)]
      BY <2>3 DEF TickOfDay, Grow
    <3>2. input.s \in Seq(DayTicks)
      BY <2>1, <3>1 DEF InputType
    <3>3. Append(input.s, v) \in Seq(DayTicks)
      BY <3>2
    <3>4. input' \in GoldInputs /\ input'.of = "ticks" /\ input'.s = Append(input.s, v)
      BY <2>1, <3>1, <3>3 DEF GoldInputs
    <3>. QED  BY <3>3, <3>4 DEF InputType
  <2>4. CASE DayEnds
    <3>1. PICK v \in Prices : input.of = "closes" /\ input' = [input EXCEPT !.s = Append(@, v)]
      BY <2>4 DEF DayEnds, Grow
    <3>2. input.s \in Seq(Prices)
      BY <2>1, <3>1 DEF InputType
    <3>3. Append(input.s, v) \in Seq(Prices)
      BY <3>2
    <3>4. input' \in GoldInputs /\ input'.of = "closes" /\ input'.s = Append(input.s, v)
      BY <2>1, <3>1, <3>3 DEF GoldInputs
    <3>. QED  BY <3>3, <3>4 DEF InputType
  <2>5. CASE UNCHANGED input
    BY <2>1, <2>5 DEF InputType
  <2>. QED  BY <2>1, <2>2, <2>3, <2>4, <2>5 DEF GoldNext
<1>. QED  BY <1>1, <1>2, PTL DEF GoldSpec

\* What is written from any list of rows, any day and any series is what each
\* of the three implementations promises, and differs nowhere else (silver.py,
\* gold.py, silver_to_gold.py, the three dbt marts): for any number of rows, of
\* ticks and of days, and any prices, volumes and windows.
THEOREM TablesAgree == GoldSpec => []ComputationsAgree
<1>1. InputInv => CleanKeepsFirstValid
  <2>1. SUFFICES ASSUME InputType, input.of = "rows" PROVE CleanKeepsFirstValid
    BY DEF InputInv, CleanKeepsFirstValid
  <2>2. input.s \in Seq(RawRows)
    BY <2>1 DEF InputType
  <2>. QED  BY <2>2, AnyCleanKeepsFirstValid DEF CleanKeepsFirstValid, First, Good
<1>2. InputInv => DaysAgree
  <2>1. SUFFICES ASSUME InputType, input.of = "ticks", input.s # <<>> PROVE DaysAgree
    BY DEF InputInv, DaysAgree
  <2>2. input.s \in Seq(DayTicks)
    BY <2>1 DEF InputType
  <2>. QED  BY <2>1, <2>2, AnyDayAgrees DEF DaysAgree, RowsOf
<1>3. InputInv => AveragesAgree
  <2>1. SUFFICES ASSUME InputType, input.of = "closes", input.s # <<>> PROVE AveragesAgree
    BY DEF InputInv, AveragesAgree
  <2>2. input.s \in Seq(Prices)
    BY <2>1 DEF InputType
  <2>. QED  BY <2>1, <2>2, AnyAveragesAgree DEF AveragesAgree
<1>4. InputInv => VolatilitiesAgree
  <2>1. SUFFICES ASSUME InputType, input.of = "closes", input.s # <<>> PROVE VolatilitiesAgree
    BY DEF InputInv, VolatilitiesAgree
  <2>2. Len(input.s) \in Nat \ {0}
    BY <2>1 DEF InputType
  <2>. QED  BY <2>2, AnyVolatilitiesAgree DEF VolatilitiesAgree
<1>. QED  BY <1>1, <1>2, <1>3, <1>4, InputTyped, PTL DEF ComputationsAgree

=============================================================================
