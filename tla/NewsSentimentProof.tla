-------------------------- MODULE NewsSentimentProof --------------------------
(***************************************************************************)
(* Proofs about ObjectStore and NewsSentiment, for any clients, tasks,     *)
(* names, attempts, tries and faults.                                      *)
(***************************************************************************)
EXTENDS NewsSentiment, TLAPS

(* What one client's step does to its call; every other client's stays.    *)

\* A request of a call is repeated, or raises, with its call otherwise as it was.
LEMMA FailsResult ==
  ASSUME StoreInv, NEW c \in Clients, Fails(c), call[c].pc # "idle",
         call[c].pc # "raised"
  PROVE  /\ call' = [call EXCEPT ![c] = call'[c]]
         /\ call'[c] \in CallType
         /\ call'[c].pc \in {"check", "send", "raised"}
         /\ call'[c].pc = "send" => call[c].op \notin Ensures
         /\ call'[c].op = call[c].op
         /\ call'[c].path = call[c].path
         /\ call'[c].blob = call[c].blob
         /\ call'[c].seen = call[c].seen
         /\ call'[c].got = call[c].got
         /\ FailedAttempts(call'[c]) = call[c].tries
         /\ (call'[c].pc = "raised" /\ call[c].op = "put") => call'[c].tries = MaxAttempts
<1>. USE StoreConstants DEF Retried, Ensures, Entry, Ops
<1>1. call \in [Clients -> CallType] /\ call[c] # NoCall
  BY DEF StoreInv, NoCall
<1>2. /\ call[c].tries \in 1 .. MaxAttempts
      /\ call[c].op \in Ops
      /\ call[c] = [pc |-> call[c].pc, op |-> call[c].op, path |-> call[c].path,
                    blob |-> call[c].blob, tries |-> call[c].tries,
                    seen |-> call[c].seen, got |-> call[c].got]
  BY <1>1 DEF CallType
<1>3. CASE call[c].op \in Retried /\ call[c].tries < MaxAttempts
  <2>1. call'[c] = [call[c] EXCEPT !.tries = @ + 1, !.pc = Entry(call[c].op)]
    BY <1>1, <1>3 DEF Fails
  <2>2. call' = [call EXCEPT ![c] = call'[c]]
    BY <1>1, <1>3, <2>1 DEF Fails
  <2>3. call'[c] = [pc |-> Entry(call[c].op), op |-> call[c].op, path |-> call[c].path,
                    blob |-> call[c].blob, tries |-> call[c].tries + 1,
                    seen |-> call[c].seen, got |-> call[c].got]
    BY <1>2, <2>1
  <2>4. call[c] \in CallType \ {NoCall} /\ call[c].tries + 1 \in 1 .. MaxAttempts
    BY <1>1, <1>2, <1>3
  <2>5. call'[c] \in CallType
    BY <2>3, <2>4 DEF CallType
  <2>6. FailedAttempts(call'[c]) = call[c].tries
    BY <1>2, <2>3 DEF FailedAttempts
  <2>. QED  BY <1>2, <2>2, <2>3, <2>5, <2>6
<1>4. CASE ~(call[c].op \in Retried /\ call[c].tries < MaxAttempts)
  <2>1. call'[c] = [call[c] EXCEPT !.pc = "raised"]
    BY <1>1, <1>4 DEF Fails
  <2>2. call' = [call EXCEPT ![c] = call'[c]]
    BY <1>1, <1>4, <2>1 DEF Fails
  <2>. QED  BY <1>1, <1>2, <1>4, <2>1, <2>2 DEF CallType, FailedAttempts
<1>. QED  BY <1>3, <1>4

\* A step that changes one call, and only adds to the faults and the bucket,
\* keeps the store well formed when it leaves that call well formed.
LEMMA OneCallChanges ==
  ASSUME StoreInv, NEW c \in Clients,
         call' = [call EXCEPT ![c] = call'[c]], call'[c] \in CallType,
         bucket' \in BOOLEAN, bucket => bucket',
         faults' \in 0 .. MaxFaults, faults <= faults',
         objects' \in [Paths -> Blobs \cup {NoBlob}],
         (\E p \in Paths : objects'[p] # NoBlob) => bucket',
         (call'[c].pc \in {"send", "answer", "returned"} /\ call'[c].op \in Ensures) => bucket',
         call'[c].pc \in {"answer", "returned"} => call'[c].seen,
         (call'[c].pc # "idle" /\ call'[c].op = "ensure") => call'[c].got = {},
         (call'[c].pc # "idle" /\ call'[c].op = "put") =>
           /\ FailedAttempts(call'[c]) <= faults' + 1
           /\ (~bucket' \/ call'[c].pc = "make") => FailedAttempts(call'[c]) <= faults'
           /\ call'[c].pc = "raised" => call'[c].tries = MaxAttempts
  PROVE  StoreInv'
<1>1. /\ call \in [Clients -> CallType]
      /\ bucket \in BOOLEAN
      /\ faults \in 0 .. MaxFaults
  BY DEF StoreInv
<1>2. call' \in [Clients -> CallType]
  BY <1>1
<1>3. ASSUME NEW d \in Clients, d # c PROVE call'[d] = call[d]
  BY <1>1, <1>3
<1>4. ASSUME NEW d \in Clients, call'[d].pc \in {"send", "answer", "returned"},
             call'[d].op \in Ensures
      PROVE  bucket'
  BY <1>3, <1>4 DEF StoreInv
<1>5. AnswersAreServed'
  BY <1>3 DEF StoreInv, AnswersAreServed
<1>6. AttemptsAccounted'
  <2>. SUFFICES ASSUME NEW d \in Clients, call'[d].pc # "idle", call'[d].op = "put"
                PROVE  /\ FailedAttempts(call'[d]) <= faults' + 1
                       /\ (~bucket' \/ call'[d].pc = "make") => FailedAttempts(call'[d]) <= faults'
                       /\ call'[d].pc = "raised" => call'[d].tries = MaxAttempts
    BY DEF AttemptsAccounted, FailedAttempts
  <2>1. CASE d = c
    BY <2>1
  <2>2. CASE d # c
    <3>1. call'[d] = call[d]
      BY <1>3, <2>2
    <3>2. FailedAttempts(call[d]) \in Int
      <4>1. call[d].tries \in 1 .. MaxAttempts
        BY <1>1, <3>1 DEF CallType, NoCall
      <4>. QED  BY <4>1 DEF FailedAttempts
    <3>3. /\ FailedAttempts(call[d]) <= faults + 1
          /\ (~bucket \/ call[d].pc = "make") => FailedAttempts(call[d]) <= faults
          /\ call[d].pc = "raised" => call[d].tries = MaxAttempts
      BY <3>1 DEF StoreInv, AttemptsAccounted
    <3>. QED  BY <1>1, <3>1, <3>2, <3>3, StoreConstants
  <2>. QED  BY <2>1, <2>2
<1>. QED  BY <1>2, <1>4, <1>5, <1>6 DEF StoreInv

\* A call that starts is well formed, whoever makes it.
LEMMA CallKeepsStore ==
  ASSUME StoreInv, NEW c \in Clients, NEW op \in Ops, NEW p \in Paths, NEW b \in Blobs,
         Call(c, op, p, b), UNCHANGED <<bucket, objects, faults>>
  PROVE  StoreInv'
<1>1. call \in [Clients -> CallType] /\ faults \in 0 .. MaxFaults /\ bucket \in BOOLEAN
  BY DEF StoreInv
<1>2. call'[c] = [pc |-> Entry(op), op |-> op, path |-> p, blob |-> b, tries |-> 1,
                  seen |-> FALSE, got |-> {}]
  BY <1>1 DEF Call
<1>3. call' = [call EXCEPT ![c] = call'[c]]
  BY <1>1, <1>2 DEF Call
<1>4. call'[c] \in CallType
  BY <1>2, StoreConstants DEF CallType, Entry
<1>5. FailedAttempts(call'[c]) = 0
  BY <1>2 DEF FailedAttempts, Entry
<1>6. /\ call'[c].pc \in {"check", "send"}
      /\ call'[c].pc = "send" => call'[c].op \notin Ensures
      /\ call'[c].got = {}
  BY <1>2 DEF Entry
<1>. QED  BY <1>1, <1>3, <1>4, <1>5, <1>6, OneCallChanges, StoreConstants DEF StoreInv

\* A caller that goes on, or dies, leaves no call behind.
LEMMA HangKeepsStore ==
  ASSUME StoreInv, NEW c \in Clients, Hang(c), UNCHANGED <<bucket, objects, faults>>
  PROVE  StoreInv'
<1>1. call \in [Clients -> CallType] /\ faults \in 0 .. MaxFaults /\ bucket \in BOOLEAN
  BY DEF StoreInv
<1>2. call'[c] = NoCall /\ call' = [call EXCEPT ![c] = call'[c]]
  BY <1>1 DEF Hang
<1>3. call'[c] \in CallType /\ call'[c].pc = "idle"
  BY <1>2 DEF CallType, NoCall
<1>. QED  BY <1>1, <1>2, <1>3, OneCallChanges, StoreConstants DEF StoreInv

\* A call under way is a record of CallType.
LEMMA CallUnderWay ==
  ASSUME StoreInv, NEW c \in Clients, call[c].pc # "idle"
  PROVE  /\ call[c] \in CallType \ {NoCall}
         /\ call[c].op \in Ops
         /\ call[c].path \in Paths
         /\ call[c].blob \in Blobs
         /\ call[c].seen \in BOOLEAN
<1>1. call[c] \in CallType /\ call[c] # NoCall
  BY DEF StoreInv, NoCall
<1>. QED  BY <1>1 DEF CallType

\* The same, field by field.
LEMMA CallIsRecord ==
  ASSUME NEW r \in CallType \ {NoCall}
  PROVE  r = [pc |-> r.pc, op |-> r.op, path |-> r.path, blob |-> r.blob,
              tries |-> r.tries, seen |-> r.seen, got |-> r.got]
  BY DEF CallType

\* The attempts of a call are counted from 1.
LEMMA AttemptsCounted ==
  ASSUME NEW r \in CallType \ {NoCall}
  PROVE  /\ r.tries \in Int /\ 1 <= r.tries
         /\ FailedAttempts(r) = IF r.pc = "raised" THEN r.tries ELSE r.tries - 1
  BY StoreConstants DEF CallType, FailedAttempts

\* A failing attempt of a call keeps the store, when the fault or the lost
\* race that made it fail is accounted for.
LEMMA FailKeepsStore ==
  ASSUME StoreInv, NEW c \in Clients, Fails(c),
         call[c].pc \in {"check", "make", "send", "answer"},
         UNCHANGED objects, bucket' \in BOOLEAN, bucket => bucket',
         faults' \in 0 .. MaxFaults,
         \/ faults' = faults + 1
         \/ bucket' /\ call[c].pc = "make" /\ faults' = faults
         \/ call[c].op # "put" /\ faults' = faults
  PROVE  StoreInv'
<1>1. /\ call'[c].pc \in {"check", "send", "raised"}
      /\ call'[c].pc = "send" => call[c].op \notin Ensures
      /\ call' = [call EXCEPT ![c] = call'[c]]
      /\ call'[c] \in CallType
      /\ call'[c].op = call[c].op
      /\ call'[c].got = call[c].got
      /\ FailedAttempts(call'[c]) = call[c].tries
      /\ (call'[c].pc = "raised" /\ call[c].op = "put") => call'[c].tries = MaxAttempts
  BY FailsResult
<1>2. /\ faults \in Int /\ bucket \in BOOLEAN
      /\ objects' \in [Paths -> Blobs \cup {NoBlob}]
      /\ (\E p \in Paths : objects'[p] # NoBlob) => bucket'
      /\ (call[c].pc # "idle" /\ call[c].op = "ensure") => call[c].got = {}
  BY StoreConstants DEF StoreInv, AnswersAreServed
<1>3. call[c].tries \in Int /\ FailedAttempts(call[c]) = call[c].tries - 1
  <2>1. call[c].pc # "idle" /\ call[c].pc # "raised"
    OBVIOUS
  <2>. QED  BY <2>1, CallUnderWay, AttemptsCounted
<1>4. ASSUME call[c].op = "put"
      PROVE  /\ call[c].tries - 1 <= faults + 1
             /\ (~bucket \/ call[c].pc = "make") => call[c].tries - 1 <= faults
  BY <1>3, <1>4 DEF StoreInv, AttemptsAccounted
<1>5. ASSUME call[c].op = "put", call[c].pc # "make"
      PROVE  bucket \/ call[c].tries - 1 <= faults
  BY <1>4, <1>5
<1>6. ASSUME call[c].op = "put"
      PROVE  /\ call[c].tries <= faults' + 1
             /\ ~bucket' => call[c].tries <= faults'
  BY <1>2, <1>3, <1>4, <1>6
<1>7. faults <= faults'
  BY <1>2
<1>. QED  BY <1>1, <1>2, <1>6, <1>7, OneCallChanges

\* A step that succeeds moves a call on with its attempts as they were.
LEMMA ProgressKeepsStore ==
  ASSUME StoreInv, NEW c \in Clients, call[c].pc # "idle", call[c].pc # "raised",
         call' = [call EXCEPT ![c] = call'[c]], call'[c] \in CallType,
         call'[c].op = call[c].op, call'[c].tries = call[c].tries,
         call'[c].pc \in {"make", "send", "answer", "returned"},
         bucket' \in BOOLEAN, bucket => bucket', UNCHANGED faults,
         objects' \in [Paths -> Blobs \cup {NoBlob}],
         (\E p \in Paths : objects'[p] # NoBlob) => bucket',
         call'[c].pc = "make" => ~bucket,
         (call'[c].pc # "make" /\ call[c].op \in Ensures) => bucket',
         call'[c].pc \in {"answer", "returned"} => call'[c].seen,
         call[c].op = "ensure" => call'[c].got = {}
  PROVE  StoreInv'
<1>1. /\ call[c].tries \in Int /\ FailedAttempts(call[c]) = call[c].tries - 1
      /\ faults \in 0 .. MaxFaults
  BY CallUnderWay, AttemptsCounted DEF StoreInv
<1>2. FailedAttempts(call'[c]) = FailedAttempts(call[c])
  BY DEF FailedAttempts
<1>3. call[c].op = "put" =>
        /\ FailedAttempts(call[c]) <= faults + 1
        /\ ~bucket => FailedAttempts(call[c]) <= faults
  BY DEF StoreInv, AttemptsAccounted
<1>4. ~bucket' => ~bucket
  OBVIOUS
<1>5. call'[c].op = "put" =>
        /\ FailedAttempts(call'[c]) <= faults' + 1
        /\ (~bucket' \/ call'[c].pc = "make") => FailedAttempts(call'[c]) <= faults'
  BY <1>2, <1>3, <1>4
<1>. QED  BY <1>1, <1>5, OneCallChanges, StoreConstants

\* The step past the bucket: an ensure is answered, an upload is sent.
LEMMA AfterBucketResult ==
  ASSUME StoreInv, NEW c \in Clients, call[c].pc \in {"check", "make"}
  PROVE  /\ AfterBucket(call[c]) \in CallType
         /\ AfterBucket(call[c]).op = call[c].op
         /\ AfterBucket(call[c]).path = call[c].path
         /\ AfterBucket(call[c]).blob = call[c].blob
         /\ AfterBucket(call[c]).tries = call[c].tries
         /\ AfterBucket(call[c]).got = call[c].got
         /\ IF call[c].op = "ensure"
            THEN AfterBucket(call[c]).pc = "answer" /\ AfterBucket(call[c]).seen
            ELSE AfterBucket(call[c]).pc = "send" /\ AfterBucket(call[c]).seen = call[c].seen
<1>1. /\ call[c] \in CallType /\ call[c] # NoCall
      /\ call[c] = [pc |-> call[c].pc, op |-> call[c].op, path |-> call[c].path,
                    blob |-> call[c].blob, tries |-> call[c].tries,
                    seen |-> call[c].seen, got |-> call[c].got]
  BY CallUnderWay, CallIsRecord
<1>2. CASE call[c].op = "ensure"
  <2>1. AfterBucket(call[c]) = [pc |-> "answer", op |-> call[c].op, path |-> call[c].path,
                    blob |-> call[c].blob, tries |-> call[c].tries,
                    seen |-> TRUE, got |-> call[c].got]
    BY <1>1, <1>2 DEF AfterBucket
  <2>. QED  BY <1>1, <1>2, <2>1 DEF CallType
<1>3. CASE call[c].op # "ensure"
  <2>1. AfterBucket(call[c]) = [pc |-> "send", op |-> call[c].op, path |-> call[c].path,
                    blob |-> call[c].blob, tries |-> call[c].tries,
                    seen |-> call[c].seen, got |-> call[c].got]
    BY <1>1, <1>3 DEF AfterBucket
  <2>. QED  BY <1>1, <1>3, <2>1 DEF CallType
<1>. QED  BY <1>2, <1>3

\* Every request of the client keeps the store well formed.
LEMMA StoreStepKeepsStore ==
  ASSUME StoreInv, NEW c \in Clients, StoreStep(c)
  PROVE  StoreInv'
<1>. USE StoreConstants
<1>1. /\ call \in [Clients -> CallType]
      /\ bucket \in BOOLEAN
      /\ objects \in [Paths -> Blobs \cup {NoBlob}]
      /\ faults \in 0 .. MaxFaults
      /\ (\E p \in Paths : objects[p] # NoBlob) => bucket
  BY DEF StoreInv
<1>a. ASSUME call[c].pc # "idle"
      PROVE  /\ call[c] \in CallType \ {NoCall}
             /\ call[c] = [pc |-> call[c].pc, op |-> call[c].op, path |-> call[c].path,
                           blob |-> call[c].blob, tries |-> call[c].tries,
                           seen |-> call[c].seen, got |-> call[c].got]
             /\ call[c].op \in Ops /\ call[c].path \in Paths /\ call[c].blob \in Blobs
  BY <1>a, CallUnderWay, CallIsRecord
<1>2. ASSUME BucketExists(c) PROVE StoreInv'
  <2>1. call[c].op = "ensure" => call[c].got = {}
    BY <1>2 DEF BucketExists, StoreInv, AnswersAreServed
  <2>2. CASE bucket
    <3>1. call'[c] = AfterBucket(call[c]) /\ call' = [call EXCEPT ![c] = call'[c]]
      BY <1>1, <1>2, <2>2 DEF BucketExists
    <3>. QED
      BY <1>1, <1>2, <2>1, <2>2, <3>1, AfterBucketResult, ProgressKeepsStore
      DEF BucketExists, Ensures
  <2>3. CASE ~bucket
    <3>1. call'[c] = [call[c] EXCEPT !.pc = "make"] /\ call' = [call EXCEPT ![c] = call'[c]]
      BY <1>1, <1>2, <2>3 DEF BucketExists
    <3>2. call'[c] = [pc |-> "make", op |-> call[c].op, path |-> call[c].path,
                      blob |-> call[c].blob, tries |-> call[c].tries,
                      seen |-> call[c].seen, got |-> call[c].got]
      BY <1>2, <3>1, <1>a DEF BucketExists
    <3>3. call'[c] \in CallType
      BY <1>2, <3>2, <1>a DEF BucketExists, CallType, NoCall
    <3>. QED
      BY <1>1, <1>2, <2>1, <2>3, <3>1, <3>2, <3>3, ProgressKeepsStore DEF BucketExists
  <2>. QED  BY <1>1, <2>2, <2>3
<1>3. ASSUME MakeBucket(c) PROVE StoreInv'
  <2>1. call[c].op = "ensure" => call[c].got = {}
    BY <1>3 DEF MakeBucket, StoreInv, AnswersAreServed
  <2>2. CASE ~bucket
    <3>1. /\ bucket' = TRUE
          /\ call'[c] = AfterBucket(call[c])
          /\ call' = [call EXCEPT ![c] = call'[c]]
      BY <1>1, <1>3, <2>2 DEF MakeBucket
    <3>. QED
      BY <1>1, <1>3, <2>1, <3>1, AfterBucketResult, ProgressKeepsStore DEF MakeBucket
  <2>3. CASE bucket
    BY <1>1, <1>3, <2>3, FailKeepsStore DEF MakeBucket
  <2>. QED  BY <1>1, <2>2, <2>3
<1>4. ASSUME Served(c) PROVE StoreInv'
  <2>1. /\ bucket
        /\ call[c].pc = "send"
        /\ call[c].op \in Ops /\ call[c].path \in Paths /\ call[c].blob \in Blobs
    BY <1>1, <1>4, <1>a DEF Served, Refused
  <2>2. objects' \in [Paths -> Blobs \cup {NoBlob}]
    BY <1>1, <1>4, <2>1 DEF Served
  <2>3. View(call[c]) \in SUBSET (Blobs \cup {NoBlob} \cup Paths)
    BY <1>1, <2>1 DEF View
  <2>4. /\ call'[c] = [call[c] EXCEPT !.pc = "answer", !.seen = TRUE, !.got = View(call[c])]
        /\ call' = [call EXCEPT ![c] = call'[c]]
    BY <1>1, <1>4 DEF Served
  <2>5. call'[c] = [pc |-> "answer", op |-> call[c].op, path |-> call[c].path,
                    blob |-> call[c].blob, tries |-> call[c].tries,
                    seen |-> TRUE, got |-> View(call[c])]
    BY <2>1, <2>4, <1>a
  <2>6. call'[c] \in CallType
    BY <2>1, <2>3, <2>5, <1>a DEF CallType, NoCall
  <2>7. call[c].op = "ensure" => View(call[c]) = {}
    BY DEF View
  <2>. QED
    BY <1>1, <1>4, <2>1, <2>2, <2>4, <2>5, <2>6, <2>7, ProgressKeepsStore DEF Served
<1>5. ASSUME NotServed(c) PROVE StoreInv'
  <2>1. call[c].op # "put"
    BY <1>5 DEF NotServed, Refused, StoreInv, Ensures
  <2>. QED  BY <1>1, <1>5, <2>1, FailKeepsStore DEF NotServed
<1>6. ASSUME Answered(c) PROVE StoreInv'
  <2>1. call'[c] = [call[c] EXCEPT !.pc = "returned"] /\ call' = [call EXCEPT ![c] = call'[c]]
    BY <1>1, <1>6 DEF Answered
  <2>2. call'[c] = [pc |-> "returned", op |-> call[c].op, path |-> call[c].path,
                    blob |-> call[c].blob, tries |-> call[c].tries,
                    seen |-> call[c].seen, got |-> call[c].got]
    BY <1>6, <2>1, <1>a DEF Answered
  <2>3. call'[c] \in CallType
    BY <1>6, <2>2, <1>a DEF Answered, CallType, NoCall
  <2>4. /\ call[c].seen
        /\ call[c].op = "ensure" => call[c].got = {}
        /\ call[c].op \in Ensures => bucket
    BY <1>6 DEF Answered, StoreInv, AnswersAreServed
  <2>. QED
    BY <1>1, <1>6, <2>1, <2>2, <2>3, <2>4, ProgressKeepsStore DEF Answered
<1>7. ASSUME Lost(c) PROVE StoreInv'
  <2>1. bucket' \in BOOLEAN /\ (bucket => bucket')
    <3>1. bucket' = bucket \/ bucket' = (bucket \/ call[c].pc = "make")
      BY <1>7 DEF Lost
    <3>. QED  BY <1>1, <3>1, Zenon
  <2>2. faults' = faults + 1 /\ faults' \in 0 .. MaxFaults
    BY <1>1, <1>7 DEF Lost
  <2>. QED  BY <1>7, <2>1, <2>2, FailKeepsStore DEF Lost
<1>. QED  BY <1>2, <1>3, <1>4, <1>5, <1>6, <1>7 DEF StoreStep

\* An upload fails only after the network failed it MaxAttempts - 1 times.
LEMMA StoreImpliesRace == StoreInv => RaceCostsOneAttempt
<1>. SUFFICES ASSUME StoreInv, NEW c \in Clients, call[c].pc = "raised", call[c].op = "put"
              PROVE  faults >= MaxAttempts - 1
  BY DEF RaceCostsOneAttempt
<1>1. FailedAttempts(call[c]) <= faults + 1 /\ FailedAttempts(call[c]) = MaxAttempts
  BY DEF StoreInv, AttemptsAccounted, FailedAttempts
<1>. QED  BY <1>1, StoreConstants DEF StoreInv

-----------------------------------------------------------------------------
(* What a request does, seen by the tasks.                                 *)

\* A request belongs to one call, keeps what was asked, and writes only there.
LEMMA StoreStepEffect ==
  ASSUME StoreInv, NEW c \in Clients, StoreStep(c)
  PROVE  /\ \A d \in Clients \ {c} : call'[d] = call[d]
         /\ call[c].pc # "idle" /\ call'[c].pc # "idle"
         /\ call'[c].op = call[c].op /\ call'[c].path = call[c].path
         /\ call'[c].blob = call[c].blob
         /\ faults \in Int /\ faults' \in Int /\ faults <= faults'
         /\ \A p \in Paths \ {call[c].path} : objects'[p] = objects[p]
         /\ call[c].op \notin {"put", "delete"} => objects' = objects
         /\ call[c].op = "put" =>
              \/ objects' = objects /\ call'[c].seen = call[c].seen
              \/ objects'[call[c].path] = call[c].blob
<1>. USE StoreConstants
<1>1. /\ call \in [Clients -> CallType]
      /\ objects \in [Paths -> Blobs \cup {NoBlob}]
      /\ faults \in Int
  BY DEF StoreInv
<1>2. ASSUME Fails(c), call[c].pc \in {"check", "make", "send", "answer"}
      PROVE  /\ \A d \in Clients \ {c} : call'[d] = call[d]
             /\ call'[c].pc # "idle"
             /\ call'[c].op = call[c].op /\ call'[c].path = call[c].path
             /\ call'[c].blob = call[c].blob
             /\ call'[c].seen = call[c].seen
  <2>1. /\ call' = [call EXCEPT ![c] = call'[c]]
        /\ call'[c].pc \in {"check", "send", "raised"}
        /\ call'[c].op = call[c].op /\ call'[c].path = call[c].path
        /\ call'[c].blob = call[c].blob
        /\ call'[c].seen = call[c].seen
    BY <1>2, FailsResult
  <2>. QED  BY <1>1, <2>1
<1>3. ASSUME call[c].pc \in {"check", "make"}, call' = [call EXCEPT ![c] = AfterBucket(@)]
      PROVE  /\ \A d \in Clients \ {c} : call'[d] = call[d]
             /\ call'[c].pc # "idle"
             /\ call'[c].op = call[c].op /\ call'[c].path = call[c].path
             /\ call'[c].blob = call[c].blob
             /\ call[c].op # "ensure" => call'[c].seen = call[c].seen
  <2>1. call'[c] = AfterBucket(call[c]) /\ \A d \in Clients \ {c} : call'[d] = call[d]
    BY <1>1, <1>3
  <2>. QED  BY <1>3, <2>1, AfterBucketResult
<1>4. ASSUME NEW x, call[c].pc # "idle", x # "idle",
             call' = [call EXCEPT ![c].pc = x]
      PROVE  /\ \A d \in Clients \ {c} : call'[d] = call[d]
             /\ call'[c].pc # "idle"
             /\ call'[c].op = call[c].op /\ call'[c].path = call[c].path
             /\ call'[c].blob = call[c].blob
             /\ call'[c].seen = call[c].seen
  <2>1. call'[c] = [call[c] EXCEPT !.pc = x] /\ \A d \in Clients \ {c} : call'[d] = call[d]
    BY <1>1, <1>4
  <2>2. call[c] \in CallType \ {NoCall}
    BY <1>4, CallUnderWay
  <2>. QED  BY <1>4, <2>1, <2>2 DEF CallType
<1>5. ASSUME BucketExists(c)
      PROVE  /\ \A d \in Clients \ {c} : call'[d] = call[d]
             /\ call'[c].pc # "idle"
             /\ call'[c].op = call[c].op /\ call'[c].path = call[c].path
             /\ call'[c].blob = call[c].blob
             /\ call[c].op # "ensure" => call'[c].seen = call[c].seen
  <2>1. CASE bucket
    <3>1. call' = [call EXCEPT ![c] = AfterBucket(@)]
      BY <1>1, <1>5, <2>1 DEF BucketExists
    <3>. QED  BY <1>3, <1>5, <3>1 DEF BucketExists
  <2>2. CASE ~bucket
    <3>1. call' = [call EXCEPT ![c].pc = "make"]
      BY <1>1, <1>5, <2>2 DEF BucketExists
    <3>. QED  BY <1>4, <1>5, <3>1 DEF BucketExists
  <2>. QED  BY <2>1, <2>2
<1>6. ASSUME Served(c)
      PROVE  /\ \A d \in Clients \ {c} : call'[d] = call[d]
             /\ call'[c].pc # "idle"
             /\ call'[c].op = call[c].op /\ call'[c].path = call[c].path
             /\ call'[c].blob = call[c].blob
             /\ \A p \in Paths \ {call[c].path} : objects'[p] = objects[p]
             /\ call[c].op \notin {"put", "delete"} => objects' = objects
             /\ call[c].op = "put" => objects'[call[c].path] = call[c].blob
  <2>1. call[c].pc # "idle"
    BY <1>6 DEF Served
  <2>2. /\ call[c] \in CallType \ {NoCall} /\ call[c].path \in Paths
        /\ call[c] = [pc |-> call[c].pc, op |-> call[c].op, path |-> call[c].path,
                      blob |-> call[c].blob, tries |-> call[c].tries,
                      seen |-> call[c].seen, got |-> call[c].got]
    BY <2>1, CallUnderWay, CallIsRecord
  <2>3. call'[c] = [call[c] EXCEPT !.pc = "answer", !.seen = TRUE, !.got = View(call[c])]
    BY <1>1, <1>6 DEF Served
  <2>4. call'[c] = [pc |-> "answer", op |-> call[c].op, path |-> call[c].path,
                    blob |-> call[c].blob, tries |-> call[c].tries,
                    seen |-> TRUE, got |-> View(call[c])]
    BY <2>2, <2>3
  <2>5. \A d \in Clients \ {c} : call'[d] = call[d]
    BY <1>1, <1>6 DEF Served
  <2>. QED  BY <1>1, <1>6, <2>2, <2>4, <2>5 DEF Served
<1>7. CASE BucketExists(c)
  BY <1>1, <1>5, <1>7 DEF BucketExists
<1>8. CASE MakeBucket(c)
  BY <1>1, <1>2, <1>3, <1>8 DEF MakeBucket
<1>9. CASE Served(c)
  <2>1. call[c].pc # "idle" /\ faults' = faults
    BY <1>9 DEF Served
  <2>. QED  BY <1>1, <1>6, <1>9, <2>1
<1>10. CASE NotServed(c)
  BY <1>1, <1>2, <1>10 DEF NotServed
<1>11. CASE Answered(c)
  BY <1>1, <1>4, <1>11 DEF Answered
<1>12. CASE Lost(c)
  BY <1>1, <1>2, <1>12 DEF Lost
<1>. QED  BY <1>7, <1>8, <1>9, <1>10, <1>11, <1>12 DEF StoreStep

\* What a task stored stays, and only its own upload, under the name of its
\* try, stores for it.
LEMMA StoredBySelf ==
  ASSUME NewsInv, NEW c \in Clients, StoreStep(c), UNCHANGED taskVars, NEW j \in Tasks
  PROVE  /\ Stored(j) \subseteq Stored(j)'
         /\ \A t \in Stored(j)' \ Stored(j) :
              c = j /\ t = task[j].try /\ task[j].st = "writing"
<1>. USE NewsConstants
<1>1. /\ objects \in [Paths -> Blobs \cup {NoBlob}]
      /\ task \in [Tasks -> [st : Statuses, try : 1 .. MaxTries]]
      /\ StoreInv
  BY DEF NewsInv, StoreInv
<1>2. /\ call[c].pc # "idle" /\ call[c].blob \in Blobs
      /\ \A p \in Paths \ {call[c].path} : objects'[p] = objects[p]
      /\ call[c].op \notin {"put", "delete"} => objects' = objects
      /\ call[c].op = "put" => objects' = objects \/ objects'[call[c].path] = call[c].blob
  BY <1>1, StoreStepEffect, CallUnderWay
<1>3. \A t \in 1 .. MaxTries : <<j, t>> \in Paths /\ <<j, t>> # ToolPath
  OBVIOUS
<1>4. ASSUME c # j PROVE \A t \in 1 .. MaxTries : objects'[<<j, t>>] = objects[<<j, t>>]
  <2>1. CASE c \in Tasks
    <3>1. CASE task[c].st = "building"
      BY <1>2, <3>1, <2>1 DEF NewsInv, TasksCall
    <3>2. CASE task[c].st = "writing"
      <4>1. call[c].path = <<c, task[c].try>>
        BY <2>1, <3>2 DEF NewsInv, TasksCall, PathOf
      <4>. QED  BY <1>2, <1>3, <1>4, <4>1
    <3>. QED  BY <1>2, <2>1, <3>1, <3>2 DEF NewsInv, TasksCall
  <2>2. CASE c \notin Tasks
    <3>1. call[c].path = ToolPath
      BY <1>2, <2>2 DEF NewsInv, ToolsKeepToThemselves
    <3>. QED  BY <1>2, <1>3, <3>1
  <2>. QED  BY <2>1, <2>2
<1>5. ASSUME c = j, task[j].st # "writing" PROVE objects' = objects
  <2>1. call[c].op = "ensure"
    BY <1>2, <1>5 DEF NewsInv, TasksCall
  <2>. QED  BY <1>2, <2>1
<1>6. ASSUME c = j, task[j].st = "writing"
      PROVE  /\ \A t \in (1 .. MaxTries) \ {task[j].try} : objects'[<<j, t>>] = objects[<<j, t>>]
             /\ \/ objects' = objects
                \/ objects'[<<j, task[j].try>>] # NoBlob
  <2>1. call[c].path = <<j, task[j].try>> /\ call[c].op = "put"
    BY <1>6 DEF NewsInv, TasksCall, PathOf
  <2>. QED  BY <1>2, <1>3, <2>1, StoreConstants
<1>. QED  BY <1>1, <1>4, <1>5, <1>6 DEF Stored, taskVars

-----------------------------------------------------------------------------
(* The inductive invariant of the tasks, NewsInv.                          *)

\* The initial states satisfy the invariant.
LEMMA InitNewsInv == Init => NewsInv
<1>. SUFFICES ASSUME Init PROVE NewsInv
  OBVIOUS
<1>. USE NewsConstants, StoreConstants DEF Init
<1>1. StoreInv
  BY DEF StoreInit, StoreInv, CallType, AnswersAreServed, AttemptsAccounted, NoCall
<1>2. \A j \in Tasks : Stored(j) = {} /\ task[j].st = "scheduled" /\ call[j].pc = "idle"
  BY DEF StoreInit, Stored, NoCall
<1>3. TasksCall /\ ToolsKeepToThemselves /\ StoredByLastTry /\ ReportsKept
  BY <1>2 DEF StoreInit, NoCall, TasksCall, ToolsKeepToThemselves, StoredByLastTry,
              ReportsKept, Tasks
<1>. QED  BY <1>1, <1>3 DEF NewsInv, Statuses, Tasks

\* The store stays well formed.
LEMMA StoreInvStep == NewsInv /\ [Next]_vars => StoreInv'
<1>. SUFFICES ASSUME NewsInv, [Next]_vars PROVE StoreInv'
  OBVIOUS
<1>. USE NewsConstants
<1>1. /\ StoreInv
      /\ task \in [Tasks -> [st : Statuses, try : 1 .. MaxTries]]
  BY DEF NewsInv
<1>2. \A j \in Tasks : PathOf(j) \in Paths
  BY <1>1 DEF PathOf
<1>3. CASE \E c \in Clients : StoreStep(c)
  BY <1>1, <1>3, StoreStepKeepsStore
<1>4. ASSUME NEW c \in Clients, Hang(c), UNCHANGED <<bucket, objects, faults>>
      PROVE  StoreInv'
  BY <1>1, <1>4, HangKeepsStore
<1>5. ASSUME NEW j \in Tasks, NEW op \in Ops, Call(j, op, PathOf(j), Blob),
             UNCHANGED <<bucket, objects, faults>>
      PROVE  StoreInv'
  BY <1>1, <1>2, <1>5, CallKeepsStore
<1>6. CASE \E j \in News : StartNews(j) \/ WriteBatch(j) \/ WriterNotBuilt(j) \/ BatchWritten(j)
  BY <1>4, <1>5, <1>6 DEF StartNews, WriteBatch, WriterNotBuilt, BatchWritten, Tasks, Ops
<1>7. CASE \/ \E j \in Sweeps \cup Audits : StartPut(j) \/ PutReturned(j)
           \/ \E j \in Sweeps : SweepRaised(j)
           \/ \E j \in Audits : AuditRaised(j)
  BY <1>4, <1>5, <1>7 DEF StartPut, PutReturned, SweepRaised, AuditRaised, Tasks, Ops
<1>8. CASE \E j \in Tasks : WorkerDies(j)
  BY <1>4, <1>8 DEF WorkerDies
<1>9. CASE \E c \in Tools : ToolCall(c)
  BY <1>1, <1>9, CallKeepsStore DEF ToolCall
<1>10. CASE UNCHANGED storeVars
  BY <1>1, <1>10 DEF storeVars, StoreInv, AnswersAreServed, AttemptsAccounted, FailedAttempts
<1>11. CASE \E j \in News : Aggregate(j)
  BY <1>10, <1>11 DEF Aggregate
<1>. QED  BY <1>3, <1>6, <1>7, <1>8, <1>9, <1>10, <1>11 DEF Next, vars

\* What NewsInv says beside the store.
TasksInv ==
  /\ task \in [Tasks -> [st : Statuses, try : 1..MaxTries]]
  /\ aggregate \in [News -> {"none", "simulated", "raised"}]
  /\ local \subseteq (News \X (1..MaxTries))
  /\ deaths \in 0..MaxDeaths
  /\ active \subseteq Clients
  /\ TasksCall /\ ToolsKeepToThemselves /\ StoredByLastTry /\ ReportsKept

\* A request of the store keeps what is said of the tasks.
LEMMA StoreStepKeepsTasks ==
  ASSUME NewsInv, NEW c \in Clients, StoreStep(c), UNCHANGED taskVars
  PROVE  TasksInv'
<1>. USE NewsConstants
<1>1. /\ StoreInv
      /\ task' = task /\ aggregate' = aggregate /\ local' = local
      /\ deaths' = deaths /\ active' = active
  BY DEF NewsInv, taskVars
<1>2. /\ \A d \in Clients \ {c} : call'[d] = call[d]
      /\ call[c].pc # "idle" /\ call'[c].pc # "idle"
      /\ call'[c].op = call[c].op /\ call'[c].path = call[c].path
      /\ faults \in Int /\ faults' \in Int /\ faults <= faults'
      /\ call[c].op = "put" =>
           \/ objects' = objects /\ call'[c].seen = call[c].seen
           \/ objects'[call[c].path] = call[c].blob
      /\ call[c].blob \in Blobs
  BY <1>1, StoreStepEffect, CallUnderWay
<1>3. \A j \in Tasks : /\ Stored(j) \subseteq Stored(j)'
                       /\ \A t \in Stored(j)' \ Stored(j) :
                            c = j /\ t = task[j].try /\ task[j].st = "writing"
  BY StoredBySelf
<1>4. TasksCall'
  <2>. SUFFICES ASSUME NEW j \in Tasks
                PROVE  /\ task[j].st \in {"building", "writing"} <=> call'[j].pc # "idle"
                       /\ task[j].st = "building" => call'[j].op = "ensure"
                       /\ task[j].st = "writing" =>
                            /\ call'[j].op = "put" /\ call'[j].path = PathOf(j)
                            /\ call'[j].seen => task[j].try \in Stored(j)'
    BY <1>1 DEF TasksCall, PathOf
  <2>1. /\ task[j].st \in {"building", "writing"} <=> call[j].pc # "idle"
        /\ task[j].st = "building" => call[j].op = "ensure"
        /\ task[j].st = "writing" =>
             /\ call[j].op = "put" /\ call[j].path = PathOf(j)
             /\ call[j].seen => task[j].try \in Stored(j)
    BY DEF NewsInv, TasksCall
  <2>2. CASE c # j
    BY <1>2, <1>3, <2>1, <2>2
  <2>3. CASE c = j
    <3>1. ASSUME task[j].st = "writing", call'[j].seen
          PROVE  task[j].try \in Stored(j)'
      <4>1. CASE objects' = objects /\ call'[j].seen = call[j].seen
        BY <1>3, <2>1, <3>1, <4>1
      <4>2. CASE objects'[call[j].path] = call[j].blob
        <5>1. objects'[<<j, task[j].try>>] # NoBlob
          BY <1>2, <2>1, <2>3, <3>1, <4>2, StoreConstants DEF PathOf
        <5>. QED  BY <1>1, <5>1 DEF NewsInv, Stored
      <4>. QED  BY <1>2, <2>1, <2>3, <3>1, <4>1, <4>2
    <3>. QED  BY <1>2, <2>1, <2>3, <3>1
  <2>. QED  BY <2>2, <2>3
<1>5. ToolsKeepToThemselves'
  BY <1>2 DEF NewsInv, ToolsKeepToThemselves
<1>6. StoredByLastTry'
  <2>. SUFFICES ASSUME deaths = 0, NEW j \in News, NEW t \in Stored(j)'
                PROVE  t = task[j].try /\ task[j].st \in {"writing", "success"}
    BY <1>1 DEF StoredByLastTry
  <2>1. j \in Tasks
    BY DEF Tasks
  <2>. QED  BY <1>3, <2>1 DEF NewsInv, StoredByLastTry
<1>7. ReportsKept'
  <2>1. \A j \in Tasks : Stored(j) # {} => Stored(j)' # {}
    BY <1>3
  <2>2. faults >= MaxAttempts - 1 => faults' >= MaxAttempts - 1
    BY <1>2, StoreConstants
  <2>. QED  BY <1>1, <2>1, <2>2 DEF NewsInv, ReportsKept, Tasks
<1>. QED  BY <1>1, <1>4, <1>5, <1>6, <1>7 DEF NewsInv, TasksInv

\* A step of one task, which touches no object, keeps what is said of the
\* tasks when it leaves its own task as it should be.
LEMMA OneTaskChanges ==
  ASSUME NewsInv, NEW j \in Tasks,
         task' = [task EXCEPT ![j] = task'[j]],
         task'[j] \in [st : Statuses, try : 1 .. MaxTries],
         call' = [call EXCEPT ![j] = call'[j]],
         UNCHANGED <<objects, faults, aggregate, active>>,
         local \subseteq local', local' \subseteq News \X (1 .. MaxTries),
         deaths' \in 0 .. MaxDeaths, deaths' = 0 => deaths = 0,
         task'[j].st \in {"building", "writing"} <=> call'[j].pc # "idle",
         task'[j].st = "building" => call'[j].op = "ensure",
         task'[j].st = "writing" => /\ call'[j].op = "put"
                                    /\ call'[j].path = <<j, task'[j].try>>
                                    /\ ~call'[j].seen,
         (deaths' = 0 /\ j \in News) =>
            \A t \in Stored(j) : t = task'[j].try /\ task'[j].st \in {"writing", "success"},
         (j \in News /\ task'[j].st = "success") =>
            Stored(j) # {} \/ \E t \in 1 .. MaxTries : <<j, t>> \in local',
         (j \in Sweeps /\ task'[j].st = "success") => Stored(j) # {},
         (j \in Audits /\ task'[j].st = "success") =>
            Stored(j) # {} \/ faults >= MaxAttempts - 1
  PROVE  TasksInv'
<1>. USE NewsConstants
<1>1. /\ task \in [Tasks -> [st : Statuses, try : 1 .. MaxTries]]
      /\ call \in [Clients -> CallType]
      /\ objects' = objects /\ faults' = faults /\ aggregate' = aggregate /\ active' = active
  BY DEF NewsInv, StoreInv
<1>2. \A i \in Tasks \ {j} : task'[i] = task[i]
  BY <1>1
<1>3. \A d \in Clients \ {j} : call'[d] = call[d]
  BY <1>1
<1>4. \A i \in Tasks : Stored(i)' = Stored(i)
  BY <1>1 DEF Stored
<1>5. TasksCall'
  <2>. SUFFICES ASSUME NEW i \in Tasks
                PROVE  /\ task'[i].st \in {"building", "writing"} <=> call'[i].pc # "idle"
                       /\ task'[i].st = "building" => call'[i].op = "ensure"
                       /\ task'[i].st = "writing" =>
                            /\ call'[i].op = "put" /\ call'[i].path = <<i, task'[i].try>>
                            /\ call'[i].seen => task'[i].try \in Stored(i)
    BY <1>4 DEF TasksCall, PathOf
  <2>1. CASE i = j
    BY <2>1
  <2>2. CASE i # j
    BY <1>2, <1>3, <2>2 DEF NewsInv, TasksCall, PathOf
  <2>. QED  BY <2>1, <2>2
<1>6. ToolsKeepToThemselves'
  BY <1>3 DEF NewsInv, ToolsKeepToThemselves
<1>7. StoredByLastTry'
  <2>. SUFFICES ASSUME deaths' = 0, NEW i \in News, NEW t \in Stored(i)
                PROVE  t = task'[i].try /\ task'[i].st \in {"writing", "success"}
    BY <1>4 DEF StoredByLastTry, Tasks
  <2>1. CASE i = j
    BY <2>1
  <2>2. CASE i # j
    BY <1>2, <2>2 DEF NewsInv, StoredByLastTry, Tasks
  <2>. QED  BY <2>1, <2>2
<1>8. ReportsKept'
  <2>1. ASSUME NEW i \in News, task'[i].st = "success"
        PROVE  Stored(i) # {} \/ \E t \in 1 .. MaxTries : <<i, t>> \in local'
    BY <1>2, <2>1 DEF NewsInv, ReportsKept, Tasks
  <2>2. ASSUME NEW i \in Sweeps, task'[i].st = "success" PROVE Stored(i) # {}
    BY <1>2, <2>2 DEF NewsInv, ReportsKept, Tasks
  <2>3. ASSUME NEW i \in Audits, task'[i].st = "success"
        PROVE  Stored(i) # {} \/ faults >= MaxAttempts - 1
    BY <1>2, <2>3 DEF NewsInv, ReportsKept, Tasks
  <2>. QED  BY <1>1, <1>4, <2>1, <2>2, <2>3 DEF ReportsKept, Tasks
<1>9. task' \in [Tasks -> [st : Statuses, try : 1 .. MaxTries]]
  BY <1>1
<1>. QED  BY <1>1, <1>5, <1>6, <1>7, <1>8, <1>9 DEF NewsInv, TasksInv

\* What a step does to the task and the call of j.
LEMMA TaskMoves ==
  ASSUME NewsInv, NEW j \in Tasks, NEW st \in Statuses, To(j, st)
  PROVE  /\ task' = [task EXCEPT ![j] = task'[j]]
         /\ task'[j].st = st /\ task'[j].try = task[j].try
         /\ task'[j] \in [st : Statuses, try : 1 .. MaxTries]
<1>1. task \in [Tasks -> [st : Statuses, try : 1 .. MaxTries]]
  BY DEF NewsInv
<1>2. task'[j] = [task[j] EXCEPT !.st = st] /\ task' = [task EXCEPT ![j] = task'[j]]
  BY <1>1 DEF To
<1>. QED  BY <1>1, <1>2

\* A try that fails leaves a task that has no call.
LEMMA TryEnds ==
  ASSUME NewsInv, NEW j \in Tasks, TryFails(j)
  PROVE  /\ task' = [task EXCEPT ![j] = task'[j]]
         /\ task'[j].st \in {"failed", "scheduled"}
         /\ task'[j] \in [st : Statuses, try : 1 .. MaxTries]
<1>1. task \in [Tasks -> [st : Statuses, try : 1 .. MaxTries]]
  BY DEF NewsInv
<1>2. task[j].st \in Statuses /\ task[j].try \in 1 .. MaxTries
  BY <1>1
<1>3. CASE j \in Audits \/ task[j].try = MaxTries
  <2>1. task'[j] = [task[j] EXCEPT !.st = "failed"] /\ task' = [task EXCEPT ![j] = task'[j]]
    BY <1>1, <1>3 DEF TryFails
  <2>. QED  BY <1>1, <2>1 DEF Statuses
<1>4. CASE ~(j \in Audits \/ task[j].try = MaxTries)
  <2>1. /\ task'[j] = [st |-> "scheduled", try |-> task[j].try + 1]
        /\ task' = [task EXCEPT ![j] = task'[j]]
    BY <1>1, <1>4 DEF TryFails
  <2>2. task[j].try + 1 \in 1 .. MaxTries
    BY <1>2, <1>4, NewsConstants
  <2>. QED  BY <2>1, <2>2 DEF Statuses
<1>. QED  BY <1>3, <1>4

\* A call that starts is j's, and nothing was served of it yet.
LEMMA CallStarts ==
  ASSUME NewsInv, NEW j \in Tasks, NEW op \in Ops, NEW p, Call(j, op, p, Blob)
  PROVE  /\ call' = [call EXCEPT ![j] = call'[j]]
         /\ call'[j].pc # "idle" /\ call'[j].op = op /\ call'[j].path = p
         /\ ~call'[j].seen
<1>1. call \in [Clients -> CallType] /\ j \in Clients
  BY NewsConstants DEF NewsInv, StoreInv
<1>2. /\ call'[j] = [pc |-> Entry(op), op |-> op, path |-> p, blob |-> Blob,
                    tries |-> 1, seen |-> FALSE, got |-> {}]
      /\ call' = [call EXCEPT ![j] = call'[j]]
  BY <1>1 DEF Call
<1>. QED  BY <1>2 DEF Entry

\* A call that is left behind is over.
LEMMA CallEnds ==
  ASSUME NewsInv, NEW j \in Tasks, Hang(j)
  PROVE  call' = [call EXCEPT ![j] = call'[j]] /\ call'[j].pc = "idle"
  BY NewsConstants DEF NewsInv, StoreInv, Hang, NoCall

\* A put that returned is stored, and one that raised met its faults.
LEMMA PutEnds ==
  ASSUME NewsInv, NEW j \in Tasks, task[j].st = "writing"
  PROVE  /\ call[j].pc = "returned" => Stored(j) # {}
         /\ call[j].pc = "raised" => faults >= MaxAttempts - 1
<1>1. j \in Clients /\ StoreInv
  BY NewsConstants DEF NewsInv
<1>2. /\ call[j].op = "put"
      /\ call[j].seen => task[j].try \in Stored(j)
  BY DEF NewsInv, TasksCall
<1>. QED  BY <1>1, <1>2, StoreImpliesRace DEF StoreInv, AnswersAreServed, RaceCostsOneAttempt

\* What the aggregation ends with touches nothing of this.
LEMMA QuietKeepsTasks ==
  ASSUME NewsInv, UNCHANGED <<call, objects, faults, task, local, deaths, active>>,
         aggregate' \in [News -> {"none", "simulated", "raised"}]
  PROVE  TasksInv'
<1>1. \A j \in Tasks : Stored(j)' = Stored(j)
  BY DEF Stored
<1>2. TasksCall'
  BY <1>1 DEF NewsInv, TasksCall, PathOf
<1>3. ToolsKeepToThemselves' /\ StoredByLastTry'
  BY <1>1 DEF NewsInv, ToolsKeepToThemselves, StoredByLastTry, Tasks
<1>4. ReportsKept'
  BY <1>1 DEF NewsInv, ReportsKept, Tasks
<1>. QED  BY <1>2, <1>3, <1>4 DEF NewsInv, TasksInv

\* Every step keeps what is said of the tasks, an action at a time.
LEMMA TasksInvStep == NewsInv /\ [Next]_vars => TasksInv'
<1>. SUFFICES ASSUME NewsInv, [Next]_vars PROVE TasksInv'
  OBVIOUS
<1>. USE NewsConstants
<1>1. /\ task \in [Tasks -> [st : Statuses, try : 1 .. MaxTries]]
      /\ local \subseteq News \X (1 .. MaxTries)
      /\ deaths \in 0 .. MaxDeaths
      /\ \A j \in Tasks : task[j].try \in 1 .. MaxTries
  BY DEF NewsInv
<1>2. \A st \in {"scheduled", "building", "writing", "success", "failed"} : st \in Statuses
  BY DEF Statuses
<1>3. \A j \in Tasks : /\ j \in News => j \notin Sweeps \cup Audits
                       /\ j \in Sweeps => j \notin Audits
  BY DEF Tasks
<1>4. CASE \E c \in Clients : StoreStep(c) /\ UNCHANGED taskVars
  BY <1>4, StoreStepKeepsTasks
<1>5. ASSUME NEW j \in News, StartNews(j) PROVE TasksInv'
  <2>1. j \in Tasks /\ To(j, "building") /\ Call(j, "ensure", PathOf(j), Blob)
    BY <1>5 DEF StartNews, Tasks
  <2>2. \A t \in Stored(j) : deaths # 0
    BY <1>5 DEF StartNews, NewsInv, StoredByLastTry
  <2>. QED
    BY <1>1, <1>2, <1>3, <1>5, <2>1, <2>2, TaskMoves, CallStarts, OneTaskChanges
    DEF StartNews, Ops
<1>6. ASSUME NEW j \in News, WriteBatch(j) PROVE TasksInv'
  <2>1. j \in Tasks /\ To(j, "writing") /\ Call(j, "put", PathOf(j), Blob)
    BY <1>6 DEF WriteBatch, Tasks
  <2>2. \A t \in Stored(j) : deaths # 0
    BY <1>6 DEF WriteBatch, NewsInv, StoredByLastTry
  <2>. QED
    BY <1>1, <1>2, <1>3, <1>6, <2>1, <2>2, TaskMoves, CallStarts, OneTaskChanges
    DEF WriteBatch, Ops, PathOf
<1>7. ASSUME NEW j \in News, WriterNotBuilt(j) PROVE TasksInv'
  <2>1. j \in Tasks /\ TryFails(j) /\ Hang(j)
    BY <1>7 DEF WriterNotBuilt, Tasks
  <2>2. \A t \in Stored(j) : deaths # 0
    BY <1>7 DEF WriterNotBuilt, NewsInv, StoredByLastTry
  <2>. QED
    BY <1>1, <1>3, <1>7, <2>1, <2>2, TryEnds, CallEnds, OneTaskChanges DEF WriterNotBuilt
<1>8. ASSUME NEW j \in News, BatchWritten(j) PROVE TasksInv'
  <2>1. j \in Tasks /\ To(j, "success") /\ Hang(j)
    BY <1>8 DEF BatchWritten, Tasks
  <2>2. \A t \in Stored(j) : deaths # 0 \/ t = task[j].try
    BY DEF NewsInv, StoredByLastTry
  <2>3. /\ local \subseteq local' /\ local' \subseteq News \X (1 .. MaxTries)
        /\ call[j].pc = "raised" => PathOf(j) \in local'
    BY <1>1, <1>8, <2>1 DEF BatchWritten, PathOf
  <2>4. Stored(j) # {} \/ <<j, task[j].try>> \in local'
    BY <1>8, <2>1, <2>3, PutEnds DEF BatchWritten, PathOf
  <2>5. /\ task' = [task EXCEPT ![j] = task'[j]]
        /\ task'[j].st = "success" /\ task'[j].try = task[j].try
        /\ task'[j] \in [st : Statuses, try : 1 .. MaxTries]
        /\ call' = [call EXCEPT ![j] = call'[j]] /\ call'[j].pc = "idle"
    BY <1>2, <2>1, TaskMoves, CallEnds
  <2>6. UNCHANGED <<objects, faults, aggregate, active>> /\ deaths' = deaths
    BY <1>8 DEF BatchWritten
  <2>7. \E t \in 1 .. MaxTries : Stored(j) # {} \/ <<j, t>> \in local'
    BY <1>1, <2>1, <2>4
  <2>. QED
    BY <1>1, <1>3, <2>1, <2>2, <2>3, <2>5, <2>6, <2>7, OneTaskChanges
<1>9. ASSUME NEW j \in News, Aggregate(j) PROVE TasksInv'
  <2>1. aggregate' \in [News -> {"none", "simulated", "raised"}]
    BY <1>9 DEF Aggregate, NewsInv
  <2>. QED  BY <1>9, <2>1, QuietKeepsTasks DEF Aggregate, storeVars
<1>10. ASSUME NEW j \in Sweeps \cup Audits, StartPut(j) PROVE TasksInv'
  <2>1. /\ j \in Tasks /\ j \notin News
        /\ To(j, "writing") /\ Call(j, "put", PathOf(j), Blob)
    BY <1>3, <1>10 DEF StartPut, Tasks
  <2>. QED
    BY <1>1, <1>2, <1>3, <1>10, <2>1, TaskMoves, CallStarts, OneTaskChanges
    DEF StartPut, Ops, PathOf
<1>11. ASSUME NEW j \in Sweeps \cup Audits, PutReturned(j) PROVE TasksInv'
  <2>1. j \in Tasks /\ j \notin News /\ To(j, "success") /\ Hang(j)
    BY <1>3, <1>11 DEF PutReturned, Tasks
  <2>2. Stored(j) # {}
    BY <1>11, <2>1, PutEnds DEF PutReturned
  <2>. QED
    BY <1>1, <1>2, <1>3, <1>11, <2>1, <2>2, TaskMoves, CallEnds, OneTaskChanges
    DEF PutReturned
<1>12. ASSUME NEW j \in Sweeps, SweepRaised(j) PROVE TasksInv'
  <2>1. j \in Tasks /\ j \notin News /\ TryFails(j) /\ Hang(j)
    BY <1>3, <1>12 DEF SweepRaised, Tasks
  <2>. QED
    BY <1>1, <1>3, <1>12, <2>1, TryEnds, CallEnds, OneTaskChanges DEF SweepRaised
<1>13. ASSUME NEW j \in Audits, AuditRaised(j) PROVE TasksInv'
  <2>1. j \in Tasks /\ j \notin News /\ j \notin Sweeps /\ To(j, "success") /\ Hang(j)
    BY <1>3, <1>13 DEF AuditRaised, Tasks
  <2>2. faults >= MaxAttempts - 1
    BY <1>13, <2>1, PutEnds DEF AuditRaised
  <2>. QED
    BY <1>1, <1>2, <1>13, <2>1, <2>2, TaskMoves, CallEnds, OneTaskChanges DEF AuditRaised
<1>14. ASSUME NEW j \in Tasks, WorkerDies(j) PROVE TasksInv'
  <2>1. /\ TryFails(j) /\ Hang(j)
        /\ deaths' \in 0 .. MaxDeaths /\ deaths' # 0
    BY <1>1, <1>14 DEF WorkerDies
  <2>. QED
    BY <1>1, <1>14, <2>1, TryEnds, CallEnds, OneTaskChanges DEF WorkerDies
<1>15. ASSUME NEW c \in Tools, ToolCall(c) PROVE TasksInv'
  <2>1. PICK op \in Ops : Call(c, op, ToolPath, Blob)
    BY <1>15 DEF ToolCall
  <2>2. c \in Clients /\ c \notin Tasks /\ call \in [Clients -> CallType]
    BY DEF NewsInv, StoreInv
  <2>3. /\ \A d \in Clients \ {c} : call'[d] = call[d]
        /\ call'[c].path = ToolPath
    BY <2>1, <2>2 DEF Call
  <2>4. UNCHANGED <<objects, faults, taskVars>>
    BY <1>15 DEF ToolCall
  <2>5. TasksCall'
    BY <2>2, <2>3, <2>4 DEF NewsInv, TasksCall, Stored, PathOf, taskVars
  <2>6. ToolsKeepToThemselves'
    BY <2>3 DEF NewsInv, ToolsKeepToThemselves
  <2>. QED
    BY <2>4, <2>5, <2>6 DEF NewsInv, TasksInv, StoredByLastTry, ReportsKept, Stored, taskVars
<1>16. CASE UNCHANGED vars
  BY <1>16, QuietKeepsTasks DEF vars, storeVars, taskVars, NewsInv
<1>. QED
  BY <1>4, <1>5, <1>6, <1>7, <1>8, <1>9, <1>10, <1>11, <1>12, <1>13, <1>14, <1>15, <1>16
  DEF Next

-----------------------------------------------------------------------------
(* The theorems about safety.                                              *)

\* NewsInv is inductive.
LEMMA NewsInvStep == NewsInv /\ [Next]_vars => NewsInv'
  BY StoreInvStep, TasksInvStep DEF NewsInv, TasksInv

\* Every state is well typed, the store holds objects only in a bucket, and each
\* task has exactly the call its state says (client.py:43-66,
\* dag_ai_sentiment.py:55-74).
THEOREM NewsInvariant == Spec => []NewsInv
  BY InitNewsInv, NewsInvStep, PTL DEF Spec

\* Losing the race for the bucket costs an upload one attempt: put_object raises
\* only after the network failed it MaxAttempts - 1 times (client.py:43-66).
THEOREM RaceIsCheap == Spec => []RaceCostsOneAttempt
<1>1. NewsInv => RaceCostsOneAttempt
  BY StoreImpliesRace DEF NewsInv
<1>. QED  BY <1>1, NewsInvariant, PTL

\* What a task reports is kept, whatever dies, is lost or is refused, and while no
\* worker dies a news run leaves one batch (dag_ai_sentiment.py:55-74, gdpr.py:205).
THEOREM ReportsAreTrue == Spec => []ReportsTruthful
<1>1. NewsInv => ReportsTruthful
  <2>1. NewsInv => OneBatchPerRun
    BY DEF NewsInv, StoredByLastTry, OneBatchPerRun
  <2>. QED  BY <2>1 DEF NewsInv, ReportsTruthful
<1>. QED  BY <1>1, NewsInvariant, PTL

-----------------------------------------------------------------------------
(* The client implements the promise, BlobStore.                           *)

\* The calls as the promise sees them.
AbstractReq == [c \in Clients |-> AbstractCall(call[c])]

\* One call that changes is one request of the promise that changes.
LEMMA AbstractMoves ==
  ASSUME StoreInv, NEW c \in Clients, call' = [call EXCEPT ![c] = call'[c]]
  PROVE  AbstractReq' = [AbstractReq EXCEPT ![c] = AbstractCall(call'[c])]
  BY DEF StoreInv, AbstractReq, AbstractCall

\* A call under way, field by field.
LEMMA AbstractFields ==
  ASSUME StoreInv, NEW c \in Clients, call[c].pc # "idle"
  PROVE  AbstractReq[c] =
           [st |-> IF call[c].pc \in {"returned", "raised"} THEN call[c].pc ELSE "pending",
            op |-> call[c].op, path |-> call[c].path, blob |-> call[c].blob,
            seen |-> call[c].seen, got |-> call[c].got]
  BY DEF AbstractReq, AbstractCall

\* The promise calls idle, returned and raised what the client does.
LEMMA AbstractStatus ==
  ASSUME NEW c \in Clients
  PROVE  AbstractReq[c].st = IF call[c].pc \in {"idle", "returned", "raised"} THEN call[c].pc
                                                                            ELSE "pending"
<1>1. AbstractReq[c] = AbstractCall(call[c])
  BY DEF AbstractReq
<1>2. CASE call[c].pc = "idle"
  BY <1>1, <1>2 DEF AbstractCall
<1>3. CASE call[c].pc # "idle"
  BY <1>1, <1>3 DEF AbstractCall
<1>. QED  BY <1>2, <1>3

\* A failing attempt is a request that raises, or no step of the promise.
LEMMA FailsImplementsPromise ==
  ASSUME StoreInv, NEW c \in Clients, Fails(c),
         call[c].pc \in {"check", "make", "send", "answer"}, UNCHANGED objects
  PROVE  Promise!Raise(c) \/ UNCHANGED Promise!vars
<1>. DEFINE r == AbstractReq[c]
<1>1. /\ call' = [call EXCEPT ![c] = call'[c]]
      /\ call'[c].pc \in {"check", "send", "raised"}
      /\ call'[c].op = call[c].op /\ call'[c].path = call[c].path
      /\ call'[c].blob = call[c].blob
      /\ call'[c].seen = call[c].seen /\ call'[c].got = call[c].got
  BY FailsResult
<1>2. r = [st |-> "pending", op |-> call[c].op, path |-> call[c].path,
           blob |-> call[c].blob, seen |-> call[c].seen, got |-> call[c].got]
  BY AbstractFields
<1>3. AbstractReq' = [AbstractReq EXCEPT ![c] = AbstractCall(call'[c])]
  BY <1>1, AbstractMoves
<1>4. CASE call'[c].pc = "raised"
  <2>1. AbstractCall(call'[c]) = [r EXCEPT !.st = "raised"]
    BY <1>1, <1>2, <1>4 DEF AbstractCall
  <2>. QED  BY <1>2, <1>3, <2>1 DEF Promise!Raise, AbstractReq
<1>5. CASE call'[c].pc # "raised"
  <2>1. AbstractCall(call'[c]) = r
    BY <1>1, <1>2, <1>5 DEF AbstractCall
  <2>2. AbstractReq' = AbstractReq
    BY <1>3, <2>1 DEF AbstractReq
  <2>. QED  BY <2>2 DEF Promise!vars, AbstractReq
<1>. QED  BY <1>4, <1>5

\* The effect of a request, said with the mapped calls.
LEMMA EffectOf ==
  ASSUME NEW c \in Clients, NEW view,
         AbstractReq[c] = [st |-> "pending", op |-> call[c].op, path |-> call[c].path,
                           blob |-> call[c].blob, seen |-> call[c].seen, got |-> call[c].got],
         view = Promise!View(AbstractReq[c], objects),
         objects' = IF call[c].op \in {"put", "delete"}
                    THEN [objects EXCEPT ![call[c].path] =
                            IF call[c].op = "put" THEN call[c].blob ELSE NoBlob]
                    ELSE objects,
         AbstractReq' = [AbstractReq EXCEPT ![c] =
                           [st |-> "pending", op |-> call[c].op, path |-> call[c].path,
                            blob |-> call[c].blob, seen |-> TRUE, got |-> view]]
  PROVE  Promise!Effect(c)
<1>. DEFINE R == AbstractReq
<1>1. R = [d \in Clients |-> R[d]]
  BY DEF AbstractReq
<1>2. PICK q : q = [R[c] EXCEPT !.seen = TRUE, !.got = view]
  OBVIOUS
<1>3. PICK S : S = [R EXCEPT ![c].seen = TRUE, ![c].got = view]
  OBVIOUS
<1>4. q = [st |-> "pending", op |-> call[c].op, path |-> call[c].path,
           blob |-> call[c].blob, seen |-> TRUE, got |-> view]
  <2>1. PICK r : r = R[c]
    OBVIOUS
  <2>2. r = [st |-> "pending", op |-> call[c].op, path |-> call[c].path,
             blob |-> call[c].blob, seen |-> call[c].seen, got |-> call[c].got]
    BY <2>1
  <2>3. q = [r EXCEPT !.seen = TRUE, !.got = view]
    BY <1>2, <2>1
  <2>. QED  BY <2>2, <2>3
<1>5. S = [R EXCEPT ![c] = q]
  BY <1>1, <1>2, <1>3
<1>6. R' = [R EXCEPT ![c].seen = TRUE, ![c].got = Promise!View(R[c], objects)]
  <2>1. R' = [R EXCEPT ![c] = q]
    BY <1>4
  <2>2. S = R'
    BY <1>5, <2>1
  <2>3. S = [R EXCEPT ![c].seen = TRUE, ![c].got = Promise!View(R[c], objects)]
    BY <1>3
  <2>. QED  BY <2>2, <2>3
<1>7. R[c].st = "pending" /\ R[c].op = call[c].op /\ R[c].path = call[c].path
  OBVIOUS
<1>8. Promise!Written(R[c]) = IF call[c].op = "put" THEN call[c].blob ELSE NoBlob
  BY DEF Promise!Written
<1>9. objects' = IF R[c].op \in {"put", "delete"}
                 THEN [objects EXCEPT ![R[c].path] = Promise!Written(R[c])]
                 ELSE objects
  BY <1>7, <1>8
<1>10. /\ R = [d \in Clients |-> AbstractCall(call[d])]
       /\ R' = [d \in Clients |-> AbstractCall(call'[d])]
  BY DEF AbstractReq
<1>. HIDE DEF R
<1>. QED  BY <1>6, <1>7, <1>9, <1>10 DEF Promise!Effect

\* A request that is served, or finds the bucket it asked for, is the promise's
\* effect; the look before an upload is no step of the promise.
LEMMA BucketImplementsPromise ==
  ASSUME StoreInv, NEW c \in Clients, call[c].pc \in {"check", "make"},
         call' = [call EXCEPT ![c] = AfterBucket(@)], UNCHANGED objects
  PROVE  Promise!Effect(c) \/ UNCHANGED Promise!vars
<1>. DEFINE r == AbstractReq[c]
<1>1. call'[c] = AfterBucket(call[c]) /\ call' = [call EXCEPT ![c] = call'[c]]
  BY DEF StoreInv
<1>2. r = [st |-> "pending", op |-> call[c].op, path |-> call[c].path,
           blob |-> call[c].blob, seen |-> call[c].seen, got |-> call[c].got]
  BY AbstractFields
<1>3. AbstractReq' = [AbstractReq EXCEPT ![c] = AbstractCall(call'[c])]
  BY <1>1, AbstractMoves
<1>4. CASE call[c].op = "ensure"
  <2>1. call[c].got = {}
    BY <1>4 DEF StoreInv, AnswersAreServed
  <2>2. /\ call'[c].pc = "answer" /\ call'[c].op = call[c].op /\ call'[c].seen = TRUE
        /\ call'[c].path = call[c].path /\ call'[c].blob = call[c].blob
        /\ call'[c].got = {}
    <3>1. /\ AfterBucket(call[c]) \in CallType
          /\ AfterBucket(call[c]).pc = "answer" /\ AfterBucket(call[c]).seen
      BY <1>4, AfterBucketResult
    <3>2. AfterBucket(call[c]).seen = TRUE
      BY <3>1 DEF CallType, NoCall
    <3>. QED  BY <1>1, <2>1, <3>1, <3>2, AfterBucketResult
  <2>3. AbstractCall(call'[c]) =
          [st |-> "pending", op |-> call[c].op, path |-> call[c].path,
           blob |-> call[c].blob, seen |-> TRUE, got |-> {}]
    BY <2>2 DEF AbstractCall
  <2>4. Promise!View(r, objects) = {}
    BY <1>2, <1>4 DEF Promise!View
  <2>. QED  BY <1>2, <1>3, <1>4, <2>3, <2>4, EffectOf
<1>5. CASE call[c].op # "ensure"
  <2>1. AbstractCall(call'[c]) = r
    BY <1>1, <1>2, <1>5, AfterBucketResult DEF AbstractCall
  <2>2. AbstractReq' = AbstractReq
    BY <1>3, <2>1 DEF AbstractReq
  <2>. QED  BY <2>2 DEF Promise!vars, AbstractReq
<1>. QED  BY <1>4, <1>5

\* What a request that is served does, it does for the promise.
LEMMA ServedImplementsPromise ==
  ASSUME StoreInv, NEW c \in Clients, Served(c)
  PROVE  Promise!Effect(c)
<1>. DEFINE r == AbstractReq[c]
<1>1. /\ call \in [Clients -> CallType] /\ call[c].pc = "send"
      /\ objects \in [Paths -> Blobs \cup {NoBlob}]
  BY DEF StoreInv, Served
<1>2. /\ call[c] = [pc |-> call[c].pc, op |-> call[c].op, path |-> call[c].path,
                    blob |-> call[c].blob, tries |-> call[c].tries,
                    seen |-> call[c].seen, got |-> call[c].got]
      /\ call[c].path \in Paths
  BY <1>1, CallUnderWay, CallIsRecord
<1>3. /\ call'[c] = [call[c] EXCEPT !.pc = "answer", !.seen = TRUE, !.got = View(call[c])]
      /\ call' = [call EXCEPT ![c] = call'[c]]
  BY <1>1 DEF Served
<1>4. call'[c] = [pc |-> "answer", op |-> call[c].op, path |-> call[c].path,
                  blob |-> call[c].blob, tries |-> call[c].tries,
                  seen |-> TRUE, got |-> View(call[c])]
  BY <1>2, <1>3
<1>5. r = [st |-> "pending", op |-> call[c].op, path |-> call[c].path,
           blob |-> call[c].blob, seen |-> call[c].seen, got |-> call[c].got]
  BY <1>1, AbstractFields
<1>6. AbstractReq' = [AbstractReq EXCEPT ![c] = AbstractCall(call'[c])]
  BY <1>3, AbstractMoves
<1>7. AbstractCall(call'[c]) =
        [st |-> "pending", op |-> call[c].op, path |-> call[c].path,
         blob |-> call[c].blob, seen |-> TRUE, got |-> View(call[c])]
  BY <1>4 DEF AbstractCall
<1>8. View(call[c]) = Promise!View(r, objects)
  BY <1>5 DEF View, Promise!View
<1>9. objects' = IF call[c].op \in {"put", "delete"}
                 THEN [objects EXCEPT ![call[c].path] =
                         IF call[c].op = "put" THEN call[c].blob ELSE NoBlob]
                 ELSE objects
  BY DEF Served
<1>. QED  BY <1>5, <1>6, <1>7, <1>8, <1>9, EffectOf

\* An answer that arrives is a call that returns, after its effect.
LEMMA AnsweredImplementsPromise ==
  ASSUME StoreInv, NEW c \in Clients, Answered(c)
  PROVE  Promise!Return(c)
<1>. DEFINE r == AbstractReq[c]
<1>1. /\ call \in [Clients -> CallType] /\ call[c].pc = "answer" /\ call[c].seen
      /\ objects' = objects
  BY DEF StoreInv, AnswersAreServed, Answered
<1>2. call[c] = [pc |-> call[c].pc, op |-> call[c].op, path |-> call[c].path,
                 blob |-> call[c].blob, tries |-> call[c].tries,
                 seen |-> call[c].seen, got |-> call[c].got]
  BY <1>1, CallUnderWay, CallIsRecord
<1>3. /\ call'[c] = [call[c] EXCEPT !.pc = "returned"]
      /\ call' = [call EXCEPT ![c] = call'[c]]
  BY <1>1 DEF Answered
<1>4. call'[c] = [pc |-> "returned", op |-> call[c].op, path |-> call[c].path,
                  blob |-> call[c].blob, tries |-> call[c].tries,
                  seen |-> call[c].seen, got |-> call[c].got]
  BY <1>2, <1>3
<1>5. r = [st |-> "pending", op |-> call[c].op, path |-> call[c].path,
           blob |-> call[c].blob, seen |-> call[c].seen, got |-> call[c].got]
  BY <1>1, AbstractFields
<1>6. AbstractReq' = [AbstractReq EXCEPT ![c] = AbstractCall(call'[c])]
  BY <1>3, AbstractMoves
<1>7. AbstractCall(call'[c]) = [r EXCEPT !.st = "returned"]
  BY <1>4, <1>5 DEF AbstractCall
<1>. QED  BY <1>1, <1>5, <1>6, <1>7 DEF Promise!Return, AbstractReq

\* A call that starts where none is pending is an invocation.
LEMMA CallImplementsPromise ==
  ASSUME StoreInv, NEW c \in Clients, NEW op \in Ops, NEW p \in Paths, NEW b \in Blobs,
         Call(c, op, p, b), UNCHANGED objects, call[c].pc \in {"idle", "returned", "raised"}
  PROVE  Promise!Invoke(c)
<1>1. call'[c] = [pc |-> Entry(op), op |-> op, path |-> p, blob |-> b, tries |-> 1,
                  seen |-> FALSE, got |-> {}]
      /\ call' = [call EXCEPT ![c] = call'[c]]
  BY DEF StoreInv, Call
<1>2. AbstractCall(call'[c]) = [st |-> "pending", op |-> op, path |-> p, blob |-> b,
                                seen |-> FALSE, got |-> {}]
  BY <1>1 DEF AbstractCall, Entry
<1>3. AbstractReq' = [AbstractReq EXCEPT ![c] = AbstractCall(call'[c])]
  BY <1>1, AbstractMoves
<1>4. AbstractReq'[c] = AbstractCall(call'[c]) /\ AbstractReq'[c] \in Promise!Fresh
  <2>1. AbstractReq'[c] = AbstractCall(call'[c])
    BY DEF AbstractReq
  <2>2. AbstractCall(call'[c]) \in Promise!Fresh
    BY <1>2 DEF Promise!Fresh, Ops
  <2>. QED  BY <2>1, <2>2
<1>5. AbstractReq[c].st # "pending"
  BY AbstractStatus
<1>6. AbstractReq' = [AbstractReq EXCEPT ![c] = AbstractReq'[c]]
  BY <1>3, <1>4
<1>. QED  BY <1>4, <1>5, <1>6 DEF Promise!Invoke, AbstractReq

\* A caller that goes on, or dies, leaves.
LEMMA HangImplementsPromise ==
  ASSUME StoreInv, NEW c \in Clients, Hang(c), call[c].pc # "idle", UNCHANGED objects
  PROVE  Promise!Leave(c)
<1>1. call'[c] = NoCall /\ call' = [call EXCEPT ![c] = call'[c]]
  BY DEF StoreInv, Hang
<1>2. AbstractCall(call'[c]) = Promise!NoReq
  BY <1>1 DEF AbstractCall, NoCall, Promise!NoReq
<1>3. AbstractReq' = [AbstractReq EXCEPT ![c] = Promise!NoReq]
  BY <1>1, <1>2, AbstractMoves
<1>4. AbstractReq[c].st # "idle"
  BY AbstractStatus
<1>. QED  BY <1>3, <1>4 DEF Promise!Leave, AbstractReq

\* The initial states are the promise's.
LEMMA InitImplementsPromise == Init => Promise!Init
<1>1. AbstractCall(NoCall) = Promise!NoReq
  BY DEF AbstractCall, NoCall, Promise!NoReq
<1>. QED  BY <1>1 DEF Init, StoreInit, Promise!Init

\* A request of the client is a step of its caller's promise, or none.
LEMMA StoreStepImplementsPromise ==
  ASSUME StoreInv, NEW c \in Clients, StoreStep(c)
  PROVE  Promise!Next \/ UNCHANGED Promise!vars
<1>1. call \in [Clients -> CallType]
  BY DEF StoreInv
<1>2. CASE BucketExists(c)
  <2>1. CASE bucket
    <3>1. call' = [call EXCEPT ![c] = AfterBucket(@)]
      BY <1>1, <1>2, <2>1 DEF BucketExists
    <3>. QED  BY <1>2, <3>1, BucketImplementsPromise DEF BucketExists, Promise!Next
  <2>2. CASE ~bucket
    <3>1. call'[c] = [call[c] EXCEPT !.pc = "make"] /\ call' = [call EXCEPT ![c] = call'[c]]
      BY <1>1, <1>2, <2>2 DEF BucketExists
    <3>2. call[c].pc = "check" /\ objects' = objects
      BY <1>2 DEF BucketExists
    <3>3. call[c] = [pc |-> call[c].pc, op |-> call[c].op, path |-> call[c].path,
                     blob |-> call[c].blob, tries |-> call[c].tries,
                     seen |-> call[c].seen, got |-> call[c].got]
      BY <3>2, CallUnderWay, CallIsRecord
    <3>4. AbstractCall(call'[c]) = AbstractCall(call[c])
      BY <3>1, <3>2, <3>3 DEF AbstractCall
    <3>5. AbstractReq' = AbstractReq
      BY <3>1, <3>4, AbstractMoves DEF AbstractReq
    <3>. QED  BY <3>2, <3>5 DEF Promise!vars, AbstractReq
  <2>. QED  BY <2>1, <2>2
<1>3. CASE MakeBucket(c)
  BY <1>3, BucketImplementsPromise, FailsImplementsPromise DEF MakeBucket, Promise!Next
<1>4. CASE Served(c)
  BY <1>4, ServedImplementsPromise DEF Promise!Next
<1>5. CASE NotServed(c)
  BY <1>5, FailsImplementsPromise DEF NotServed, Promise!Next
<1>6. CASE Answered(c)
  BY <1>6, AnsweredImplementsPromise DEF Promise!Next
<1>7. CASE Lost(c)
  BY <1>7, FailsImplementsPromise DEF Lost, Promise!Next
<1>. QED  BY <1>2, <1>3, <1>4, <1>5, <1>6, <1>7 DEF StoreStep

\* Every step of the tasks and of the client is a step of the promise, or none.
LEMMA NextImplementsPromise ==
  NewsInv /\ [Next]_vars => [Promise!Next]_Promise!vars
<1>. SUFFICES ASSUME NewsInv, [Next]_vars PROVE Promise!Next \/ UNCHANGED Promise!vars
  OBVIOUS
<1>. USE NewsConstants
<1>1. /\ StoreInv
      /\ \A j \in Tasks : /\ j \in Clients /\ PathOf(j) \in Paths
                          /\ task[j].st \in {"building", "writing"} <=> call[j].pc # "idle"
  BY DEF NewsInv, TasksCall, PathOf
<1>2. ASSUME NEW j \in Tasks, NEW op \in Ops, Call(j, op, PathOf(j), Blob), UNCHANGED objects,
             call[j].pc \in {"idle", "returned"}
      PROVE  Promise!Next
  BY <1>1, <1>2, CallImplementsPromise DEF Promise!Next
<1>3. ASSUME NEW j \in Tasks, Hang(j), call[j].pc # "idle", UNCHANGED objects
      PROVE  Promise!Next
  BY <1>1, <1>3, HangImplementsPromise DEF Promise!Next
<1>4. CASE \E c \in Clients : StoreStep(c)
  BY <1>1, <1>4, StoreStepImplementsPromise
<1>5. CASE \E j \in News : StartNews(j) \/ WriteBatch(j)
  BY <1>1, <1>2, <1>5 DEF StartNews, WriteBatch, Tasks, Ops
<1>6. CASE \E j \in News : WriterNotBuilt(j) \/ BatchWritten(j)
  BY <1>3, <1>6 DEF WriterNotBuilt, BatchWritten, Tasks
<1>7. CASE \E j \in Sweeps \cup Audits : StartPut(j)
  BY <1>1, <1>2, <1>7 DEF StartPut, Tasks, Ops
<1>8. CASE \/ \E j \in Sweeps \cup Audits : PutReturned(j)
           \/ \E j \in Sweeps : SweepRaised(j)
           \/ \E j \in Audits : AuditRaised(j)
  BY <1>3, <1>8 DEF PutReturned, SweepRaised, AuditRaised, Tasks
<1>9. CASE \E j \in Tasks : WorkerDies(j)
  BY <1>1, <1>3, <1>9 DEF WorkerDies
<1>10. CASE \E c \in Tools : ToolCall(c)
  BY <1>1, <1>10, CallImplementsPromise DEF ToolCall, Promise!Next
<1>11. CASE UNCHANGED <<objects, call>>
  BY <1>11 DEF Promise!vars
<1>12. CASE \E j \in News : Aggregate(j)
  BY <1>11, <1>12 DEF Aggregate, storeVars
<1>. QED
  BY <1>4, <1>5, <1>6, <1>7, <1>8, <1>9, <1>10, <1>11, <1>12 DEF Next, vars, storeVars

\* client.py implements BlobStore: a call that returns took effect, or looked,
\* while it was under way, and one that raises leaves the store as it was or as
\* the call meant it (client.py:43-136).
THEOREM ClientKeepsPromise == Spec => KeepsPromise
  BY InitImplementsPromise, NextImplementsPromise, NewsInvariant, PTL
  DEF Spec, KeepsPromise, Promise!Spec

===============================================================================
