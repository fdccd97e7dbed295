----------------------------- MODULE ObjectStore -----------------------------
(***************************************************************************)
(* storage/minio/client.py, request by request: the bucket is looked up    *)
(* and made in two requests, put_object and get_object are tried three     *)
(* times by tenacity, the other operations once, and every request may be  *)
(* lost on its way or lose its answer.  The zone writers call              *)
(* ensure_bucket in their constructors, outside any retry.                 *)
(*                                                                         *)
(* Assumed of MinIO: a request takes effect, if it does, before the client *)
(* sees its error.                                                         *)
(***************************************************************************)
EXTENDS Naturals

CONSTANTS Clients, Paths, Blobs, NoBlob,
          MaxAttempts,    \* stop_after_attempt(3)
          MaxFaults       \* bound: requests the network loses

ASSUME StoreConstants == /\ MaxAttempts \in Nat \ {0}
                         /\ MaxFaults \in Nat
                         /\ NoBlob \notin Blobs

VARIABLES bucket,     \* the bucket exists
          objects,    \* what the bucket holds
          call,       \* the call each client has under way
          faults      \* requests lost so far

storeVars == <<bucket, objects, call, faults>>

Ops     == {"ensure", "put", "get", "delete", "exists", "list"}
Ensures == {"ensure", "put"}     \* begin with bucket_exists
Retried == {"put", "get"}        \* carry @retry

NoCall == [pc |-> "idle"]

\* Mutant of Entry: put_object does not ensure the bucket.
EntryUnensured(op) == IF op = "ensure" THEN "check" ELSE "send"

Entry(op) == IF op \in Ensures THEN "check" ELSE "send"

StoreInit == /\ bucket \in BOOLEAN
             /\ objects = [p \in Paths |-> NoBlob]
             /\ call = [c \in Clients |-> NoCall]
             /\ faults = 0

Call(c, op, p, b) ==
  call' = [call EXCEPT ![c] = [pc |-> Entry(op), op |-> op, path |-> p, blob |-> b,
                               tries |-> 1, seen |-> FALSE, got |-> {}]]

Hang(c) == call' = [call EXCEPT ![c] = NoCall]

\* Mutant of Fails: stop_after_attempt counts the retries, not the attempts.
FailsOneEarly(c) ==
  LET r == call[c]
  IN  call' = [call EXCEPT ![c] =
                 IF r.op \in Retried /\ r.tries + 1 < MaxAttempts
                 THEN [r EXCEPT !.tries = @ + 1, !.pc = Entry(r.op)]
                 ELSE [r EXCEPT !.pc = "raised"]]

\* Mutant of Fails: the error of the last attempt is swallowed.
FailsSilently(c) ==
  LET r == call[c]
  IN  call' = [call EXCEPT ![c] =
                 IF r.op \in Retried /\ r.tries < MaxAttempts
                 THEN [r EXCEPT !.tries = @ + 1, !.pc = Entry(r.op)]
                 ELSE [r EXCEPT !.pc = "returned"]]

(* An attempt that fails is repeated from its first request while the     *)
(* decorator allows it; then the call raises.                              *)
Fails(c) ==
  LET r == call[c]
  IN  call' = [call EXCEPT ![c] =
                 IF r.op \in Retried /\ r.tries < MaxAttempts
                 THEN [r EXCEPT !.tries = @ + 1, !.pc = Entry(r.op)]
                 ELSE [r EXCEPT !.pc = "raised"]]

AfterBucket(r) == IF r.op = "ensure" THEN [r EXCEPT !.pc = "answer", !.seen = TRUE]
                                     ELSE [r EXCEPT !.pc = "send"]

BucketExists(c) ==
  /\ call[c].pc = "check"
  /\ call' = [call EXCEPT ![c] = IF bucket THEN AfterBucket(@) ELSE [@ EXCEPT !.pc = "make"]]
  /\ UNCHANGED <<bucket, objects, faults>>

(* A bucket another client made in between is an error: BucketAlreadyOwnedByYou. *)
MakeBucket(c) ==
  /\ call[c].pc = "make"
  /\ \/ /\ ~bucket
        /\ bucket' = TRUE
        /\ call' = [call EXCEPT ![c] = AfterBucket(@)]
     \/ /\ bucket
        /\ Fails(c)
        /\ UNCHANGED bucket
  /\ UNCHANGED <<objects, faults>>

View(r) == CASE r.op = "get"    -> {objects[r.path]}
             [] r.op = "exists" -> {p \in {r.path} : objects[p] # NoBlob}   \* NoSuchKey is False
             [] r.op = "list"   -> {p \in Paths : objects[p] # NoBlob}
             [] OTHER           -> {}

(* Without a bucket every request is refused (NoSuchBucket, which          *)
(* object_exists raises as well), and so is the download of no object.     *)
Refused(r) == ~bucket \/ (r.op = "get" /\ objects[r.path] = NoBlob)

Served(c) ==
  /\ call[c].pc = "send"
  /\ ~Refused(call[c])
  /\ objects' = CASE call[c].op = "put"    -> [objects EXCEPT ![call[c].path] = call[c].blob]
                  [] call[c].op = "delete" -> [objects EXCEPT ![call[c].path] = NoBlob]
                  [] OTHER                 -> objects
  /\ call' = [call EXCEPT ![c].pc = "answer", ![c].seen = TRUE, ![c].got = View(call[c])]
  /\ UNCHANGED <<bucket, faults>>

NotServed(c) == /\ call[c].pc = "send"
                /\ Refused(call[c])
                /\ Fails(c)
                /\ UNCHANGED <<bucket, objects, faults>>

Answered(c) == /\ call[c].pc = "answer"
               /\ call' = [call EXCEPT ![c].pc = "returned"]
               /\ UNCHANGED <<bucket, objects, faults>>

(* The network loses a request, or the answer to one that took effect. *)
Lost(c) ==
  /\ call[c].pc \in {"check", "make", "send", "answer"}
  /\ faults < MaxFaults
  /\ faults' = faults + 1
  /\ bucket' \in {bucket, bucket \/ call[c].pc = "make"}
  /\ Fails(c)
  /\ UNCHANGED objects

StoreStep(c) == \/ BucketExists(c) \/ MakeBucket(c) \/ Served(c) \/ NotServed(c)
                \/ Answered(c) \/ Lost(c)

-----------------------------------------------------------------------------
CallType ==
  {NoCall} \cup
  [pc : {"check", "make", "send", "answer", "returned", "raised"}, op : Ops,
   path : Paths, blob : Blobs, tries : 1..MaxAttempts, seen : BOOLEAN,
   got : SUBSET (Blobs \cup {NoBlob} \cup Paths)]

(* An answer means that the request was served; ensure_bucket reads nothing. *)
AnswersAreServed ==
  \A c \in Clients : /\ call[c].pc \in {"answer", "returned"} => call[c].seen
                     /\ (call[c].pc # "idle" /\ call[c].op = "ensure") => call[c].got = {}

(* The attempts of a call that failed. *)
FailedAttempts(r) == IF r.pc = "raised" THEN r.tries ELSE r.tries - 1

(* An attempt of an upload fails when the network loses a request, or,     *)
(* once, when another client made the bucket between its two requests.     *)
AttemptsAccounted ==
  \A c \in Clients : (call[c].pc # "idle" /\ call[c].op = "put") =>
    /\ FailedAttempts(call[c]) <= faults + 1
    /\ (~bucket \/ call[c].pc = "make") => FailedAttempts(call[c]) <= faults
    /\ call[c].pc = "raised" => call[c].tries = MaxAttempts

(* The store is well formed: objects only in a bucket, and an upload past  *)
(* its bucket check finds the bucket there, since nothing removes it.      *)
StoreInv ==
  /\ bucket \in BOOLEAN
  /\ objects \in [Paths -> Blobs \cup {NoBlob}]
  /\ faults \in 0..MaxFaults
  /\ call \in [Clients -> CallType]
  /\ (\E p \in Paths : objects[p] # NoBlob) => bucket
  /\ \A c \in Clients :
       (call[c].pc \in {"send", "answer", "returned"} /\ call[c].op \in Ensures) => bucket
  /\ AnswersAreServed
  /\ AttemptsAccounted

(* Losing the race for the bucket costs an upload one attempt and no more: *)
(* put_object fails only after the network failed it MaxAttempts-1 times   *)
(* (client.py:43-49, two first writers).                                   *)
RaceCostsOneAttempt ==
  (\E c \in Clients : call[c].pc = "raised" /\ call[c].op = "put")
    => faults >= MaxAttempts - 1

(* The calls keep the store's promise: the refinement mapping forgets the  *)
(* requests and the attempts.                                              *)
AbstractCall(r) ==
  IF r.pc = "idle" THEN [st |-> "idle"]
  ELSE [st |-> IF r.pc \in {"returned", "raised"} THEN r.pc ELSE "pending",
        op |-> r.op, path |-> r.path, blob |-> r.blob, seen |-> r.seen, got |-> r.got]

Promise == INSTANCE BlobStore WITH Clients <- Clients, Paths <- Paths, Blobs <- Blobs,
             NoBlob <- NoBlob, store <- objects,
             req <- [c \in Clients |-> AbstractCall(call[c])]

(* client.py implements BlobStore: an upload, a download or a listing that *)
(* returns really happened while it was under way (client.py:49-136).      *)
KeepsPromise == Promise!Spec
=============================================================================
