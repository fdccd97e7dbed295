----------------------------- MODULE GdprManager -----------------------------
(***************************************************************************)
(* GDPRManager (privacy/gdpr.py): erasure, consent and export requests of  *)
(* one user base, served by concurrent callers through                     *)
(* PostgresClient.session() and audited in MinIO.                          *)
(*                                                                         *)
(* External: PostgreSQL at READ COMMITTED.  A transaction's writes appear  *)
(* at its commit; the row locks it takes before only delay the others.     *)
(***************************************************************************)
EXTENDS Naturals

CONSTANTS
  Users,        \* user ids, of whom some have a row
  Callers,      \* threads that call the manager
  MaxRequests   \* bound: requests

ASSUME MaxRequestsAssumption == MaxRequests \in Nat

VARIABLES
  user,     \* [Users -> UserRow]: the row of users
  tokens,   \* [Users -> BOOLEAN]: token_map has rows of the user
  consent,  \* [Users -> ConsentRow]: the row of consent_records
  audit,    \* entries under audit/gdpr/
  call,     \* [Callers -> Calls]: the request each caller serves
  requests, \* requests so far
  held,     \* history: [Users -> SUBSET Flags]: what the consent row ever held
  contended \* history: users of whom two consent updates were open at once

tables == <<user, tokens, consent, held>>
vars   == <<tables, audit, call, requests, contended>>

Columns     == {"marketing", "analytics"}
Flags       == SUBSET Columns                      \* the consents that are given
ConsentRows == {{}} \cup {{f} : f \in Flags}       \* the user's record, if there is one
UserRow     == {"absent", "named", "erased"}
Steps       == {"postgres_user_anonymized", "token_map_cleared"}
Operations  == {"delete", "consent", "export"}

\* Where a call is: the statements of the two transactions, then the audit entry,
\* then its result, which is kept until the caller serves another request.
Control == {"idle", "anonymize", "clear", "erase", "load", "save", "audit", "returned",
            "raised"}

\* asked: the flags to set.  loaded: the consent record that the session read.
Calls == [op : Operations, at : Control, user : Users, asked : Flags,
          loaded : ConsentRows, steps : SUBSET Steps, error : BOOLEAN]

NewCall(op, at, u, asked) ==
  [op |-> op, at |-> at, user |-> u, asked |-> asked,
   loaded |-> {}, steps |-> {}, error |-> FALSE]

Entries == [op : Operations, user : Users, flags : Flags]

Init ==
  /\ user \in [Users -> {"absent", "named"}]
  /\ tokens = [u \in Users |-> user[u] = "named"]
  /\ consent = [u \in Users |-> {}]
  /\ audit = {}
  /\ call \in [Callers -> {NewCall("export", "idle", u, {}) : u \in Users}]
  /\ requests = 0
  /\ held = [u \in Users |-> {}]
  /\ contended = {}

-----------------------------------------------------------------------------

At(c, places) == call[c].at \in places

Begins(c, op, at, u, asked) ==
  /\ At(c, {"idle", "returned", "raised"})
  /\ requests < MaxRequests
  /\ requests' = requests + 1
  /\ call' = [call EXCEPT ![c] = NewCall(op, at, u, asked)]
  /\ UNCHANGED <<tables, audit, contended>>

DeleteUserData(c, u) == Begins(c, "delete", "anonymize", u, {})
UpdateConsent(c, u, f) == Begins(c, "consent", "load", u, f)

\* The export only reads, and a failure of its session only leaves a note in it.
ExportUserData(c, u) == Begins(c, "export", "audit", u, {})

\* A statement succeeded.
Goes(c, at, steps) ==
  call' = [call EXCEPT ![c].at = at, ![c].steps = @ \cup steps]

-----------------------------------------------------------------------------
(* delete_user_data                                                        *)

\* The user's attributes are set, in the session, if there is a row.
Anonymize(c) ==
  /\ At(c, {"anonymize"})
  /\ Goes(c, "clear", IF user[call[c].user] = "absent" THEN {}
                                                       ELSE {"postgres_user_anonymized"})
  /\ UNCHANGED <<tables, audit, requests, contended>>

\* Mutant of ClearTokens: a session of its own, committed at once.
ClearTokensAtOnce(c) ==
  /\ At(c, {"clear"})
  /\ tokens' = [tokens EXCEPT ![call[c].user] = FALSE]
  /\ Goes(c, "erase", {"token_map_cleared"})
  /\ UNCHANGED <<user, consent, held, audit, requests, contended>>

\* DELETE is sent; the step is recorded before anything is committed.
ClearTokens(c) ==
  /\ At(c, {"clear"})
  /\ Goes(c, "erase", {"token_map_cleared"})
  /\ UNCHANGED <<tables, audit, requests, contended>>

\* What the transaction of c writes.
Erased(c) ==
  /\ user' = [user EXCEPT ![call[c].user] =
                IF "postgres_user_anonymized" \in call[c].steps THEN "erased" ELSE @]
  /\ tokens' = [tokens EXCEPT ![call[c].user] = FALSE]
  /\ UNCHANGED <<consent, held>>

CommitErasure(c) ==
  /\ At(c, {"erase"})
  /\ Erased(c)
  /\ Goes(c, "audit", {})
  /\ UNCHANGED <<audit, requests, contended>>

\* A statement or the commit raises.  session() rolls back, but a commit whose
\* answer was lost may have been applied.  The exception becomes a field of the
\* result, and the call goes on to its audit entry.
ErasureFails(c) ==
  /\ At(c, {"anonymize", "clear", "erase"})
  /\ \/ UNCHANGED tables
     \/ At(c, {"erase"}) /\ Erased(c)
  /\ call' = [call EXCEPT ![c].at = "audit", ![c].error = TRUE]
  /\ UNCHANGED <<audit, requests, contended>>

-----------------------------------------------------------------------------
(* update_consent                                                          *)

\* The other callers with an open update of the same user's consent.
Rivals(c) ==
  {d \in Callers \ {c} : At(d, {"save"}) /\ call[d].user = call[c].user}

LoadConsent(c) ==
  /\ At(c, {"load"})
  /\ call' = [call EXCEPT ![c].at = "save", ![c].loaded = consent[call[c].user]]
  /\ contended' = contended \cup {call[d].user : d \in Rivals(c)}
  /\ UNCHANGED <<tables, audit, requests>>

\* An UPDATE sets the columns whose value differs from the one that was loaded,
\* and leaves the others as the row has them now.
Merged(loaded, asked, row) ==
  {k \in Columns : IF k \in asked <=> k \in loaded THEN k \in row ELSE k \in asked}

\* The record after the flush of c.
Saved(c, record) ==
  IF call[c].loaded = {} THEN {call[c].asked}
  ELSE {Merged(loaded, call[c].asked, row) : loaded \in call[c].loaded, row \in record}

\* An INSERT needs the user's row and no record that another session inserted.
CanSave(c) ==
  call[c].loaded = {} => consent[call[c].user] = {} /\ user[call[c].user] # "absent"

SaveFlags(c) ==
  /\ CanSave(c)
  /\ consent' = [consent EXCEPT ![call[c].user] = Saved(c, @)]
  /\ held' = [held EXCEPT ![call[c].user] = @ \cup consent'[call[c].user]]
  /\ UNCHANGED <<user, tokens>>

CommitConsent(c) ==
  /\ At(c, {"save"})
  /\ SaveFlags(c)
  /\ Goes(c, "audit", {})
  /\ UNCHANGED <<audit, requests, contended>>

\* Mutant of ConsentFails: the exception is caught, as delete_user_data does.
ConsentFailureCaught(c) ==
  /\ At(c, {"load", "save"})
  /\ \/ UNCHANGED tables
     \/ At(c, {"save"}) /\ SaveFlags(c)
  /\ call' = [call EXCEPT ![c].at = "audit", ![c].error = TRUE]
  /\ UNCHANGED <<audit, requests, contended>>

\* The exception is the caller's: no audit entry.
ConsentFails(c) ==
  /\ At(c, {"load", "save"})
  /\ \/ UNCHANGED tables
     \/ At(c, {"save"}) /\ SaveFlags(c)
  /\ call' = [call EXCEPT ![c].at = "raised", ![c].error = TRUE]
  /\ UNCHANGED <<audit, requests, contended>>

-----------------------------------------------------------------------------
(* The audit entry                                                         *)

Entry(c) == [op |-> call[c].op, user |-> call[c].user, flags |-> call[c].asked]

\* put_object, with its three attempts, writes the entry or does not; an error is
\* logged and the call returns as if there were none.
WriteAuditLog(c) ==
  /\ At(c, {"audit"})
  /\ audit' \in {audit, audit \cup {Entry(c)}}
  /\ call' = [call EXCEPT ![c].at = "returned"]
  /\ UNCHANGED <<tables, requests, contended>>

\* The process dies; PostgreSQL rolls an open transaction back.
Crash(c) ==
  /\ ~At(c, {"idle"})
  /\ call' = [call EXCEPT ![c].at = "idle"]
  /\ UNCHANGED <<tables, audit, requests, contended>>

-----------------------------------------------------------------------------

Request(c) ==
  \E u \in Users :
    \/ DeleteUserData(c, u)
    \/ ExportUserData(c, u)
    \/ \E f \in Flags : UpdateConsent(c, u, f)

CallStep(c) ==
  \/ Anonymize(c)
  \/ ClearTokens(c)
  \/ CommitErasure(c)
  \/ ErasureFails(c)
  \/ LoadConsent(c)
  \/ CommitConsent(c)
  \/ ConsentFails(c)
  \/ WriteAuditLog(c)

Next == \E c \in Callers : Request(c) \/ CallStep(c) \/ Crash(c)

Spec == Init /\ [][Next]_vars

-----------------------------------------------------------------------------
(* Properties                                                              *)

TypeOK ==
  /\ user \in [Users -> UserRow]
  /\ tokens \in [Users -> BOOLEAN]
  /\ consent \in [Users -> ConsentRows]
  /\ audit \subseteq Entries
  /\ call \in [Callers -> Calls]
  /\ held \in [Users -> SUBSET Flags]
  /\ requests \in 0 .. MaxRequests
  /\ contended \subseteq Users

\* A user's name and the tokens that lead back to it go together: no failure,
\* crash or concurrent request leaves one without the other.
ErasedAsAWhole == \A u \in Users : tokens[u] <=> user[u] = "named"

\* A deletion that reports no postgres_error has erased the user.
NoErrorMeansErased ==
  \A c \in Callers :
    call[c].op = "delete" /\ At(c, {"audit", "returned"}) /\ ~call[c].error
      => user[call[c].user] # "named"

\* What makes the two inductive: an open erasure anonymises the row that is there.
OpenErasure ==
  \A c \in Callers :
    /\ At(c, {"load", "save"}) => call[c].op = "consent"
    /\ At(c, {"anonymize"}) => call[c].steps = {}
    /\ At(c, {"clear", "erase"}) =>
         ("postgres_user_anonymized" \in call[c].steps <=> user[call[c].user] # "absent")

GdprInv == TypeOK /\ ErasedAsAWhole /\ NoErrorMeansErased /\ OpenErasure

\* What update_consent promises: a consent entry is true for every user whose
\* updates never overlapped, through failures, lost commit answers and crashes.
LoneConsentTruthful ==
  \A e \in audit : e.op = "consent" /\ e.user \notin contended => e.flags \in held[e.user]

\* What makes it inductive: a lone update saves over the record it loaded, and
\* until its entry is written the flags it asked for have been held.
LoneUpdate ==
  \A c \in Callers : call[c].user \notin contended =>
    /\ At(c, {"save"}) => /\ call[c].loaded = consent[call[c].user]
                          /\ Rivals(c) = {}
    /\ call[c].op = "consent" /\ At(c, {"audit"}) => call[c].asked \in held[call[c].user]

ErasureIsDeletion ==
  \A c \in Callers : At(c, {"anonymize", "clear", "erase"}) => call[c].op = "delete"

ConsentInv == GdprInv /\ ErasureIsDeletion /\ LoneUpdate /\ LoneConsentTruthful
=============================================================================
