--------------------------- MODULE GdprManagerProof ---------------------------
(***************************************************************************)
(* Proofs about GdprManager, for any users and any number of callers and   *)
(* requests.                                                               *)
(***************************************************************************)
EXTENDS GdprManager, PrivacyRules, TLAPS

\* A new call is well-formed.
LEMMA NewCallTyped ==
  ASSUME NEW op \in Operations, NEW at \in Control, NEW u \in Users, NEW f \in Flags
  PROVE  NewCall(op, at, u, f) \in Calls
  BY DEF NewCall, Calls, ConsentRows

\* A call stays well-formed as it goes on.
LEMMA GoesTyped ==
  ASSUME TypeOK, NEW c \in Callers, NEW at \in Control, NEW steps \in SUBSET Steps,
         Goes(c, at, steps)
  PROVE  call' \in [Callers -> Calls]
<1>1. call[c] \in Calls
  BY DEF TypeOK
<1>2. [call[c] EXCEPT !.at = at, !.steps = @ \cup steps] \in Calls
  BY <1>1 DEF Calls
<1>. QED  BY <1>2 DEF Goes, TypeOK

\* A save leaves one record, and it is made of consents.
LEMMA SavedTyped ==
  ASSUME TypeOK, NEW c \in Callers, SaveFlags(c)
  PROVE  /\ consent' \in [Users -> ConsentRows]
         /\ held' \in [Users -> SUBSET Flags]
<1>. DEFINE u == call[c].user
            row == consent[u]
<1>1. /\ u \in Users /\ call[c].asked \in Flags
      /\ call[c].loaded \in ConsentRows /\ row \in ConsentRows
  BY DEF TypeOK, Calls
<1>2. Saved(c, row) \in ConsentRows
  <2>1. CASE call[c].loaded = {}
    BY <1>1, <2>1 DEF Saved, ConsentRows
  <2>2. CASE call[c].loaded # {} /\ row = {}
    BY <2>2 DEF Saved, ConsentRows
  <2>3. CASE call[c].loaded # {} /\ row # {}
    <3>1. PICK f \in Flags : call[c].loaded = {f}
      BY <1>1, <2>3 DEF ConsentRows
    <3>2. PICK g \in Flags : row = {g}
      BY <1>1, <2>3 DEF ConsentRows
    <3>3. Saved(c, row) = {Merged(f, call[c].asked, g)}
      BY <2>3, <3>1, <3>2 DEF Saved
    <3>4. Merged(f, call[c].asked, g) \in Flags
      BY DEF Merged, Flags
    <3>. QED  BY <3>3, <3>4 DEF ConsentRows
  <2>. QED  BY <2>1, <2>2, <2>3
<1>3. consent' = [consent EXCEPT ![u] = Saved(c, row)]
  BY DEF SaveFlags
<1>4. consent' \in [Users -> ConsentRows]
  BY <1>1, <1>2, <1>3 DEF TypeOK
<1>5. consent'[u] \in SUBSET Flags
  BY <1>1, <1>4 DEF ConsentRows
<1>6. held' = [held EXCEPT ![u] = @ \cup consent'[u]]
  BY DEF SaveFlags
<1>7. held' \in [Users -> SUBSET Flags]
  BY <1>1, <1>5, <1>6 DEF TypeOK
<1>. QED  BY <1>4, <1>7

\* The initial states satisfy the invariant.
LEMMA GdprInit == Init => GdprInv
<1>. SUFFICES ASSUME Init PROVE GdprInv
  OBVIOUS
<1>1. call \in [Callers -> Calls]
  <2>1. \A u \in Users : NewCall("export", "idle", u, {}) \in Calls
    BY NewCallTyped DEF Operations, Control, Flags
  <2>. QED  BY <2>1 DEF Init
<1>2. user \in [Users -> UserRow] /\ tokens \in [Users -> BOOLEAN]
  BY DEF Init, UserRow
<1>3. consent \in [Users -> ConsentRows] /\ held \in [Users -> SUBSET Flags]
  BY DEF Init, ConsentRows
<1>4. audit \subseteq Entries /\ requests \in 0 .. MaxRequests /\ contended \subseteq Users
  BY MaxRequestsAssumption DEF Init
<1>5. TypeOK
  BY <1>1, <1>2, <1>3, <1>4 DEF TypeOK
<1>6. \A c \in Callers : call[c].at = "idle"
  BY DEF Init, NewCall
<1>7. ErasedAsAWhole
  BY DEF Init, ErasedAsAWhole
<1>. QED  BY <1>5, <1>6, <1>7 DEF GdprInv, NoErrorMeansErased, OpenErasure, At

\* A step that moves one call, and may erase users but names none, keeps the
\* invariant when the tables stay well-formed and the call satisfies its clauses.
LEMMA OneCallMoves ==
  ASSUME GdprInv, NEW c \in Callers,
         call' \in [Callers -> Calls], \A d \in Callers \ {c} : call'[d] = call[d],
         audit' \subseteq Entries, requests' \in 0 .. MaxRequests, contended' \subseteq Users,
         user' \in [Users -> UserRow], tokens' \in [Users -> BOOLEAN],
         consent' \in [Users -> ConsentRows], held' \in [Users -> SUBSET Flags],
         ErasedAsAWhole',
         \A u \in Users : /\ user'[u] = "absent" <=> user[u] = "absent"
                          /\ user'[u] = "named" => user[u] = "named",
         call'[c].at \in {"load", "save"} => call'[c].op = "consent",
         call'[c].at = "anonymize" => call'[c].steps = {},
         call'[c].at \in {"clear", "erase"} =>
           ("postgres_user_anonymized" \in call'[c].steps <=> user[call'[c].user] # "absent"),
         call'[c].op = "delete" /\ call'[c].at \in {"audit", "returned"} /\ ~call'[c].error
           => user'[call'[c].user] # "named"
  PROVE  GdprInv'
<1>1. TypeOK'
  BY DEF TypeOK
<1>2. \A d \in Callers : call[d].user \in Users /\ call'[d].user \in Users
  BY DEF GdprInv, TypeOK, Calls
<1>3. NoErrorMeansErased'
  BY <1>2 DEF GdprInv, NoErrorMeansErased, At
<1>4. OpenErasure'
  BY <1>2 DEF GdprInv, OpenErasure, At
<1>. QED  BY <1>1, <1>3, <1>4 DEF GdprInv

\* The same when no table changes.
LEMMA OnlyCall ==
  ASSUME GdprInv, NEW c \in Callers, UNCHANGED tables,
         call' \in [Callers -> Calls], \A d \in Callers \ {c} : call'[d] = call[d],
         audit' \subseteq Entries, requests' \in 0 .. MaxRequests, contended' \subseteq Users,
         call'[c].at \in {"load", "save"} => call'[c].op = "consent",
         call'[c].at = "anonymize" => call'[c].steps = {},
         call'[c].at \in {"clear", "erase"} =>
           ("postgres_user_anonymized" \in call'[c].steps <=> user[call'[c].user] # "absent"),
         call'[c].op = "delete" /\ call'[c].at \in {"audit", "returned"} /\ ~call'[c].error
           => user[call'[c].user] # "named"
  PROVE  GdprInv'
<1>1. /\ user' \in [Users -> UserRow] /\ tokens' \in [Users -> BOOLEAN]
      /\ consent' \in [Users -> ConsentRows] /\ held' \in [Users -> SUBSET Flags]
      /\ ErasedAsAWhole' /\ user' = user
  BY DEF GdprInv, TypeOK, tables, ErasedAsAWhole
<1>. QED  BY <1>1, OneCallMoves

\* A committed erasure: what the tables hold then.
LEMMA ErasureWrites ==
  ASSUME GdprInv, NEW c \in Callers, At(c, {"erase"}), Erased(c)
  PROVE  /\ user' \in [Users -> UserRow] /\ tokens' \in [Users -> BOOLEAN]
         /\ ErasedAsAWhole'
         /\ \A u \in Users : /\ user'[u] = "absent" <=> user[u] = "absent"
                             /\ user'[u] = "named" => user[u] = "named"
         /\ user'[call[c].user] # "named"
<1>. DEFINE u == call[c].user
<1>1. u \in Users /\ user[u] \in UserRow
  BY DEF GdprInv, TypeOK, Calls
<1>2. "postgres_user_anonymized" \in call[c].steps <=> user[u] # "absent"
  BY DEF GdprInv, OpenErasure, At
<1>3. user' = [user EXCEPT ![u] = IF user[u] # "absent" THEN "erased" ELSE @]
  BY <1>2 DEF Erased
<1>4. tokens' = [tokens EXCEPT ![u] = FALSE]
  BY DEF Erased
<1>. QED  BY <1>1, <1>3, <1>4 DEF GdprInv, TypeOK, UserRow, ErasedAsAWhole

\* The invariant is kept by every step.
LEMMA GdprStep == GdprInv /\ [Next]_vars => GdprInv'
<1>. SUFFICES ASSUME GdprInv, [Next]_vars PROVE GdprInv'
  OBVIOUS
<1>. USE DEF At
<1>1. CASE UNCHANGED vars
  BY <1>1 DEF vars, tables, GdprInv, TypeOK, ErasedAsAWhole, NoErrorMeansErased, OpenErasure
<1>2. ASSUME NEW c \in Callers, Request(c) PROVE GdprInv'
  <2>1. PICK u \in Users : \/ DeleteUserData(c, u)
                           \/ ExportUserData(c, u)
                           \/ \E f \in Flags : UpdateConsent(c, u, f)
    BY <1>2 DEF Request
  <2>2. ASSUME NEW op \in Operations, NEW at \in {"anonymize", "load", "audit"},
               NEW f \in Flags, Begins(c, op, at, u, f),
               at = "load" => op = "consent", at = "audit" => op = "export"
        PROVE  GdprInv'
    <3>1. NewCall(op, at, u, f) \in Calls
      BY NewCallTyped DEF Control
    <3>2. call' = [call EXCEPT ![c] = NewCall(op, at, u, f)]
      BY <2>2 DEF Begins
    <3>3. call' \in [Callers -> Calls] /\ call'[c] = NewCall(op, at, u, f)
      BY <3>1, <3>2 DEF GdprInv, TypeOK
    <3>4. call'[c].at = at /\ call'[c].op = op /\ call'[c].steps = {}
      BY <3>3 DEF NewCall
    <3>5. UNCHANGED tables /\ audit' \subseteq Entries /\ contended' \subseteq Users
      BY <2>2 DEF Begins, GdprInv, TypeOK
    <3>6. requests' \in 0 .. MaxRequests
      BY <2>2, MaxRequestsAssumption DEF Begins, GdprInv, TypeOK
    <3>7. \A d \in Callers \ {c} : call'[d] = call[d]
      BY <3>2 DEF GdprInv, TypeOK
    <3>. QED  BY <2>2, <3>3, <3>4, <3>5, <3>6, <3>7, OnlyCall
  <2>3. {} \in Flags
    BY DEF Flags
  <2>. QED  BY <2>1, <2>2, <2>3
            DEF DeleteUserData, ExportUserData, UpdateConsent, Operations
<1>3. ASSUME NEW c \in Callers, CallStep(c) \/ Crash(c) PROVE GdprInv'
  <2>. DEFINE u == call[c].user
  <2>1. call \in [Callers -> Calls] /\ call[c] \in Calls /\ u \in Users
    BY DEF GdprInv, TypeOK, Calls
  <2>2. CASE Anonymize(c) \/ ClearTokens(c)
    <3>1. PICK at \in {"clear", "erase"}, steps \in SUBSET Steps : Goes(c, at, steps)
      BY <2>2 DEF Anonymize, ClearTokens, Steps
    <3>2. call' \in [Callers -> Calls]
      BY <3>1, GoesTyped DEF GdprInv, Control
    <3>3. /\ call'[c].user = u /\ call'[c].at \in {"clear", "erase"}
          /\ \A d \in Callers \ {c} : call'[d] = call[d]
      BY <2>1, <3>1 DEF Goes, Calls
    <3>4. "postgres_user_anonymized" \in call'[c].steps <=> user[u] # "absent"
      <4>1. CASE Anonymize(c)
        BY <2>1, <4>1 DEF Anonymize, Goes, Calls, GdprInv, OpenErasure
      <4>2. CASE ClearTokens(c)
        BY <2>1, <4>2 DEF ClearTokens, Goes, Calls, GdprInv, OpenErasure
      <4>. QED  BY <2>2, <4>1, <4>2
    <3>. QED  BY <2>2, <3>2, <3>3, <3>4, OnlyCall
              DEF Anonymize, ClearTokens, GdprInv, TypeOK
  <2>3. CASE CommitErasure(c)
    <3>1. call' \in [Callers -> Calls]
      BY <2>3, GoesTyped DEF CommitErasure, GdprInv, Control
    <3>2. /\ call'[c].user = u /\ call'[c].at = "audit"
          /\ \A d \in Callers \ {c} : call'[d] = call[d]
      BY <2>1, <2>3 DEF CommitErasure, Goes, Calls
    <3>3. /\ consent' = consent /\ held' = held
          /\ audit' = audit /\ requests' = requests /\ contended' = contended
          /\ Erased(c)
      BY <2>3 DEF CommitErasure, Erased
    <3>. QED  BY <2>3, <3>1, <3>2, <3>3, ErasureWrites, OneCallMoves
              DEF CommitErasure, GdprInv, TypeOK
  <2>4. CASE ErasureFails(c)
    <3>1. [call[c] EXCEPT !.at = "audit", !.error = TRUE] \in Calls
      BY <2>1 DEF Calls, Control
    <3>2. /\ call' \in [Callers -> Calls]
          /\ call'[c].at = "audit" /\ call'[c].error
          /\ \A d \in Callers \ {c} : call'[d] = call[d]
      BY <2>1, <2>4, <3>1 DEF ErasureFails, Calls
    <3>3. audit' = audit /\ requests' = requests /\ contended' = contended
      BY <2>4 DEF ErasureFails
    <3>4. CASE UNCHANGED tables
      BY <3>2, <3>3, <3>4, OnlyCall DEF GdprInv, TypeOK
    <3>5. CASE At(c, {"erase"}) /\ Erased(c)
      <4>1. consent' = consent /\ held' = held
        BY <3>5 DEF Erased
      <4>. QED  BY <3>2, <3>3, <3>5, <4>1, ErasureWrites, OneCallMoves DEF GdprInv, TypeOK
    <3>. QED  BY <2>4, <3>4, <3>5 DEF ErasureFails
  <2>5. CASE LoadConsent(c)
    <3>1. consent[u] \in ConsentRows
      BY <2>1 DEF GdprInv, TypeOK
    <3>2. [call[c] EXCEPT !.at = "save", !.loaded = consent[u]] \in Calls
      BY <2>1, <3>1 DEF Calls, Control
    <3>3. /\ call' \in [Callers -> Calls]
          /\ call'[c].at = "save" /\ call'[c].op = call[c].op
          /\ \A d \in Callers \ {c} : call'[d] = call[d]
      BY <2>1, <2>5, <3>2 DEF LoadConsent, Calls
    <3>4. call[c].op = "consent"
      BY <2>5 DEF LoadConsent, GdprInv, OpenErasure
    <3>5. contended' \subseteq Users
      BY <2>5 DEF LoadConsent, Rivals, GdprInv, TypeOK, Calls
    <3>. QED  BY <2>5, <3>3, <3>4, <3>5, OnlyCall DEF LoadConsent, GdprInv, TypeOK
  <2>6. CASE CommitConsent(c)
    <3>1. call' \in [Callers -> Calls]
      BY <2>6, GoesTyped DEF CommitConsent, GdprInv, Control
    <3>2. /\ call'[c].op = call[c].op /\ call'[c].at = "audit"
          /\ \A d \in Callers \ {c} : call'[d] = call[d]
      BY <2>1, <2>6 DEF CommitConsent, Goes, Calls
    <3>3. call[c].op = "consent"
      BY <2>6 DEF CommitConsent, GdprInv, OpenErasure
    <3>4. /\ user' = user /\ tokens' = tokens
          /\ audit' = audit /\ requests' = requests /\ contended' = contended
      BY <2>6 DEF CommitConsent, SaveFlags
    <3>5. consent' \in [Users -> ConsentRows] /\ held' \in [Users -> SUBSET Flags]
      BY <2>6, SavedTyped DEF CommitConsent, GdprInv
    <3>6. ErasedAsAWhole'
      BY <3>4 DEF GdprInv, ErasedAsAWhole
    <3>. QED  BY <3>1, <3>2, <3>3, <3>4, <3>5, <3>6, OneCallMoves DEF GdprInv, TypeOK
  <2>7. CASE ConsentFails(c)
    <3>1. [call[c] EXCEPT !.at = "raised", !.error = TRUE] \in Calls
      BY <2>1 DEF Calls, Control
    <3>2. /\ call' \in [Callers -> Calls]
          /\ call'[c].at = "raised"
          /\ \A d \in Callers \ {c} : call'[d] = call[d]
      BY <2>1, <2>7, <3>1 DEF ConsentFails, Calls
    <3>3. audit' = audit /\ requests' = requests /\ contended' = contended
      BY <2>7 DEF ConsentFails
    <3>4. CASE UNCHANGED tables
      BY <3>2, <3>3, <3>4, OnlyCall DEF GdprInv, TypeOK
    <3>5. CASE SaveFlags(c)
      <4>1. user' = user /\ tokens' = tokens
        BY <3>5 DEF SaveFlags
      <4>2. consent' \in [Users -> ConsentRows] /\ held' \in [Users -> SUBSET Flags]
        BY <3>5, SavedTyped DEF GdprInv
      <4>3. ErasedAsAWhole'
        BY <4>1 DEF GdprInv, ErasedAsAWhole
      <4>. QED  BY <3>2, <3>3, <4>1, <4>2, <4>3, OneCallMoves DEF GdprInv, TypeOK
    <3>. QED  BY <2>7, <3>4, <3>5 DEF ConsentFails
  <2>8. CASE WriteAuditLog(c)
    BY <2>8, <2>1, OnlyCall
       DEF WriteAuditLog, Entry, Entries, GdprInv, TypeOK, NoErrorMeansErased, Calls, Control
  <2>9. CASE Crash(c)
    BY <2>9, <2>1, OnlyCall DEF Crash, GdprInv, TypeOK, Calls, Control
  <2>. QED  BY <1>3, <2>2, <2>3, <2>4, <2>5, <2>6, <2>7, <2>8, <2>9 DEF CallStep
<1>. QED  BY <1>1, <1>2, <1>3 DEF Next

\* The invariant holds in every reachable state.
THEOREM GdprInvariance == Spec => []GdprInv
  BY GdprInit, GdprStep, PTL DEF Spec

\* gdpr.py, delete_user_data: a user's name and token map are erased together or
\* not at all, and a deletion that reports no error has erased them, with any
\* number of concurrent callers, failures and crashes.
THEOREM ErasureIsAtomic == Spec => [](ErasedAsAWhole /\ NoErrorMeansErased)
<1>1. GdprInv => ErasedAsAWhole /\ NoErrorMeansErased
  BY DEF GdprInv
<1>. QED  BY GdprInvariance, <1>1, PTL

\* A step that moves one call: what it must leave true for the consent records.
LEMMA OneUpdateMoves ==
  ASSUME ConsentInv, GdprInv', NEW c \in Callers,
         \A d \in Callers \ {c} : call'[d] = call[d],
         contended \subseteq contended',
         \A u \in Users : held[u] \subseteq held'[u],
         \A u \in Users : consent'[u] = consent[u] \/ (At(c, {"save"}) /\ call[c].user = u),
         \A e \in audit' : e \in audit \/ (At(c, {"audit"}) /\ e = Entry(c)),
         call'[c].at \in {"anonymize", "clear", "erase"} => call'[c].op = "delete",
         call'[c].at = "save" =>
           /\ call'[c].loaded = consent'[call'[c].user]
           /\ \A d \in Callers \ {c} :
                At(d, {"save"}) /\ call[d].user = call'[c].user => call[d].user \in contended',
         call'[c].op = "consent" /\ call'[c].at = "audit" /\ call'[c].user \notin contended' =>
           call'[c].asked \in held'[call'[c].user]
  PROVE  ConsentInv'
<1>. USE DEF At
<1>1. \A d \in Callers : call[d].user \in Users /\ call'[d].user \in Users
  BY DEF ConsentInv, GdprInv, TypeOK, Calls
<1>2. ErasureIsDeletion'
  BY DEF ConsentInv, ErasureIsDeletion
<1>3. LoneConsentTruthful'
  <2>. SUFFICES ASSUME NEW e \in audit', e.op = "consent", e.user \notin contended'
                PROVE  e.flags \in held'[e.user]
    BY DEF LoneConsentTruthful
  <2>1. CASE e \in audit
    <3>1. e.user \in Users
      BY <2>1 DEF ConsentInv, GdprInv, TypeOK, Entries
    <3>. QED  BY <2>1, <3>1 DEF ConsentInv, LoneConsentTruthful
  <2>2. CASE call[c].at = "audit" /\ e = Entry(c)
    BY <1>1, <2>2 DEF ConsentInv, LoneUpdate, Entry
  <2>. QED  BY <2>1, <2>2
<1>4. ASSUME NEW d \in Callers, call'[d].user \notin contended', call'[d].at = "save"
      PROVE  call'[d].loaded = consent'[call'[d].user] /\ Rivals(d)' = {}
  <2>1. CASE d = c
    <3>1. \A x \in Callers \ {c} : ~(call'[x].at = "save" /\ call'[x].user = call'[c].user)
      BY <1>4, <2>1
    <3>. QED  BY <1>4, <2>1, <3>1 DEF Rivals
  <2>2. CASE d # c
    <3>1. /\ call'[d] = call[d] /\ call[d].user \notin contended
          /\ call[d].loaded = consent[call[d].user] /\ Rivals(d) = {}
      BY <1>4, <2>2 DEF ConsentInv, LoneUpdate
    <3>2. ~(call[c].at = "save" /\ call[c].user = call[d].user)
      BY <2>2, <3>1 DEF Rivals
    <3>3. ~(call'[c].at = "save" /\ call'[c].user = call'[d].user)
      BY <1>4, <2>2, <3>1
    <3>4. \A x \in Callers \ {d} : ~(call'[x].at = "save" /\ call'[x].user = call'[d].user)
      BY <3>1, <3>3 DEF Rivals
    <3>. QED  BY <1>1, <3>1, <3>2, <3>4 DEF Rivals
  <2>. QED  BY <2>1, <2>2
<1>5. ASSUME NEW d \in Callers, call'[d].user \notin contended', call'[d].op = "consent",
             call'[d].at = "audit"
      PROVE  call'[d].asked \in held'[call'[d].user]
  BY <1>1, <1>5 DEF ConsentInv, LoneUpdate
<1>. QED  BY <1>2, <1>3, <1>4, <1>5 DEF ConsentInv, LoneUpdate

\* An update that saves over the record it loaded leaves the flags it asked for.
LEMMA LoneSave ==
  ASSUME TypeOK, NEW c \in Callers, SaveFlags(c),
         call[c].loaded = consent[call[c].user]
  PROVE  call[c].asked \in held'[call[c].user]
<1>. DEFINE u == call[c].user
<1>1. /\ u \in Users /\ call[c].asked \in Flags /\ consent[u] \in ConsentRows
      /\ consent \in [Users -> ConsentRows] /\ held \in [Users -> SUBSET Flags]
  BY DEF TypeOK, Calls
<1>2. Saved(c, consent[u]) = {call[c].asked}
  <2>1. CASE consent[u] = {}
    BY <2>1 DEF Saved
  <2>2. CASE consent[u] # {}
    <3>1. PICK f \in Flags : consent[u] = {f}
      BY <1>1, <2>2 DEF ConsentRows
    <3>2. Merged(f, call[c].asked, f) = call[c].asked
      BY <1>1 DEF Merged, Flags
    <3>. QED  BY <2>2, <3>1, <3>2 DEF Saved
  <2>. QED  BY <2>1, <2>2
<1>3. consent'[u] = {call[c].asked}
  BY <1>1, <1>2 DEF SaveFlags
<1>. QED  BY <1>1, <1>3 DEF SaveFlags

\* The records only gain history, and only a save changes them.
LEMMA SaveKeeps ==
  ASSUME TypeOK, NEW c \in Callers, SaveFlags(c), NEW u \in Users
  PROVE  /\ held[u] \subseteq held'[u]
         /\ consent'[u] = consent[u] \/ call[c].user = u
  BY DEF TypeOK, SaveFlags

\* The initial states satisfy the invariant of the consents.
LEMMA ConsentInit == Init => ConsentInv
<1>. SUFFICES ASSUME Init PROVE ConsentInv
  OBVIOUS
<1>1. \A c \in Callers : call[c].at = "idle"
  BY DEF Init, NewCall
<1>2. audit = {}
  BY DEF Init
<1>. QED  BY <1>1, <1>2, GdprInit
          DEF ConsentInv, ErasureIsDeletion, LoneUpdate, LoneConsentTruthful, At

\* The invariant of the consent records is kept by every step.
LEMMA ConsentStep == ConsentInv /\ [Next]_vars => ConsentInv'
<1>. SUFFICES ASSUME ConsentInv, [Next]_vars PROVE ConsentInv'
  OBVIOUS
<1>. USE DEF At
<1>1. GdprInv'
  BY GdprStep DEF ConsentInv
<1>2. CASE UNCHANGED vars
  BY <1>1, <1>2 DEF vars, tables, ConsentInv, ErasureIsDeletion, LoneUpdate, Rivals,
                    LoneConsentTruthful
<1>3. ASSUME NEW c \in Callers, Request(c) PROVE ConsentInv'
  <2>1. PICK u \in Users, f \in Flags, at \in {"anonymize", "load", "audit"}, op \in Operations :
          /\ Begins(c, op, at, u, f)
          /\ at = "anonymize" => op = "delete"
          /\ at = "audit" => op = "export"
    BY <1>3 DEF Request, DeleteUserData, ExportUserData, UpdateConsent, Operations, Flags
  <2>2. /\ call'[c] = NewCall(op, at, u, f)
        /\ \A d \in Callers \ {c} : call'[d] = call[d]
    BY <2>1 DEF Begins, ConsentInv, GdprInv, TypeOK
  <2>3. call'[c].at = at /\ call'[c].op = op
    BY <2>2 DEF NewCall
  <2>4. UNCHANGED <<consent, held, audit, contended>>
    BY <2>1 DEF Begins, tables
  <2>. QED  BY <1>1, <2>1, <2>2, <2>3, <2>4, OneUpdateMoves
<1>4. ASSUME NEW c \in Callers, CallStep(c) \/ Crash(c) PROVE ConsentInv'
  <2>. DEFINE u == call[c].user
  <2>1. call \in [Callers -> Calls] /\ call[c] \in Calls /\ u \in Users
    BY DEF ConsentInv, GdprInv, TypeOK, Calls
  <2>2. CASE Anonymize(c) \/ ClearTokens(c) \/ CommitErasure(c) \/ ErasureFails(c)
    <3>1. /\ \A d \in Callers \ {c} : call'[d] = call[d]
          /\ call'[c].at \in {"clear", "erase", "audit"} /\ call'[c].op = call[c].op
      BY <2>1, <2>2 DEF Anonymize, ClearTokens, CommitErasure, ErasureFails, Goes, Calls
    <3>2. call[c].op = "delete"
      BY <2>2 DEF Anonymize, ClearTokens, CommitErasure, ErasureFails, ConsentInv,
                  ErasureIsDeletion
    <3>3. UNCHANGED <<consent, held, audit, contended>>
      BY <2>2 DEF Anonymize, ClearTokens, CommitErasure, ErasureFails, Erased, tables
    <3>. QED  BY <1>1, <3>1, <3>2, <3>3, OneUpdateMoves
  <2>3. CASE LoadConsent(c)
    <3>1. /\ \A d \in Callers \ {c} : call'[d] = call[d]
          /\ call'[c].at = "save" /\ call'[c].user = u /\ call'[c].loaded = consent[u]
      BY <2>1, <2>3 DEF LoadConsent, Calls
    <3>2. UNCHANGED <<consent, held, audit>> /\ contended \subseteq contended'
      BY <2>3 DEF LoadConsent, tables
    <3>3. \A d \in Callers \ {c} :
            At(d, {"save"}) /\ call[d].user = u => call[d].user \in contended'
      BY <2>3 DEF LoadConsent, Rivals
    <3>. QED  BY <1>1, <3>1, <3>2, <3>3, OneUpdateMoves
  <2>4. CASE CommitConsent(c)
    <3>1. /\ \A d \in Callers \ {c} : call'[d] = call[d]
          /\ call'[c].at = "audit" /\ call'[c].user = u /\ call'[c].asked = call[c].asked
          /\ call[c].at = "save"
      BY <2>1, <2>4 DEF CommitConsent, Goes, Calls
    <3>2. UNCHANGED <<audit, contended>> /\ SaveFlags(c)
      BY <2>4 DEF CommitConsent
    <3>3. \A v \in Users : held[v] \subseteq held'[v] /\ (consent'[v] = consent[v] \/ u = v)
      BY <3>2, SaveKeeps DEF ConsentInv, GdprInv
    <3>4. u \notin contended => call[c].asked \in held'[u]
      BY <3>1, <3>2, LoneSave DEF ConsentInv, GdprInv, LoneUpdate
    <3>. QED  BY <1>1, <3>1, <3>2, <3>3, <3>4, OneUpdateMoves
  <2>5. CASE ConsentFails(c)
    <3>1. /\ \A d \in Callers \ {c} : call'[d] = call[d]
          /\ call'[c].at = "raised"
      BY <2>1, <2>5 DEF ConsentFails, Calls
    <3>2. UNCHANGED <<audit, contended>>
      BY <2>5 DEF ConsentFails
    <3>3. \A v \in Users : /\ held[v] \subseteq held'[v]
                           /\ consent'[v] = consent[v] \/ (call[c].at = "save" /\ u = v)
      BY <2>5, SaveKeeps DEF ConsentFails, tables, ConsentInv, GdprInv
    <3>. QED  BY <1>1, <3>1, <3>2, <3>3, OneUpdateMoves
  <2>6. CASE WriteAuditLog(c) \/ Crash(c)
    <3>1. /\ \A d \in Callers \ {c} : call'[d] = call[d]
          /\ call'[c].at \in {"returned", "idle"}
      BY <2>1, <2>6 DEF WriteAuditLog, Crash, Calls
    <3>2. UNCHANGED <<consent, held, contended>>
      BY <2>6 DEF WriteAuditLog, Crash, tables
    <3>3. \A e \in audit' : e \in audit \/ (call[c].at = "audit" /\ e = Entry(c))
      BY <2>6 DEF WriteAuditLog, Crash
    <3>. QED  BY <1>1, <3>1, <3>2, <3>3, OneUpdateMoves
  <2>. QED  BY <1>4, <2>2, <2>3, <2>4, <2>5, <2>6 DEF CallStep
<1>. QED  BY <1>2, <1>3, <1>4 DEF Next

\* gdpr.py, update_consent: for a user whose updates never overlapped, every
\* consent entry of the audit log names flags that the consent record held.
THEOREM LoneConsentIsTruthful == Spec => []LoneConsentTruthful
<1>1. ConsentInv => LoneConsentTruthful
  BY DEF ConsentInv
<1>. QED  BY ConsentInit, ConsentStep, <1>1, PTL DEF Spec

-----------------------------------------------------------------------------
(* The rules of PrivacyRules.                                              *)

Treated == applied \cap Treatments # {}

(* What a record has become: a personal field that holds something carries *)
(* a treatment, once any was applied; the others are as they came.         *)
RecordInv ==
  /\ original \in [Fields -> Values] /\ record \in [Fields -> Values \cup Treatments]
  /\ applied \subseteq Strategies
  /\ \A f \in Fields :
       IF f \in PiiFields /\ original[f] # "empty" /\ Treated
       THEN record[f] \in Treatments ELSE record[f] = original[f]

\* A treatment is no value, and none of them is empty.
LEMMA TreatmentsAreNoValues ==
  Treatments \cap Values = {} /\ "empty" \notin Treatments /\ "empty" \in Values
BY DEF Treatments, Values

\* One more strategy.
LEMMA RecordStep == RecordInv /\ [PrivacyNext]_privacyVars => RecordInv'
<1>. SUFFICES ASSUME RecordInv, [PrivacyNext]_privacyVars PROVE RecordInv'
  OBVIOUS
<1>1. CASE PrivacyNext
  <2>1. PICK strategy \in Strategies : /\ record' = ApplyToRecord(record, strategy)
                                       /\ applied' = applied \cup {strategy}
                                       /\ original' = original
    BY <1>1 DEF PrivacyNext
  <2>2. original \in [Fields -> Values] /\ record \in [Fields -> Values \cup Treatments]
    BY DEF RecordInv
  <2>3. record' = [f \in Fields |-> IF record[f] = "empty" \/ f \notin PiiFields
                                    THEN record[f] ELSE Handled(record[f], strategy)]
    BY <2>1, <2>2 DEF ApplyToRecord, DetectField
  <2>4. Treated' <=> Treated \/ strategy \in Treatments
    BY <2>1 DEF Treated
  <2>5. ASSUME NEW f \in Fields
        PROVE  /\ record'[f] \in Values \cup Treatments
               /\ IF f \in PiiFields /\ original[f] # "empty" /\ Treated'
                  THEN record'[f] \in Treatments ELSE record'[f] = original[f]
    <3>1. IF f \in PiiFields /\ original[f] # "empty" /\ Treated
          THEN record[f] \in Treatments ELSE record[f] = original[f]
      BY DEF RecordInv
    <3>2. record[f] \in Values \cup Treatments
      BY <2>2
    <3>3. CASE f \notin PiiFields
      <4>1. record'[f] = record[f]
        BY <2>3, <3>3
      <4>. QED  BY <3>1, <3>2, <3>3, <4>1
    <3>4. CASE original[f] = "empty"
      <4>1. record[f] = "empty"
        BY <3>1, <3>4
      <4>2. record'[f] = record[f]
        BY <2>3, <4>1
      <4>. QED  BY <3>1, <3>2, <3>4, <4>2
    <3>5. CASE f \in PiiFields /\ original[f] # "empty"
      <4>1. record[f] # "empty"
        BY <3>1, <3>5, TreatmentsAreNoValues
      <4>2. record'[f] = IF strategy \in Treatments THEN strategy ELSE record[f]
        BY <2>3, <3>5, <4>1 DEF Handled
      <4>. QED  BY <2>4, <3>1, <3>2, <3>5, <4>2
    <3>. QED  BY <3>3, <3>4, <3>5
  <2>6. record' \in [Fields -> Values \cup Treatments]
    BY <2>3, <2>5
  <2>7. applied' \subseteq Strategies
    BY <2>1 DEF RecordInv
  <2>. QED  BY <2>1, <2>2, <2>5, <2>6, <2>7 DEF RecordInv
<1>2. CASE UNCHANGED privacyVars
  BY <1>2 DEF privacyVars, RecordInv, Treated
<1>. QED  BY <1>1, <1>2

\* A treated record is scanned like the one that came in.
LEMMA ScanSeesNoTreatment == RecordInv => ScanAndApplyAgree
<1>. SUFFICES ASSUME RecordInv PROVE ScanAndApplyAgree
  OBVIOUS
<1>. DEFINE found  == ScanRecord(original)
            byName == {f \in DOMAIN found : found[f] = "column_name_heuristic"}
<1>1. DOMAIN original = Fields /\ DOMAIN record = Fields
  BY DEF RecordInv
<1>2. \A f \in Fields : f \notin PiiFields => record[f] = original[f]
  BY DEF RecordInv
<1>3. ScanRecord(record) = found
  BY <1>1, <1>2 DEF ScanRecord, DetectField
<1>4. byName = PiiFields
  <2>1. PiiFields \subseteq Fields
    BY DEF Fields
  <2>2. DOMAIN found = {f \in Fields : f \in PiiFields \/ DetectValue(original[f])}
    BY <1>1 DEF ScanRecord, DetectField
  <2>3. \A f \in DOMAIN found : found[f] = IF f \in PiiFields THEN "column_name_heuristic" ELSE "pattern_match"
    BY DEF ScanRecord, DetectField
  <2>4. "column_name_heuristic" # "pattern_match"
    OBVIOUS
  <2>. HIDE DEF found
  <2>. QED  BY <2>1, <2>2, <2>3, <2>4
<1>5. {f \in Fields : record[f] # original[f]}
        = IF ~Treated THEN {} ELSE {f \in PiiFields : original[f] # "empty"}
  <2>1. PiiFields \subseteq Fields
    BY DEF Fields
  <2>2. \A f \in Fields : original[f] \notin Treatments
    BY TreatmentsAreNoValues DEF RecordInv
  <2>3. \A f \in Fields : IF f \in PiiFields /\ original[f] # "empty" /\ Treated
                          THEN record[f] \in Treatments ELSE record[f] = original[f]
    BY DEF RecordInv
  <2>. QED  BY <2>1, <2>2, <2>3
<1>. HIDE DEF byName, found
<1>6. {f \in Fields : record[f] # original[f]}
        = IF applied \cap Treatments = {} THEN {} ELSE {f \in byName : original[f] # "empty"}
  BY <1>4, <1>5 DEF Treated
<1>. QED  BY <1>3, <1>6 DEF ScanAndApplyAgree, found, byName

\* A mask leaves at most four characters, however long the value.
LEMMA MasksHideValues == MasksHide
<1>. SUFFICES ASSUME NEW mask \in Masks, NEW n \in 1..15
              PROVE  /\ Shown(mask, n) <= 4
                     /\ Shown(mask, n) < n \/ <<mask, n>> \in {<<"mask_name", 1>>, <<"mask_phone", 4>>,
                                                               <<"MASK_SHOW_FIRST_4", 4>>}
  BY DEF MasksHide
<1>1. CASE mask = "mask_email"
  <2>1. Shown(mask, n) = IF n > 1 THEN 1 ELSE 0
    BY <1>1 DEF Shown
  <2>. QED  BY <2>1
<1>2. CASE mask = "mask_name"
  <2>1. Shown(mask, n) = 1
    BY <1>2 DEF Shown
  <2>2. n = 1 \/ n > 1
    OBVIOUS
  <2>. QED  BY <1>2, <2>1, <2>2
<1>3. CASE mask \in {"mask_phone", "MASK_SHOW_FIRST_4"}
  <2>1. Shown(mask, n) = IF n >= 4 THEN 4 ELSE 0
    BY <1>3 DEF Shown
  <2>2. n < 4 \/ n = 4 \/ n > 4
    OBVIOUS
  <2>. QED  BY <1>3, <2>1, <2>2
<1>. QED  BY <1>1, <1>2, <1>3 DEF Masks

\* The engine's permissions and masks cover those of the policy file.
LEMMA EngineCovers == EngineCoversPolicies
<1>. SUFFICES ASSUME NEW role \in Roles
              PROVE  /\ \A z \in PolicyReads(role) : <<"read", z>> \in Granted(role)
                     /\ \A c \in Fields : /\ PolicyMask(c, role) # "none" => Masking(c, role) = PolicyMask(c, role)
                                          /\ c \in {"email", "full_name", "date_of_birth"} /\ Masking(c, role) = "none"
                                               => role = "admin"
                     /\ <<"read", "silver">> \in Granted(role) /\ "silver" \notin PolicyReads(role)
                          => role \in {"analyst", "admin"}
  BY DEF EngineCoversPolicies
<1>1. \A z \in PolicyReads(role) : <<"read", z>> \in Granted(role)
  BY DEF PolicyReads, Granted, Zones, Full
<1>2. ASSUME NEW c \in Fields
      PROVE  /\ PolicyMask(c, role) # "none" => Masking(c, role) = PolicyMask(c, role)
             /\ c \in {"email", "full_name", "date_of_birth"} /\ Masking(c, role) = "none" => role = "admin"
  BY DEF PolicyMask, Masking
<1>3. <<"read", "silver">> \in Granted(role) /\ "silver" \notin PolicyReads(role) => role \in {"analyst", "admin"}
  BY DEF PolicyReads, Granted, Zones, Full, Roles
<1>. QED  BY <1>1, <1>2, <1>3

(* However many strategies are applied to a record, in any order: what is  *)
(* scanned, what is changed, what a mask hides and who may read it agree   *)
(* (pii_engine.py:60-71, :104-122, :194-229, ranger_client.py:17-35).      *)
THEOREM PrivacyRulesHold == PrivacySpec => []PrivacyRulesAgree
<1>1. PrivacyInit => RecordInv
  BY DEF PrivacyInit, RecordInv, Treated
<1>2. RecordInv => PrivacyRulesAgree
  BY ScanSeesNoTreatment, MasksHideValues, EngineCovers DEF PrivacyRulesAgree
<1>. QED  BY <1>1, <1>2, RecordStep, PTL DEF PrivacySpec

=============================================================================
