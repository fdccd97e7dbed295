----------------------------- MODULE PrivacyRules -----------------------------
(***************************************************************************)
(* The rules that privacy/pii_engine.py and security/ranger_client.py      *)
(* apply to one record, one value or one request.  The record is treated   *)
(* with one strategy after another; a value is known by the pattern it     *)
(* matches or by the treatment that made it, and a text by its length.     *)
(***************************************************************************)
EXTENDS Naturals

VARIABLES original,  \* the record as it came
          record,    \* what the strategies applied so far have made of it
          applied    \* these strategies

privacyVars == <<original, record, applied>>

\* Columns of PII_COLUMN_NAMES, one for each way that apply_to_record masks, and another.
PiiFields   == {"email", "full_name", "mobile", "date_of_birth"}
OtherFields == {"contact"}
Fields      == PiiFields \cup OtherFields

Patterned  == {"email", "ssn", "postcode", "ip"}   \* what detect_pii_in_value looks for
Values     == {"email", "ssn", "phone", "plain", "empty"}
Treatments == {"mask", "pseudonymize", "tokenize"}
Strategies == Treatments \cup {"encrypt"}           \* and one that does not exist

DetectValue(v) == v \in Patterned
DetectField(f) == f \in PiiFields

\* scan_record: a field's name counts before its value, even when it is empty.
ScanRecord(rec) ==
  [f \in {g \in DOMAIN rec : DetectField(g) \/ DetectValue(rec[g])} |->
     IF DetectField(f) THEN "column_name_heuristic" ELSE "pattern_match"]

\* A strategy that is none of the three changes nothing; what the others make of a value shows
\* none of the patterns.  A mobile number of four digits, which its mask leaves, counts as masked.
Handled(v, strategy) == IF strategy \in Treatments THEN strategy ELSE v

\* Mutant of ApplyToRecord: the values decide, as in the scan of the privacy sweep.
ApplyByValue(rec, strategy) ==
  [f \in DOMAIN rec |-> IF ~DetectValue(rec[f]) THEN rec[f] ELSE Handled(rec[f], strategy)]

\* apply_to_record: by the field's name alone.
ApplyToRecord(rec, strategy) ==
  [f \in DOMAIN rec |->
     IF rec[f] = "empty" \/ ~DetectField(f) THEN rec[f] ELSE Handled(rec[f], strategy)]

PrivacyInit == /\ original \in [Fields -> Values]
               /\ record = original
               /\ applied = {}

PrivacyNext == \E strategy \in Strategies :
                 /\ record' = ApplyToRecord(record, strategy)
                 /\ applied' = applied \cup {strategy}
                 /\ UNCHANGED original

PrivacySpec == PrivacyInit /\ [][PrivacyNext]_privacyVars

-----------------------------------------------------------------------------
Masks == {"mask_email", "mask_name", "mask_phone", "MASK_SHOW_FIRST_4"}

\* Characters of a local part, a word of a name, the digits of a number or a value of length n
\* that a mask leaves to be read.
Shown(mask, n) ==
  CASE mask = "mask_email" -> IF n > 1 THEN 1 ELSE 0
    [] mask = "mask_name"  -> 1
    [] mask = "mask_phone" -> IF n >= 4 THEN 4 ELSE 0
    [] mask = "MASK_SHOW_FIRST_4" -> IF n >= 4 THEN 4 ELSE 0

-----------------------------------------------------------------------------
Zones == {"bronze", "silver", "gold"}
Permissions == ({"read", "write"} \X Zones) \cup {<<"access", "superset">>, <<"submit", "spark">>,
                                                  <<"manage", "airflow">>, <<"read", "api">>}
Roles == {"analyst", "engineer", "admin", "api_consumer", "guest"}
Full  == {"read", "write"} \X Zones

\* _ROLE_PERMISSIONS and check_access: a role that is not listed has no permission.
Granted(role) ==
  CASE role = "analyst"      -> {<<"read", "silver">>, <<"read", "gold">>, <<"access", "superset">>}
    [] role = "engineer"     -> Full \cup {<<"submit", "spark">>, <<"manage", "airflow">>}
    [] role = "admin"        -> Permissions
    [] role = "api_consumer" -> {<<"read", "gold">>, <<"read", "api">>}
    [] OTHER                 -> {}

\* get_masked_value: every role but admin, listed or not.
Masking(column, role) ==
  CASE role = "admin" -> "none"
    [] column = "email" -> "MASK_SHOW_FIRST_4"
    [] column \in {"full_name", "date_of_birth"} -> "MASK"
    [] OTHER -> "none"

\* finflow_policies.json: select on the databases, and the masks, of the groups behind two roles.
PolicyReads(role) == CASE role = "analyst" -> {"gold"} [] role = "engineer" -> Zones [] OTHER -> {}
PolicyMask(column, role) ==
  CASE role = "analyst" /\ column = "email"     -> "MASK_SHOW_FIRST_4"
    [] role = "analyst" /\ column = "full_name" -> "MASK"
    [] OTHER -> "none"

-----------------------------------------------------------------------------
(* However often a record is treated: what changes is what the scan finds *)
(* by name and holds something; the other fields, the ones found by value  *)
(* included, stay readable; and a scan of the treated record reports what  *)
(* the first one did, so that it cannot tell the two apart                 *)
(* (pii_engine.py:60-71, :194-229).                                        *)
ScanAndApplyAgree ==
  LET found  == ScanRecord(original)
      byName == {f \in DOMAIN found : found[f] = "column_name_heuristic"}
  IN  /\ ScanRecord(record) = found
      /\ {f \in Fields : record[f] # original[f]}
           = IF applied \cap Treatments = {} THEN {}
             ELSE {f \in byName : original[f] # "empty"}

(* A mask leaves at most four characters, and hides at least one, except   *)
(* of a one-letter name, a number of four digits and a value of four       *)
(* characters, which it leaves whole (pii_engine.py:104-122,               *)
(* ranger_client.py:83-84).                                                *)
MasksHide ==
  \A mask \in Masks, n \in 1..15 :
    /\ Shown(mask, n) <= 4
    /\ Shown(mask, n) < n \/ <<mask, n>> \in {<<"mask_name", 1>>, <<"mask_phone", 4>>,
                                              <<"MASK_SHOW_FIRST_4", 4>>}

(* The engine, which mirrors the policies by hand, masks whatever they     *)
(* mask, in the same way, and refuses no read that they allow; it shows a  *)
(* personal column to no role but admin; beyond them it lets analysts, and *)
(* nobody else but admin, read Silver (ranger_client.py:17-35, :46-87).    *)
EngineCoversPolicies ==
  \A role \in Roles :
    /\ \A z \in PolicyReads(role) : <<"read", z>> \in Granted(role)
    /\ \A c \in Fields : /\ PolicyMask(c, role) # "none" => Masking(c, role) = PolicyMask(c, role)
                         /\ c \in {"email", "full_name", "date_of_birth"} /\ Masking(c, role) = "none"
                              => role = "admin"
    /\ <<"read", "silver">> \in Granted(role) /\ "silver" \notin PolicyReads(role)
         => role \in {"analyst", "admin"}

(* What is scanned, what is changed, what a mask hides and who may read it *)
(* agree with each other (pii_engine.py, ranger_client.py).                *)
PrivacyRulesAgree == ScanAndApplyAgree /\ MasksHide /\ EngineCoversPolicies
=============================================================================
