----------------------------- MODULE AtlasCatalog -----------------------------
(***************************************************************************)
(* governance/atlas_client.py: whether Atlas is there is decided once, at  *)
(* construction; every later call swallows its errors.  The catalog is     *)
(* registered entry by entry: three topics, three tables, and the three    *)
(* lineage processes between them.                                         *)
(*                                                                         *)
(* Atlas refuses an entry that refers to what it does not have: lineage to *)
(* an end, a table to its hive_db, an entity to a classification.  Nothing *)
(* in the repository registers the databases or loads the classifications  *)
(* of config/atlas/classifications.json, which has no INTERNAL: they are   *)
(* provided by somebody else, or not.                                      *)
(***************************************************************************)
EXTENDS Naturals, Sequences

CONSTANTS MaxOutages,    \* bound: times Atlas goes down
          MaxClients     \* bound: clients built, one after another

ASSUME AtlasConstants == MaxOutages \in Nat /\ MaxClients \in Nat

VARIABLES atlasUp,
          provided,   \* databases and classifications that Atlas has
          entities,   \* entries of the catalog that Atlas has
          client, outages, built

atlasVars == <<atlasUp, provided, entities, client, outages, built>>

KafkaTopics == {"stock-ticks", "trade-events", "user-events"}

\* Mutant of Catalog: the tables are registered after the lineage.
CatalogLineageFirst ==
  << "stock-ticks", "trade-events", "user-events",
     "kafka-to-bronze", "bronze-to-silver", "silver-to-gold", "bronze", "silver", "gold" >>

\* initialize_finflow_catalog
Catalog ==
  << "stock-ticks", "trade-events", "user-events", "bronze", "silver", "gold",
     "kafka-to-bronze", "bronze-to-silver", "silver-to-gold" >>

Names == {Catalog[i] : i \in 1..Len(Catalog)}

\* The inputs and outputs of a process.
Ends(x) == CASE x = "kafka-to-bronze"  -> {"stock-ticks", "bronze"}
             [] x = "bronze-to-silver" -> {"bronze", "silver"}
             [] x = "silver-to-gold"   -> {"silver", "gold"}
             [] OTHER -> {}

Database(zone) == <<"hive_db", zone>>
Tag(name)      == <<"classification", name>>

\* What an entity refers to that is not in the catalog.
Needs(x) == CASE x \in KafkaTopics -> {Tag("FINANCIAL")}
              [] x = "bronze" -> {Tag("FINANCIAL"), Tag("PUBLIC"), Database(x)}
              [] x \in {"silver", "gold"} -> {Tag("FINANCIAL"), Tag("INTERNAL"), Database(x)}
              [] OTHER -> {}

Foreign == UNION {Needs(x) : x \in Names}

\* All that must be provided for x to be accepted.
Rests(x) == Needs(x) \cup UNION {Needs(e) : e \in Ends(x)}

AtlasInit == /\ atlasUp \in BOOLEAN
             /\ provided \in SUBSET Foreign
             /\ entities = {}
             /\ client = [st |-> "none", available |-> FALSE, next |-> 1, calm |-> TRUE, known |-> {}]
             /\ outages = 0
             /\ built = 0

(* _check_availability, once.                                              *)
Construct == /\ client.st \in {"none", "done"}
             /\ built < MaxClients
             /\ built' = built + 1
             /\ client' = [st |-> "registering", available |-> atlasUp, next |-> 1, calm |-> atlasUp,
                           known |-> provided]
             /\ UNCHANGED <<atlasUp, provided, entities, outages>>

AtlasTakes(x) == atlasUp /\ Needs(x) \subseteq provided /\ Ends(x) \subseteq entities

(* _post: an unavailable Atlas is only logged, an error is swallowed.      *)
(* Registering an entity again replaces it.                                *)
Post == /\ client.st = "registering"
        /\ entities' = entities \cup {x \in {Catalog[client.next]} : client.available /\ AtlasTakes(x)}
        /\ client' = [client EXCEPT !.next = @ + 1,
                                    !.st = IF client.next = Len(Catalog) THEN "done" ELSE @]
        /\ UNCHANGED <<atlasUp, provided, outages, built>>

(* Somebody creates a database or a classification.                        *)
Provide == /\ atlasUp
           /\ \E f \in Foreign \ provided : provided' = provided \cup {f}
           /\ UNCHANGED <<atlasUp, entities, client, outages, built>>

GoesDown == /\ atlasUp
            /\ outages < MaxOutages
            /\ outages' = outages + 1
            /\ atlasUp' = FALSE
            /\ client' = [client EXCEPT !.calm = FALSE]
            /\ UNCHANGED <<provided, entities, built>>

ComesUp == /\ ~atlasUp
           /\ atlasUp' = TRUE
           /\ UNCHANGED <<provided, entities, client, outages, built>>

AtlasNext == Construct \/ Post \/ Provide \/ GoesDown \/ ComesUp

AtlasSpec == AtlasInit /\ [][AtlasNext]_atlasVars

-----------------------------------------------------------------------------
(* While Atlas has stayed up, all that was posted and rests on what it     *)
(* had at the start is there.                                              *)
PostedIsThere ==
  client.st # "none" /\ client.calm =>
    /\ atlasUp /\ client.available
    /\ \A i \in 1..(client.next - 1) : Rests(Catalog[i]) \subseteq client.known => Catalog[i] \in entities

(* Shapes of the catalog's state; nothing is there without what it rests   *)
(* on.                                                                     *)
AtlasInv == /\ atlasUp \in BOOLEAN
            /\ provided \subseteq Foreign
            /\ entities \subseteq {x \in Names : Rests(x) \subseteq provided}
            /\ client \in [st : {"none", "registering", "done"}, available : BOOLEAN,
                           next : 1..(Len(Catalog) + 1), calm : BOOLEAN, known : SUBSET Foreign]
            /\ client.known \subseteq provided
            /\ outages \in 0..MaxOutages /\ built \in 0..MaxClients
            /\ client.st = "registering" => client.next <= Len(Catalog)
            /\ client.st = "done" => client.next = Len(Catalog) + 1
            /\ PostedIsThere

(* A registration during which Atlas stayed up leaves every entry that     *)
(* rests on nothing missing at its start, lineage included, and also       *)
(* repairs what earlier ones lost; it leaves the whole catalog only if all *)
(* databases and classifications were provided, and one whose client found *)
(* Atlas down registers nothing, however soon it comes up                  *)
(* (atlas_client.py:38, :52-67, :110, :184-221).                           *)
CatalogComplete ==
  /\ client.st = "done" /\ client.calm =>
       {x \in Names : Rests(x) \subseteq client.known} \subseteq entities
  /\ entities = Names => provided = Foreign
=============================================================================
