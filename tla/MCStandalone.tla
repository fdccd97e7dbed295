----------------------------- MODULE MCStandalone -----------------------------
(* The components that share no state with another: each behaviour runs    *)
(* one of them, and the variables of the others keep one value.            *)
EXTENDS Bootstrap, AtlasCatalog, NiFiClient, TickPrices, PrivacyRules, GoldTable

CONSTANTS Ticks, Users, Trades

VARIABLE part

MCConfig == <<Ticks, Trades, Users>>

\* In parts of a 400th of a cent: around half a cent, a cent and a dollar.
MCFirstPrices == {7400000, 4000000}
MCLivePrices == {1, 200, 201, 202, 400, 560, 39800, 40000, 7410000, NoNumber}
MCQuotes == {-1, 201, 8000000, NoNumber}
MCMoves == {-5, -1, 0, 2, 5}

vars == <<part, bootVars, atlasVars, nifiVars, priceVars, privacyVars, input>>

Init == /\ part \in {"kafka", "atlas", "nifi", "prices", "records", "tables"}
        \* a part that does not run starts in one state
        /\ BootInit    /\ (part # "kafka" => topics = {})
        /\ AtlasInit   /\ (part # "atlas" => atlasUp /\ provided = Foreign)
        /\ NiFiInit    /\ (part # "nifi" => nifi.up /\ nifi.secured /\ nifi.group = "none")
        /\ PriceInit   /\ (part # "prices" => cached = 7400000)
        /\ PrivacyInit /\ (part # "records" => original = [f \in Fields |-> "plain"])
        /\ GoldInit    /\ (part # "tables" => input.of = "rows")

Kafka    == part = "kafka" /\ BootNext
            /\ UNCHANGED <<atlasVars, nifiVars, priceVars, privacyVars, input>>
Atlas    == part = "atlas" /\ AtlasNext
            /\ UNCHANGED <<bootVars, nifiVars, priceVars, privacyVars, input>>
NiFi     == part = "nifi" /\ NiFiNext
            /\ UNCHANGED <<bootVars, atlasVars, priceVars, privacyVars, input>>
PriceOf  == part = "prices" /\ PriceNext
            /\ UNCHANGED <<bootVars, atlasVars, nifiVars, privacyVars, input>>
Records  == part = "records" /\ PrivacyNext
            /\ UNCHANGED <<bootVars, atlasVars, nifiVars, priceVars, input>>
Tables   == part = "tables" /\ GoldNext
            /\ UNCHANGED <<bootVars, atlasVars, nifiVars, priceVars, privacyVars>>

Next == /\ UNCHANGED part
        /\ Kafka \/ Atlas \/ NiFi \/ PriceOf \/ Records \/ Tables

Spec == Init /\ [][Next]_vars

(* The types of the parts with a control flow, and what ties their records *)
(* together.                                                               *)
ControlInv == BootInv /\ AtlasInv /\ NiFiInv
=============================================================================
