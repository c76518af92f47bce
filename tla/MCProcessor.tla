------------------------------ MODULE MCProcessor ------------------------------
(* Small instances of the parts of the processor, one per behaviour.           *)
(* Identity: one agent registered, rated by its owner and then transferred, and *)
(* a second one rated before it is registered, whose wallet is set and cleared, *)
(* in batches of three events. Scale: two chains that share a tag pair, with a  *)
(* vote for star5, one for a wider scale and one that fits none. Triage: pairs  *)
(* of tags of every kind. Decoder: words of two bytes, addresses of one, ints   *)
(* up to 7.                                                                     *)
EXTENDS Processor, TLC

CONSTANTS a1, a2, o1, o2, c1, c2, f1, f2, f3,
          none, good, speed, spam, number, emoji, odd

\* Identity.
Event(k, a, o) == [kind |-> k, agent |-> a, addr |-> o]
MCLog == <<Event("registered", a1, o1), Event("feedback", a1, o1),
           Event("transfer", a1, NoAddr), Event("transfer", a1, o2),
           Event("feedback", a2, o1), Event("registered", a2, o2),
           Event("wallet", a2, o1), Event("feedback", a2, o1),
           Event("wallet", a2, NoAddr), Event("uri", a1, NoAddr)>>

\* Scale and triage.
MCClassesOf == (good :> {"quality", "keyword"}) @@ (none :> {"empty"}) @@ (speed :> {"metric", "infra"})
               @@ (spam :> {"spam"}) @@ (number :> {"digits"}) @@ (emoji :> {"emoji"}) @@ (odd :> {})
MCChainOf == (f1 :> c1) @@ (f2 :> c2) @@ (f3 :> c1)
MCTierOf == (f1 :> "star5") @@ (f2 :> "pct100") @@ (f3 :> "unbounded")
MCTagPairs == {<<good, none>>, <<good, speed>>, <<spam, good>>, <<number, number>>, <<emoji, none>>,
               <<odd, none>>, <<none, none>>}
MCAmounts == {-10, 40}

\* Decoder.
Input(type, indexed) == [type |-> type, indexed |-> indexed]
MCInputs == <<Input("uint", TRUE), Input("string", TRUE), Input("string", FALSE)>>
MCRawLogs == [topics : {0, 2, 3}, known : {TRUE}, data : {"ok", "bad"}, inputs : {MCInputs}]
MCKeys == {[name |-> "agentWallet", kind |-> "address", promoted |-> "wallet"],
           [name |-> "tags", kind |-> "text", promoted |-> "tags"],
           [name |-> "TAGS", kind |-> "", promoted |-> "tags"]}
\* Bytes of a length, the word at byte 0 an offset and the word there a length.
Spelt(len, offset, length, text, json) ==
    [len |-> len, word |-> [i \in 0..9 |-> IF i = 0 THEN offset ELSE length], text |-> text, json |-> json]
MCValues == {Spelt(0, 9, 9, {}, FALSE), Spelt(1, 9, 9, {<<0, 1>>}, FALSE), Spelt(2, 9, 9, {<<0, 2>>}, TRUE),
             Spelt(6, 2, 2, {<<4, 6>>}, TRUE), Spelt(6, 2, 7, {<<4, -5>>}, FALSE), Spelt(6, 5, 1, {<<7, 8>>}, FALSE),
             Spelt(6, 8, 1, {<<0, 6>>}, FALSE), Spelt(6, 2, 3, {<<4, 7>>}, FALSE), Spelt(2, 0, 3, {<<2, 5>>}, FALSE)}
===============================================================================
