-------------------------------- MODULE Decoder --------------------------------
(* The decoding of a log (decoder/evm/raw_events.go) and of the bytes of a       *)
(* MetadataSet event (metadata.go, tags.go), and the agent document such events  *)
(* are applied to (handleMetadataSet). Bytes are known by their number, by the    *)
(* number that each word of them spells, and by the stretches that are text.      *)
EXTENDS Integers, FiniteSets

CONSTANTS WordLen,      \* bytes of an ABI word: 32
          AddressLen,   \* bytes of an address: 20
          MaxInt,       \* largest int; a uint64 is at most twice that, plus one
          RawLogs,      \* raw logs: records [topics, known, data, inputs]
          Keys,         \* metadata keys: records [name, kind, promoted]
          Values        \* metadata values: Bytes

\* len bytes; word[i], the number spelt from byte i on, where a word fits; text, the
\* stretches <<from, to>> that are mostly printable; json: what is text is JSON, and no string. (An event has
\* its bytes in hexadecimal, so the case of a value that is not is left out.)
Bytes == [len : Nat, word : [Nat -> Nat], text : SUBSET (Nat \X Nat), json : BOOLEAN]

\* kind: the rule for exactly this key; promoted: the field that the key, in any
\* case, is copied to.
ASSUME DecoderAssumption ==
    /\ WordLen \in Nat \ {0} /\ AddressLen \in Nat /\ AddressLen <= WordLen /\ MaxInt \in Nat
    /\ \A k \in Keys : k.kind \in {"address", "number", "text", ""} /\ k.promoted \in {"wallet", "tags", ""}
    /\ \A b \in Values : /\ b.len \in Nat /\ 0..(b.len - WordLen) \subseteq DOMAIN b.word
                         /\ \A i \in DOMAIN b.word : b.word[i] \in Nat

VARIABLES events,       \* decoded logs: what is stored of each
          metadata,     \* onchainMetadata: key -> value and result, or NoValue
          promoted      \* agentWallet and tags: the same

decoderVars == <<events, metadata, promoted>>

-------------------------------------------------------------------------------
(* DecodeLog: topics is the number of topics; known: the first is an event of a  *)
(* valid ABI; data is "none", "ok" or "bad"; inputs come in the order of the ABI. *)

Rejected == [ok |-> FALSE, args |-> {}]
IsDynamic(type) == type \in {"string", "bytes", "array", "tuple"}
\* The indexed inputs take the topics in order, as long as there are any.
HasTopic(l, i) == Cardinality({j \in 1..i : l.inputs[j].indexed}) < l.topics
\* Of a dynamic input that is indexed there is only a hash.
Recovered(input) == IF input.indexed /\ IsDynamic(input.type) THEN "hash" ELSE "value"

\* A first topic that names an event of the ABI, when the ABI can be built.
Recognised(l) == l.topics > 0 /\ l.known

DecodeLog(l) ==
    LET Plain == {i \in DOMAIN l.inputs : ~l.inputs[i].indexed}
        Given == {i \in DOMAIN l.inputs : IF i \in Plain THEN l.data = "ok" ELSE HasTopic(l, i)}
    IN  IF ~Recognised(l) \/ (l.data = "bad" /\ Plain # {}) THEN Rejected
        ELSE [ok |-> TRUE, args |-> {<<i, Recovered(l.inputs[i])>> : i \in Given}]

\* eventdecoder.Handle: a log that cannot be decoded is dropped, one that comes
\* again is written over.
Ingest(l) ==
    /\ DecodeLog(l).ok /\ events' = [events EXCEPT ![l] = DecodeLog(l)]
    /\ UNCHANGED <<metadata, promoted>>

-------------------------------------------------------------------------------
(* DecodeMetadataValue.                                                          *)

Slice(from, to) == [found |-> TRUE, from |-> from, to |-> to]
Nothing == [found |-> FALSE, from |-> 0, to |-> 0]

\* The sum of two ints wraps.
IntSum(a, b) == IF a + b > MaxInt THEN a + b - 2 * (MaxInt + 1) ELSE a + b

\* Mutant of OutOfBytes: the sum is taken not to wrap.
MutOutOfBytes(from, to, len) == to > len
OutOfBytes(from, to, len) == to > len \/ to < from

\* decodeABIString: a word with the offset of the length, the length, the text.
DecodeABIString(b) ==
    LET offset == b.word[0]
        start == offset + WordLen
        length == b.word[offset]
        end == IntSum(start, length)
    IN  IF \/ b.len < WordLen
           \/ offset > MaxInt \/ offset > b.len - WordLen
           \/ length = 0 \/ length > MaxInt
           \/ OutOfBytes(start, end, b.len)
        THEN Nothing ELSE Slice(start, end)

AbiText(b) == LET s == DecodeABIString(b) IN
              IF <<s.from, s.to>> \in b.text THEN s ELSE Nothing
AsciiText(b) == IF b.len > 0 /\ <<0, b.len>> \in b.text THEN Slice(0, b.len) ELSE Nothing
AddressLike(b) == b.len \in {AddressLen, WordLen}

Decoded(type, slice) == [type |-> type, slice |-> slice]
AddressOf(b) == Decoded("address", Slice(b.len - AddressLen, b.len))
TextOf(b) == Decoded("text", IF AbiText(b).found THEN AbiText(b) ELSE AsciiText(b))
IsText(b) == AbiText(b).found \/ AsciiText(b).found

\* For a key without a rule, or a value its rule does not fit. A word is taken for
\* an address, so no number is ever found here.
Guess(b) ==
    CASE AbiText(b).found -> TextOf(b)
      [] ~AbiText(b).found /\ AddressLike(b) -> AddressOf(b)
      [] ~AbiText(b).found /\ ~AddressLike(b) /\ AsciiText(b).found -> TextOf(b)
      [] OTHER -> Decoded("raw", Nothing)

DecodeMetadataValue(kind, b) ==
    CASE b.len = 0 -> Decoded("empty", Nothing)
      [] b.len > 0 /\ kind = "address" /\ AddressLike(b) -> AddressOf(b)
      [] b.len > 0 /\ kind = "number" /\ b.len = WordLen -> Decoded("number", Slice(0, b.len))
      [] b.len > 0 /\ kind = "text" /\ IsText(b) -> TextOf(b)
      [] OTHER -> Guess(b)

-------------------------------------------------------------------------------
(* handleMetadataSet.                                                            *)

NoValue == [set |-> FALSE]
Kept(k, b) == LET d == DecodeMetadataValue(k.kind, b) IN
              IF d.type = "empty" THEN NoValue ELSE [set |-> TRUE, bytes |-> b, as |-> d]

IsJson(v) == v.set /\ v.as.type = "text" /\ v.bytes.json

\* agentWallet is kept when the value is no string; tags are a list or nothing.
Promote(k, v) ==
    CASE k.promoted = "wallet" -> IF IsJson(v) THEN promoted ELSE [promoted EXCEPT !.wallet = v]
      [] k.promoted = "tags" -> [promoted EXCEPT !.tags = IF IsJson(v) THEN v ELSE NoValue]
      [] OTHER -> promoted

SetMetadata(k, b) ==
    /\ metadata' = [metadata EXCEPT ![k] = Kept(k, b)]
    /\ promoted' = Promote(k, Kept(k, b))
    /\ UNCHANGED events

DecoderInit ==
    /\ events = [l \in RawLogs |-> Rejected]
    /\ metadata = [k \in Keys |-> NoValue] /\ promoted = [wallet |-> NoValue, tags |-> NoValue]
DecoderNext ==
    \/ \E l \in RawLogs : Ingest(l)
    \/ \E k \in Keys, b \in Values : SetMetadata(k, b)
DecoderSpec == DecoderInit /\ [][DecoderNext]_decoderVars

-------------------------------------------------------------------------------
(* Properties.                                                                   *)

InBounds(v) == v.set /\ v.as.slice.found =>
                  0 <= v.as.slice.from /\ v.as.slice.from <= v.as.slice.to /\ v.as.slice.to <= v.bytes.len

\* Whatever a MetadataSet event carries, offset and length in its bytes included, what
\* is cut out of it lies within it: a slice that does not would end the processor
\* (metadata.go decodeABIString and its int conversions, on any width of an int).
SlicesInBounds ==
    /\ \A k \in Keys : InBounds(metadata[k])
    /\ \A f \in {"wallet", "tags"} : InBounds(promoted[f])
================================================================================
