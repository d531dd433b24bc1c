---------------------------- MODULE AddressRecords --------------------------
(***************************************************************************)
(* One record's way: the owner's text is encoded to the bytes the resolver *)
(* stores (the web's codec), or another client stores its own; the API     *)
(* decodes the bytes and answers; the SDK checks the answer. Beside it, an *)
(* address the API is asked to store and the SDK is shown by /resolve.     *)
(*                                                                         *)
(* A text is what its alphabet decodes to: base58 to bytes, segwit to its  *)
(* code, version and program, hex to bytes, with the letters' case. A hash *)
(* or key is one byte repeated.                                            *)
(***************************************************************************)
EXTENDS Integers, Sequences

CONSTANTS
  Fill,     \* the bytes that keys and hashes are made of
  Lengths   \* the lengths of programs and of other clients' bytes

(* A push names its length in one byte.                                    *)
RecordConstants == Fill \subseteq 0 .. 255 /\ Lengths \subseteq 0 .. 255

VARIABLES
  stage,    \* "input", "stored", "answered", "parsed"
  coin,     \* the record's coin type
  text,     \* the owner's text, or None
  value,    \* the bytes the resolver stores
  body,     \* the API's answer
  parsed    \* what the SDK's caller is given

vars == <<stage, coin, text, value, body, parsed>>

(* A coin type is a uint256, here as its bits from the 31st and the rest.  *)
BTC == [high |-> 0, low |-> 0]
ETH == [high |-> 0, low |-> 60]
SOL == [high |-> 0, low |-> 501]
BASE == [high |-> 1, low |-> 8453]
Beyond == [high |-> 2, low |-> 60]
Coin == {BTC, ETH, SOL, BASE, Beyond}
Chain == {BTC, ETH, SOL}
IsEvm(c) == c = ETH \/ c.high = 1

Bytes(n, b) == [i \in 1 .. n |-> b]
(* The first four bytes of a double SHA-256, as a checksum that sees both  *)
(* ends of what it sums.                                                   *)
Checksum(p) == Bytes(4, (3 * p[1] + p[Len(p)]) % 256)
Versioned(v, h) == <<v>> \o h
Checked(p) == p \o Checksum(p)
IsChecked(p) == Len(p) = 25 /\ SubSeq(p, 22, 25) = Checksum(SubSeq(p, 1, 21))

None == [form |-> "none"]
Hex == [form : {"hex"}, case : {"lower", "upper", "checksum", "mixed"},
        bytes : {Bytes(n, b) : n \in Lengths, b \in Fill}]
Base58 ==
  [form : {"base58"},
   bytes : {Bytes(n, b) : n \in Lengths, b \in Fill}
     \cup {Checked(Versioned(v, Bytes(n, b))) :
             v \in {0, 5, 111}, n \in {19, 20}, b \in Fill}
     \cup {Versioned(v, Bytes(24, b)) : v \in {0, 5}, b \in Fill}]
Segwit ==
  [form : {"segwit"}, case : {"lower", "upper", "mixed"},
   code : {"bech32", "bech32m"}, version : {0, 1, 2, 16, 17},
   bytes : {Bytes(n, b) : n \in Lengths, b \in Fill}]
Text == Hex \cup Base58 \cup Segwit

-----------------------------------------------------------------------------
(* Output scripts: the pushes and opcodes around a hash or a program.      *)
P2PKH(h) == <<118, 169, 20>> \o h \o <<136, 172>>
P2SH(h) == <<169, 20>> \o h \o <<135>>
Pushed(code, n, p) == <<code, n>> \o p
Witness(v, p) == Pushed(IF v = 0 THEN 0 ELSE 80 + v, Len(p), p)
Body(s, first, last) == SubSeq(s, first, Len(s) - last)

Legacy(v, h) ==
  [form |-> "base58", bytes |-> Checked(Versioned(v, h))]
Bech(v, p) ==
  [form |-> "segwit", case |-> "lower", version |-> v, bytes |-> p,
   code |-> IF v = 0 THEN "bech32" ELSE "bech32m"]

(* decodeBitcoinScript. A script is told by its length and its fixed bytes.*)
DecodeBitcoinScript(s) ==
  CASE Len(s) = 25 /\ s = P2PKH(Body(s, 4, 2)) -> Legacy(0, Body(s, 4, 2))
    [] Len(s) = 23 /\ s = P2SH(Body(s, 3, 1)) -> Legacy(5, Body(s, 3, 1))
    [] Len(s) \in {22, 34} /\ s = Witness(0, Body(s, 3, 0)) ->
         Bech(0, Body(s, 3, 0))
    [] Len(s) = 34 /\ s = Witness(1, Body(s, 3, 0)) -> Bech(1, Body(s, 3, 0))
    [] OTHER -> None

(* decodeAddress: what the bytes of a record say, or null.                 *)
DecodeAddress(c, s) ==
  CASE IsEvm(c) /\ Len(s) = 20 ->
         [form |-> "hex", case |-> "checksum", bytes |-> s]
    [] c = SOL /\ Len(s) = 32 -> [form |-> "base58", bytes |-> s]
    [] c = BTC -> DecodeBitcoinScript(s)
    [] OTHER -> None

(* encodeAddress, which throws (Refused) at what it cannot encode.         *)
Refused == <<-1>>
EncodeBitcoinScript(t) ==
  CASE t.form = "segwit" /\ t.case # "mixed" /\ t.version = 0
         /\ t.code = "bech32" /\ Len(t.bytes) \in {20, 32} -> Witness(0, t.bytes)
    [] t.form = "segwit" /\ t.case # "mixed" /\ t.version = 1
         /\ t.code = "bech32m" /\ Len(t.bytes) = 32 -> Witness(1, t.bytes)
    [] t.form = "base58" /\ IsChecked(t.bytes) /\ t.bytes[1] = 0 ->
         P2PKH(SubSeq(t.bytes, 2, 21))
    [] t.form = "base58" /\ IsChecked(t.bytes) /\ t.bytes[1] = 5 ->
         P2SH(SubSeq(t.bytes, 2, 21))
    [] OTHER -> Refused
EncodeAddress(c, t) ==
  CASE IsEvm(c) /\ t.form = "hex" /\ t.case # "mixed" /\ Len(t.bytes) = 20 -> t.bytes
    [] c = SOL /\ t.form = "base58" /\ Len(t.bytes) = 32 -> t.bytes
    [] c = BTC -> EncodeBitcoinScript(t)
    [] OTHER -> Refused

-----------------------------------------------------------------------------
(* What the API stores when it is asked to (utils/addresses.ts), folded    *)
(* where case means nothing.                                               *)
WitnessLengths(v) == IF v = 0 THEN {20, 32} ELSE 2 .. 40
ApiAccepts(c, t) ==
  CASE c = ETH -> t.form = "hex" /\ Len(t.bytes) = 20 /\ t.case # "mixed"
    [] c = SOL -> t.form = "base58" /\ Len(t.bytes) = 32
    [] c = BTC ->
         \/ t.form = "base58" /\ IsChecked(t.bytes) /\ t.bytes[1] \in {0, 5}
         \/ /\ t.form = "segwit" /\ t.case # "mixed" /\ t.version <= 16
            /\ (t.version = 0) = (t.code = "bech32")
            /\ Len(t.bytes) \in WitnessLengths(t.version)
    [] OTHER -> FALSE
Canonical(t) == IF t.form = "base58" THEN t ELSE [t EXCEPT !.case = "lower"]

(* The SDK's own checks: no checksum of base58, no case of hex.            *)
DecodeSegwit(t) ==
  /\ t.form = "segwit" /\ t.case # "mixed" /\ t.version <= 16
  /\ t.code = (IF t.version = 0 THEN "bech32" ELSE "bech32m")
  /\ Len(t.bytes) \in WitnessLengths(t.version)
DecodeBitcoinBase58(t) ==
  t.form = "base58" /\ Len(t.bytes) = 25 /\ t.bytes[1] \in {0, 5}
IsValidAddress(c, t) ==
  CASE c = ETH -> t.form = "hex" /\ Len(t.bytes) = 20
    [] c = SOL -> t.form = "base58" /\ Len(t.bytes) = 32
    [] c = BTC -> DecodeSegwit(t) \/ DecodeBitcoinBase58(t)
RecordValueFor(c, t) ==
  IF ~IsValidAddress(c, t) THEN Refused
  ELSE CASE c \in {ETH, SOL} -> t.bytes
         [] c = BTC /\ t.form = "segwit" -> Witness(t.version, t.bytes)
         [] c = BTC /\ t.form = "base58" ->
              IF t.bytes[1] = 0 THEN P2PKH(SubSeq(t.bytes, 2, 21))
              ELSE P2SH(SubSeq(t.bytes, 2, 21))

(* buildResolveBody: the record, and the address by chain.                 *)
BuildBody(c, v) ==
  LET address == DecodeAddress(c, v) IN
  [coin |-> c, value |-> v, address |-> address,
   shown |-> IF c \in Chain THEN address ELSE None]

(* parseOnchainResolveResponse: the address shown must be the record's and *)
(* say what its bytes say.                                                 *)
Unparsed == [ok |-> FALSE, address |-> None]
AgreesInText(b) == b.address = b.shown
Agrees(b) ==
  IF b.coin \notin Chain THEN b.shown = None
  ELSE IF b.address = None THEN b.shown = None
  ELSE b.shown = b.address /\ RecordValueFor(b.coin, b.shown) = b.value
Parse(b) == IF Agrees(b) THEN [ok |-> TRUE, address |-> b.shown] ELSE Unparsed

-----------------------------------------------------------------------------
NoBody == [coin |-> BTC, value |-> <<>>, address |-> None, shown |-> None]
Init ==
  /\ stage = "input" /\ coin \in Coin
  /\ text = None /\ value = <<>> /\ body = NoBody /\ parsed = Unparsed

(* The owner's page encodes, or refuses what does not encode.              *)
Encodes(t) ==
  /\ stage = "input"
  /\ EncodeAddress(coin, t) # Refused
  /\ stage' = "stored" /\ text' = t /\ value' = EncodeAddress(coin, t)
  /\ UNCHANGED <<coin, body, parsed>>

(* Another client writes bytes of its own: a script, or anything.          *)
Raw ==
  {Bytes(n, b) : n \in Lengths, b \in Fill}
  \cup {Witness(v, Bytes(n, b)) : v \in {0, 1, 2, 16}, n \in Lengths, b \in Fill}
  \cup {Pushed(first, pushed, Bytes(n, b)) :
          first \in {0, 81}, pushed \in {20, 32}, n \in Lengths, b \in Fill}
  \cup {P2PKH(Bytes(n, b)) : n \in Lengths, b \in Fill}
  \cup {P2SH(Bytes(n, b)) : n \in Lengths, b \in Fill}
SetsRaw ==
  /\ stage = "input"
  /\ value' \in Raw
  /\ stage' = "stored"
  /\ UNCHANGED <<coin, text, body, parsed>>

Answers ==
  /\ stage = "stored"
  /\ stage' = "answered" /\ body' = BuildBody(coin, value)
  /\ UNCHANGED <<coin, text, value, parsed>>

(* Something between them shows another address, well-formed.              *)
Tampered ==
  /\ stage = "answered" /\ coin \in Chain /\ body = BuildBody(coin, value)
  /\ \E t \in {u \in Text : IsValidAddress(coin, u)} :
       body' \in {[body EXCEPT !.shown = t],
                   [body EXCEPT !.shown = t, !.address = t]}
  /\ UNCHANGED <<stage, coin, text, value, parsed>>

Parses ==
  /\ stage = "answered"
  /\ stage' = "parsed" /\ parsed' = Parse(body)
  /\ UNCHANGED <<coin, text, value, body>>

Shown == stage = "parsed" /\ UNCHANGED vars

Next ==
  \/ (\E t \in Text : Encodes(t)) \/ SetsRaw
  \/ Answers \/ Tampered \/ Parses \/ Shown

Spec == Init /\ [][Next]_vars

-----------------------------------------------------------------------------
Untouched == body = BuildBody(coin, value)

TypeOK ==
  /\ stage \in {"input", "stored", "answered", "parsed"}
  /\ coin \in Coin /\ text \in Text \cup {None}
  /\ \A i \in DOMAIN value : value[i] \in 0 .. 255
  /\ parsed.ok \in BOOLEAN

(* A payer reads the address the owner typed, if not always its case, and
   never one that pays elsewhere: what the page encodes the API decodes back
   (codec.ts), what the API answers the SDK accepts (addresses.ts:5-7), and
   an address that says something else than the record's bytes it refuses
   (parse.ts:192-206).                                                     *)
RecordsReadBack ==
  /\ stage = "parsed" /\ Untouched => parsed.ok
  /\ stage = "parsed" /\ Untouched /\ text # None /\ coin \in Chain =>
       Canonical(parsed.address) = Canonical(text)
  /\ parsed.ok /\ parsed.address # None =>
       RecordValueFor(coin, parsed.address) = value
(* What the API stores it may show: the SDK accepts it (addresses.ts:5-7). *)
StoredIsShown ==
  stage = "input" /\ coin \in Chain =>
    \A t \in Text : ApiAccepts(coin, t) => IsValidAddress(coin, Canonical(t))
=============================================================================
