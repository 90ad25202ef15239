---------------------------- MODULE FeishuFrame ----------------------------
(***************************************************************************)
(* The frames of Feishu's long connection: encode_frame, decode_frame and  *)
(* _handle_ws_frame of channels/feishu.py, and the same in the client.js   *)
(* of plugins/dsh-feishu.  A frame is numbers, headers and a payload in a  *)
(* protobuf message; a client acknowledges an event by sending its frame   *)
(* back with another payload.  A behaviour is one frame.                   *)
(*                                                                         *)
(* The plugin keeps numbers as doubles: above Exact they are rounded.      *)
(* Texts are sequences of bytes, and valid UTF-8.                          *)
(***************************************************************************)
EXTENDS Naturals, Sequences, SequencesExt, FiniteSetsExt

CONSTANTS
  Base,     (* a byte below it ends a number: 2^7                          *)
  Modulus,  (* numbers are taken modulo it: 2^64                           *)
  Exact,    (* client -> it keeps numbers below that; 2^53 for the plugin  *)
  Frames,   (* of the service                                              *)
  Type,     (* key of the header that says what a frame is                 *)
  Event,    (* its value for an event                                      *)
  Json,     (* payloads that can be parsed                                 *)
  Ok        (* payload of an acknowledgement                               *)

Bytes == 0 .. 2 * Base - 1
Texts == Seq(Bytes)
FrameType == [seq : 0 .. Modulus - 1, log : 0 .. Modulus - 1, service : 0 .. Modulus - 1,
              method : 0 .. Modulus - 1, headers : Seq([key : Texts, value : Texts]),
              payload : Texts]

ASSUME FrameAssumption ==
  /\ Base \in Nat \ {0, 1} /\ Modulus \in Nat /\ \A c \in DOMAIN Exact : Exact[c] \in Nat
  /\ Frames \subseteq FrameType /\ Ok \in Texts /\ <<>> \notin Json
  (* The payload of an event is one object: no beginning of it can be parsed. *)
  /\ \A f \in Frames : \A n \in 0 .. Len(f.payload) - 1 : SubSeq(f.payload, 1, n) \notin Json

VARIABLES
  client,  (* who handles the frame                                        *)
  frame,   (* what the service has sent                                    *)
  bytes,   (* what arrives of it                                           *)
  handled, (* "waiting", "ignored" or "acknowledged"                       *)
  ack      (* the bytes that go back                                       *)

frameVars == <<client, frame, bytes, handled, ack>>

-----------------------------------------------------------------------------
(* Mutant of Varint: a number that needs two bytes is put in one. *)
VarintTight(n) ==
  LET groups[m \in Nat] ==
        IF m <= Base THEN <<m>> ELSE <<Base + (m % Base)>> \o groups[m \div Base]
  IN  groups[n % Modulus]

(* The digits of a number, the lowest first, all but the last one marked.  *)
Varint(n) ==
  LET groups[m \in Nat] ==
        IF m < Base THEN <<m>> ELSE <<Base + (m % Base)>> \o groups[m \div Base]
  IN  groups[n % Modulus]

(* A field has a number, or the length of its data and these.              *)
Number(id, n)   == [field |-> id, wire |-> 0, number |-> n, data |-> <<>>]
Chunk(id, data) == [field |-> id, wire |-> 2, number |-> Len(data), data |-> data]

EncodeField(f) == (Varint(f.field * 8 + f.wire) \o Varint(f.number)) \o f.data
Encode(fields) == FlattenSeq([i \in DOMAIN fields |-> EncodeField(fields[i])])
EncodeHeader(h) == Encode(<<Chunk(1, h.key), Chunk(2, h.value)>>)

(* Without a number or a payload that is zero or empty, but for two. *)
FieldsOf(f) ==
  LET If(here, x) == IF here THEN <<x>> ELSE <<>> IN
     If(f.seq # 0, Number(1, f.seq)) \o If(f.log # 0, Number(2, f.log))
  \o <<Number(3, f.service), Number(4, f.method)>>
  \o [i \in DOMAIN f.headers |-> Chunk(5, EncodeHeader(f.headers[i]))]
  \o If(f.payload # <<>>, Chunk(8, f.payload))

EncodeFrame(f) == Encode(FieldsOf(f))

(* What a client keeps holds the keys of all fields, the highest of which  *)
(* is the payload's, and the lengths of what is sent.                      *)
ASSUME LengthAssumption ==
  \A n \in {Modulus} \cup {Exact[c] : c \in DOMAIN Exact} :
    /\ 8 * 8 + 2 < n
    /\ \A f \in Frames : Len(EncodeFrame(f)) < n
    /\ Len(Ok) < n

-----------------------------------------------------------------------------
(* Where the number that begins at i ends; 0 if it does not. *)
End(s, i) == LET last == {j \in i .. Len(s) : s[j] < Base}
             IN  IF last = {} THEN 0 ELSE Min(last)

(* To the nearest double, the even one of two. *)
Rounded(n, exact) ==
  LET step[m \in Nat] == IF m < exact THEN 1 ELSE 2 * step[m \div 2]
      unit == step[n]
      half == 2 * (n % unit)
      up   == half > unit \/ (half = unit /\ (n \div unit) % 2 = 1)
  IN  ((n \div unit) + IF up THEN 1 ELSE 0) * unit

(* The number between two places. *)
NumberAt(s, i, j, exact) ==
  LET from[k \in i .. j + 1] == IF k > j THEN 0 ELSE (s[k] % Base) + Base * from[k + 1]
  IN  Rounded(from[i], exact)

Raised == [field |-> 0, wire |-> 7, number |-> 0, data |-> <<>>]

(* The field that begins at i, and where the next one does; the last one   *)
(* if it raises.  In a header the wire type is not looked at.  A chunk     *)
(* that is cut short is taken as it is.                                    *)
FieldAt(s, i, exact, inHeader) ==
  LET j    == End(s, i)
      k    == End(s, j + 1)
      key  == NumberAt(s, i, j, exact)
      wire == IF inHeader THEN 2 ELSE key % 8
      n    == NumberAt(s, j + 1, k, exact)
  IN  IF j = 0 \/ k = 0 \/ wire \notin {0, 2}
      THEN [field |-> Raised, next |-> Len(s) + 1]
      ELSE [field |-> [field |-> key \div 8, wire |-> wire, number |-> n,
                       data |-> IF wire = 0 THEN <<>>
                                ELSE SubSeq(s, k + 1, Min({k + n, Len(s)}))],
            next |-> IF wire = 0 THEN k + 1 ELSE k + n + 1]

(* The fields of a message, up to one that raises. *)
Fields(s, exact, inHeader) ==
  LET from[i \in Nat] ==
        IF i > Len(s) THEN <<>>
        ELSE LET f == FieldAt(s, i, exact, inHeader) IN <<f.field>> \o from[f.next]
  IN  from[1]

Broken(fields) == \E i \in DOMAIN fields : fields[i] = Raised

(* Of the fields of a kind, where they are; the last one, that counts if   *)
(* there may be only one; and all of them, in their order.                 *)
Places(fields, wire, id) == {i \in DOMAIN fields : fields[i].wire = wire /\ fields[i].field = id}

LastOf(fields, wire, id) ==
  LET places == Places(fields, wire, id)
  IN  IF places = {} THEN Number(id, 0) ELSE fields[Max(places)]

AllOf(fields, wire, id) ==
  LET places == Places(fields, wire, id)
  IN  [n \in 1 .. Cardinality(places) |->
         fields[CHOOSE i \in places : Cardinality({j \in places : j <= i}) = n]]

DecodeHeader(chunk, exact) ==
  LET fields == Fields(chunk, exact, TRUE)
  IN  [key |-> LastOf(fields, 2, 1).data, value |-> LastOf(fields, 2, 2).data]

(* What decode_frame returns: one frame, or none when it raises. *)
DecodeFrame(s, exact) ==
  LET fields   == Fields(s, exact, FALSE)
      headers  == AllOf(fields, 2, 5)
      value(i) == LastOf(fields, 0, i).number
  IN  IF \/ Broken(fields)
         \/ \E i \in DOMAIN headers : Broken(Fields(headers[i].data, exact, TRUE))
      THEN {}
      ELSE {[seq |-> value(1), log |-> value(2), service |-> value(3), method |-> value(4),
             headers |-> [i \in DOMAIN headers |-> DecodeHeader(headers[i].data, exact)],
             payload |-> LastOf(fields, 2, 8).data]}

-----------------------------------------------------------------------------
(* The last header with the key counts. *)
IsEvent(f) ==
  LET types == {i \in DOMAIN f.headers : f.headers[i].key = Type}
  IN  types # {} /\ f.headers[Max(types)].value = Event

(* Frames come whole or, so that a decoder must notice it, cut short. *)
FrameInit ==
  /\ client \in DOMAIN Exact /\ frame \in Frames
  /\ bytes \in {SubSeq(EncodeFrame(frame), 1, n) : n \in 1 .. Len(EncodeFrame(frame))}
  /\ handled = "waiting" /\ ack = <<>>

HandleFrame ==
  /\ handled = "waiting"
  /\ LET events == {f \in DecodeFrame(bytes, Exact[client]) :
                      f.method = 1 /\ IsEvent(f) /\ f.payload \in Json}
     IN  /\ handled' = IF events = {} THEN "ignored" ELSE "acknowledged"
         /\ ack' \in IF events = {} THEN {<<>>}
                     ELSE {EncodeFrame([f EXCEPT !.payload = Ok]) : f \in events}
  /\ UNCHANGED <<client, frame, bytes>>

FrameSpec == FrameInit /\ [][HandleFrame]_frameVars

-----------------------------------------------------------------------------
Whole == bytes = EncodeFrame(frame)
Keeps == \A n \in {frame.seq, frame.log, frame.service} : n < Exact[client]

(* An event is acknowledged by "the same frame" with another payload       *)
(* (feishu.py:60): what the service reads of the acknowledgement is what   *)
(* it has sent, as long as the client can keep its numbers; and what was   *)
(* cut short is not acknowledged.                                          *)
AckIsTheSameFrame ==
  /\ handled = "acknowledged" =>
       Whole /\ (Keeps => DecodeFrame(ack, Modulus) = {[frame EXCEPT !.payload = Ok]})
  /\ handled = "ignored" /\ Whole =>
       frame.method # 1 \/ ~IsEvent(frame) \/ frame.payload \notin Json
=============================================================================
