-------------------------------- MODULE Codecs --------------------------------
(***************************************************************************)
(* A message on its way from a struct to bytes and back: the encoders and  *)
(* decoders of src/infra/ouch_proto.hpp, itch_proto.hpp and                *)
(* soupbintcp_proto.hpp, carried by a SoupBinTCP packet or by the Ethernet *)
(* frame of src/infra/packet_factory.hpp.                                  *)
(*                                                                         *)
(* The sender encodes and frames a message of its own, or the bytes are    *)
(* those of another program and anything.  The decoder of OUCH is a loop   *)
(* over the optional fields, one step here for each of its turns.  A       *)
(* message is [name, core, tags]: the values of the fixed fields, and      *)
(* the optional fields that are on the wire (OuchTagSet) with their values;*)
(* one that is not there has its default.                                  *)
(***************************************************************************)
EXTENDS MessageLayouts, TLC

CONSTANTS
  kMaxInboundSoupPacket,  \* 512: what the server takes
  kMaxSoupPacket,         \* 256: scratch_ of the outbound thread
  ClientPacket,           \* 128: packet of buildBatch()
  Messages,               \* messages of the programs here: [dir |-> set]
  Payloads,               \* payloads of others: set of [dir, bytes]
  Frames,                 \* frames of others: set of [dir, frame]
  MbufRooms,              \* bytes that a buffer of the packet pool holds
  Pads                    \* bytes that a network card adds to a frame

VARIABLES
  dir,      \* which decoder: a field of Known
  sent,     \* the message that was encoded, or NULL
  packet,   \* what the carrier delivers
  payload,  \* the bytes given to the decoder
  phase,    \* where encoder and decoder are
  r,        \* the WireReader of decode()
  msg       \* the message being decoded

vars == <<dir, sent, packet, payload, phase, r, msg>>

Init ==
  /\ r = [pos |-> 0, ok |-> TRUE] /\ msg = NULL
  /\ \/ /\ dir \in DOMAIN Known /\ sent \in Messages[dir]
        /\ packet = NULL /\ payload = <<>> /\ phase = "encode"
     \/ \E p \in Payloads :
          /\ dir = p.dir /\ payload = p.bytes
          /\ sent = NULL /\ packet = NULL /\ phase = "dispatch"
     \/ \E f \in Frames :
          /\ dir = f.dir /\ packet = f.frame
          /\ sent = NULL /\ payload = <<>> /\ phase = "frame"

HasAppendage(d) == d \in {"ouch_in", "ouch_out"}
-----------------------------------------------------------------------------
(* The optional fields to put on the wire, in the order of tags(). *)
Present(m) == SelectSeq(Layout[m.name].tags, LAMBDA t : t \in DOMAIN m.tags)

kAppendageLengthLen == 2
kTagValueHeaderLen == 2

(* Mutant: a TagValue is counted without its header. *)
encoded_sizeValues(d, m) ==
  CoreSize(m.name)
    + (IF HasAppendage(d)
       THEN kAppendageLengthLen
              + FoldLeft(LAMBDA n, t : n + TagField[t].w, 0, Present(m))
       ELSE 0)

encoded_size(d, m) ==
  CoreSize(m.name)
    + (IF HasAppendage(d)
       THEN kAppendageLengthLen
              + FoldLeft(LAMBDA n, t : n + kTagValueHeaderLen + TagField[t].w, 0, Present(m))
       ELSE 0)

(* One TagValue: its length counts the tag and the value. *)
TagValue(m, t) ==
  <<1 + TagField[t].w, OuchTag[t]>> \o write(TagField[t], m.tags[t])

(* The bytes of m, or none when out has no room for them. *)
encode(d, m, room) ==
  LET core == FlattenSeq([i \in DOMAIN m.core |-> write(Layout[m.name].core[i], m.core[i])])
      tags == FlattenSeq([i \in DOMAIN Present(m) |-> TagValue(m, Present(m)[i])])
      bytes == IF HasAppendage(d) THEN core \o store(Len(tags), kAppendageLengthLen) \o tags
               ELSE core
  IN  IF Len(bytes) <= room THEN bytes ELSE <<>>

kSoupHeaderLen == 3

(* The type of the packet that carries a payload: unsequenced, sequenced.  *)
PacketType(d, m) ==
  CASE d = "ouch_in" -> 85 [] d = "ouch_out" -> 83 [] OTHER -> Layout[m.name].type

(* The buffer that an encoder is given. *)
Room(d, m) ==
  CASE d = "ouch_in" -> IF DOMAIN m.tags = {} THEN ClientPacket ELSE kMaxInboundSoupPacket
    [] d = "ouch_out" -> kMaxSoupPacket
    [] OTHER -> kSoupHeaderLen + CoreSize(m.name)

write_header(type, payload_len, room) ==
  IF room < kSoupHeaderLen + payload_len \/ payload_len + 1 > 65535 THEN <<>>
  ELSE store(payload_len + 1, 2) \o <<type>>

(* encode_soup_unsequenced(), encode_soup_sequenced() and the encoders of  *)
(* the logins: 0 bytes written, and nothing is sent, if it does not fit.   *)
encode_soup ==
  /\ phase = "encode" /\ dir # "itch"
  /\ LET len == encoded_size(dir, sent)
         header == write_header(PacketType(dir, sent), len, Room(dir, sent))
         bytes == encode(dir, sent, len)
     IN  IF header # <<>> /\ Len(bytes) = len
         THEN packet' = [bytes |-> header \o bytes] /\ phase' = "soup"
         ELSE packet' = NULL /\ phase' = "lost"
  /\ UNCHANGED <<dir, sent, payload, r, msg>>

kEthernetHeaderLen == 14
kIPv4HeaderLen == 20
IPPROTO == [itch |-> 17, ouch_in |-> 6, ouch_out |-> 6]
TransportHeaderLen(d) == IF IPPROTO[d] = 6 THEN 20 ELSE 8
HeaderLen(d) == kEthernetHeaderLen + kIPv4HeaderLen + TransportHeaderLen(d)
RTE_ETHER_TYPE_IPV4 == 2048

(* build_packet() with append_payload(): no packet when the pool has none, *)
(* when the message has no room behind the headers, or when the encoder    *)
(* disagrees with encoded_size().  The headers are those of the library,   *)
(* and on its way the frame may be padded at its end.                      *)
build_packet ==
  /\ phase = "encode" /\ dir \in DOMAIN IPPROTO
  /\ LET len == encoded_size(dir, sent)
         bytes == encode(dir, sent, len)
     IN  \/ phase' = "unsent" /\ UNCHANGED packet
         \/ \E room \in MbufRooms, pad \in Pads :
              IF HeaderLen(dir) + len > room THEN phase' = "unsent" /\ UNCHANGED packet
              ELSE IF Len(bytes) # len THEN phase' = "lost" /\ UNCHANGED packet
              ELSE /\ packet' = [length |-> HeaderLen(dir) + len + pad,
                                 ether_type |-> RTE_ETHER_TYPE_IPV4, ihl |-> 5,
                                 protocol |-> IPPROTO[dir],
                                 total_length |-> HeaderLen(dir) - kEthernetHeaderLen + len,
                                 data |-> bytes \o [i \in 1..pad |-> 0]]
                   /\ phase' = "frame"
  /\ UNCHANGED <<dir, sent, payload, r, msg>>
-----------------------------------------------------------------------------
(* parse_soup_packet() on a whole packet. *)
parse_soup_packet ==
  /\ phase = "soup"
  /\ payload' = SubSeq(packet.bytes, 4, 2 + load(SubSeq(packet.bytes, 1, 2)))
  /\ packet' = NULL /\ phase' = "dispatch"
  /\ UNCHANGED <<dir, sent, r, msg>>

(* Anything but IPv4 without options and the right transport is dropped;   *)
(* the payload ends where the IPv4 header says.                            *)
deserialize_packet ==
  /\ phase = "frame"
  /\ LET f == packet
         ip_end == kEthernetHeaderLen + f.total_length
     IN  IF \/ f.length < kEthernetHeaderLen
            \/ f.ether_type # RTE_ETHER_TYPE_IPV4
            \/ f.length < kEthernetHeaderLen + kIPv4HeaderLen
            \/ f.ihl # 5
            \/ f.protocol # IPPROTO[dir]
            \/ ip_end < HeaderLen(dir) \/ ip_end > f.length
         THEN phase' = "none" /\ UNCHANGED payload
         ELSE phase' = "dispatch" /\ payload' = SubSeq(f.data, 1, ip_end - HeaderLen(dir))
  /\ packet' = NULL
  /\ UNCHANGED <<dir, sent, r, msg>>

(* The layouts that a payload can have: by its first byte, but for logins. *)
Candidates(d, bytes) ==
  IF d \in {"login_request", "login_accepted"} THEN Known[d]
  ELSE {name \in Known[d] : bytes # <<>> /\ Layout[name].type = bytes[1]}

(* decode_inbound_ouch(), decode_outbound_ouch(), decode_itch(): the       *)
(* message by its type, NONE for an empty payload or an unknown type.      *)
dispatch ==
  /\ phase = "dispatch"
  /\ IF Candidates(dir, payload) = {} THEN phase' = "none" /\ UNCHANGED msg
     ELSE \E name \in Candidates(dir, payload) :
            phase' = "core" /\ msg' = [name |-> name, core |-> <<>>, tags |-> <<>>]
  /\ UNCHANGED <<dir, sent, packet, payload, r>>

(* decode_soup_login_request(), decode_soup_login_accepted(): the number   *)
(* of a login has to be one.                                               *)
numbers_read(core, values) ==
  \A i \in DOMAIN values : core[i].kind = "dec" => values[i] # NULL

(* core(msg, reader): claim() of field after field, up to the first that   *)
(* has too few bytes.  Nothing may follow the core in ITCH and in a login. *)
decode_core ==
  LET core == Layout[msg.name].core
      size == Len(payload)
      after == [pos |-> Max({end \in Range(Ends[msg.name]) : end <= size}),
                ok |-> CoreSize(msg.name) <= size]
      values == [i \in DOMAIN core |-> read(core[i], CoreBytes(msg.name, payload, i))]
      done == remaining(after, size) = 0
      ok == after.ok /\ (done \/ HasAppendage(dir)) /\ numbers_read(core, values)
  IN  /\ phase = "core" /\ r' = after
      /\ msg' = IF ok THEN [msg EXCEPT !.core = values] ELSE NULL
      /\ phase' = IF ~ ok THEN "none" ELSE IF done THEN "decoded" ELSE "appendage"
      /\ UNCHANGED <<dir, sent, packet, payload>>

appendage_refused(reader, size, length) == ~ reader.ok \/ remaining(reader, size) # length

decode_appendage_length ==
  LET size == Len(payload)
      after == claim(r, kAppendageLengthLen, size)
      length == load(SubSeq(payload, r.pos + 1, after.pos))
  IN  /\ phase = "appendage" /\ r' = after
      /\ IF appendage_refused(after, size, length) THEN msg' = NULL /\ phase' = "none"
         ELSE msg' = msg /\ phase' = "tags"
      /\ UNCHANGED <<dir, sent, packet, payload>>

(* Mutant: a TagValue of length 0 is not refused. *)
tag_value_refusedZero(length, left) == length > left

tag_value_refused(length, left) == length = 0 \/ length > left

(* Mutant: the first TagValue of a tag counts. *)
put_fieldFirst(tags, fields) == tags @@ fields

(* The field is read again when its tag comes again. *)
put_field(tags, fields) == fields @@ tags

(* A turn of the loop over the TagValues: length, tag, value.  A tag that  *)
(* the message does not have is passed over, one of a wrong width is not.  *)
decode_tag_value ==
  LET size == Len(payload)
      r1 == claim(r, 1, size)
      length == IF r1.ok THEN payload[r1.pos] ELSE 0
      r2 == claim(r1, 1, size)
      raw_tag == IF r2.ok THEN payload[r2.pos] ELSE 0
      r3 == claim(r2, length - 1, size)
      value == IF r3.ok THEN SubSeq(payload, r2.pos + 1, r3.pos) ELSE <<>>
      known == {t \in Range(Layout[msg.name].tags) : OuchTag[t] = raw_tag}
      fields == [t \in known |-> read(TagField[t], value)]
  IN  /\ phase = "tags"
      /\ IF remaining(r, size) = 0 THEN phase' = "decoded" /\ UNCHANGED <<r, msg>>
         ELSE IF tag_value_refused(length, remaining(r1, size))
         THEN phase' = "none" /\ msg' = NULL /\ r' = r1
         ELSE IF \E t \in known : Len(value) # TagField[t].w
         THEN phase' = "none" /\ msg' = NULL /\ r' = r3
         ELSE UNCHANGED phase /\ msg' = [msg EXCEPT !.tags = put_field(@, fields)] /\ r' = r3
      /\ UNCHANGED <<dir, sent, packet, payload>>

Next ==
  \/ encode_soup \/ build_packet
  \/ parse_soup_packet \/ deserialize_packet
  \/ dispatch \/ decode_core \/ decode_appendage_length \/ decode_tag_value

(* Encoding and decoding are calls that a running thread makes. *)
Spec == Init /\ [][Next]_vars /\ WF_vars(Next)
-----------------------------------------------------------------------------
(* encoded_size() and the encoders agree, and the buffers for SoupBinTCP   *)
(* have room, so a message is only dropped when the pool has no packet or  *)
(* none that is large enough; the decoder of any other gets back every     *)
(* field and every optional field of it, whatever carried it and whatever  *)
(* padding follows.                                                        *)
RoundTrip ==
  /\ phase # "lost"
  /\ sent # NULL => phase # "none"
  /\ sent # NULL /\ phase = "decoded" => msg = sent

(* The reference.  Where a TagValue of the appendage a can begin; all of a *)
(* is TagValues if its end is such a place.                                *)
Cuts(a) ==
  LET at[s \in 0..Len(a)] ==
        s = 0 \/ \E q \in 0..(s - 1) : a[q + 1] >= 1 /\ q + 1 + a[q + 1] = s /\ at[q]
  IN  {s \in 0..Len(a) : at[s]}

Appendage(name, bytes) == SubSeq(bytes, CoreSize(name) + 3, Len(bytes))

(* Where the TagValues with tag t begin, and the value of the one at s. *)
Starts(a, t) == {s \in Cuts(a) \ {Len(a)} : a[s + 2] = OuchTag[t]}
ValueAt(a, s) == SubSeq(a, s + 3, s + 1 + a[s + 1])

(* Blanks, digits, blanks. *)
IsNumeric(in) ==
  \E i, j \in DOMAIN in :
     i <= j /\ \A k \in DOMAIN in :
                 IF k \in i..j THEN in[k] \in ZERO..(ZERO + 9) ELSE in[k] = SPACE

(* The number that its digits say. *)
Number(in) ==
  LET digits == {k \in DOMAIN in : in[k] # SPACE}
  IN  MapThenSumSet(LAMBDA k : (in[k] - ZERO) * 10^(Max(digits) - k), digits)

WellFormedAs(name, d, bytes) ==
  LET core == Layout[name].core
      size == CoreSize(name)
      a == Appendage(name, bytes)
  IN  /\ Len(bytes) >= size
      /\ \A i \in DOMAIN core :
           core[i].kind = "dec" => IsNumeric(CoreBytes(name, bytes, i))
      /\ \/ Len(bytes) = size
         \/ /\ HasAppendage(d) /\ Len(bytes) >= size + 2
            /\ load(SubSeq(bytes, size + 1, size + 2)) = Len(a)
            /\ Len(a) \in Cuts(a)
            /\ \A t \in Range(Layout[name].tags) : \A s \in Starts(a, t) :
                 Len(ValueAt(a, s)) = TagField[t].w

WellFormed == \E name \in Candidates(dir, payload) : WellFormedAs(name, dir, payload)

(* What an accepted message says is what its bytes say: each optional      *)
(* field that is there once or more has its last value, the others have    *)
(* their defaults, and a decimal field has its number if that is one of    *)
(* its type (a larger one is taken as well, and is another number).        *)
MeansItsBytes ==
  LET core == Layout[msg.name].core
      tags == Range(Layout[msg.name].tags)
      a == IF Len(payload) > CoreSize(msg.name) THEN Appendage(msg.name, payload) ELSE <<>>
  IN  /\ DOMAIN msg.tags = {t \in tags : Starts(a, t) # {}}
      /\ \A t \in DOMAIN msg.tags :
           write(TagField[t], msg.tags[t]) = ValueAt(a, Max(Starts(a, t)))
      /\ \A i \in DOMAIN core :
           LET bytes == CoreBytes(msg.name, payload, i)
           IN  IF core[i].kind = "dec"
               THEN Number(bytes) < NumericLimit => msg.core[i] = Number(bytes)
               ELSE write(core[i], msg.core[i]) = bytes

(* A decoder takes the payloads that are well formed and no other, and     *)
(* understands them, but for numbers that do not fit: one cut short        *)
(* anywhere, with bytes left over, with a TagValue that ends outside of    *)
(* it, of an unknown type or without a number is not half understood.      *)
DecodesWellFormed ==
  /\ phase = "decoded" => WellFormed /\ MeansItsBytes
  /\ phase = "none" /\ payload # <<>> => ~ WellFormed

(* A decoder comes to an end on every input. *)
DecodingEnds == <>(phase \in {"decoded", "none", "lost", "unsent"})
=============================================================================
