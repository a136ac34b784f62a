--------------------------- MODULE FieldSections ---------------------------
(***************************************************************************)
(* The headers of a message: their field section on the wire               *)
(* (HeaderEncoder and HeaderDecoder of neqo-qpack, with the lookups of its *)
(* table), the Huffman code, and the rules for the headers of a request or *)
(* a response (neqo-http3 headers_checks.rs).                              *)
(*                                                                         *)
(* Which entries the encoder may refer to or evict, and how a blocked      *)
(* stream is resumed, is the subject of Qpack; here entries are evicted    *)
(* under the conditions that it establishes, and the subject is the bytes. *)
(* Names and values are sequences of bytes.  Those of the static table are *)
(* left out: its i-th entry has one number above 255 for its name, and one *)
(* for its value.                                                          *)
(***************************************************************************)
EXTENDS Codec

CONSTANTS
    Setups,     \* what is checked: [part, use_huffman, max_entries]
    Strings,    \* the names and values of headers
    StaticRefs, \* entries of the static table that are used
    MaxInserts, \* bound: insertions into the dynamic table
    MaxFields,  \* bound: headers in a section
    Bytes,      \* bytes of Huffman-coded strings
    MaxCoded,   \* bound: their length
    Headers,    \* the headers of messages, [name, value]
    MaxHeaders  \* bound: headers in a message

VARIABLES
    setup,      \* the member of Setups
    inserts,    \* headers inserted into the dynamic table, in order
    received,   \* how many of them the decoder has
    enc,        \* the HeaderEncoder, None between sections
    fields,     \* the headers it has encoded
    section,    \* a section on the wire, None if there is none
    got,        \* what the decoder made of it
    coded,      \* a Huffman-coded string that arrives
    message     \* the headers of a message that arrives

vars == <<setup, inserts, received, enc, fields, section, got, coded, message>>

Field(name, value) == [name |-> name, value |-> value]

-----------------------------------------------------------------------------
(* Tables.                                                                 *)

HEADER_STATIC_TABLE == [i \in 0..98 |-> Field(<<1000 + i>>, <<2000 + i>>)]

get_static(i) == IF i \in DOMAIN HEADER_STATIC_TABLE THEN Read(HEADER_STATIC_TABLE[i], <<>>) ELSE None

\* The entries that a table with n insertions still holds.
Held(n) == {i \in 0..(n - 1) : i >= n - setup.max_entries}

\* HeaderTable::get_dynamic: the absolute index of an entry, from one that
\* is relative to the base of a section.
AbsoluteIndex(index, base, post) == IF post THEN base + index ELSE base - index - 1

-----------------------------------------------------------------------------
(* HeaderEncoder.                                                          *)

NoRef == -1

HeaderEncoder(base) == [base |-> base, buf |-> <<>>, max_ref |-> NoRef]

Put(e, bytes, ref) ==
    [e EXCEPT !.buf = @ \o bytes, !.max_ref = IF ref > @ THEN ref ELSE @]

encode_indexed_static(e, i) == Put(e, encode_prefixed_encoded_int(Prefix(192, 2), i), NoRef)

encode_indexed_dynamic(e, i) ==
    Put(e, IF i < e.base THEN encode_prefixed_encoded_int(Prefix(128, 2), e.base - i - 1)
           ELSE encode_prefixed_encoded_int(Prefix(16, 4), i - e.base), i)

Value(v) == encode_literal(setup.use_huffman, Prefix(0, 0), v)

encode_literal_with_name_ref(e, is_static, i, v) ==
    IF is_static THEN Put(e, encode_prefixed_encoded_int(Prefix(80, 4), i) \o Value(v), NoRef)
    ELSE Put(e, (IF i < e.base THEN encode_prefixed_encoded_int(Prefix(64, 4), e.base - i - 1)
                 ELSE encode_prefixed_encoded_int(Prefix(0, 5), i - e.base)) \o Value(v), i)

encode_literal_with_name_literal(e, name, v) ==
    Put(e, encode_literal(setup.use_huffman, Prefix(32, 4), name) \o Value(v), NoRef)

\* The insert count is written modulo twice the entries there may be.
EncodedInsertCount(e) ==
    IF e.max_ref = NoRef THEN 0 ELSE ((e.max_ref + 1) % (2 * setup.max_entries)) + 1

\* A variant that is off by one for a section that refers behind its base.
BaseOffByOne(e) ==
    IF e.max_ref = NoRef THEN encode_prefixed_encoded_int(Prefix(0, 1), e.base)
    ELSE IF e.max_ref + 1 <= e.base
    THEN encode_prefixed_encoded_int(Prefix(0, 1), e.base - (e.max_ref + 1))
    ELSE encode_prefixed_encoded_int(Prefix(128, 1), e.max_ref + 1 - e.base)

DeltaBase(e) ==
    IF e.max_ref = NoRef THEN encode_prefixed_encoded_int(Prefix(0, 1), e.base)
    ELSE IF e.max_ref + 1 <= e.base
    THEN encode_prefixed_encoded_int(Prefix(0, 1), e.base - (e.max_ref + 1))
    ELSE encode_prefixed_encoded_int(Prefix(128, 1), e.max_ref + 1 - e.base - 1)

encode_header_block_prefix(e) ==
    encode_prefixed_encoded_int(Prefix(0, 0), EncodedInsertCount(e)) \o DeltaBase(e) \o e.buf

-----------------------------------------------------------------------------
(* HeaderDecoder.                                                          *)

\* calc_req_insert_cnt.
Unwrapped(req, max_value, full_range) ==
    LET n == IF req > max_value THEN req - full_range ELSE req
    IN IF n <= 0 THEN None ELSE Read(n, <<>>)

calc_req_insert_cnt(encoded, max_entries, total) ==
    IF encoded = 0 THEN Read(0, <<>>)
    ELSE IF max_entries = 0 \/ encoded > 2 * max_entries THEN None
    ELSE LET full_range == 2 * max_entries
         IN Unwrapped(((total + max_entries) \div full_range) * full_range + encoded - 1,
                      total + max_entries, full_range)

\* read_base: the insert count that the section requires, and its base.
BaseOf(negative, req, delta) ==
    IF ~delta.ok \/ (negative /\ req <= delta.v) THEN None
    ELSE Read([req |-> req, base |-> IF negative THEN req - delta.v - 1 ELSE req + delta.v], delta.rest)

BaseBehind(d, req) ==
    IF ~req.ok \/ d = <<>> THEN None ELSE BaseOf(d[1] >= 128, req.v, read_prefixed_int(d, 1))

read_base(count) ==
    IF count.ok THEN BaseBehind(count.rest, calc_req_insert_cnt(count.v, setup.max_entries, received))
    ELSE None

\* dynamic_entry: the table holds it, and the section said it needs it.
dynamic_entry(index, b, post) ==
    IF index.ok /\ AbsoluteIndex(index.v, b.base, post) \in Held(received)
          /\ AbsoluteIndex(index.v, b.base, post) < b.req
    THEN Read(inserts[AbsoluteIndex(index.v, b.base, post) + 1], index.rest)
    ELSE None

static_entry(index) == IF index.ok /\ get_static(index.v).ok
                       THEN Read(get_static(index.v).v, index.rest) ELSE None

\* A header whose name was found, or read; its value is behind.
WithValue(name, value) == IF value.ok THEN Read(Field(name, value.v), value.rest) ELSE None
NamedBy(entry) ==
    IF entry.ok THEN WithValue(entry.v.name, read_literal_from_buffer(entry.rest, 0)) ELSE None
NameRead(name) ==
    IF name.ok THEN WithValue(name.v, read_literal_from_buffer(name.rest, 0)) ELSE None

\* The prefixes, in the order in which decode_header_block tries them.
ReadField(d, b) ==
    CASE d[1] >= 192 -> static_entry(read_prefixed_int(d, 2))
      [] d[1] \in 128..191 -> dynamic_entry(read_prefixed_int(d, 2), b, FALSE)
      [] d[1] \in 16..31 -> dynamic_entry(read_prefixed_int(d, 4), b, TRUE)
      [] d[1] \in (80..95) \union (112..127) -> NamedBy(static_entry(read_prefixed_int(d, 4)))
      [] d[1] \in (64..79) \union (96..111) -> NamedBy(dynamic_entry(read_prefixed_int(d, 4), b, FALSE))
      [] d[1] \in 32..63 -> NameRead(read_literal_from_buffer(d, 4))
      [] d[1] < 16 -> NamedBy(dynamic_entry(read_prefixed_int(d, 5), b, TRUE))

\* Nothing that the decoder puts out is larger than MAX_LEN in total.
RECURSIVE ReadFields(_, _, _, _)
FieldThen(f, b, out, remaining) ==
    IF ~f.ok \/ remaining < Len(f.v.name) + Len(f.v.value) + 32 THEN [kind |-> "error"]
    ELSE ReadFields(f.rest, b, Append(out, f.v), remaining - (Len(f.v.name) + Len(f.v.value) + 32))

ReadFields(d, b, out, remaining) ==
    IF d = <<>> THEN [kind |-> "headers", v |-> out] ELSE FieldThen(ReadField(d, b), b, out, remaining)

WithBase(b) ==
    IF ~b.ok THEN [kind |-> "error"]
    ELSE IF received < b.v.req THEN [kind |-> "blocked", req |-> b.v.req]
    ELSE ReadFields(b.rest, b.v, <<>>, MAX_LEN)

decode_header_block(d) == WithBase(read_base(read_prefixed_int(d, 0)))

-----------------------------------------------------------------------------
(* headers_checks.rs.                                                      *)

RequestPseudo == {":method", ":scheme", ":authority", ":path", ":protocol"}
ResponsePseudo == {":status"}
Pseudo == RequestPseudo \union ResponsePseudo \union {":unknown"}

\* track_pseudo: what was seen before the i-th header.
SeenBefore(hs, i) == {hs[j].name : j \in 1..(i - 1)}
track_pseudo(hs, i, allowed) ==
    hs[i].name \in Pseudo =>
        /\ SeenBefore(hs, i) \subseteq Pseudo
        /\ hs[i].name \in allowed
        /\ hs[i].name \notin SeenBefore(hs, i)

\* A name with an illegal character stands for all of them, as does a value.
ConnectionSpecific == {"connection", "keep-alive", "proxy-connection", "transfer-encoding", "upgrade"}
LegalHeader(h) ==
    /\ h.name # "illegal" /\ h.value # "illegal"
    /\ h.name \notin ConnectionSpecific
    /\ h.name = "te" => h.value = "trailers"

Has(hs, name, value) == \E i \in DOMAIN hs : hs[i].name = name /\ hs[i].value = value
Names(hs) == SeenBefore(hs, Len(hs) + 1)

\* The pseudo headers that there must be.
pseudo_header_mask(hs, type) ==
    IF type = "Response" THEN {":status"}
    ELSE IF ~Has(hs, ":method", "CONNECT") THEN {":method", ":scheme", ":path"}
    ELSE {":method", ":authority"} \union (IF ":protocol" \in Names(hs) THEN {":scheme", ":path"} ELSE {})

headers_valid(hs, type) ==
    /\ \A i \in DOMAIN hs :
        track_pseudo(hs, i, IF type = "Request" THEN RequestPseudo ELSE ResponsePseudo) /\ LegalHeader(hs[i])
    /\ Has(hs, ":method", "CONNECT") /\ Has(hs, ":protocol", "webtransport") => Has(hs, ":scheme", "https")
    /\ ":protocol" \in Names(hs) => Has(hs, ":method", "CONNECT")
    /\ pseudo_header_mask(hs, type) \subseteq Names(hs)

\* is_interim: a status is read off the first header.
is_interim(hs) ==
    IF hs = <<>> \/ hs[1].name # ":status" \/ hs[1].value \in {"101", "none"} THEN None
    ELSE Read(hs[1].value = "100", <<>>)

trailers_valid(hs) == Names(hs) \cap Pseudo = {}

\* Http3Connection::create_request_headers, of a RequestDescription; a
\* connect_type is "none", "classic", or the protocol of an extended CONNECT.
create_request_headers(r) ==
    LET pseudo == {<<":method", r.method>>, <<":scheme", r.scheme>>, <<":authority", "a">>, <<":path", "/">>}
        Of(names) == [i \in DOMAIN names |-> Field(names[i], (CHOOSE p \in pseudo : p[1] = names[i])[2])]
    IN IF (r.connect_type = "none") = (r.method = "CONNECT") THEN None
       ELSE Read(Of(IF r.connect_type = "classic" THEN <<":method", ":authority">>
                    ELSE <<":method", ":scheme", ":authority", ":path">>)
                 \o (IF r.connect_type \in {"none", "classic"} THEN <<>> ELSE <<Field(":protocol", r.connect_type)>>)
                 \o (IF r.connect_type = "connect-udp" THEN <<Field("capsule-protocol", "?1")>> ELSE <<>>)
                 \o r.headers, <<>>)

-----------------------------------------------------------------------------
Nobody == [kind |-> "none"]

Init ==
    /\ setup \in Setups
    /\ inserts = <<>> /\ received = 0 /\ enc = None /\ fields = <<>> /\ section = None
    /\ got = Nobody /\ coded = <<>> /\ message = <<>>

Sections == setup.part = "sections"
PlainFields == {Field(n, v) : n \in Strings, v \in Strings}

\* Entries of the section in work, and of one on the wire, stay; so does an
\* entry that the decoder has not confirmed.
Pinned == (IF enc.ok THEN enc.v.refs ELSE {}) \union (IF section.ok THEN section.rest ELSE {})

Insert ==
    /\ Sections /\ Len(inserts) < MaxInserts
    /\ Len(inserts) - received < setup.max_entries
    /\ Pinned \subseteq Held(Len(inserts) + 1)
    /\ \E h \in PlainFields : inserts' = Append(inserts, h)
    /\ UNCHANGED <<setup, received, enc, fields, section, got, coded, message>>

\* The decoder takes an instruction off the encoder stream.
Receive ==
    /\ Sections /\ received < Len(inserts)
    /\ received' = received + 1
    /\ UNCHANGED <<setup, inserts, enc, fields, section, got, coded, message>>

\* Encoder::encode_header_block starts with the base of its table.
Start ==
    /\ Sections /\ ~enc.ok /\ ~section.ok
    /\ enc' = Read([e |-> HeaderEncoder(Len(inserts)), refs |-> {}], <<>>)
    /\ fields' = <<>> /\ got' = Nobody
    /\ UNCHANGED <<setup, inserts, received, section, coded, message>>

Encoded(e, ref, h) ==
    /\ enc' = Read([e |-> e, refs |-> enc.v.refs \union ref], <<>>)
    /\ fields' = Append(fields, h)
    /\ UNCHANGED <<setup, inserts, received, section, got, coded, message>>

Encode ==
    /\ Sections /\ enc.ok /\ Len(fields) < MaxFields
    /\ \/ \E i \in StaticRefs :
            Encoded(encode_indexed_static(enc.v.e, i), {}, HEADER_STATIC_TABLE[i])
       \/ \E i \in StaticRefs, v \in Strings :
            Encoded(encode_literal_with_name_ref(enc.v.e, TRUE, i, v), {},
                    Field(HEADER_STATIC_TABLE[i].name, v))
       \/ \E i \in Held(Len(inserts)) :
            Encoded(encode_indexed_dynamic(enc.v.e, i), {i}, inserts[i + 1])
       \/ \E i \in Held(Len(inserts)), v \in Strings :
            Encoded(encode_literal_with_name_ref(enc.v.e, FALSE, i, v), {i}, Field(inserts[i + 1].name, v))
       \/ \E h \in PlainFields :
            Encoded(encode_literal_with_name_literal(enc.v.e, h.name, h.value), {}, h)

\* The section is complete.
Send ==
    /\ enc.ok
    /\ section' = Read(encode_header_block_prefix(enc.v.e), enc.v.refs)
    /\ enc' = None
    /\ UNCHANGED <<setup, inserts, received, fields, got, coded, message>>

\* The decoder tries, and keeps a section that it could not decode yet.
Decode ==
    /\ section.ok
    /\ \E r \in {decode_header_block(section.v)} :
        /\ got' = IF r.kind = "blocked" THEN [r EXCEPT !.req = @ - received] ELSE r
        /\ section' = IF r.kind = "blocked" THEN section ELSE None
    /\ UNCHANGED <<setup, inserts, received, enc, fields, coded, message>>

ArriveCoded ==
    /\ setup.part = "huffman" /\ Len(coded) < MaxCoded
    /\ \E b \in Bytes : coded' = Append(coded, b)
    /\ UNCHANGED <<setup, inserts, received, enc, fields, section, got, message>>

\* Messages grow while nothing is wrong with their headers.
ArriveMessage ==
    /\ setup.part \in {"Request", "Response"} /\ Len(message) < MaxHeaders /\ got = Nobody
    /\ \A i \in DOMAIN message :
        /\ LegalHeader(message[i])
        /\ track_pseudo(message, i, IF setup.part = "Request" THEN RequestPseudo ELSE ResponsePseudo)
    /\ \E h \in Headers : message' = Append(message, h)
    /\ UNCHANGED <<setup, inserts, received, enc, fields, section, got, coded>>

\* A client asks for something, or is told that it cannot be asked for.
Request ==
    /\ setup.part = "Request" /\ message = <<>> /\ got = Nobody
    /\ \E m \in {"GET", "CONNECT"}, c \in {"none", "classic", "webtransport", "connect-udp"},
          scheme \in {"http", "https"}, h \in {h \in Headers : h.name \notin Pseudo} :
        \E hs \in {create_request_headers([method |-> m, scheme |-> scheme, connect_type |-> c, headers |-> <<h>>])} :
            /\ message' = IF hs.ok THEN hs.v ELSE <<>>
            /\ got' = IF hs.ok THEN [kind |-> "request", type |-> c, scheme |-> scheme, legal |-> LegalHeader(h)]
                      ELSE [kind |-> "InvalidInput"]
    /\ UNCHANGED <<setup, inserts, received, enc, fields, section, coded>>

Next == Request \/ Insert \/ Receive \/ Start \/ Encode \/ Send \/ Decode \/ ArriveCoded \/ ArriveMessage

Spec == Init /\ [][Next]_vars

-----------------------------------------------------------------------------
(* Properties.                                                             *)

(***************************************************************************)
(* A section that the decoder decodes has the headers that were encoded,   *)
(* and none is ever refused: whatever was inserted before, while and after *)
(* it was encoded, the insert count that is written modulo twice the       *)
(* entries is unwrapped to the right one, and the indices, which are       *)
(* relative to a base that lies before or behind them, find their entries. *)
(* A section waits for the decoder exactly while an entry is missing.      *)
(***************************************************************************)
SectionRoundTrip ==
    /\ Sections => got.kind \in {"none", "headers", "blocked"}
    /\ got.kind = "headers" => got.v = fields
    /\ section.ok =>
        LET missing == {i \in section.rest : i >= received}
            r == decode_header_block(section.v)
        IN (r.kind = "blocked") = (missing # {})

(***************************************************************************)
(* Huffman coding has one form: a string that huffman::decode accepts is   *)
(* what huffman::encode makes of the result, so padding has fewer than     *)
(* eight bits and all of them are set; and decoding undoes encoding.       *)
(***************************************************************************)
HuffmanExact ==
    LET s == huffman_decode(coded)
    IN /\ s.ok => huffman_encode(s.v) = coded
       /\ huffman_decode(huffman_encode(coded)) = Read(coded, <<>>)

\* What a well-formed message is (RFC 9114): no pseudo header repeated,
\* foreign, or behind a regular header, and the ones its method asks for.
WellFormed(hs, type) ==
    LET pseudo == {i \in DOMAIN hs : hs[i].name \in Pseudo}
        names == {hs[i].name : i \in pseudo}
    IN /\ pseudo = 1..Cardinality(pseudo) /\ Cardinality(names) = Cardinality(pseudo)
       /\ \A i \in DOMAIN hs : LegalHeader(hs[i])
       /\ IF type = "Response" THEN names = {":status"}
          ELSE IF ~Has(hs, ":method", "CONNECT")
          THEN names \in {{":method", ":scheme", ":path"}, {":method", ":scheme", ":path", ":authority"}}
          ELSE IF ":protocol" \notin names
          THEN {":method", ":authority"} \subseteq names /\ names \subseteq RequestPseudo
          ELSE names = RequestPseudo /\ (Has(hs, ":protocol", "webtransport") => Has(hs, ":scheme", "https"))

(***************************************************************************)
(* headers_valid, which goes through the headers with a set of what it has *)
(* seen, accepts exactly the well-formed messages; the status of a         *)
(* response that it accepts is one that is_interim can read, unless it is  *)
(* 101 or no number; and what are valid trailers is never a valid message. *)
(* A request that create_request_headers makes is one that the server will *)
(* take for what it is, unless the application gave it a header it may not *)
(* have, or asks for WebTransport over something else than https.          *)
(***************************************************************************)
MessagesWellFormed ==
    setup.part \in {"Request", "Response"} =>
        /\ got.kind = "request" =>
             /\ headers_valid(message, "Request") =
                  (got.legal /\ (got.type = "webtransport" => got.scheme = "https"))
             /\ Has(message, ":method", "CONNECT") = (got.type # "none")
             /\ (":protocol" \in Names(message)) = (got.type \notin {"none", "classic"})
        /\ headers_valid(message, setup.part) = WellFormed(message, setup.part)
        /\ headers_valid(message, setup.part) /\ setup.part = "Response" =>
             is_interim(message).ok = ({"101", "none"} \cap {message[1].value} = {})
        /\ trailers_valid(message) => ~headers_valid(message, setup.part)
=============================================================================
