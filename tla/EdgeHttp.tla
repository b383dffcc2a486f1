------------------------------ MODULE EdgeHttp ------------------------------
(***************************************************************************)
(* The codecs of the firmware (edge/src/network/http.rs, server.rs,        *)
(* dns.rs): messages put together in buffers of fixed capacity, and read   *)
(* from them.  A text is the sequence of the pieces pushed, each with its  *)
(* length in bytes; of a length that is announced the digits are kept.     *)
(***************************************************************************)
EXTENDS Integers, Sequences

Piece(what, len) == [what |-> what, len |-> len]

Length(text) ==
  LET sum[n \in 0 .. Len(text)] == IF n = 0 THEN 0 ELSE sum[n - 1] + text[n].len
  IN  sum[Len(text)]

\* The decimal digits of n, below 10 ^ 7.
Digits(n) ==
  LET ten == <<10, 100, 1000, 10000, 100000, 1000000, 10000000>>
  IN  CHOOSE d \in 1 .. 7 : n < ten[d] /\ (d = 1 \/ ten[d - 1] <= n)

-----------------------------------------------------------------------------
(***************************************************************************)
(* http.rs: a push that does not fit is an error.                          *)
(***************************************************************************)

\* Mutant: the digits in the order the divisions give them, last one first.
DecimalReversed(n) ==
  LET ten == <<1, 10, 100, 1000, 10000, 100000, 1000000>>
  IN  [i \in 1 .. Digits(n) |-> (n \div ten[i]) % 10]

\* push_usize: the decimal digits of n, below 10 ^ 7, first one first.
Decimal(n) ==
  LET ten == <<1, 10, 100, 1000, 10000, 100000, 1000000>>
      d   == Digits(n)
  IN  [i \in 1 .. d |-> (n \div ten[d - i + 1]) % 10]

Failed == [ok |-> FALSE, text |-> <<>>]

Push(capacity, built, p) ==
  IF built.ok /\ Length(built.text) + p.len <= capacity
  THEN [ok |-> TRUE, text |-> Append(built.text, p)] ELSE Failed

Built(capacity, pieces) ==
  LET built[n \in 0 .. Len(pieces)] ==
        IF n = 0 THEN [ok |-> TRUE, text |-> <<>>]
        ELSE Push(capacity, built[n - 1], pieces[n])
  IN  built[Len(pieces)]

\* The pieces of a GET request.
GetPieces(path, host) ==
  << Piece("GET", 4), Piece("path", path), Piece("version", 11),
     Piece("Host", 6), Piece("host", host), Piece("end of line", 2),
     Piece("User-Agent", 47), Piece("Connection", 19), Piece("Accept", 15) >>

GetRequest(path, host) == Built(192, GetPieces(path, host))

\* The pieces of a POST request with a body of json bytes.
PostPieces(path, host, json) ==
  << Piece("POST", 5), Piece("path", path), Piece("version", 11),
     Piece("Host", 6), Piece("host", host), Piece("Content-Type", 34),
     Piece("Connection", 19), Piece("Content-Length", 16),
     Piece(Decimal(json), Digits(json)), Piece("blank line", 4), Piece("json", json) >>

\* Mutant: the JSON buffer has JSON_SERIALIZED_CAPACITY bytes (config.rs).
PostRequestSmallJson(path, host, json) ==
  IF json <= 128 THEN Built(512, PostPieces(path, host, json)) ELSE Failed

\* serde_json_core::to_string into 256 bytes goes before the request.
PostRequest(path, host, json) ==
  IF json <= 256 THEN Built(512, PostPieces(path, host, json)) ELSE Failed

\* Bytes of an UplinkMessage in JSON, its longest reading and version included.
UplinkJson(id) == Length(<< Piece("{id", 7), Piece("id", id), Piece("current", 12),
                            Piece("i32", 11), Piece("fw", 7), Piece("version", 16),
                            Piece("}", 2) >>)

\* The headers that are kept, with the capacity of their field.
Capacity == [ x_amzn_request_id |-> 64, x_amz_apigw_id |-> 32,
              x_amzn_trace_id |-> 128, content_type |-> 32,
              content_length |-> 8, date |-> 32 ]

\* Mutant: the field is not cleared before the value is pushed.
PushFieldAppends(parsed, name, i, len) ==
  IF parsed.ok /\ len <= Capacity[name]
  THEN [parsed EXCEPT !.fields[name] = Append(@, i)] ELSE [parsed EXCEPT !.ok = FALSE]

\* push_to_hstring: line i is the value of the field, or too long for it.
PushField(parsed, name, i, len) ==
  IF parsed.ok /\ len <= Capacity[name]
  THEN [parsed EXCEPT !.fields[name] = <<i>>] ELSE [parsed EXCEPT !.ok = FALSE]

\* One more line of the response.  The first blank line ends the headers; the
\* lines after it are joined by newlines into a body of 1024 bytes.
ParseLine(parsed, i, line) ==
  CASE parsed.in_body ->
         LET len == parsed.body + line.len + (IF parsed.lines = 0 THEN 0 ELSE 1) IN
         IF parsed.ok /\ len <= 1024
         THEN [ok |-> TRUE, in_body |-> TRUE, body |-> len,
               lines |-> parsed.lines + 1, fields |-> parsed.fields]
         ELSE [parsed EXCEPT !.ok = FALSE]
    [] ~ parsed.in_body /\ line.what = "blank"       -> [parsed EXCEPT !.in_body = TRUE]
    [] ~ parsed.in_body /\ line.what \in DOMAIN Capacity ->
         PushField(parsed, line.what, i, line.len)
    [] ~ parsed.in_body /\ line.what \notin {"blank"} \cup DOMAIN Capacity -> parsed

\* parse_response; the first line is the status line, which is not looked at.
ParseResponse(lines) ==
  LET none == [ok |-> lines # <<>>, in_body |-> FALSE, body |-> 0, lines |-> 0,
               fields |-> [n \in DOMAIN Capacity |-> <<>>]]
      parsed[i \in 0 .. Len(lines)] ==
        IF i <= 1 THEN none ELSE ParseLine(parsed[i - 1], i, lines[i])
  IN  parsed[Len(lines)]

-----------------------------------------------------------------------------
(***************************************************************************)
(* server.rs: the result of a push is ignored.  A string that does not fit *)
(* is left out, and of what is pushed by characters the rest is.           *)
(***************************************************************************)

PushOk(capacity, text, p) ==
  LET room == capacity - Length(text)
      len  == IF p.len <= room THEN p.len
              ELSE IF p.what \in {"digits", "value"} THEN room ELSE 0
  IN  Append(text, Piece(p.what, len))

Pushed(capacity, pieces) ==
  LET text[n \in 0 .. Len(pieces)] ==
        IF n = 0 THEN <<>> ELSE PushOk(capacity, text[n - 1], pieces[n])
  IN  text[Len(pieces)]

\* A value of n characters, e of them quotes or backslashes: push_json_str.
Value(n, e) == Piece("value", n + e)

\* build_response_header, which announces length bytes.
ResponseHeader(type, length, extra) ==
  Pushed(256, << Piece("HTTP/1.0 200 OK", 31), Piece("type", type),
                 Piece("Content-Length", 18), Piece("digits", Digits(length)),
                 Piece("Connection", 21), Piece("extra", extra), Piece("end", 2) >>)

\* A 200 with this body; what it announces is the length of the body.
Ok200(type, body, extra) ==
  [head |-> ResponseHeader(type, Length(body), extra), announced |-> Length(body),
   body |-> body]

\* The header of an error and its body, in one string of 256 bytes.
ErrorText(length, body) ==
  LET text == Pushed(256, << Piece("HTTP/1.0", 9), Piece("digits", 3),
                             Piece("headers", 75), Piece("digits", Digits(length)),
                             Piece("end", 4), Piece("body", Length(body)) >>)
  IN  [head |-> SubSeq(text, 1, 5), announced |-> length, body |-> <<text[6]>>]

ErrorBody(n, e) == Pushed(128, <<Piece("{error", 10), Value(n, e), Piece("}", 2)>>)

\* Mutant: the length is that of the message, before it is escaped.
ErrorUnescaped(n, e) == ErrorText(n + 12, ErrorBody(n, e))

\* build_error_response: the body is built first, then counted.
ErrorResponse(n, e) == ErrorText(Length(ErrorBody(n, e)), ErrorBody(n, e))

Redirect == [head |-> Pushed(256, <<Piece("HTTP/1.0 302", 30), Piece("location", 19),
                                    Piece("headers", 42)>>),
             announced |-> 0, body |-> <<>>]

\* build_status_json: DEVICE_ID, CARGO_PKG_VERSION, the gateway and "ap_mode".
StatusJson(id, version) ==
  Pushed(256, << Piece("{device_id", 14), Value(id, 0), Piece("fw_version", 16),
                 Value(version, 0), Piece("ip", 8), Value(11, 0), Piece("state", 11),
                 Value(7, 0), Piece("}", 2) >>)

\* build_configure_response
ConfigureJson(n) ==
  Pushed(256, <<Piece("{ok", 6), Piece("ok", 4), Piece("message", 12), Value(n, 0),
                Piece("}", 2)>>)

\* One pass of serve: what the first read held decides the answer.  A body that
\* comes in a later segment is not read, and does not parse.
Serve(request) ==
  CASE request.path = "index"  -> Ok200(9, <<Piece("file", request.file)>>, 0)
    [] request.path = "js"     -> Ok200(22, <<Piece("file", request.file)>>, 0)
    [] request.path = "wasm"   -> Ok200(16, <<Piece("file", request.file)>>, 24)
    [] request.path = "status" -> Ok200(16, StatusJson(request.id, 5), 0)
    [] request.path = "configure" /\ request.parses -> Ok200(16, ConfigureJson(33), 0)
    [] request.path = "configure" /\ ~ request.parses -> ErrorResponse(12, 0)
    [] request.path = "other"  -> Redirect

-----------------------------------------------------------------------------
(***************************************************************************)
(* dns.rs.  A query is its length and the bytes that find_qname_end reads: *)
(* the one at offset 12, and each one a label length further.              *)
(***************************************************************************)

NoEnd == -1

\* The byte at an offset ends the name, or points behind its label.
NextLabel(len, s, byte) ==
  IF s.done THEN s
  ELSE IF s.offset >= len THEN [offset |-> NoEnd, done |-> TRUE]
  ELSE IF byte = 0 THEN [offset |-> s.offset + 1, done |-> TRUE]
  ELSE IF byte >= 192 THEN [offset |-> s.offset + 2, done |-> TRUE]
  ELSE [offset |-> s.offset + 1 + byte, done |-> FALSE]

\* find_qname_end: the offset behind the name, or NoEnd outside the packet.
QnameEnd(query) ==
  LET walk[n \in 0 .. Len(query.bytes)] ==
        IF n = 0 THEN [offset |-> 12, done |-> FALSE]
        ELSE NextLabel(query.len, walk[n - 1], query.bytes[n])
      last == walk[Len(query.bytes)]
  IN  IF last.done THEN last.offset ELSE NoEnd

NoAnswer == [sent |-> FALSE, question_end |-> 0, len |-> 0]

\* Mutant: the type and class behind the name are taken to be there.
DnsResponseUnchecked(query) ==
  LET end == QnameEnd(query) + 4 IN
  IF query.len < 17 \/ QnameEnd(query) = NoEnd \/ end + 16 > 512 THEN NoAnswer
  ELSE [sent |-> TRUE, question_end |-> end, len |-> end + 16]

\* build_dns_response: the header and the question of the query up to
\* question_end, and an address record of 16 bytes.
DnsResponse(query) ==
  LET end == QnameEnd(query) + 4 IN
  IF \/ query.len < 17
     \/ QnameEnd(query) = NoEnd
     \/ end > query.len
     \/ end + 16 > 512
  THEN NoAnswer
  ELSE [sent |-> TRUE, question_end |-> end, len |-> end + 16]
=============================================================================
