------------------------------- MODULE Codecs -------------------------------
(***************************************************************************)
(* The codecs at work: the endpoint stamps one instant after another, and  *)
(* the firmware and its portal build or read one message.                  *)
(***************************************************************************)
EXTENDS Rfc3339, EdgeHttp

\* A request of any size.  An uplink has an id of up to 64 bytes, at worst all quotes
\* or backslashes, which JSON escapes to two each, and goes to a host of up to 200.
Requests ==
  [op : {"get"}, path : Nat, host : Nat]
    \cup [op : {"post"}, path : Nat, host : Nat, json : Nat]
    \cup [op : {"uplink"}, id : 0 .. 128, host : 0 .. 200]

\* The lines of a response, each a header, blank, or something else.
Responses == [op : {"parse"}, lines : Seq([what : STRING, len : Nat])]

\* The sizes of a file of the portal, in bytes.
Sizes == {n \in Nat : n < 10000000}

\* What the portal is asked for, or has to refuse.
PortalMessages ==
  [op : {"portal"}, path : {"index", "js", "wasm"}, file : Sizes]
    \cup [op : {"portal"}, path : {"status"}, id : Nat]
    \cup [op : {"portal"}, path : {"configure"}, parses : BOOLEAN]
    \cup [op : {"portal"}, path : {"other"}]
    \cup [op : {"error"}, chars : Nat, escapes : Nat]

Byte == 0 .. 255

\* DNS queries.
Queries == [op : {"dns"}, len : Nat, bytes : Seq(Byte)]

CONSTANTS
  Spans,      \* days walked one by one, as pairs <<first, last>>
  Samples,    \* instants compared with one another
  Messages,   \* what the firmware is asked to build, or is sent
  None        \* no message yet

ASSUME CodecsAssumption ==
  /\ Spans \subseteq Nat \X Nat
  /\ Samples \subseteq Instants
  /\ Messages \subseteq Requests \cup Responses \cup PortalMessages \cup Queries

VARIABLES
  now,      \* the clock
  in,       \* the message
  out       \* what became of it

codecVars == <<now, in, out>>

Midnight(day) == [day |-> day, sec |-> 0, nanos |-> 0]

CodecInit ==
  /\ now \in {Midnight(s[1]) : s \in Spans} \cup Samples
  /\ in = None
  /\ out = None

NextDay ==
  /\ in = None
  /\ \E s \in Spans : now.day \in s[1] .. s[2] - 1
  /\ now' = Midnight(now.day + 1)
  /\ UNCHANGED <<in, out>>

Later(i, j) == Before(<<i.day, i.sec, i.nanos>>, <<j.day, j.sec, j.nanos>>)

\* The clock is read again.
Wait ==
  /\ in = None
  /\ now \in Samples
  /\ now' \in {i \in Samples : Later(now, i)}
  /\ UNCHANGED <<in, out>>

Answer(m) ==
  CASE m.op = "get"     -> GetRequest(m.path, m.host)
    [] m.op = "post"    -> PostRequest(m.path, m.host, m.json)
    [] m.op = "uplink"  -> PostRequest(1, m.host, UplinkJson(m.id))
    [] m.op = "parse"   -> ParseResponse(m.lines)
    [] m.op = "portal"  -> Serve(m)
    [] m.op = "error"   -> ErrorResponse(m.chars, m.escapes)
    [] m.op = "dns"     -> DnsResponse(m)

Handle ==
  /\ in = None
  /\ now = Midnight(0)
  /\ \E m \in Messages : in' = m /\ out' = Answer(m)
  /\ UNCHANGED now

CodecNext == NextDay \/ Wait \/ Handle

CodecSpec == CodecInit /\ [][CodecNext]_codecVars

-----------------------------------------------------------------------------
(***************************************************************************)
(* Properties.                                                             *)
(***************************************************************************)

Is(op) == in # None /\ in.op = op

\* civil_from_days gives the calendar: it begins with 1 January 1970, and each
\* day is followed by the date that follows, over leap days and centuries.
CalendarFollows ==
  [][ /\ now.day = 0 => Civil(0) = [year |-> 1970, month |-> 1, day |-> 1]
      /\ now'.day = now.day + 1 => Civil(now'.day) = NextDate(Civil(now.day)) ]_now

\* The instant is in a year of four digits.
FourDigits(i) == Civil(i.day).year <= 9999

\* parse_rfc3339_unix gives back the seconds that format_rfc3339 was given, up to
\* the end of 9999; from then on it takes none of format_rfc3339's texts.
RoundTrip ==
  /\ Accepts(Format(now)) <=> FourDigits(now)
  /\ FourDigits(now) => Parse(Format(now)) = Secs(now)

\* The order of the texts is the order of the instants up to the end of 9999,
\* with and without a fraction: the stores sort received_at as text.
TextInOrder == [][Before(TextOf(Format(now)), TextOf(Format(now')))
                    \/ ~ Later(now, now') \/ ~ FourDigits(now')]_now

\* The number a reader makes of decimal digits.
Number(digits) ==
  LET number[n \in 0 .. Len(digits)] ==
        IF n = 0 THEN 0 ELSE 10 * number[n - 1] + digits[n]
  IN  number[Len(digits)]

\* A request is an error or complete: no piece is missing and it fits its buffer,
\* and a reader of Content-Length, its ninth piece, gets the length of the body
\* behind it (http.rs).
RequestsWhole ==
  /\ Is("get") /\ out.ok => /\ out.text = GetPieces(in.path, in.host)
                            /\ Length(out.text) <= 192
  /\ Is("post") /\ out.ok => /\ out.text = PostPieces(in.path, in.host, in.json)
                             /\ Length(out.text) <= 512
                             /\ Number(out.text[9].what) = out.text[11].len

\* The firmware's own uplink always fits: an id of 64 bytes, all of them escaped
\* in JSON, and a host name of up to 200 bytes (tasks.rs gives up the session
\* when it does not).
UplinkFits == Is("uplink") => out.ok

\* What parse_response returns is whole: each field is the last header of its
\* name, and the body is every line after the first blank one.
ParsedWhole ==
  Is("parse") /\ out.ok =>
    LET lines  == in.lines
        blanks == {i \in 2 .. Len(lines) : lines[i].what = "blank"}
        last   == IF blanks = {} THEN Len(lines) ELSE CHOOSE b \in blanks : \A c \in blanks : b <= c
    IN  /\ \A n \in DOMAIN Capacity :
             LET at == {i \in 2 .. last : lines[i].what = n} IN
             out.fields[n] = IF at = {} THEN <<>>
                             ELSE <<CHOOSE i \in at : \A j \in at : j <= i>>
        /\ out.lines = Len(lines) - last
        /\ out.body = Length(SubSeq(lines, last + 1, Len(lines)))
                        + (IF last < Len(lines) THEN out.lines - 1 ELSE 0)

\* Whatever the portal answers, the length it announces is that of the body it
\* sends, and none of its headers is cut off.
PortalAnnouncesWhatItSends ==
  Is("portal") \/ Is("error") =>
    /\ out.announced = Length(out.body)
    /\ Length(out.head) <= 256
    /\ \A i \in DOMAIN out.head : out.head[i].what \in {"end", "digits"} => out.head[i].len > 0

\* The first n labels of a name, each with its length byte.
Labels(bytes, n) == [i \in 1 .. n |-> Piece("label", 1 + bytes[i])]

\* The question a DNS answer repeats is the complete name of the query with the
\* type and class behind it, all of it inside the packet (dns.rs).
DnsQuestionInside ==
  Is("dns") /\ out.sent =>
    /\ out.question_end <= in.len
    /\ out.len <= 512
    /\ \E n \in DOMAIN in.bytes :
         /\ in.bytes[n] = 0 \/ in.bytes[n] >= 192
         /\ \A i \in 1 .. n - 1 : in.bytes[i] \in 1 .. 191
         /\ out.question_end = 12 + Length(Labels(in.bytes, n - 1))
                                 + (IF in.bytes[n] = 0 THEN 1 ELSE 2) + 4
=============================================================================
