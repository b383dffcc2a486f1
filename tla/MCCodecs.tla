------------------------------ MODULE MCCodecs ------------------------------
(* Codecs on the inputs around its boundaries. *)
EXTENDS Codecs

\* 1970 to 1973, the leap year 2000, the common year 2100, and the turn of year 10000.
MCSpans == {<<0, 1500>>, <<10900, 11400>>, <<47400, 47600>>, <<2932500, 2933000>>}

MCSamples ==
  [day : {0, 58, 59, 789, 790, 11016, 2932896, 2932897}, sec : {0, 59, 3600, 86399},
   nanos : {0, 1, 1000, 999999, 1000000, 100000000, 100001000, 999999999}]

Lines ==
  {Piece("content_type", 32), Piece("content_type", 33), Piece("content_length", 8),
   Piece("content_length", 9), Piece("other", 40), Piece("no colon", 500),
   Piece("no colon", 523), Piece("no colon", 524), Piece("blank", 0)}

MCResponses == UNION {[1 .. n -> Lines] : n \in 0 .. 4}

MCMessages ==
  [op : {"get"}, path : {1, 40, 79, 80, 81, 192}, host : {0, 1, 10, 11, 192}]
    \cup [op : {"post"}, path : {1, 100}, host : {1, 20, 100, 155},
          json : {0, 9, 10, 99, 100, 255, 256, 257}]
    \cup [op : {"uplink"}, id : {0, 10, 128}, host : {1, 200}]
    \cup [op : {"parse"}, lines : MCResponses]
    \cup [op : {"portal"}, path : {"index", "js", "wasm"}, file : {0, 2048, 9999999}]
    \cup [op : {"portal"}, path : {"status"}, id : {11, 100, 300}]
    \cup [op : {"portal"}, path : {"configure"}, parses : BOOLEAN]
    \cup [op : {"portal"}, path : {"other"}]
    \cup [op : {"error"}, chars : {0, 12, 115, 116, 117, 300}, escapes : {0, 1}]
    \cup {m \in [op : {"dns"}, len : {16, 17, 18, 20, 80, 512},
                 bytes : UNION {[1 .. n -> {0, 3, 63, 191, 192}] : n \in 1 .. 4}] :
            \* the last byte that is read ends the name or points outside
            \/ m.bytes[Len(m.bytes)] \in {0, 192}
            \/ 12 + Length(Labels(m.bytes, Len(m.bytes))) >= m.len}
=============================================================================
