--------------------------- MODULE MCChunkDecoder ---------------------------
(* Bodies of up to two chunks of up to two bytes, each byte being          *)
(* a line feed or a size digit, one chunk that needs two hex digits, and   *)
(* an extension longer than chunk_size_buf.  A second chunk is one of two: *)
(* what came before it has left no trace in the decoder but the place.     *)
EXTENDS ChunkDecoder

DataBytes == {LF, "0"}
SmallChunks == {<<a>> : a \in DataBytes} \cup {<<a, b>> : a, b \in DataBytes}
SecondChunks == {<<LF>>, <<"0", LF>>}
LongChunk == [i \in 1..18 |-> "1"]

MCBodies ==
    {<<>>, <<LongChunk>>} \cup {<<a>> : a \in SmallChunks} \cup {<<a, b>> : a \in SmallChunks, b \in SecondChunks}

MCSizeLine ==
    [n \in {0, 1, 2, 18} |->
        CASE n = 0 -> {<<"0">>, <<"0", "0", ";", "x">>}
          [] n = 1 -> {<<"1">>, <<"1", ";">> \o [i \in 1..15 |-> "x"]}
          [] n = 2 -> {<<"0", "2">>, <<"2", ";", "1">>}
          [] n = 18 -> {<<"1", "2">>}]

MCTrailers == {<<>>, <<"x", "1">> \o CRLF}
MCFollowing == {<<>>, <<"1", LF>>}
=============================================================================
