---------------------------- MODULE ChunkDecoder ----------------------------
(***************************************************************************)
(* process_chunked_bytes of macos9_http_fetcher.c: the chunked-encoding    *)
(* decoder that keeps its place in the fetch context, fed with whatever    *)
(* OTRcv returned.  The streams it is fed are encodings of known bodies,   *)
(* written by Encode, with size digits, chunk extensions, data that looks  *)
(* like framing, trailers and bytes that follow the response.              *)
(*                                                                         *)
(* Abstraction: a byte is a one-character string; a run of data bytes that *)
(* the code hands on in one FETCH_DATA is handed on byte by byte.          *)
(***************************************************************************)
EXTENDS Naturals, Sequences, SequencesExt

CONSTANTS
    Bodies,      \* the chunk lists that are sent: sequences of byte sequences
    SizeLine,    \* SizeLine[n]: the ways a server may write the size n
    Trailers,    \* trailer lines sent after the last chunk, CRLFs included
    Following    \* bytes after the response on the same connection

CR == "r"
LF == "n"
CRLF == <<CR, LF>>
BUFSZ == 16   \* sizeof chunk_size_buf

HexDigits == <<"0", "1", "2", "3", "4", "5", "6", "7", "8", "9", "a", "b", "c", "d", "e", "f">>

VARIABLES
    chunks,   \* the body the server encoded
    stream,   \* what arrives, byte by byte
    ends,     \* how many bytes of the stream are the response
    pos,      \* how many bytes have been received
    ctx       \* the decoder's fields of the fetch context, and what it delivered

decoderVars == <<chunks, stream, ends, pos, ctx>>

Byte == {CR, LF, ";", "x"} \cup {HexDigits[i] : i \in 1..16}

(* strtol(s, NULL, 16): the value of the leading hex digits, a 32-bit long *)
(* that stays at its greatest value where it would overflow.               *)
strtol16(s) ==
    LET hex(i) == \A j \in 1..i : \E d \in 1..16 : HexDigits[d] = s[j]
        value(v, ch) == IF v >= 2^27 THEN 2147483647
                                     ELSE 16 * v + (CHOOSE d \in 0..15 : HexDigits[d + 1] = ch)
        digits == CHOOSE i \in 0..Len(s) : hex(i) /\ (i < Len(s) => ~hex(i + 1))
    IN  FoldLeft(value, 0, SubSeq(s, 1, digits))

(* As much of a size line as chunk_size_buf takes.                         *)
Collected(line) == IF Len(line) < BUFSZ THEN line ELSE SubSeq(line, 1, BUFSZ - 1)

(* The first i bytes of the trailer end with a line, or are none.          *)
AtEol(trailer, i) ==
    \A j \in 1..i : trailer[j] \in {CR, LF} \/ \E k \in j + 1..i : trailer[k] = LF

(* What a server sends is well formed: chunks are not empty, a size line   *)
(* is one line and has its digits in front, not too many for the buffer,   *)
(* and a trailer is made of lines that are not empty.                      *)
ASSUME ServerAssumption ==
    /\ \A body \in Bodies : /\ body \in Seq(Seq(Byte))
                            /\ \A i \in DOMAIN body : body[i] # <<>> /\ Len(body[i]) \in DOMAIN SizeLine
    /\ 0 \in DOMAIN SizeLine
    /\ \A n \in DOMAIN SizeLine : \A line \in SizeLine[n] :
          line \in Seq(Byte \ {CR, LF}) /\ strtol16(Collected(line)) = n
    /\ \A trailer \in Trailers :
          /\ trailer \in Seq(Byte) /\ AtEol(trailer, Len(trailer))
          /\ \A i \in DOMAIN trailer : trailer[i] = LF => ~AtEol(trailer, i - 1)
    /\ Following \subseteq Seq(Byte)

DecoderTypeOK ==
    /\ chunks \in Bodies
    /\ stream \in Seq(Byte)
    /\ ends \in 0..Len(stream)
    /\ pos \in 0..Len(stream)
    /\ ctx.chunk_state \in {"SIZE", "DATA", "CRLF", "TRAILER", "DONE"}
    /\ ctx.chunk_size_buf \in Seq(Byte) /\ Len(ctx.chunk_size_buf) < BUFSZ
    /\ ctx.chunk_remaining \in Nat
    /\ ctx.trailer_just_after_eol \in BOOLEAN
    /\ ctx.delivered \in Seq(Byte)

(* The chunked encoding of a body, with size[i] as the size line of its    *)
(* i-th chunk and last as that of the terminating one.                     *)
Encode(body, size, last, trailer) ==
    FlattenSeq([i \in DOMAIN body |-> size[i] \o CRLF \o body[i] \o CRLF])
       \o last \o CRLF \o trailer \o CRLF

DecoderInit ==
    \E body \in Bodies, last \in SizeLine[0], trailer \in Trailers, after \in Following :
    \E size \in [DOMAIN body -> UNION {SizeLine[n] : n \in DOMAIN SizeLine}] :
        /\ \A i \in DOMAIN body : size[i] \in SizeLine[Len(body[i])]
        /\ chunks = body
        /\ stream = Encode(body, size, last, trailer) \o after
        /\ ends = Len(stream) - Len(after)
        /\ pos = 0
        /\ ctx = [chunk_state |-> "SIZE", chunk_size_buf |-> <<>>, chunk_remaining |-> 0,
                  trailer_just_after_eol |-> FALSE, delivered |-> <<>>]

(* Mutant: a chunk extension is read as part of the size line's digits. *)
SizeByteKeepsDigits(d, ch) ==
    IF ch = LF
    THEN LET sz == strtol16(d.chunk_size_buf)
         IN  [d EXCEPT !.chunk_size_buf = <<>>, !.chunk_remaining = sz,
                       !.chunk_state = IF sz = 0 THEN "TRAILER" ELSE "DATA",
                       !.trailer_just_after_eol = (sz = 0) \/ @]
    ELSE IF ch \in {CR, ";"} \/ Len(d.chunk_size_buf) >= BUFSZ - 1
    THEN d
    ELSE [d EXCEPT !.chunk_size_buf = Append(@, ch)]

(* CS_SIZE: collect the line; at its end start the data or the trailer.    *)
SizeByte(d, ch) ==
    IF ch = LF
    THEN LET sz == strtol16(d.chunk_size_buf)
         IN  [d EXCEPT !.chunk_size_buf = <<>>, !.chunk_remaining = sz,
                       !.chunk_state = IF sz = 0 THEN "TRAILER" ELSE "DATA",
                       !.trailer_just_after_eol = (sz = 0) \/ @]
    ELSE IF ch = CR \/ Len(d.chunk_size_buf) >= BUFSZ - 1
    THEN d
    ELSE [d EXCEPT !.chunk_size_buf = Append(@, ch)]

(* CS_DATA: deliver; the last byte of the chunk leaves its CRLF to skip.   *)
DataByte(d, ch) ==
    [d EXCEPT !.delivered = Append(@, ch),
              !.chunk_remaining = @ - 1,
              !.chunk_state = IF d.chunk_remaining = 1 THEN "CRLF" ELSE "DATA"]

CrlfByte(d, ch) == IF ch = LF THEN [d EXCEPT !.chunk_state = "SIZE"] ELSE d

(* Mutant: a trailer line does not clear trailer_just_after_eol. *)
TrailerByteForgets(d, ch) ==
    IF ch = CR THEN d
    ELSE IF ch = LF
    THEN IF d.trailer_just_after_eol
         THEN [d EXCEPT !.chunk_state = "DONE"]
         ELSE [d EXCEPT !.trailer_just_after_eol = TRUE]
    ELSE d

(* CS_TRAILER: an empty line ends the response.                            *)
TrailerByte(d, ch) ==
    IF ch = CR THEN d
    ELSE IF ch = LF
    THEN IF d.trailer_just_after_eol
         THEN [d EXCEPT !.chunk_state = "DONE"]
         ELSE [d EXCEPT !.trailer_just_after_eol = TRUE]
    ELSE [d EXCEPT !.trailer_just_after_eol = FALSE]

ProcessByte(d, ch) ==
    CASE d.chunk_state = "SIZE" -> SizeByte(d, ch)
      [] d.chunk_state = "DATA" -> DataByte(d, ch)
      [] d.chunk_state = "CRLF" -> CrlfByte(d, ch)
      [] d.chunk_state = "TRAILER" -> TrailerByte(d, ch)
      [] d.chunk_state = "DONE" -> d

process_chunked_bytes(d, b) ==
    LET after[n \in 0..Len(b)] == IF n = 0 THEN d ELSE ProcessByte(after[n - 1], b[n])
    IN  after[Len(b)]

(* The next n bytes arrive: with the header, or from an OTRcv in MFS_BODY. *)
Receive(n) ==
    /\ ctx.chunk_state # "DONE"
    /\ pos + n <= Len(stream)
    /\ ctx' = process_chunked_bytes(ctx, SubSeq(stream, pos + 1, pos + n))
    /\ pos' = pos + n
    /\ UNCHANGED <<chunks, stream, ends>>

DecoderNext == \E n \in 1..Len(stream) : Receive(n)

DecoderSpec == DecoderInit /\ [][DecoderNext]_decoderVars

-----------------------------------------------------------------------------
(* Properties.                                                             *)

(* However OTRcv cuts the stream, what has been handed on is the beginning *)
(* of the body the server encoded, without a byte of framing.              *)
DeliversBody == IsPrefix(ctx.delivered, FlattenSeq(chunks))

(* The decoder says CS_DONE exactly when the response's last byte is in,   *)
(* and then the body is complete: it neither stops early, which would      *)
(* leave bytes of this response to the next user of the connection, nor    *)
(* waits for more, which would stall until the timeout.  chunk_size_buf    *)
(* never outgrows its array on the way.                                    *)
EndsWithResponse ==
    /\ DecoderTypeOK
    /\ ctx.chunk_state = "DONE" <=> pos >= ends
    /\ ctx.chunk_state = "DONE" => ctx.delivered = FlattenSeq(chunks)
=============================================================================
