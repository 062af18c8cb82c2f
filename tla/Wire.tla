-------------------------------- MODULE Wire --------------------------------
(* What a message is between two processes: the bytes CDR makes of it        *)
(* (cdr/cdr.go) and the attachment that travels with it                      *)
(* (transport/rmwzenoh/rmwzenoh.go). A byte has Base values and a second     *)
(* Second nanoseconds, so that every width wraps within TLC's integers.      *)
(*                                                                           *)
(* A type is a record with its kind; a struct is the sequence of its         *)
(* exported fields; a float is the unsigned number of its bits.              *)
EXTENDS Integers, Sequences, SequencesExt

CONSTANTS
  Base,    \* the values of a byte: 256
  Second,  \* nanoseconds in a second: 10^9
  Magic    \* the four bytes that begin a trace extension: "CDTR"

Header == <<0, 1, 0, 0>>
Number(kind, size) == [kind |-> kind, size |-> size]
Word == Number("uint", 4)

\* Go divides towards zero.
Quotient(a, b) == IF a >= 0 THEN a \div b ELSE -((-a) \div b)

-----------------------------------------------------------------------------
(* The encoder.                                                              *)

align(buf, n) == buf \o [i \in 1..((n - (Len(buf) % n)) % n) |-> 0]
LittleEndian(v, n) == [i \in 1..n |-> (v \div Base^(i - 1)) % Base]
AppendUint(buf, v, n) == align(buf, n) \o LittleEndian(v, n)

\* Two words: the truncated quotient and remainder of a duration, or the
\* seconds and nanoseconds of a time, of which the zero time has none.
AppendDuration(buf, d) ==
  AppendUint(AppendUint(buf, Quotient(d, Second), 4), d - Second * Quotient(d, Second), 4)
AppendTime(buf, t) ==
  LET at == IF t.isZero THEN 0 ELSE t.at
  IN AppendUint(AppendUint(buf, at \div Second, 4), at % Second, 4)

RECURSIVE encode(_, _, _)
encode(buf, type, v) ==
  LET Each(start, elements) == FoldLeft(LAMBDA b, x : encode(b, type.elem, x), start, elements)
  IN CASE type.kind = "time" -> AppendTime(buf, v)
       [] type.kind = "duration" -> AppendDuration(buf, v)
       [] type.kind = "bool" -> Append(buf, IF v THEN 1 ELSE 0)
       [] type.kind \in {"int", "uint"} -> AppendUint(buf, v, type.size)
       [] type.kind = "string" -> AppendUint(buf, Len(v) + 1, 4) \o v \o <<0>>
       [] type.kind = "slice" -> Each(AppendUint(buf, Len(v), 4), v)
       [] type.kind = "array" -> Each(buf, v)
       [] OTHER -> FoldLeft(LAMBDA b, i : encode(b, type.fields[i], v[i]), buf,
                            [i \in DOMAIN v |-> i])

Marshal(type, v) == Header \o align(encode(<<>>, type, v), 4)

-----------------------------------------------------------------------------
(* The decoder: what was read, and where it stands, unless it failed.        *)

Failed == [ok |-> FALSE, off |-> 0, v |-> <<>>]
Read(off, v) == [ok |-> TRUE, off |-> off, v |-> v]
As(r, v) == [r EXCEPT !.v = v]

\* A reader that takes a field from where it stands.
needOnly(buf, off, n, size) == IF off + size > Len(buf) THEN {} ELSE {off}
alignAndNeed(buf, off, n, size) ==
  LET at == off + ((n - (off % n)) % n) IN IF at + size > Len(buf) THEN {} ELSE {at}
Bytes(buf, off, n, size) ==
  IF alignAndNeed(buf, off, n, size) = {} THEN Failed
  ELSE LET at == CHOOSE at \in alignAndNeed(buf, off, n, size) : TRUE
       IN Read(at + size, SubSeq(buf, at + 1, at + size))

Unsigned(bytes) == FoldRight(LAMBDA b, above : b + Base * above, bytes, 0)
TwosComplement(v, n) == IF v >= Base^n \div 2 THEN v - Base^n ELSE v

RECURSIVE decode(_, _, _)
decode(buf, off, type) ==
  LET InTurn(start, types) ==
        FoldLeft(LAMBDA r, t : IF ~r.ok THEN r
                               ELSE LET next == decode(buf, r.off, t)
                                    IN IF next.ok THEN As(next, Append(r.v, next.v)) ELSE Failed,
                 Read(start, <<>>), types)
      bytes == Bytes(buf, off, type.size, type.size)
      words == InTurn(off, <<Word, Word>>)
      length == decode(buf, off, Word)
      text == Bytes(buf, length.off, 1, length.v)
      sum == TwosComplement(words.v[1], 4) * Second + words.v[2]
  IN CASE type.kind \in {"time", "duration"} /\ ~words.ok -> Failed
       [] type.kind = "time" /\ words.ok ->
            As(words, [isZero |-> words.v = <<0, 0>>, at |-> sum])
       [] type.kind = "duration" /\ words.ok -> As(words, sum)
       [] type.kind = "bool" ->
            LET byte == Bytes(buf, off, 1, 1) IN IF byte.ok THEN As(byte, byte.v[1] # 0) ELSE Failed
       [] type.kind = "uint" -> IF bytes.ok THEN As(bytes, Unsigned(bytes.v)) ELSE Failed
       [] type.kind = "int" -> IF bytes.ok THEN As(bytes, TwosComplement(Unsigned(bytes.v), type.size)) ELSE Failed
       [] type.kind = "string" ->
            IF ~length.ok \/ ~text.ok THEN Failed
            ELSE As(text, IF text.v # <<>> /\ Last(text.v) = 0 THEN Front(text.v) ELSE text.v)
       [] type.kind = "slice" ->
            IF ~length.ok \/ length.v > Len(buf) - length.off THEN Failed
            ELSE InTurn(length.off, [i \in 1..length.v |-> type.elem])
       [] type.kind = "array" -> InTurn(off, [i \in 1..type.size |-> type.elem])
       [] OTHER -> InTurn(off, type.fields)

Unmarshal(data, type) ==
  IF Len(data) < 4 \/ SubSeq(data, 1, 2) # SubSeq(Header, 1, 2) THEN Failed
  ELSE decode(SubSeq(data, 5, Len(data)), 0, type)

-----------------------------------------------------------------------------
(* The attachment: sequence number and time, eight bytes each, the publisher *)
(* behind its length, and conductor's trace context behind them.             *)

EncodeAttachment(seq, timestamp, gid) == seq \o timestamp \o <<Len(gid) % 256>> \o gid

DecodeAttachment(b) ==
  IF Len(b) < 17 \/ Len(b) < 17 + b[17] THEN {}
  ELSE {[seq |-> SubSeq(b, 1, 8), timestamp |-> SubSeq(b, 9, 16), gid |-> SubSeq(b, 18, 17 + b[17])]}

TraceExtensionLen == 4 + 16 + 8 + 1
AppendTraceContext(att, trace) ==
  att \o Magic \o trace.trace \o trace.span \o <<IF trace.sampled THEN 1 ELSE 0>>

ExtractTraceContext(att) ==
  LET ext == SubSeq(att, Len(att) - TraceExtensionLen + 1, Len(att))
  IN IF Len(att) < TraceExtensionLen \/ SubSeq(ext, 1, 4) # Magic THEN {}
     ELSE {[trace |-> SubSeq(ext, 5, 20), span |-> SubSeq(ext, 21, 28), sampled |-> ext[29] = 1]}

-----------------------------------------------------------------------------
(* Properties.                                                               *)

\* What the wire has room for. A time is within 32 bits of seconds, and the
\* epoch itself is the zero time; a negative duration has no fraction, because
\* its remainder is negative and the word for it is not.
RECURSIVE Representable(_, _)
Representable(type, v) ==
  LET InRange(at) == at \div Second \in -(Base^4 \div 2) .. (Base^4 \div 2) - 1
  IN CASE type.kind = "time" -> v.isZero \/ (v.at # 0 /\ InRange(v.at))
       [] type.kind = "duration" -> InRange(v) /\ (v >= 0 \/ v % Second = 0)
       [] type.kind \in {"slice", "array"} -> \A i \in DOMAIN v : Representable(type.elem, v[i])
       [] type.kind = "struct" -> \A i \in DOMAIN v : Representable(type.fields[i], v[i])
       [] OTHER -> TRUE

\* A message read back is the message written, wherever its fields fall, and a
\* payload that lost its end is refused or had only padding there: it is never
\* another message (Marshal, Unmarshal).
WireKeepsValues(type, v) ==
  LET wire == Marshal(type, v) IN
  /\ Len(wire) % 4 = 0
  /\ Representable(type, v) =>
       /\ Unmarshal(wire, type).ok /\ Unmarshal(wire, type).v = v
       /\ \A n \in 0 .. Len(wire) - 1 :
            LET cut == Unmarshal(SubSeq(wire, 1, n), type) IN cut.ok => cut.v = v

\* A peer that knows nothing of tracing reads the same attachment, a trace put
\* behind it is read back, and none is read where none was put.
AttachmentsKeep(seq, timestamp, gid, trace) ==
  LET plain == EncodeAttachment(seq, timestamp, gid)
      extended == AppendTraceContext(plain, trace)
  IN /\ DecodeAttachment(plain) = {[seq |-> seq, timestamp |-> timestamp, gid |-> gid]}
     /\ DecodeAttachment(extended) = DecodeAttachment(plain)
     /\ ExtractTraceContext(extended) = {trace}
     /\ ExtractTraceContext(plain) = {}
=============================================================================
