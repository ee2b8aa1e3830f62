------------------------------ MODULE LogLines ------------------------------
(***************************************************************************)
(* How the host turns the bytes of a log connection into lines             *)
(* (log_listener.rs, handle_log_listener_unix_connection).  Reads end at    *)
(* any byte, so a chunk may end inside a character and inside a line.      *)
(* Bytes are told apart as far as that matters: "x" is a character of its  *)
(* own, "lead" and "cont" are the two bytes of one character, and "nl"     *)
(* ends a line.                                                            *)
(***************************************************************************)
EXTENDS Naturals, Sequences

Byte == {"x", "lead", "cont", "nl"}

\* String::from_utf8 succeeds: no character is incomplete.
IsUtf8(bytes) ==
  \A i \in DOMAIN bytes :
    /\ bytes[i] = "lead" => i < Len(bytes) /\ bytes[i + 1] = "cont"
    /\ bytes[i] = "cont" => i > 1 /\ bytes[i - 1] = "lead"

\* A line that is blank is not printed.
WithLine(lines, line) == IF line = <<>> THEN lines ELSE Append(lines, line)

\* One byte more: a line end completes the line before it.
AddByte(split, b) ==
  IF b = "nl" THEN [lines |-> WithLine(split.lines, split.rest), rest |-> <<>>]
              ELSE [lines |-> split.lines, rest |-> Append(split.rest, b)]

\* The lines of a text and what follows its last line end.
Split(text) ==
  LET split[n \in 0 .. Len(text)] ==
        IF n = 0 THEN [lines |-> <<>>, rest |-> <<>>] ELSE AddByte(split[n - 1], text[n])
  IN split[Len(text)]

\* The bytes of records written one after the other.
Bytes(records) ==
  LET bytes[n \in 0 .. Len(records)] ==
        IF n = 0 THEN <<>> ELSE bytes[n - 1] \o records[n]
  IN bytes[Len(records)]

\* What a connection's thread keeps between reads, and what it has printed.
NewReader == [buffer |-> <<>>, incomplete |-> <<>>, printed |-> <<>>]

\* Mutant: a chunk that ends inside a character is dropped.
DropBroken(r, bytes) == [r EXCEPT !.buffer = <<>>]

\* Bytes that do not form a text stay in the buffer until later ones complete
\* them, and hold back whatever is before them in the buffer.
HoldBroken(r, bytes) == [r EXCEPT !.buffer = bytes]

\* Mutant: each text begins a line of its own.
ForgetIncomplete(r, chunk) ==
  LET bytes == r.buffer \o chunk
      split == Split(bytes)
  IN IF IsUtf8(bytes)
       THEN [buffer |-> <<>>, incomplete |-> split.rest,
             printed |-> r.printed \o split.lines]
       ELSE HoldBroken(r, bytes)

\* One read of the loop.
ReadChunk(r, chunk) ==
  LET bytes == r.buffer \o chunk
      split == Split(r.incomplete \o bytes)
  IN IF IsUtf8(bytes)
       THEN [buffer |-> <<>>, incomplete |-> split.rest,
             printed |-> r.printed \o split.lines]
       ELSE HoldBroken(r, bytes)

\* The end of the connection: an unfinished line is printed, unfinished bytes
\* are not.
FinishReading(r) ==
  [r EXCEPT !.printed = WithLine(@, r.incomplete), !.incomplete = <<>>]
=============================================================================
