----------------------------- MODULE BrokerJson -----------------------------
(***************************************************************************)
(* The parser of src/broker/ProviderJson.cpp for one broker message: a     *)
(* flat object of strings, of which type, sam, password and reason are     *)
(* kept.                                                                   *)
(*                                                                         *)
(* A line is a sequence of bytes.  A key is abstracted to its initial: the *)
(* parser compares keys as a whole.  One step of the specification is the  *)
(* opening of the object, one turn of the loop over its members, or the    *)
(* end; the scanners are functions of the position, which counts from 1.   *)
(***************************************************************************)
EXTENDS Integers, Sequences, FiniteSetsExt

CONSTANT Samples  \* lines with what they stand for: [line, whole, ok, msg, of]

ASSUME LinesAreBytes == \A x \in Samples : x.line \in Seq(0 .. 255)

Quote      == 34
Comma      == 44
Colon      == 58
Backslash  == 92
OpenBrace  == 123
CloseBrace == 125
Whitespace == {32, 9, 13, 10}

Fields == {"type", "sam", "password", "reason"}
Key    == [type |-> <<84>>, sam |-> <<83>>, password |-> <<80>>, reason |-> <<82>>]

EmptyMsg == [f \in Fields |-> <<>>]

VARIABLES
  sample,   \* the line received
  pc, i,    \* where the parser is
  s,        \* the trimmed line
  out,      \* Msg& out
  hasType,
  ok        \* the return value

vars == <<sample, pc, i, s, out, hasType, ok>>

-----------------------------------------------------------------------------
(* Scanners.                                                                *)

\* The first position from k on that is not white space.
SkipWs(str, k) ==
  Min({j \in k .. Len(str) + 1 : j = Len(str) + 1 \/ str[j] \notin Whitespace})

Trim(str) ==
  LET first == SkipWs(str, 1)
      last  == Max({0} \cup {j \in DOMAIN str : str[j] \notin Whitespace})
  IN  SubSeq(str, first, last)

\* The position of the quote that ends the token begun before position k, or
\* 0.  A byte after a backslash never ends it.
ClosingQuote(str, k) ==
  LET Scan[j \in 1 .. Len(str) + 2] ==
        IF j > Len(str) THEN 0
        ELSE IF str[j] = Backslash THEN Scan[j + 2]
        ELSE IF str[j] = Quote THEN j
        ELSE Scan[j + 1]
  IN  Scan[k]

ParseJsonQuotedToken(str, k) ==
  IF k > Len(str) \/ str[k] # Quote \/ ClosingQuote(str, k + 1) = 0
  THEN [ok |-> FALSE, raw |-> <<>>, next |-> k]
  ELSE LET end == ClosingQuote(str, k + 1)
       IN  [ok |-> TRUE, raw |-> SubSeq(str, k + 1, end - 1), next |-> end + 1]

-----------------------------------------------------------------------------
(* Escapes.                                                                 *)

HexValue(c) == CASE c \in 48 .. 57  -> c - 48
                 [] c \in 97 .. 102 -> c - 87
                 [] c \in 65 .. 70  -> c - 55
                 [] OTHER           -> -1

\* Four hexadecimal digits at position k, or -1.
ParseHex4(str, k) ==
  IF k + 3 > Len(str) \/ \E d \in 0 .. 3 : HexValue(str[k + d]) < 0
  THEN -1
  ELSE 4096 * HexValue(str[k]) + 256 * HexValue(str[k + 1])
       + 16 * HexValue(str[k + 2]) + HexValue(str[k + 3])

High(cp) == cp \in 55296 .. 56319   \* D800 to DBFF
Low(cp)  == cp \in 56320 .. 57343   \* DC00 to DFFF

\* The UTF-8 bytes of a code point: the first says how many follow, each of
\* the others holds six bits.
Lead(cp, mark, shift) == mark + (cp \div shift)
Tail6(cp, shift)      == 128 + ((cp \div shift) % 64)

AppendUtf8(cp) ==
  IF cp <= 127 THEN <<cp>>
  ELSE IF cp <= 2047 THEN <<Lead(cp, 192, 64), Tail6(cp, 1)>>
  ELSE IF cp <= 65535
    THEN <<Lead(cp, 224, 4096), Tail6(cp, 64), Tail6(cp, 1)>>
  ELSE <<Lead(cp, 240, 262144), Tail6(cp, 4096), Tail6(cp, 64), Tail6(cp, 1)>>

\* What stands behind the backslash in the one-letter escapes.
Simple == [c \in {34, 92, 47, 98, 102, 110, 114, 116} |->
             CASE c = 98 -> 8 [] c = 102 -> 12 [] c = 110 -> 10
               [] c = 114 -> 13 [] c = 116 -> 9 [] OTHER -> c]

Malformed == <<-1>>

\* Mutant: a high surrogate alone is encoded like any other code point.
Unit_LoneSurrogate(str, k) ==
  IF str[k] # Backslash THEN [bytes |-> <<str[k]>>, next |-> k + 1]
  ELSE IF k = Len(str) THEN [bytes |-> Malformed, next |-> k]
  ELSE IF str[k + 1] \in DOMAIN Simple
    THEN [bytes |-> <<Simple[str[k + 1]]>>, next |-> k + 2]
  ELSE LET cp == IF str[k + 1] = 117 THEN ParseHex4(str, k + 2) ELSE -1 IN
       IF cp < 0 THEN [bytes |-> Malformed, next |-> k]
       ELSE [bytes |-> AppendUtf8(cp), next |-> k + 6]

\* The byte or escape at position k: its bytes and the position behind it.
Unit(str, k) ==
  IF str[k] # Backslash THEN [bytes |-> <<str[k]>>, next |-> k + 1]
  ELSE IF k = Len(str) THEN [bytes |-> Malformed, next |-> k]
  ELSE IF str[k + 1] \in DOMAIN Simple
    THEN [bytes |-> <<Simple[str[k + 1]]>>, next |-> k + 2]
  ELSE LET cp1    == IF str[k + 1] = 117 THEN ParseHex4(str, k + 2) ELSE -1
           paired == /\ k + 11 <= Len(str)
                     /\ str[k + 6] = Backslash /\ str[k + 7] = 117
           cp2    == ParseHex4(str, k + 8)
       IN  CASE High(cp1) /\ paired /\ Low(cp2) ->
                  [bytes |-> AppendUtf8(65536 + 1024 * (cp1 - 55296) + cp2 - 56320),
                   next |-> k + 12]
             [] cp1 >= 0 /\ ~High(cp1) /\ ~Low(cp1) ->
                  [bytes |-> AppendUtf8(cp1), next |-> k + 6]
             [] OTHER -> [bytes |-> Malformed, next |-> k]

UnescapeJsonString(str) ==
  LET From[k \in 1 .. Len(str) + 1] ==
        IF k > Len(str) THEN <<>>
        ELSE LET u    == Unit(str, k)
                 rest == From[u.next]
             IN  IF u.bytes = Malformed \/ rest = Malformed THEN Malformed
                 ELSE u.bytes \o rest
  IN  From[1]

-----------------------------------------------------------------------------

\* out still holds what an earlier message left there.
Init ==
  /\ sample \in Samples
  /\ pc = "open" /\ i = 1
  /\ s = <<>>
  /\ out = [EmptyMsg EXCEPT !.password = <<80, 80>>]
  /\ hasType = FALSE
  /\ ok = FALSE

\* ParseJsonLine gives up: everything parsed so far is cleared.
Reject ==
  /\ pc' = "done" /\ ok' = FALSE
  /\ out' = EmptyMsg
  /\ UNCHANGED <<i, hasType>>

\* Mutant: the caller's Msg is cleared on success only.
Open_KeepsOut ==
  /\ pc = "open"
  /\ s' = Trim(sample.line)
  /\ IF s' # <<>> /\ s'[1] = OpenBrace
     THEN pc' = "members" /\ i' = 2 /\ out' = EmptyMsg /\ UNCHANGED <<hasType, ok>>
     ELSE pc' = "done" /\ ok' = FALSE /\ UNCHANGED <<i, out, hasType>>
  /\ UNCHANGED sample

\* Mutant: a byte behind the brace is taken for granted.
Open_SkipsByte ==
  /\ pc = "open"
  /\ s' = Trim(sample.line)
  /\ IF s' # <<>> /\ s'[1] = OpenBrace
     THEN pc' = "members" /\ i' = 3 /\ out' = EmptyMsg /\ UNCHANGED <<hasType, ok>>
     ELSE Reject
  /\ UNCHANGED sample

\* ParseJsonLine up to the brace that opens the object.
Open ==
  /\ pc = "open"
  /\ s' = Trim(sample.line)
  /\ IF s' # <<>> /\ s'[1] = OpenBrace
     THEN pc' = "members" /\ i' = 2 /\ out' = EmptyMsg /\ UNCHANGED <<hasType, ok>>
     ELSE Reject
  /\ UNCHANGED sample

\* The position behind "key : value" from position k on, the two strings
\* unescaped, or ok = FALSE.
ParseMember(k) ==
  LET key   == ParseJsonQuotedToken(s, k)
      colon == SkipWs(s, key.next)
      value == ParseJsonQuotedToken(s, SkipWs(s, colon + 1))
  IN  IF /\ key.ok
         /\ UnescapeJsonString(key.raw) # Malformed
         /\ colon <= Len(s) /\ s[colon] = Colon
         /\ value.ok
         /\ UnescapeJsonString(value.raw) # Malformed
      THEN [ok |-> TRUE, key |-> UnescapeJsonString(key.raw),
            value |-> UnescapeJsonString(value.raw),
            next |-> SkipWs(s, value.next)]
      ELSE [ok |-> FALSE, key |-> <<>>, value |-> <<>>, next |-> k]

Store(key, value) ==
  /\ out' = [f \in Fields |-> IF Key[f] = key THEN value ELSE out[f]]
  /\ hasType' = (hasType \/ key = Key["type"])

\* One turn of the loop.  After a comma the next turn also accepts the
\* closing brace, so a trailing comma is allowed.
Members ==
  /\ pc = "members"
  /\ LET k      == SkipWs(s, i)
         closes == k <= Len(s) /\ s[k] = CloseBrace
         m      == ParseMember(k)
         behind == IF m.ok /\ m.next <= Len(s) THEN s[m.next] ELSE -1
     IN  \/ /\ closes
            /\ pc' = "end" /\ i' = k + 1
            /\ UNCHANGED <<out, hasType, ok>>
         \/ /\ ~closes /\ behind \in {Comma, CloseBrace}
            /\ Store(m.key, m.value)
            /\ pc' = IF behind = Comma THEN "members" ELSE "end"
            /\ i' = m.next + 1
            /\ UNCHANGED ok
         \/ /\ ~closes /\ behind \notin {Comma, CloseBrace}
            /\ Reject
  /\ UNCHANGED <<sample, s>>

\* Mutant: what follows the closing brace is ignored.
End_IgnoresRest ==
  /\ pc = "end"
  /\ IF hasType /\ out.type # <<>>
     THEN pc' = "done" /\ ok' = TRUE /\ UNCHANGED <<i, out, hasType>>
     ELSE Reject
  /\ UNCHANGED <<sample, s>>

\* Nothing may follow, and there must be a type that is not empty.
End ==
  /\ pc = "end"
  /\ IF SkipWs(s, i) = Len(s) + 1 /\ hasType /\ out.type # <<>>
     THEN pc' = "done" /\ ok' = TRUE /\ UNCHANGED <<i, out, hasType>>
     ELSE Reject
  /\ UNCHANGED <<sample, s>>

Next == Open \/ Members \/ End

Spec == Init /\ [][Next]_vars

-----------------------------------------------------------------------------

(***************************************************************************)
(* A line is understood as the JSON it is: the fields hold the bytes the   *)
(* broker meant, whatever escapes, surrogate pairs, quotes, braces and     *)
(* commas its strings are made of; the last of two equal keys counts and   *)
(* unknown ones are skipped.  A line with a malformed escape, something    *)
(* behind the object, or no type is refused.                               *)
(***************************************************************************)
ReadsWhatWasSent ==
  pc = "done" /\ sample.whole =>
    ok = sample.ok /\ (ok => out = sample.msg)

(***************************************************************************)
(* No piece of a message passes for a message: a line that lost its end,   *)
(* or its beginning (the part of a message whose first chunk a cancelled   *)
(* read threw away), is refused, and so is one with more behind it.        *)
(***************************************************************************)
PiecesAreRefused == pc = "done" /\ ~sample.whole => ~ok

(***************************************************************************)
(* After a refusal the caller's Msg is empty: neither fields parsed before *)
(* the error nor what an earlier message left survive.                     *)
(***************************************************************************)
RefusedLeavesNothing == pc = "done" /\ ~ok => out = EmptyMsg

(***************************************************************************)
(* The position stays in the line or just behind it, whatever scanners and *)
(* escapes did with a broken line: no byte is looked at that is not there. *)
(***************************************************************************)
ParserStaysInLine == pc \in {"members", "end"} => i \in 2 .. Len(s) + 1

\* Whether a byte stands in a string, by the grammar of JSON alone: "esc" is
\* behind a backslash in one.
LexStep(state, byte) ==
  CASE state = "esc"                      -> "in"
    [] state = "in" /\ byte = Backslash   -> "esc"
    [] state = "in" /\ byte = Quote       -> "out"
    [] state = "out" /\ byte = Quote      -> "in"
    [] OTHER                              -> state

Lex(str) ==
  LET At[k \in 1 .. Len(str) + 1] ==
        IF k = 1 THEN "out" ELSE LexStep(At[k - 1], str[k - 1])
  IN  At

Punctuation == Whitespace \cup {Quote, Colon, Comma}

(***************************************************************************)
(* What a message is, by the grammar alone: an object whose first byte is  *)
(* the brace that opens it, its last the one that closes it; outside the   *)
(* strings there is no other brace, nor anything but white space, quotes,  *)
(* colons and commas; and one of the strings says type.                    *)
(***************************************************************************)
IsMessage(str) ==
  LET lex == Lex(str) IN
  /\ Len(str) >= 2
  /\ str[1] = OpenBrace /\ str[Len(str)] = CloseBrace /\ lex[Len(str)] = "out"
  /\ \A k \in 2 .. Len(str) - 1 : lex[k] = "out" => str[k] \in Punctuation
  /\ \E k \in 2 .. Len(str) - 1 :
       /\ lex[k] = "out" /\ ParseJsonQuotedToken(str, k).ok
       /\ UnescapeJsonString(ParseJsonQuotedToken(str, k).raw) = Key["type"]

(***************************************************************************)
(* What is accepted is a message, whatever its strings hold: a brace or a  *)
(* quote in a string neither ends the object nor stands for a part of it,  *)
(* and nothing is behind it.                                               *)
(***************************************************************************)
AcceptedIsMessage == pc = "done" /\ ok => IsMessage(s)

ProperPiece(part, str) ==
  part # str /\ \E m, n \in DOMAIN str : part = SubSeq(str, m, n)

\* What a line that is not whole is: a piece of a message, or a message and
\* something more.
ASSUME PiecesAreCut ==
  \A x \in Samples : ~x.whole =>
    /\ x.of \in Seq(0 .. 255) /\ IsMessage(x.of)
    /\ \/ ProperPiece(Trim(x.line), x.of)
       \/ ProperPiece(x.of, Trim(x.line))
=============================================================================
