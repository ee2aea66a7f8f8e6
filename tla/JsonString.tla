----------------------------- MODULE JsonString -----------------------------
(***************************************************************************)
(* The strings of JSON text, src/cf_json/cJSON/cJSON.c: parse_string turns *)
(* a literal into bytes, print_string_ptr bytes into a literal.  A literal *)
(* is a sequence of units: [kind |-> "byte", n], a byte that stands for    *)
(* itself; "char", a character beyond ASCII in the bytes of its UTF-8;     *)
(* "esc", a backslash and a letter, n the byte it stands for; "u", a       *)
(* backslash, u and four hexadecimal digits of value n; "cut", a backslash *)
(* and u with less behind it, and "bad", any other escape.                 *)
(***************************************************************************)
EXTENDS Integers, Sequences, SequencesExt

CONSTANT Literals

VARIABLES literal, at,
          room,      \* what is allocated for the bytes and the NUL
          bytes,
          phase,     \* "reading", "done", "failed"
          original   \* when a printed literal is read: the bytes that were printed

vars == <<literal, at, room, bytes, phase, original>>

NotYet == <<-1>>

\* utf16_literal_to_utf8: the bytes of a code point.  A follower has six bits.
FollowerOfSeven(n) == 128 + (n % 128)
Follower(n) == 128 + (n % 64)

Utf8(n) == CASE n < 128 -> <<n>>
             [] n >= 128 /\ n < 2048 -> <<192 + n \div 64, Follower(n)>>
             [] n >= 2048 /\ n < 65536 ->
                  <<224 + n \div 4096, Follower(n \div 64), Follower(n)>>
             [] OTHER -> <<240 + n \div 262144, Follower(n \div 4096),
                           Follower(n \div 64), Follower(n)>>

\* The characters of a unit, and those that are counted for the bytes: all but
\* the backslash.
Length(unit) == CASE unit.kind = "byte" -> 1
                  [] unit.kind = "char" -> Len(Utf8(unit.n))
                  [] unit.kind = "u" -> 6
                  [] OTHER -> 2
Counted(unit) == IF unit.kind \in {"byte", "char"} THEN Length(unit) ELSE Length(unit) - 1

RoomFor(units) ==
  LET Sum[i \in 0 .. Len(units)] == IF i = 0 THEN 2 ELSE Sum[i - 1] + Counted(units[i])
  IN Sum[Len(units)]

Start(units) == /\ literal' = units /\ at' = 1 /\ bytes' = <<>>
                /\ room' = RoomFor(units) /\ phase' = "reading"

Init == /\ literal \in Literals /\ at = 1 /\ bytes = <<>>
        /\ room = RoomFor(literal) /\ phase = "reading" /\ original = NotYet

\* The halves of a pair: the 1024 numbers from D800 on, and the 1024 from DC00 on.
HighHalf(u) == u.kind = "u" /\ u.n \div 1024 = 54
LowHalf(u) == u.kind = "u" /\ u.n \div 1024 = 55

Pair(high, low) == 65536 + (high.n % 1024) * 1024 + (low.n % 1024)

\* One turn of the loop: a character, or an escape of one or two units.
Reading == phase = "reading" /\ at <= Len(literal)

Take(bs, units) == /\ bytes' = bytes \o bs /\ at' = at + units
                   /\ UNCHANGED <<literal, room, phase, original>>

Fail == phase' = "failed" /\ UNCHANGED <<literal, at, room, bytes, original>>

Paired == /\ HighHalf(literal[at])
          /\ at < Len(literal) /\ LowHalf(literal[at + 1])

Copy == /\ Reading
        /\ \/ literal[at].kind \in {"byte", "esc"} /\ Take(<<literal[at].n>>, 1)
           \/ literal[at].kind = "char" /\ Take(Utf8(literal[at].n), 1)

Reject == /\ Reading
          /\ \/ literal[at].kind \in {"bad", "cut"}
             \/ LowHalf(literal[at])
             \/ HighHalf(literal[at]) /\ ~Paired
          /\ Fail

Single == /\ Reading /\ literal[at].kind = "u"
          /\ ~HighHalf(literal[at]) /\ ~LowHalf(literal[at])
          /\ Take(Utf8(literal[at].n), 1)

Surrogates == /\ Reading /\ Paired
              /\ Take(Utf8(Pair(literal[at], literal[at + 1])), 2)

Finish == /\ phase = "reading" /\ at > Len(literal) /\ phase' = "done"
          /\ UNCHANGED <<literal, at, room, bytes, original>>

\* print_string_ptr, up to the first NUL.
CString(bs) == LET zeros == {i \in DOMAIN bs : bs[i] = 0} IN
  IF zeros = {} THEN bs ELSE SubSeq(bs, 1, (CHOOSE i \in zeros : \A j \in zeros : i <= j) - 1)

Letters == {8, 9, 10, 12, 13, 34, 92}

Escaped(bs) == [i \in DOMAIN bs |->
  [n |-> bs[i], kind |-> IF bs[i] \in Letters THEN "esc"
                         ELSE IF bs[i] < 32 THEN "u" ELSE "byte"]]

\* Printing and reading again, once.
Reprint == /\ phase = "done" /\ original = NotYet
           /\ original' = CString(bytes)
           /\ Start(Escaped(CString(bytes)))

Next == Copy \/ Reject \/ Single \/ Surrogates \/ Finish \/ Reprint

Spec == Init /\ [][Next]_vars

-----------------------------------------------------------------------------
\* The code point that begins at i and the bytes it has, as a decoder sees them
\* that follows the standard; -1 is none.
Followed(bs, i, k) == \A j \in 1 .. k : i + j \in DOMAIN bs /\ bs[i + j] \div 64 = 2
Low(b) == b % 64

PointAt(bs, i) ==
  IF bs[i] < 128 THEN [n |-> bs[i], size |-> 1]
  ELSE IF bs[i] \div 32 = 6 /\ Followed(bs, i, 1)
  THEN [n |-> (bs[i] % 32) * 64 + Low(bs[i + 1]), size |-> 2]
  ELSE IF bs[i] \div 16 = 14 /\ Followed(bs, i, 2)
  THEN [n |-> ((bs[i] % 16) * 64 + Low(bs[i + 1])) * 64 + Low(bs[i + 2]), size |-> 3]
  ELSE IF bs[i] \div 8 = 30 /\ Followed(bs, i, 3)
  THEN [n |-> (((bs[i] % 8) * 64 + Low(bs[i + 1])) * 64 + Low(bs[i + 2])) * 64 + Low(bs[i + 3]),
        size |-> 4]
  ELSE [n |-> -1, size |-> 1]

\* Those of a string, from the front.
CodePoints(bs) ==
  LET From[i \in 1 .. Len(bs) + 1] ==
        IF i > Len(bs) THEN <<>> ELSE <<PointAt(bs, i).n>> \o From[i + PointAt(bs, i).size]
  IN From[1]

\* The code points that a literal names.
Meant(units) ==
  FlattenSeq([i \in DOMAIN units |->
                IF HighHalf(units[i]) THEN <<Pair(units[i], units[i + 1])>>
                ELSE IF LowHalf(units[i]) THEN <<>> ELSE <<units[i].n>>])

\* The bytes fit into what was allocated for them before a single escape was
\* looked at; they are the UTF-8 of what the literal says, halves of a pair put
\* together; and what is printed is read back as the same string.
StringsSurvive ==
  /\ Len(bytes) + 1 <= room
  /\ phase = "done" /\ original = NotYet => CodePoints(bytes) = Meant(literal)
  /\ original # NotYet => phase # "failed" /\ (phase = "done" => bytes = original)
=============================================================================
