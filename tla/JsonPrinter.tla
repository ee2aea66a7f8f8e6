---------------------------- MODULE JsonPrinter ----------------------------
(***************************************************************************)
(* Writing JSON text, src/cf_json/cJSON/cJSON.c: cJSON_Print and           *)
(* cJSON_PrintPreallocated with print_value, print_array and print_object. *)
(* A document is its text without layout, as in JsonParser, which the walk *)
(* of the tree meets from left to right.  Each piece asks `ensure' for     *)
(* room, which may enlarge the buffer; a value is written behind the       *)
(* offset, and its caller moves the offset by its strlen (update_offset).  *)
(***************************************************************************)
EXTENDS Naturals, Sequences, FiniteSets, SequencesExt

CONSTANTS Documents,
          Width,      \* the printed length of a symbol, a function
          FirstSize,  \* default_buffer_size
          IntMax,     \* INT_MAX
          Rooms       \* the lengths of the buffers that clients bring along

VARIABLES document, format, noalloc,
          rest,                   \* what of the document is not printed yet
          nest,                   \* the containers that are open
          step,                   \* "piece", "count" (the offset), "behind" (a member)
          length, offset, reach,  \* of the buffer; the bytes written, NUL included
          out,                    \* the text, symbol by symbol
          phase                   \* "printing", "done", "failed"

vars == <<document, format, noalloc, rest, nest, step, length, offset, reach, out, phase>>

WidthOf(symbols) == FoldLeft(LAMBDA w, c : w + Width[c], 0, symbols)

Init == /\ document \in Documents /\ rest = document /\ nest = <<>>
        /\ format \in BOOLEAN /\ noalloc \in BOOLEAN
        /\ length \in (IF noalloc THEN Rooms ELSE {FirstSize})
        /\ offset = 0 /\ reach = 0 /\ out = <<>>
        /\ step = "piece" /\ phase = "printing"

\* The length that ensure leaves, 0 when there is no room or no memory.
Larger(total) == IF noalloc \/ total > IntMax THEN {0}
                 ELSE IF total > IntMax \div 2 THEN {0, IntMax} ELSE {0, 2 * total}

\* The room that is already taken is forgotten.
EnsureFromStart(needed) == IF needed + 1 <= length THEN {length} ELSE Larger(needed + 1)

Ensure(needed) == IF offset >= length /\ length > 0 THEN {0}
                  ELSE IF offset + needed + 1 <= length THEN {length}
                  ELSE Larger(offset + needed + 1)

\* A piece needs room, writes symbols and perhaps a NUL, and moves the offset
\* behind them at once (next = "piece") or leaves that to the caller.
Write(needed, symbols, nul, next) ==
  \E l \in Ensure(needed) :
    IF l = 0
    THEN phase' = "failed" /\ UNCHANGED <<length, offset, reach, out, step>>
    ELSE /\ length' = l
         /\ reach' = offset + WidthOf(symbols) + nul
         /\ offset' = IF next = "count" THEN offset ELSE offset + WidthOf(symbols)
         /\ out' = out \o symbols
         /\ step' = next
         /\ UNCHANGED phase

Piece == phase = "printing" /\ step = "piece" /\ rest # <<>>

Fixed == UNCHANGED <<document, format, noalloc>>

Layout(symbols, space) == IF format THEN symbols \o space ELSE symbols
Tabs(n) == [i \in 1 .. n |-> "\t"]

IsName == Len(rest) > 1 /\ rest[1] = "s" /\ rest[2] = ":"

PrintLeaf == /\ Piece /\ Head(rest) \in {"v", "s"} /\ ~IsName
             /\ Write(Width[Head(rest)] + 1, <<Head(rest)>>, 1, "count")
             /\ rest' = Tail(rest) /\ UNCHANGED nest /\ Fixed

OpenArray == /\ Piece /\ Head(rest) = "["
             /\ Write(1, <<"[">>, 0, "piece")
             /\ rest' = Tail(rest) /\ nest' = Append(nest, "[") /\ Fixed

NextElement == /\ Piece /\ Head(rest) = ","
               /\ LET s == Layout(<<",">>, <<" ">>) IN Write(Len(s) + 1, s, 1, "piece")
               /\ rest' = Tail(rest) /\ UNCHANGED nest /\ Fixed

CloseArray == /\ Piece /\ Head(rest) = "]"
              /\ Write(2, <<"]">>, 1, "count")
              /\ rest' = Tail(rest) /\ nest' = Front(nest) /\ Fixed

OpenObject == /\ Piece /\ Head(rest) = "{"
              /\ LET s == Layout(<<"{">>, <<"\n">>) IN Write(Len(s) + 1, s, 0, "piece")
              /\ rest' = Tail(rest) /\ nest' = Append(nest, "{") /\ Fixed

Indent == /\ Piece /\ IsName /\ format /\ Last(out) = "\n"
          /\ Write(Len(nest), Tabs(Len(nest)), 0, "piece")
          /\ UNCHANGED <<rest, nest>> /\ Fixed

Name == /\ Piece /\ IsName /\ (format => Last(out) = "\t")
        /\ Write(Width["s"] + 1, <<"s">>, 1, "count")
        /\ rest' = Tail(rest) /\ UNCHANGED nest /\ Fixed

Colon == /\ Piece /\ Head(rest) = ":"
         /\ LET s == Layout(<<":">>, <<"\t">>) IN Write(Len(s), s, 0, "piece")
         /\ rest' = Tail(rest) /\ UNCHANGED nest /\ Fixed

\* Behind a member, the last one too.
EndMember == /\ phase = "printing" /\ step = "behind"
             /\ LET comma == Head(rest) = ","
                    s == Layout(IF comma THEN <<",">> ELSE <<>>, <<"\n">>)
                IN /\ Write(Len(s) + 1, s, 1, "piece")
                   /\ rest' = IF comma THEN Tail(rest) ELSE rest
             /\ UNCHANGED nest /\ Fixed

CloseObject == /\ Piece /\ Head(rest) = "}"
               /\ Write(IF format THEN Len(nest) + 1 ELSE 2,
                        (IF format THEN Tabs(Len(nest) - 1) ELSE <<>>) \o <<"}">>,
                        1, "count")
               /\ rest' = Tail(rest) /\ nest' = Front(nest) /\ Fixed

UpdateOffset == /\ phase = "printing" /\ step = "count"
                /\ offset' = reach - 1
                /\ phase' = IF rest = <<>> THEN "done" ELSE phase
                /\ step' = IF nest # <<>> /\ Last(nest) = "{" /\ Head(rest) # ":"
                           THEN "behind" ELSE "piece"
                /\ UNCHANGED <<rest, nest, length, reach, out>> /\ Fixed

Next == \/ PrintLeaf \/ OpenArray \/ NextElement \/ CloseArray
        \/ OpenObject \/ Indent \/ Name \/ Colon \/ EndMember \/ CloseObject
        \/ UpdateOffset

Spec == Init /\ [][Next]_vars

-----------------------------------------------------------------------------
Layouts == {" ", "\n", "\t"}

Count(S, i) == Cardinality({j \in 1 .. i : document[j] \in S})
Depth(i) == Count({"[", "{"}, i - 1) - Count({"]", "}"}, i - 1)

\* The bytes that format = true adds at a symbol of the document: a blank behind
\* the comma of an array; a line behind "{" and each member, and a tab behind its
\* colon; and the tabs before a name and before "}".
IsNameAt(i) == i + 1 <= Len(document) /\ document[i] = "s" /\ document[i + 1] = ":"

AddedAt(i) == CASE IsNameAt(i) -> Depth(i) + 2
                [] document[i] = "," /\ ~IsNameAt(i + 1) -> 1
                [] document[i] = "{" -> 1
                [] document[i] = "}" -> Depth(i) - 1
                [] OTHER -> 0

TextWidth ==
  WidthOf(document) +
  (IF format THEN FoldLeft(LAMBDA w, i : w + AddedAt(i), 0, [i \in DOMAIN document |-> i])
   ELSE 0)

\* Nothing is written past the buffer; what is printed is the document and its
\* layout, counted to the last byte; and a client's buffer that is five bytes
\* longer than the text is long enough, as cJSON.h:162 advises.
PrintsInBounds ==
  /\ reach <= length
  /\ phase = "done" => /\ SelectSeq(out, LAMBDA c : c \notin Layouts) = document
                       /\ offset = TextWidth
  /\ phase = "failed" /\ noalloc => length < TextWidth + 5
=============================================================================
