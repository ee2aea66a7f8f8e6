----------------------------- MODULE JsonParser -----------------------------
(***************************************************************************)
(* Reading JSON text, src/cf_json/cJSON/cJSON.c: cJSON_Parse, parse_value, *)
(* parse_array and parse_object over a buffer.  A text is a sequence of    *)
(* symbols: brackets, comma, colon, a literal "v" (null, a boolean or a    *)
(* number), a string "s", a space, and "0", the NUL at the end, which is   *)
(* skipped as a space is.  An item is written as the text it came from,    *)
(* without spaces.  Recursion is a stack of the containers being read.     *)
(***************************************************************************)
EXTENDS JsonText, FiniteSets, SequencesExt

CONSTANTS Texts,
          NestingLimit,  \* CJSON_NESTING_LIMIT
          Memory         \* the items that can be allocated: a bound of the model

VARIABLES text, offset,
          stack,   \* per open container: its kind, its finished items, a name
          want,    \* "value", "name", or "more": behind an item
          root,    \* the item that is returned, <<>> for none
          live,    \* the items that are allocated
          phase    \* "parsing", "done", "failed"

vars == <<text, offset, stack, want, root, live, phase>>

White == {" ", "0"}

\* buffer_skip_whitespace: it steps back from the end of the buffer, on a space.
SkipIn(t, o) ==
  LET rest == {i \in o .. Len(t) - 1 : t[i + 1] \notin White}
  IN IF o >= Len(t) THEN o
     ELSE IF rest = {} THEN Len(t) - 1
     ELSE CHOOSE i \in rest : \A j \in rest : i <= j
Skip(o) == SkipIn(text, o)

Init == /\ text \in Texts /\ offset = SkipIn(text, 0)
        /\ stack = <<>> /\ want = "value" /\ root = <<>>
        /\ live = 1 /\ phase = "parsing"

At(o) == IF o < Len(text) THEN text[o + 1] ELSE "end"

Top == stack[Len(stack)]

\* The items of a tree.
Size(item) == 1 + Cardinality({i \in DOMAIN item : item[i] = ","})
                + Cardinality({i \in 1 .. Len(item) - 1 :
                     item[i] \in DOMAIN Close /\ item[i + 1] # Close[item[i]]})

Sizes(items) == FoldLeft(LAMBDA n, item : n + Size(item), 0, items)

\* A failure deletes the list of every open container, with the item that is
\* being read at its end, and then the root.
Fail == /\ phase' = "failed" /\ stack' = <<>>
        /\ live' = live - 1 - FoldLeft(LAMBDA n, f : n + 1 + Sizes(f.items), 0, stack)
                        + (IF want = "more" THEN 1 ELSE 0)
        /\ UNCHANGED <<text, offset, want, root>>

\* An item is read: it is the result, or joins the container around it.
Give(item, o, open) ==
  /\ UNCHANGED <<text, live>>
  /\ want' = "more"
  /\ IF open = <<>>
     THEN phase' = "done" /\ root' = item /\ stack' = <<>> /\ offset' = o
     ELSE LET f == open[Len(open)] IN
          /\ stack' = [open EXCEPT ![Len(open)] =
                         [f EXCEPT !.items = Append(f.items, f.name \o item)]]
          /\ offset' = Skip(o)
          /\ UNCHANGED <<root, phase>>

\* The items of a container are separated by commas.
Joined(kind, items) ==
  <<kind>> \o FlattenSeq([i \in DOMAIN items |->
                            IF i = 1 THEN items[i] ELSE <<",">> \o items[i]])
          \o <<Close[kind]>>

Parsing(what) == phase = "parsing" /\ want = what

Leaf == /\ Parsing("value") /\ At(offset) \in {"v", "s"}
        /\ Give(<<At(offset)>>, offset + 1, stack)

\* No value begins here, or one that is nested too deeply.
NoValue == /\ Parsing("value")
           /\ \/ At(offset) \notin {"v", "s", "[", "{"}
              \/ At(offset) \in {"[", "{"} /\ Len(stack) = NestingLimit
           /\ Fail

\* The new item is behind a bracket or a comma.
NextItem(kind, o, open) ==
  IF live = Memory THEN Fail
  ELSE /\ live' = live + 1 /\ offset' = o /\ stack' = open
       /\ want' = IF kind = "[" THEN "value" ELSE "name"
       /\ UNCHANGED <<text, root, phase>>

Open == LET kind == At(offset) first == Skip(offset + 1) IN
        /\ Parsing("value") /\ kind \in {"[", "{"} /\ Len(stack) < NestingLimit
        /\ CASE At(first) = "end" -> Fail
             [] At(first) = Close[kind] -> Give(Joined(kind, <<>>), first + 1, stack)
             [] OTHER -> NextItem(kind, first,
                           Append(stack, [kind |-> kind, items |-> <<>>, name |-> <<>>]))

Name == LET colon == Skip(offset + 1) IN
        /\ Parsing("name")
        /\ IF At(offset) # "s" \/ At(colon) # ":" THEN Fail
           ELSE /\ stack' = [stack EXCEPT ![Len(stack)].name = <<"s", ":">>]
                /\ offset' = Skip(colon + 1) /\ want' = "value"
                /\ UNCHANGED <<text, root, live, phase>>

Comma == /\ Parsing("more") /\ At(offset) = ","
         /\ NextItem(Top.kind, Skip(offset + 1), stack)

\* The container ends with any bracket.
EndWithAny == /\ Parsing("more") /\ At(offset) # ","
              /\ IF At(offset) \notin {"]", "}"} THEN Fail
                 ELSE Give(Joined(Top.kind, Top.items), offset + 1, Front(stack))

End == /\ Parsing("more") /\ At(offset) # ","
       /\ IF At(offset) # Close[Top.kind] THEN Fail
          ELSE Give(Joined(Top.kind, Top.items), offset + 1, Front(stack))

Next == Leaf \/ NoValue \/ Open \/ Name \/ Comma \/ End

Spec == Init /\ [][Next]_vars

-----------------------------------------------------------------------------
Squeezed(t) == SelectSeq(t, LAMBDA c : c \notin White)

\* A text that begins with a JSON value gives the items of that value, and any
\* other text is refused, as is one for which memory runs out; an item that was
\* allocated is in the result or deleted.
ReadsValue(language) ==
  /\ phase = "done" => /\ root \in language /\ live = Size(root)
                       /\ Squeezed(SubSeq(text, 1, offset)) = root
  /\ phase = "failed" => /\ live = 0
                         /\ \A k \in 1 .. Len(text) :
                              LET t == Squeezed(SubSeq(text, 1, k))
                              IN t \in language => Size(t) > Memory
=============================================================================
