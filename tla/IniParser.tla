----------------------------- MODULE IniParser -----------------------------
(***************************************************************************)
(* Loading and saving an ini file, src/cf_iniparser/iniparser/iniparser.c, *)
(* as cf_iniparser_load_from_file calls it.  A physical line is a record:  *)
(* its kind as iniparser_line classifies it, the name of its section or    *)
(* key, the text of its value and whether it ends in a backslash.  The     *)
(* dictionary is the map that Dictionary is shown to implement.            *)
(***************************************************************************)
EXTENDS Naturals, Sequences, FiniteSets, SequencesExt, FiniteSetsExt

CONSTANTS Files,   \* the files that are loaded, sequences of physical lines in
                   \* which blanks, comments and values may end in a backslash
          Lower,   \* strlwc, a function from names to names
          Colon,   \* a name with a colon in front, a function too
          Top,     \* the section of the lines before the first section
          Memory   \* the entries dictionary_set can store: a bound of the model

VARIABLES file, rest,   \* the file and the lines that fgets has yet to return
          pending,      \* the lines before this one that ended in a backslash
          section, dict, errs, mem,
          phase,        \* "reading", "loaded", "refused" (a NULL dictionary)
          original      \* when a saved file is read back: what was saved

vars == <<file, rest, pending, section, dict, errs, mem, phase, original>>

\* A key of the dictionary is a section, or a section and a name.
SectionKey(s) == <<s>>
ValueKey(s, k) == <<s, k>>

Keys(d) == DOMAIN d

\* dictionary_set
Set(d, k, v) == [x \in Keys(d) \cup {k} |-> IF x = k THEN v ELSE d[x]]

NoDict == [k \in {} |-> <<>>]

Reading(f) == /\ file' = f /\ rest' = f
              /\ pending' = <<>> /\ section' = Top /\ dict' = NoDict
              /\ errs' = 0 /\ mem' = Memory /\ phase' = "reading"

Init == /\ file \in Files /\ rest = file
        /\ pending = <<>> /\ section = Top /\ dict = NoDict
        /\ errs = 0 /\ mem = Memory /\ phase = "reading"
        /\ original = NoDict

\* The value of a line made of several: the texts in order, up to a comment.
Text(lines) ==
  LET comments == {i \in 2 .. Len(lines) : lines[i].kind = "comment"}
      end == IF comments = {} THEN Len(lines)
             ELSE (CHOOSE i \in comments : \A j \in comments : i <= j) - 1
  IN FlattenSeq([i \in 1 .. end |-> lines[i].text])

\* The first of the joined lines decides what they are together.
Line == Append(pending, Head(rest))

\* A line that is not over is kept; the rest of the buffer comes after it.
Join == /\ phase = "reading" /\ rest # <<>>
        /\ Head(rest).more
        /\ pending' = IF Len(Line) = 1 /\ Line[1].kind = "blank" THEN <<>> ELSE Line
        /\ rest' = Tail(rest)
        /\ UNCHANGED <<file, section, dict, errs, mem, phase, original>>

\* More text than the buffer holds.
TooLong == /\ phase = "reading" /\ rest # <<>>
           /\ Head(rest).kind = "long"
           /\ phase' = "refused" /\ dict' = NoDict
           /\ UNCHANGED <<file, rest, pending, section, errs, mem, original>>

\* A section is remembered as it is written.
SectionAsWritten(line) == IF line.kind = "section" THEN line.name ELSE section
NextSection(line) == IF line.kind = "section" THEN Lower[line.name] ELSE section

\* The entry of a line, or none.
Entries(line) ==
  CASE line.kind = "section" -> {<<SectionKey(Lower[line.name]), <<>> >>}
    [] line.kind = "value" ->
         {<<ValueKey(section, Lower[line.name]), Text(Line)>>}
    [] OTHER -> {}

\* A line that is complete.  Storing it may fail for want of memory, which ends
\* the loop and keeps what was read.
Take == /\ phase = "reading" /\ rest # <<>>
        /\ ~Head(rest).more /\ Head(rest).kind # "long"
        /\ LET line == Line[1] IN
             /\ section' = NextSection(line)
             /\ errs' = IF line.kind = "junk" THEN errs + 1 ELSE errs
             /\ IF Entries(line) = {}
                THEN dict' = dict /\ mem' = mem /\ rest' = Tail(rest)
                ELSE \E e \in Entries(line) :
                       IF mem = 0 /\ e[1] \notin Keys(dict)
                       THEN dict' = dict /\ mem' = mem /\ rest' = <<>>
                       ELSE /\ dict' = Set(dict, e[1], e[2])
                            /\ mem' = IF e[1] \in Keys(dict) THEN mem ELSE mem - 1
                            /\ rest' = Tail(rest)
        /\ pending' = <<>>
        /\ UNCHANGED <<file, phase, original>>

\* The end of the file, in the middle of joined lines perhaps, which are lost.
Finish == /\ phase = "reading" /\ rest = <<>>
          /\ phase' = IF errs = 0 THEN "loaded" ELSE "refused"
          /\ dict' = IF errs = 0 THEN dict ELSE NoDict
          /\ UNCHANGED <<file, rest, pending, section, errs, mem, original>>

\* iniparser_dump_ini: section by section; a key outside the sections is written
\* only when there are none, and then with its colon.
Sections(d) == {k[1] : k \in {x \in Keys(d) : Len(x) = 1}}

Printed(kind, name, text) ==
  [kind |-> kind, name |-> name, text |-> text, more |-> FALSE]

KeysOf(d, s) == {k \in Keys(d) : Len(k) = 2 /\ k[1] = s}

Dump(d) ==
  IF Sections(d) = {}
  THEN [i \in 1 .. Cardinality(Keys(d)) |->
          LET k == SetToSeq(Keys(d))[i] IN Printed("value", Colon[k[2]], d[k])]
  ELSE FlattenSeq([i \in 1 .. Cardinality(Sections(d)) |->
         LET s == SetToSeq(Sections(d))[i]
             keys == SetToSeq(KeysOf(d, s))
         IN <<Printed("section", s, <<>>)>> \o
            [j \in 1 .. Len(keys) |-> Printed("value", keys[j][2], d[keys[j]])]])

\* A dictionary that was loaded is saved, and loaded from what was saved.
Save == /\ phase = "loaded" /\ original = NoDict /\ dict # NoDict
        /\ original' = dict
        /\ Reading(Dump(dict))

Next == Join \/ TooLong \/ Take \/ Finish \/ Save

Spec == Init /\ [][Next]_vars

-----------------------------------------------------------------------------
\* What a file says, without reading it line by line.
Starts(f) == {i \in DOMAIN f : \E j \in 0 .. i - 1 :
                /\ j = 0 \/ ~f[j].more
                /\ \A l \in j + 1 .. i - 1 : f[l].more /\ f[l].kind = "blank"}

Complete(f, i) == {j \in i .. Len(f) : ~f[j].more}

SectionAt(f, i) ==
  LET before == {j \in Starts(f) : j < i /\ f[j].kind = "section"}
  IN IF before = {} THEN Top
     ELSE Lower[f[CHOOSE j \in before : \A l \in before : l <= j].name]

KeyAt(f, i) == IF f[i].kind = "section" THEN SectionKey(Lower[f[i].name])
               ELSE ValueKey(SectionAt(f, i), Lower[f[i].name])

Says(f, k) == {i \in Starts(f) : /\ f[i].kind \in {"section", "value"}
                                 /\ Complete(f, i) # {}
                                 /\ KeyAt(f, i) = k}

AllKeys(f) == {k \in {KeyAt(f, i) : i \in {j \in DOMAIN f :
                  f[j].kind \in {"section", "value"}}} : Says(f, k) # {}}

ValueAt(f, i) == IF f[i].kind = "section" THEN <<>>
                 ELSE Text(SubSeq(f, i, Min(Complete(f, i))))

\* A file that is loaded gives every section and key it says, each with the last
\* value said for it in its section, whatever its case and however its lines are
\* joined, unless memory ran out; and a file with a line that says nothing is
\* refused.
LoadsWhatTheFileSays ==
  phase = "loaded" /\ Cardinality(AllKeys(file)) <= Memory =>
    /\ Keys(dict) = AllKeys(file)
    /\ \A k \in Keys(dict) : dict[k] = ValueAt(file, Max(Says(file, k)))
    /\ \A i \in Starts(file) : Complete(file, i) # {} => file[i].kind # "junk"

\* "Save a dictionary to a loadable ini file": what is saved is loaded again, and
\* is the dictionary that was saved if all its keys belong to sections.
SavedIsLoadable ==
  original # NoDict =>
    /\ phase # "refused"
    /\ phase = "loaded" /\ (\A k \in Keys(original) : k[1] # Top) => dict = original
=============================================================================
