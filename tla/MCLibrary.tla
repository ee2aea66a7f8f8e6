----------------------------- MODULE MCLibrary -----------------------------
(***************************************************************************)
(* The parts of the library that run in one thread, or share nothing with  *)
(* each other, on small instances.  Init picks a part, `which'; the steps  *)
(* are the steps of that part, and all others keep their first state.      *)
(***************************************************************************)
EXTENDS MCPopDeadline, JsonText, Services, Containers, Texts

VARIABLES which
part == <<which>>

-----------------------------------------------------------------------------
\* CfHash: three keys that collide and one that does not.
MCBucketOf == [k \in HashKeys |-> IF k = 5 THEN 1 ELSE 0]

\* Dictionary: it grows twice; two of three keys have the same hash.
MCDictHash == [k \in DictKeys |-> IF k = 5 THEN 1 ELSE 0]

\* CJson: three items, two names that differ in case.
MCLowerName == [nm \in Names |-> 5]

-----------------------------------------------------------------------------
\* IniParser: every file of up to four lines of these; two entries fit.
PhysicalLine(kind, nm, txt, more) == [kind |-> kind, name |-> nm, text |-> txt, more |-> more]
PhysicalLines == {PhysicalLine("section", "A", <<>>, FALSE),
                  PhysicalLine("value", "x", <<"v">>, FALSE),
                  PhysicalLine("value", "X", <<"w">>, TRUE),
                  PhysicalLine("value", "b", <<>>, FALSE),
                  PhysicalLine("comment", "", <<>>, FALSE),
                  PhysicalLine("comment", "", <<>>, TRUE),
                  PhysicalLine("blank", "", <<>>, FALSE),
                  PhysicalLine("blank", "", <<>>, TRUE),
                  PhysicalLine("junk", "", <<"j">>, FALSE),
                  PhysicalLine("long", "", <<>>, FALSE)}
MCIniFiles == UNION {[1 .. k -> PhysicalLines] : k \in 1 .. 4}
MCIniNames == {"A", "a", "x", "X", "b", ""}
MCColonNames == {":A", ":a", ":x", ":X", ":b", ":"}
MCIniColon == [s \in MCIniNames |-> ":" \o s]
MCIniLower == [s \in MCIniNames \cup MCColonNames |->
                 CASE s = "A" -> "a" [] s = "X" -> "x"
                   [] s = ":A" -> ":a" [] s = ":X" -> ":x" [] OTHER -> s]

\* JsonParser: every text of up to three symbols, and those one edit away from an
\* object, an array and a value that is nested too deeply, with and without NUL.
Symbols == {"[", "]", "{", "}", ",", ":", "v", "s", " "}
Seeds == {<<"{", "s", ":", "v", ",", "s", ":", "s", "}">>,
          <<" ", "[", "[", "v", "]", ",", "{", "}", "]">>,
          <<"[", "[", "[", "v", "]", "]", "]">>}
Near(t) == {t} \cup {[t EXCEPT ![i] = c] : i \in DOMAIN t, c \in Symbols}
               \cup {SubSeq(t, 1, i) : i \in DOMAIN t}
               \cup {SubSeq(t, 1, i - 1) \o SubSeq(t, i + 1, Len(t)) : i \in DOMAIN t}
JsonTexts == LET S == UNION {[1 .. k -> Symbols] : k \in 0 .. 3}
                        \cup UNION {Near(t) : t \in Seeds}
             IN {t \o <<"0">> : t \in S} \cup (S \ {<<>>})
VARIABLES text, offset, stack, want, root, live, parsePhase
parserVars == <<text, offset, stack, want, root, live, parsePhase>>
Parser == INSTANCE JsonParser WITH
            Texts <- JsonTexts, NestingLimit <- 2, Memory <- 5, phase <- parsePhase
Language == JsonValues(2, 9)

\* JsonPrinter: nested arrays and objects, a buffer that must grow to INT_MAX, and
\* buffers of clients that are too short, just right and longer.
JsonDocuments ==
  {<<"v">>, <<"[", "]">>, <<"{", "}">>,
   <<"{", "s", ":", "[", "v", ",", "s", "]", ",", "s", ":", "{", "}", "}">>,
   <<"{", "s", ":", "{", "s", ":", "{", "s", ":", "v", "}", "}", "}">>,
   <<"[", "[", "v", "]", ",", "{", "s", ":", "s", ",", "s", ":", "v", "}", "]">>}
SymbolWidth == [c \in Symbols \cup {"\n", "\t"} |-> CASE c = "v" -> 4 [] c = "s" -> 2 [] OTHER -> 1]
VARIABLES document, format, noalloc, toPrint, nest, step, bufLength, written, reach,
          out, printPhase
printerVars == <<document, format, noalloc, toPrint, nest, step, bufLength, written,
                 reach, out, printPhase>>
Printer == INSTANCE JsonPrinter WITH
             Documents <- JsonDocuments, Width <- SymbolWidth, FirstSize <- 4, IntMax <- 40,
             Rooms <- {1, 2, 3, 5, 8, 12, 16, 20, 25, 32, 36, 40, 50},
             rest <- toPrint, length <- bufLength, offset <- written, phase <- printPhase

\* JsonString: up to three units, the code points at every boundary among them.
Unit(kind, ns) == {[kind |-> kind, n |-> x] : x \in ns}
Units == Unit("byte", {65}) \cup Unit("char", {1114111}) \cup Unit("esc", {34, 10})
           \cup Unit("bad", {0}) \cup Unit("cut", {0})
           \cup Unit("u", {0, 31, 127, 128, 2047, 2048, 55295, 55296, 56319, 56320, 57343,
                           57344, 65535})
MCLiterals == UNION {[1 .. k -> Units] : k \in 0 .. 3}

-----------------------------------------------------------------------------
\* WebSocket: two clients, the first of which has two frames to send; texts, binary
\* data, a close and a ping whose lengths need one, three and nine bytes.
Frame(code, bits, mask) == [code |-> code, data |-> bits, mask |-> mask]
FirstSends ==
  {<<Frame(9, <<1>>, <<0, 0, 0, 0>>), Frame(1, <<1, 1, 0, 1, 0>>, <<0, 0, 1, 1>>)>>,
   <<Frame(2, <<1, 1, 0>>, <<1, 0, 0, 1>>), Frame(8, <<>>, <<1, 1, 1, 1>>)>>}
MCSends == {<<first, <<Frame(1, <<1>>, <<0, 1, 1, 1>>)>> >> : first \in FirstSends}

\* Announcer: a period of three, a clock that is set on or back, three messages.
MCJumps == {-1, 2}

\* Logger: two threads, a file and two sockets.
MCFiles == {"f"}
MCTcps == {"t", "u"}

\* ModuleLoader: three modules, one without a load function, one name each.
\* Pipeline: three elements of every kind of class, and one of another capability.
ElementClass(p, r, c) == [processer |-> p, releases |-> r, cap |-> c]
MCClasses == {ElementClass(p, r, 1) : p \in {"makes", "drops"}, r \in BOOLEAN}
               \cup {ElementClass("passes", FALSE, 1), ElementClass("none", FALSE, 1),
                     ElementClass("makes", TRUE, 2)}

-----------------------------------------------------------------------------
containerVars == <<listVars, tableVars, dictionaryVars, jsonVars>>
textVars == <<iniVars, parserVars, printerVars, stringVars>>
serviceVars == <<webVars, udpVars, logVars, modVars, pipeVars, suiteVars, vars>>
libraryVars == <<part, containerVars, textVars, serviceVars>>

Parts == {"list", "table", "dictionary", "json", "ini", "parser", "printer", "string",
          "web", "announce", "log", "module", "pipeline", "suite", "deadline"}

\* A part that is not picked starts in one of its first states.
Picked(p) == which = p

LibraryInit ==
  /\ which \in Parts
  /\ Picked("ini") \/ (~Picked("ini") /\ file = <<PhysicalLine("blank", "", <<>>, FALSE)>>)
  /\ Picked("parser") \/ (~Picked("parser") /\ text = <<"v">>)
  /\ Picked("printer") \/ (~Picked("printer") /\ document = <<"v">> /\ format = FALSE
                                              /\ noalloc = FALSE)
  /\ Picked("string") \/ (~Picked("string") /\ literal = <<>>)
  /\ Picked("web") \/ (~Picked("web") /\ frames = CHOOSE f \in MCSends : TRUE)
  /\ Picked("announce") \/ (~Picked("announce") /\ msg = 1)
  /\ Picked("log") \/ (~Picked("log") /\ level = 1)
  /\ Picked("deadline") \/ (~Picked("deadline") /\ timeout = 1
                                                /\ now = [tv_sec |-> 0, tv_usec |-> 0])
  /\ List!Init /\ Table!Init /\ Dict!Init /\ Json!Init
  /\ Ini!Init /\ Parser!Init /\ Printer!Init /\ String!Init
  /\ Web!Init /\ Udp!Init /\ Log!Init /\ Mod!Init /\ Pipe!Init /\ Suite!Init /\ Init

ListStep == /\ which = "list" /\ List!Next
            /\ UNCHANGED <<part, tableVars, dictionaryVars, jsonVars, textVars, serviceVars>>
TableStep == /\ which = "table" /\ Table!Next
             /\ UNCHANGED <<part, listVars, dictionaryVars, jsonVars, textVars, serviceVars>>
DictStep == /\ which = "dictionary" /\ Dict!Next
            /\ UNCHANGED <<part, listVars, tableVars, jsonVars, textVars, serviceVars>>
JsonStep == /\ which = "json" /\ Json!Next
            /\ UNCHANGED <<part, listVars, tableVars, dictionaryVars, textVars, serviceVars>>
IniStep == /\ which = "ini" /\ Ini!Next
           /\ UNCHANGED <<part, parserVars, printerVars, stringVars, containerVars, serviceVars>>
ParserStep == /\ which = "parser" /\ Parser!Next
              /\ UNCHANGED <<part, iniVars, printerVars, stringVars, containerVars, serviceVars>>
PrinterStep == /\ which = "printer" /\ Printer!Next
               /\ UNCHANGED <<part, iniVars, parserVars, stringVars, containerVars, serviceVars>>
StringStep == /\ which = "string" /\ String!Next
              /\ UNCHANGED <<part, iniVars, parserVars, printerVars, containerVars, serviceVars>>
WebStep == /\ which = "web" /\ Web!Next
           /\ UNCHANGED <<part, udpVars, logVars, modVars, pipeVars, suiteVars, vars, containerVars, textVars>>
UdpStep == /\ which = "announce" /\ Udp!Next
           /\ UNCHANGED <<part, webVars, logVars, modVars, pipeVars, suiteVars, vars, containerVars, textVars>>
LogStep == /\ which = "log" /\ Log!Next
           /\ UNCHANGED <<part, webVars, udpVars, modVars, pipeVars, suiteVars, vars, containerVars, textVars>>
ModStep == /\ which = "module" /\ Mod!Next
           /\ UNCHANGED <<part, webVars, udpVars, logVars, pipeVars, suiteVars, vars, containerVars, textVars>>
PipeStep == /\ which = "pipeline" /\ Pipe!Next
            /\ UNCHANGED <<part, webVars, udpVars, logVars, modVars, suiteVars, vars, containerVars, textVars>>
SuiteStep == /\ which = "suite" /\ Suite!Next
             /\ UNCHANGED <<part, webVars, udpVars, logVars, modVars, pipeVars, vars, containerVars, textVars>>
DeadlineStep == /\ which = "deadline" /\ Next
                /\ UNCHANGED <<part, webVars, udpVars, logVars, modVars, pipeVars, suiteVars, containerVars, textVars>>

LibraryNext == \/ ListStep \/ TableStep \/ DictStep \/ JsonStep \/ IniStep
               \/ ParserStep \/ PrinterStep \/ StringStep \/ WebStep \/ UdpStep \/ LogStep
               \/ ModStep \/ PipeStep \/ SuiteStep \/ DeadlineStep

LibrarySpec == LibraryInit /\ [][LibraryNext]_libraryVars

-----------------------------------------------------------------------------
\* The properties of the parts, under names of their own; those of Services
\* and Containers have theirs there.

\* A text gives the items of the value it begins with, or none.
ParserReadsValue == Parser!ReadsValue(Language)

\* Printing stays in the buffer and prints the document.
PrinterInBounds == Printer!PrintsInBounds
=============================================================================
