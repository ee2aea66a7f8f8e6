------------------------------- MODULE Texts -------------------------------
(***************************************************************************)
(* The texts of the library, each on state of its own: the string literals *)
(* of JSON and the ini files.  The module only brings them together and    *)
(* says of each what its users rely on.                                    *)
(***************************************************************************)
EXTENDS Integers, Sequences

CONSTANTS StringLiterals,                         \* JsonString
          IniFiles, IniNames, ColonNames, IniWords, \* IniParser
          IniLower, IniColon, IniTop, IniMemory

\* The characters that stand for themselves are those of ASCII and, as JSON text is
\* UTF-8, code points beyond; an escaped letter stands for one of ASCII, and four
\* hexadecimal digits have 16 bits.
CodeSpace == 17 * 65536
Character == 0 .. CodeSpace - 1
Ascii == 0 .. 127
Beyond == 128 .. CodeSpace - 1
Hexadecimal == 0 .. 65535
StringUnits == [kind : {"byte", "esc"}, n : Ascii] \cup [kind : {"char"}, n : Beyond]
                 \cup [kind : {"u"}, n : Hexadecimal]
                 \cup [kind : {"cut", "bad"}, n : Ascii]

ASSUME StringAssumption == StringLiterals \subseteq Seq(StringUnits)

\* JsonString
VARIABLES literal, position, room, bytes, stringPhase, printed
stringVars == <<literal, position, room, bytes, stringPhase, printed>>
String == INSTANCE JsonString WITH
            Literals <- StringLiterals, at <- position, phase <- stringPhase,
            original <- printed

\* The names in a file, with their lower case, which strlwc leaves alone; and the
\* same names with a colon, which a saved file may have.
IniLines == [kind : {"section", "value", "comment", "blank", "junk", "long"},
             name : IniNames, text : Seq(IniWords), more : BOOLEAN]

ASSUME IniAssumption ==
  /\ IniFiles \subseteq Seq(IniLines)
  /\ IniMemory \in Nat
  /\ IniLower \in [IniNames \cup ColonNames -> IniNames \cup ColonNames]
  /\ \A nm \in IniNames : IniLower[nm] \in IniNames /\ IniLower[IniLower[nm]] = IniLower[nm]
  /\ IniColon \in [IniNames -> ColonNames]

\* IniParser
VARIABLES file, unread, joined, section, dict, errs, mem, iniPhase, saved
iniVars == <<file, unread, joined, section, dict, errs, mem, iniPhase, saved>>
Ini == INSTANCE IniParser WITH
         Files <- IniFiles, Top <- IniTop, Memory <- IniMemory,
         Lower <- IniLower, Colon <- IniColon,
         rest <- unread, pending <- joined, phase <- iniPhase, original <- saved

-----------------------------------------------------------------------------
\* Strings come through parsing and printing.
StringsAreUtf8 == String!StringsSurvive

\* What an ini file says is loaded, saved and loaded again.
IniFilesSurvive == Ini!LoadsWhatTheFileSays /\ Ini!SavedIsLoadable
=============================================================================
