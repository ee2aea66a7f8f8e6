------------------------------ MODULE JsonText ------------------------------
(***************************************************************************)
(* The grammar of JSON over symbols: brackets, comma, colon, a literal "v" *)
(* (null, a boolean or a number) and a string "s".                         *)
(***************************************************************************)
EXTENDS Naturals, Sequences

\* The bracket that closes.
Close == [x \in {"[", "{"} |-> IF x = "[" THEN "]" ELSE "}"]

\* The texts of JSON values without spaces, nested to depth d and no longer than n.
JsonValues(d, n) ==
  LET Up(V) ==
        LET Short(S) == {t \in S : Len(t) <= n - 2}
            Lists[k \in 1 .. n] ==
              IF k = 1 THEN [a |-> Short(V), o |-> Short({<<"s", ":">> \o t : t \in V})]
              ELSE LET L == Lists[k - 1] IN
                   [a |-> L.a \cup Short({s \o <<",">> \o t : s \in L.a, t \in V}),
                    o |-> L.o \cup Short({s \o <<",", "s", ":">> \o t :
                                            s \in L.o, t \in V})]
            all == Lists[n]
        IN V \cup {<<"[">> \o t \o <<"]">> : t \in all.a \cup {<<>>}}
             \cup {<<"{">> \o t \o <<"}">> : t \in all.o \cup {<<>>}}
      V[i \in 0 .. d] == IF i = 0 THEN {<<"v">>, <<"s">>} ELSE Up(V[i - 1])
  IN V[d]
=============================================================================
