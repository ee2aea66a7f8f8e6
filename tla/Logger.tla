------------------------------- MODULE Logger -------------------------------
(***************************************************************************)
(* The root logger of src/cf_logger/cf_logger.c, after its first use, and  *)
(* the streams of src/cf_iostream it writes to.  A line is written to all  *)
(* outputs under the mutex; an output that fails is removed from the list  *)
(* while the list is walked, and the list destroys what is removed.  The   *)
(* level is read and written without the mutex.                            *)
(***************************************************************************)
EXTENDS Naturals, Sequences, FiniteSets, SequencesExt

CONSTANTS Threads,
          Files, Tcps,  \* the streams that can be made
          Nobody,
          Levels,
          MaxLines      \* how many lines are logged: a bound of the model

VARIABLES level,
          fresh, list,    \* the streams not made yet, and m_out_list
          open,           \* the streams with a FILE or a socket
          holder, at,     \* the mutex, and the position of the walk
          line,           \* the line a thread is to write, 0 for none
          logged,         \* the lines that were formatted
          due,            \* auxiliary: per output the lines that were written
                          \* while it was listed, in the order of the mutex
          received        \* what the streams hand on: a size, or a line

vars == <<level, fresh, list, open, holder, at, line, logged, due, received>>

Outs == Files \cup Tcps

Size == 0

Init == /\ level \in Levels
        /\ fresh = Outs /\ list = <<>> /\ open = {}
        /\ holder = Nobody /\ at = 0
        /\ line = [t \in Threads |-> 0]
        /\ logged = 0
        /\ due = [o \in Outs |-> <<>>]
        /\ received = [o \in Outs |-> <<>>]

Idle(t) == line[t] = 0

\* cf_iostream_tcp_connect or cf_iostream_from_file, which opens nothing yet, and
\* cf_log_add_out.
AddOut(t, o) == /\ Idle(t) /\ holder = Nobody /\ o \in fresh
                /\ fresh' = fresh \ {o}
                /\ open' = IF o \in Tcps THEN open \cup {o} ELSE open
                /\ list' = Append(list, o)
                /\ UNCHANGED <<level, holder, at, line, logged, due, received>>

\* An element is removed from the list; its destroy closes it.
Drop(i) == list' = RemoveAt(list, i) /\ open' = open \ {list[i]}

RemoveOut(t, o) == /\ Idle(t) /\ holder = Nobody
                   /\ \E i \in DOMAIN list : list[i] = o /\ Drop(i)
                   /\ UNCHANGED <<level, fresh, holder, at, line, logged, due, received>>

SetLevel(t, l) == /\ Idle(t) /\ level' = l
                  /\ UNCHANGED <<fresh, list, open, holder, at, line, logged, due,
                                 received>>

\* cf_log, up to the mutex; a line above the level is not logged.
Format(t) == /\ Idle(t) /\ logged < MaxLines
             /\ \E l \in Levels : l <= level
             /\ logged' = logged + 1
             /\ line' = [line EXCEPT ![t] = logged']
             /\ UNCHANGED <<level, fresh, list, open, holder, at, due, received>>

Lock(t) == /\ ~Idle(t) /\ holder = Nobody
           /\ holder' = t /\ at' = 1
           /\ due' = [o \in Outs |-> IF o \in ToSet(list) THEN Append(due[o], line[t])
                                     ELSE due[o]]
           /\ UNCHANGED <<level, fresh, list, open, line, logged, received>>

\* writeln: a file is opened by its first line; a line goes to a socket in two
\* sends, the size and then the text.
WriteOut(t) == /\ holder = t /\ at <= Len(list)
               /\ LET o == list[at] IN
                    /\ open' = open \cup {o}
                    /\ received' = [received EXCEPT ![o] =
                         @ \o (IF o \in Tcps THEN <<Size, line[t]>> ELSE <<line[t]>>)]
               /\ at' = at + 1
               /\ UNCHANGED <<level, fresh, list, holder, line, logged, due>>

\* An output that fails leaves the list, and the walk goes on at the one behind it.
FailOutSkipping(t) ==
  /\ holder = t /\ at <= Len(list)
  /\ Drop(at) /\ at' = at + 1
  /\ UNCHANGED <<level, fresh, holder, line, logged, due, received>>

FailOut(t) == /\ holder = t /\ at <= Len(list)
              /\ Drop(at) /\ at' = at
              /\ LET o == list[at] IN
                   \/ UNCHANGED received
                   \/ o \in Tcps /\ received' = [received EXCEPT ![o] = Append(@, Size)]
              /\ UNCHANGED <<level, fresh, holder, line, logged, due>>

Unlock(t) == /\ holder = t /\ at > Len(list)
             /\ holder' = Nobody /\ at' = 0 /\ line' = [line EXCEPT ![t] = 0]
             /\ UNCHANGED <<level, fresh, list, open, logged, due, received>>

Next == \E t \in Threads : \/ Format(t) \/ Lock(t) \/ WriteOut(t) \/ FailOut(t) \/ Unlock(t)
                           \/ \E o \in Outs : AddOut(t, o) \/ RemoveOut(t, o)
                           \/ \E l \in Levels : SetLevel(t, l)

Spec == Init /\ [][Next]_vars

-----------------------------------------------------------------------------
\* The lines that are due from an output, without that of a walk that has not come
\* to it.
Due(o) ==
  LET waits == holder # Nobody /\ \E i \in DOMAIN list : i >= at /\ list[i] = o
  IN IF waits THEN Front(due[o]) ELSE due[o]

\* The lines that an output got: a peer reads each behind its size.
Lines(o) == IF o \in Tcps
            THEN [i \in 1 .. Len(received[o]) \div 2 |-> received[o][2 * i]]
            ELSE received[o]

\* Every output gets every line that is written while it is listed, once and in
\* the same order as all others, whichever of its neighbours fail during the walk;
\* an output that is not listed any more got the first of them; a peer sees sizes
\* and texts in turn; and nothing that is not listed is open.
EveryOutputEveryLine ==
  /\ \A o \in ToSet(list) : Lines(o) = Due(o)
  /\ \A o \in Outs : IsPrefix(Lines(o), Due(o))
  /\ \A o \in Tcps : \A i \in DOMAIN received[o] : (received[o][i] = Size) <=> (i % 2 = 1)
  /\ open \subseteq ToSet(list)
=============================================================================
