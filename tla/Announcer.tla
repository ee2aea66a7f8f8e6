----------------------------- MODULE Announcer -----------------------------
(***************************************************************************)
(* How the server of src/cf_stp/cf_stp.c announces itself over UDP: by the *)
(* timeout of the select that waits for clients.  Each pass arms it anew   *)
(* with what is left of the period by the wall clock; a pass that finds    *)
(* clients ready serves them and announces nothing.  Stp has what a pass   *)
(* does with the clients; here it only takes time.                         *)
(***************************************************************************)
EXTENDS Integers

CONSTANTS
    Period,         \* 3000 ms
    Jumps,          \* by how much the wall clock may be set, once
    Messages, Nil,  \* what the program may have announced, and NULL
    Horizon         \* bounds the wall clock

VARIABLES
    pc,             \* setup, loop, select or serve
    clock,          \* cf_util_gettime_ms
    last,           \* last_ms
    timer,          \* what select still waits
    msg,            \* m_multicast_msg
    kept,           \* the message in multi_json
    freed,          \* messages that were destroyed
    spent,          \* auxiliary: the time since the last announcement
    shift,          \* auxiliary: what the clock was set by since then
    seen            \* auxiliary: and what the timer takes account of

vars == <<pc, clock, last, timer, msg, kept, freed, spent, shift, seen>>

Init ==
    /\ pc = "setup" /\ clock = 0 /\ last = -1 /\ timer = 0
    /\ msg \in Messages /\ kept = Nil /\ freed = {}
    /\ spent = 0 /\ shift = 0 /\ seen = 0

\* A program replaces the message before the server runs, or in a processor until
\* the first announcement: later ones would print the message that is freed here.
SetMessage(m) ==
    /\ pc \in {"setup", "serve"} /\ kept = Nil
    /\ m \in Messages \ (freed \cup {msg})
    /\ msg' = m
    /\ freed' = freed \cup {msg}
    /\ UNCHANGED <<pc, clock, last, timer, kept, spent, shift, seen>>

Start ==
    /\ pc = "setup" /\ pc' = "loop"
    /\ UNCHANGED <<clock, last, timer, msg, kept, freed, spent, shift, seen>>

\* Mutant: the whole period is waited for again.
RemainWhole(elapsed) == Period

Remain(elapsed) == IF elapsed > Period THEN 0 ELSE Period - elapsed

Arm ==
    /\ pc = "loop" /\ pc' = "select"
    /\ last' = IF last = -1 THEN clock ELSE last
    /\ timer' = Remain(clock - last')
    /\ seen' = shift
    /\ UNCHANGED <<clock, msg, kept, freed, spent, shift>>

\* A millisecond of the wait.
Tick ==
    /\ pc = "select" /\ timer > 0
    /\ clock < Horizon
    /\ timer' = timer - 1 /\ clock' = clock + 1 /\ spent' = spent + 1
    /\ UNCHANGED <<pc, last, msg, kept, freed, shift, seen>>

\* Clients are ready, be the timeout over or not.
Wake ==
    /\ pc = "select" /\ pc' = "serve"
    /\ UNCHANGED <<clock, last, timer, msg, kept, freed, spent, shift, seen>>

Work ==
    /\ pc = "serve"
    /\ clock < Horizon
    /\ clock' = clock + 1 /\ spent' = spent + 1
    /\ UNCHANGED <<pc, last, timer, msg, kept, freed, shift, seen>>

Served ==
    /\ pc = "serve" /\ pc' = "loop"
    /\ UNCHANGED <<clock, last, timer, msg, kept, freed, spent, shift, seen>>

\* The first announcement keeps its message for all others.
Announce ==
    /\ pc = "select" /\ timer = 0
    /\ pc' = "loop"
    /\ kept' = IF kept = Nil THEN msg ELSE kept
    /\ last' = clock
    /\ spent' = 0 /\ shift' = 0
    /\ UNCHANGED <<clock, timer, msg, freed, seen>>

\* The wall clock is set, though never to before the start of the program.
SetClock(j) ==
    /\ pc \in {"select", "serve"} /\ shift = 0
    /\ clock + j \in 0 .. Horizon
    /\ clock' = clock + j /\ shift' = j
    /\ UNCHANGED <<pc, last, timer, msg, kept, freed, spent, seen>>

Next ==
    \/ Start \/ Arm \/ Tick \/ Wake \/ Work \/ Served \/ Announce
    \/ \E m \in Messages : SetMessage(m)
    \/ \E j \in Jumps : SetClock(j)

Spec == Init /\ [][Next]_vars

-----------------------------------------------------------------------------
\* The server wakes one period after its last announcement, or at once if clients
\* kept it busy until then: however often they interrupt the wait, they put the
\* announcement off only while they are ready.  A clock that is set moves it by as
\* much.  What it announces is what the program set last, and is not freed
\* (cf_stp.c:383-386,407-441).
InTime ==
    /\ pc = "select" =>
         timer = IF spent + seen > Period THEN 0 ELSE Period - spent - seen
    /\ kept # Nil => kept = msg /\ kept \notin freed
=============================================================================
