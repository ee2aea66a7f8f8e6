----------------------------- MODULE WebSocket -----------------------------
(***************************************************************************)
(* The websocket server, src/cf_websocket/cf_websocket_server.c, on the    *)
(* select loop of src/cf_net/cf_socket_linux.c and the request parser of   *)
(* src/cf_http/cf_http_parser.c, with an application that sends back each  *)
(* text, as src/cf_test_case/cf_websocket_test.c has it.  One thread runs  *)
(* the loop and all callbacks.  What a client sends is a sequence of       *)
(* symbols: the lines of its request and then the bytes of its frames,     *)
(* with masks and data of one bit; TCP splits it anywhere.                 *)
(***************************************************************************)
EXTENDS Naturals, Sequences, FiniteSets, SequencesExt

CONSTANTS Clients,
          Sends,    \* what each client may send: functions from clients to sequences
                    \* of frames, [code, data, mask]
          Chunks,   \* the lengths of short reads: a bound of the model
          Medium, Long,  \* 126 and 127, the marks of longer lengths
          TwoBytes       \* 0xFFFF, the greatest length in two bytes

VARIABLES frames, wire,     \* what a client sends, and what has not arrived
          pending, list,    \* the connections to accept, and cli_list
          ready, failing,   \* r_set and except_set after select
          at,               \* the walk of the list, 0 outside of it
          state, buffer,    \* of a cf_websocket
          calls,            \* the callbacks that a client has caused
          alone,            \* its request was read at once and nothing with it
          got               \* the bytes the client was sent back

vars == <<frames, wire, pending, list, ready, failing, at, state, buffer, calls,
          alone, got>>

\* The lines of a request, GET, Upgrade, Sec-WebSocket-Key and the blank one, as
\* symbols that are no bytes; cf_http_parse wants all of them.
Request == <<1001, 1002, 1003, 1004>>

\* The length in the second byte and the bytes behind it, the lowest last.
LengthBytes(n) == IF n < Medium THEN <<n>>
                  ELSE IF n <= TwoBytes THEN <<Medium, n \div 256, n % 256>>
                  ELSE <<Long, 0, 0, 0, 0, 0, 0, n \div 256, n % 256>>

\* cf_websocket_write: a frame without a mask.
Written(code, data) == <<128 + code>> \o LengthBytes(Len(data)) \o data

Xor(a, b) == (a + b) % 2

\* A frame that a client sends.
Sent(f) == LET l == LengthBytes(Len(f.data)) IN
  <<128 + f.code>> \o [l EXCEPT ![1] = 128 + @] \o f.mask
  \o [i \in DOMAIN f.data |-> Xor(f.data[i], f.mask[1 + ((i - 1) % 4)])]

Init == /\ frames \in Sends
        /\ wire = [c \in Clients |->
                     Request \o FlattenSeq([i \in DOMAIN frames[c] |-> Sent(frames[c][i])])]
        /\ pending = Clients /\ list = <<>>
        /\ ready = {} /\ failing = {} /\ at = 0
        /\ state = [c \in Clients |-> "INIT"]
        /\ buffer = [c \in Clients |-> <<>>]
        /\ calls = [c \in Clients |-> <<>>]
        /\ alone = [c \in Clients |-> FALSE]
        /\ got = [c \in Clients |-> <<>>]

Call(what, data) == [what |-> what, data |-> data]

\* protocol_head_len.  A buffer that is too short to hold the length counts with
\* bytes of an earlier frame, and is too short for the head at any rate.
Head7(b) == b[2] % 128
HeadLength(b) == 6 + (CASE Head7(b) = Medium -> 2 [] Head7(b) = Long -> 8 [] OTHER -> 0)

DataLength(b) == CASE Head7(b) = Medium -> 256 * b[3] + b[4]
                   [] Head7(b) = Long -> 256 * b[9] + b[10]
                   [] OTHER -> Head7(b)

HasHead(b) == Len(b) >= 6 /\ Len(b) >= HeadLength(b)

WholeAndMore(b) == HasHead(b) /\ Len(b) > DataLength(b) + HeadLength(b)
Whole(b) == HasHead(b) /\ Len(b) >= DataLength(b) + HeadLength(b)

\* The first frame of a buffer: on_read_text, on_read_binary or an answer to a
\* close; other frames are dropped.
Unmasked(b) == LET h == HeadLength(b) IN
  [i \in 1 .. DataLength(b) |-> Xor(b[h + i], b[h - 3 + ((i - 1) % 4)])]

Calls(b) == LET code == b[1] % 16 IN
  CASE code = 1 -> <<Call("text", Unmasked(b))>>
    [] code = 2 -> <<Call("binary", Unmasked(b))>>
    [] code = 8 -> <<Call("close", <<>>)>>
    [] OTHER -> <<>>

\* on_client_read takes frames off the front while they are whole.
Consume(b) ==
  LET Left[i \in 0 .. Len(b)] ==
        IF i = 0 THEN [rest |-> b, calls |-> <<>>]
        ELSE LET l == Left[i - 1] IN
             IF ~Whole(l.rest) THEN l
             ELSE [rest |-> SubSeq(l.rest, 1 + HeadLength(l.rest) + DataLength(l.rest),
                                   Len(l.rest)),
                   calls |-> l.calls \o Calls(l.rest)]
  IN Left[Len(b)]

Answer(call) == CASE call.what = "text" -> Written(1, call.data)
                  [] call.what = "close" -> <<136, 0>>
                  [] OTHER -> <<>>

\* A request that is not whole is dropped, and so is what follows a whole one.
ReadRequest(c, chunk) ==
  /\ IF IsPrefix(Request, chunk)
     THEN /\ state' = [state EXCEPT ![c] = "CONNECTED"]
          /\ calls' = [calls EXCEPT ![c] = Append(@, Call("open", <<>>))]
          /\ alone' = [alone EXCEPT ![c] = chunk = Request]
     ELSE UNCHANGED <<state, calls, alone>>
  /\ UNCHANGED <<buffer, got>>

ReadFrames(c, chunk) ==
  LET l == Consume(buffer[c] \o chunk) IN
  /\ buffer' = [buffer EXCEPT ![c] = l.rest]
  /\ calls' = [calls EXCEPT ![c] = @ \o l.calls]
  /\ got' = [got EXCEPT ![c] = @ \o FlattenSeq([i \in DOMAIN l.calls |-> Answer(l.calls[i])])]
  /\ UNCHANGED <<state, alone>>

OnClientRead(c, chunk) == IF state[c] = "INIT" THEN ReadRequest(c, chunk)
                          ELSE ReadFrames(c, chunk)

\* select, and then accept when the listening socket is ready.  A set is not
\* empty in an element that was not listed when select was called.
Select == /\ at = 0
          /\ \E r \in SUBSET ToSet(list), f \in {{}} \cup {{c} : c \in ToSet(list)} :
               /\ \/ /\ r \cup f # {} /\ UNCHANGED <<pending, list, calls>>
                  \/ \E c \in pending :
                       /\ pending' = pending \ {c}
                       /\ list' = Append(list, c)
                       /\ calls' = [calls EXCEPT ![c] = <<Call("new", <<>>)>>]
               /\ at' = IF r \cup f = {} THEN 0 ELSE 1
               /\ ready' = r /\ failing' = f
          /\ UNCHANGED <<frames, wire, state, buffer, alone, got>>

\* The walk goes on behind a client; where one was removed its successor stands.
\* The sets are made anew before the next select.
GoOn(l, i) == IF i > Len(l) THEN at' = 0 /\ ready' = {} /\ failing' = {}
              ELSE at' = i /\ UNCHANGED <<ready, failing>>

Disconnect(c) == /\ list' = RemoveAt(list, at)
                 /\ GoOn(list', at)
                 /\ UNCHANGED <<frames, wire, pending, state, buffer, alone, got>>

Gone(c) == calls' = [calls EXCEPT ![c] = Append(@, Call("gone", <<>>))]

\* The client has closed its end, or the connection is lost.
ReadEnd == /\ at > 0 /\ list[at] \in ready
           /\ Gone(list[at]) /\ Disconnect(list[at])

Receive(c) == \E k \in (Chunks \cup {Len(wire[c])}) \cap 1 .. Len(wire[c]) :
                /\ OnClientRead(c, SubSeq(wire[c], 1, k))
                /\ wire' = [wire EXCEPT ![c] = SubSeq(@, k + 1, Len(@))]

Read == LET c == list[at] IN
        /\ at > 0 /\ c \in ready \ failing
        /\ Receive(c)
        /\ GoOn(list, at + 1)
        /\ UNCHANGED <<frames, pending, list>>

\* An exceptional condition ends a connection, after a last read perhaps.
Except == /\ at > 0 /\ list[at] \in failing \ ready
          /\ Gone(list[at]) /\ Disconnect(list[at])

ReadAndExcept ==
  LET c == list[at] IN
  /\ at > 0 /\ c \in ready \cap failing
  /\ ready' = ready \ {c}
  /\ Receive(c)
  /\ UNCHANGED <<frames, pending, list, failing, at>>

Pass == /\ at > 0 /\ list[at] \notin ready \cup failing
        /\ GoOn(list, at + 1)
        /\ UNCHANGED <<frames, wire, pending, list, state, buffer, calls, alone, got>>

Next == Select \/ ReadEnd \/ Read \/ Except \/ ReadAndExcept \/ Pass

Spec == Init /\ [][Next]_vars

-----------------------------------------------------------------------------
Expected(f) == CASE f.code = 1 -> <<Call("text", f.data)>>
                 [] f.code = 2 -> <<Call("binary", f.data)>>
                 [] f.code = 8 -> <<Call("close", <<>>)>>
                 [] OTHER -> <<>>

Messages(c) == FlattenSeq([i \in DOMAIN frames[c] |-> Expected(frames[c][i])])

\* The calls of a client that bring a message, and those that say what became of it.
Bring(x) == x.what \notin {"new", "open", "gone"}
Core(c) == FlattenSeq([i \in DOMAIN calls[c] |->
             IF Bring(calls[c][i]) THEN <<calls[c][i]>> ELSE <<>>])

What(c) == [i \in DOMAIN calls[c] |-> calls[c][i].what]
Stages(c) == FlattenSeq([i \in DOMAIN calls[c] |->
               IF Bring(calls[c][i]) THEN <<>> ELSE <<calls[c][i].what>>])

\* However TCP splits and joins what a client sends, and whatever happens to other
\* connections in the same walk: the application gets its messages unmasked, once
\* and in order, all of those that have arrived, if the request came alone in one
\* read; a connection that never got there causes none; a client is announced,
\* opened and dismissed at most once in this order; and what is sent back is the
\* texts, in frames that say so.
MessagesArrive ==
  \A c \in Clients :
    /\ "open" \notin ToSet(What(c)) => Core(c) = <<>>
    /\ alone[c] => /\ IsPrefix(Core(c), Messages(c))
                   /\ wire[c] = <<>> => Core(c) = Messages(c)
    /\ \E s \in {<<"new", "open", "gone">>, <<"new", "gone">>} :
         IsPrefix(Stages(c), s)
    /\ "gone" \in ToSet(What(c)) => Last(What(c)) = "gone"
    /\ got[c] = FlattenSeq([i \in DOMAIN Core(c) |-> Answer(Core(c)[i])])
=============================================================================
