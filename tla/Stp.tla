-------------------------------- MODULE Stp --------------------------------
(***************************************************************************)
(* src/cf_stp/cf_stp.c: clients that send framed requests and the chunks   *)
(* of a file over TCP, and the one thread of the server, whose select loop *)
(* serves one frame of each ready client per pass.                         *)
(*                                                                         *)
(* A connection is a stream of atoms.  A frame is the size of what follows *)
(* and then the transfer mode with either one request or some data, so a   *)
(* frame can be cut between any two atoms.  `out` is on its way, `stream`  *)
(* has arrived.  The answers come back whole.                              *)
(*                                                                         *)
(* An unreliable client may vanish inside a frame, and the network may cut *)
(* the four bytes of its sizes.  In both cases the code goes on with       *)
(* memory or with a length that mean nothing: the server is "lost", and    *)
(* the model says no more about it.                                        *)
(***************************************************************************)
EXTENDS Integers, Sequences, FiniteSets, SequencesExt

CONSTANTS
    Clients,        \* the client objects; each is made anew when it connects
    Unreliable,     \* those that may vanish at any moment
    Topics,         \* what is asked for besides uploads
    Handled,        \* the topics with a processor
    Lengths,        \* lengths of the files that are uploaded
    Chunk,          \* the size of the client's buffer
    SeqModulus      \* m_seq is an integer of fixed width

Upload == "file-upload"
Listener == "listener"

ASSUME UnreliableAssumption == Unreliable \subseteq Clients
ASSUME TopicAssumption == Upload \notin Topics /\ Handled \subseteq Topics
ASSUME ListenerAssumption == Listener \notin Clients
ASSUME LengthAssumption == Lengths \subseteq Nat \ {0}
ASSUME ChunkAssumption == Chunk \in Nat \ {0}
ASSUME ModulusAssumption == SeqModulus \in Nat \ {0}

VARIABLES
    pc,             \* where the server is in cf_stp_server_run
    list,           \* cli_list
    ready,          \* r_set after select
    pos,            \* the iterator of the walk through the list
    pending, vec,   \* pending_size and byte_vector
    answer,         \* the answer about to be written
    fd, len, offset,    \* m_fd (is a file open?), m_file_len, m_file_offset
    disk,           \* what was written to the file of each client
    files,          \* how many files the server has open
    backlog,        \* connections that wait for accept
    link,           \* each connection: none, queued, or up (accepted)
    out, stream,    \* each connection towards the server
    back,           \* and towards the client
    cpc,            \* each client: off, idle, or waiting for the reply
    seq,            \* m_seq
    asked,          \* the request it waits for
    left            \* what it has still to send of its file

contexts == <<fd, len, offset>>
serverVars == <<pc, list, ready, pos, pending, vec, answer, contexts, disk, files>>
clientVars == <<cpc, seq, asked, left>>
vars == <<serverVars, backlog, link, out, stream, back, clientVars>>

Size(n) == [kind |-> "size", n |-> n]
Mode(n) == [kind |-> "mode", n |-> n]
Data(i) == [kind |-> "data", n |-> i]
Ask(topic, n, size) == [kind |-> "json", topic |-> topic, n |-> n, len |-> size]
NoAsk == Ask(Upload, 0, 0)

\* The file of a length: data that can be told apart.
File(n) == [i \in 1 .. n |-> Data(i)]
Asks == [kind : {"json"}, topic : Topics \cup {Upload}, n : 0 .. SeqModulus - 1,
         len : Lengths \cup {0}]
Answers == [n : 0 .. SeqModulus - 1, ack : {"ok", "error", "none"}]
NoAnswer == [n |-> 0, ack |-> "none"]

Init ==
    /\ pc = "select" /\ list = << >> /\ ready = {} /\ pos = 1
    /\ pending = 0 /\ vec = << >> /\ answer = NoAnswer
    /\ fd = [c \in Clients |-> FALSE]
    /\ len = [c \in Clients |-> 0]
    /\ offset = [c \in Clients |-> 0]
    /\ disk = [c \in Clients |-> << >>]
    /\ files = 0
    /\ backlog = << >>
    /\ link = [c \in Clients |-> "none"]
    /\ out = [c \in Clients |-> << >>]
    /\ stream = [c \in Clients |-> << >>]
    /\ back = [c \in Clients |-> << >>]
    /\ cpc = [c \in Clients |-> "off"]
    /\ seq = [c \in Clients |-> 1 % SeqModulus]
    /\ asked = [c \in Clients |-> NoAsk]
    /\ left = [c \in Clients |-> << >>]

(***************************************************************************)
(* The clients.  A write puts a whole frame on its way, and the caller     *)
(* goes on; a request then waits for the answer.                           *)
(***************************************************************************)
Send(c, body) == out' = [out EXCEPT ![c] = @ \o <<Size(Len(body))>> \o body]

\* The connection is up for the client before the server accepts it.
Connect(c) ==
    /\ cpc[c] = "off" /\ link[c] = "none"
    /\ cpc' = [cpc EXCEPT ![c] = "idle"]
    /\ link' = [link EXCEPT ![c] = "queued"]
    /\ backlog' = Append(backlog, c)
    /\ UNCHANGED <<serverVars, out, stream, back, seq, asked, left>>

\* A file is uploaded when the file before it has been sent.
Request(c, topic, size) ==
    /\ cpc[c] = "idle"
    /\ IF topic = Upload THEN left[c] = << >> /\ size # 0 ELSE size = 0
    /\ LET ask == Ask(topic, seq[c], size)
       IN  Send(c, <<Mode(0), ask>>) /\ asked' = [asked EXCEPT ![c] = ask]
    /\ seq' = [seq EXCEPT ![c] = (@ + 1) % SeqModulus]
    /\ cpc' = [cpc EXCEPT ![c] = "reply"]
    /\ UNCHANGED <<serverVars, backlog, link, stream, back, left>>

\* Mutant: the answer is looked at and stays to be read.
ReceivePeeks(c) ==
    /\ cpc[c] = "reply" /\ back[c] # << >>
    /\ cpc' = [cpc EXCEPT ![c] = "idle"]
    /\ left' = [left EXCEPT ![c] =
                  IF asked[c].topic = Upload /\ Head(back[c]).ack = "ok"
                  THEN File(asked[c].len) ELSE @]
    /\ asked' = [asked EXCEPT ![c] = NoAsk]
    /\ UNCHANGED <<serverVars, backlog, link, out, stream, back, seq>>

\* The answer is taken for the answer to what was asked, whatever its seq is.
\* When it grants an upload the client begins to send.
Receive(c) ==
    /\ cpc[c] = "reply" /\ back[c] # << >>
    /\ back' = [back EXCEPT ![c] = Tail(@)]
    /\ cpc' = [cpc EXCEPT ![c] = "idle"]
    /\ left' = [left EXCEPT ![c] =
                  IF asked[c].topic = Upload /\ Head(back[c]).ack = "ok"
                  THEN File(asked[c].len) ELSE @]
    /\ asked' = [asked EXCEPT ![c] = NoAsk]
    /\ UNCHANGED <<serverVars, backlog, link, out, stream, seq>>

\* Mutant: the size of the frame counts the data only.
SendChunkSized(c) ==
    /\ cpc[c] = "idle" /\ left[c] # << >>
    /\ LET k == IF Len(left[c]) > Chunk THEN Chunk ELSE Len(left[c])
       IN  /\ out' = [out EXCEPT ![c] =
                        @ \o <<Size(k), Mode(1)>> \o SubSeq(left[c], 1, k)]
           /\ left' = [left EXCEPT ![c] = SubSeq(@, k + 1, Len(@))]
    /\ UNCHANGED <<serverVars, backlog, link, stream, back, cpc, seq, asked>>

SendChunk(c) ==
    /\ cpc[c] = "idle" /\ left[c] # << >>
    /\ LET k == IF Len(left[c]) > Chunk THEN Chunk ELSE Len(left[c])
       IN  /\ Send(c, <<Mode(1)>> \o SubSeq(left[c], 1, k))
           /\ left' = [left EXCEPT ![c] = SubSeq(@, k + 1, Len(@))]
    /\ UNCHANGED <<serverVars, backlog, link, stream, back, cpc, seq, asked>>

\* What has been written still arrives.
Close(c) ==
    /\ cpc[c] = "idle"
    /\ cpc' = [cpc EXCEPT ![c] = "off"]
    /\ left' = [left EXCEPT ![c] = << >>]
    /\ seq' = [seq EXCEPT ![c] = 1 % SeqModulus]
    /\ UNCHANGED <<serverVars, backlog, link, out, stream, back, asked>>

Vanish(c) ==
    /\ c \in Unreliable /\ cpc[c] # "off"
    /\ cpc' = [cpc EXCEPT ![c] = "off"]
    /\ left' = [left EXCEPT ![c] = << >>]
    /\ asked' = [asked EXCEPT ![c] = NoAsk]
    /\ out' = [out EXCEPT ![c] = << >>]
    /\ back' = [back EXCEPT ![c] = << >>]
    /\ seq' = [seq EXCEPT ![c] = 1 % SeqModulus]
    /\ UNCHANGED <<serverVars, backlog, link, stream>>

\* The network brings any part of what is on its way.
Deliver(c) ==
    /\ \E k \in 1 .. Len(out[c]) :
         /\ stream' = [stream EXCEPT ![c] = @ \o SubSeq(out[c], 1, k)]
         /\ out' = [out EXCEPT ![c] = SubSeq(@, k + 1, Len(@))]
    /\ UNCHANGED <<serverVars, backlog, link, back, clientVars>>

(***************************************************************************)
(* The server.  A select that times out changes nothing here: no bit of    *)
(* r_set is left, and the pass only announces the server (Announcer).      *)
(***************************************************************************)
Ended(c) == cpc[c] = "off" /\ out[c] = << >> /\ stream[c] = << >>
Readable(c) == stream[c] # << >> \/ Ended(c)
Current == list[pos]

Select ==
    /\ pc = "select"
    /\ ready' = {c \in ToSet(list) : Readable(c)}
                  \cup {l \in {Listener} : backlog # << >>}
    /\ ready' # {}
    /\ pc' = "accept"
    /\ UNCHANGED <<list, pos, pending, vec, answer, contexts, disk, files, backlog,
                   link, out, stream, back, clientVars>>

\* The accepted client is not in r_set and is looked at in the next pass.
Accept ==
    /\ pc = "accept"
    /\ pc' = "walk" /\ pos' = 1
    /\ IF Listener \in ready
       THEN LET c == Head(backlog)
            IN  /\ backlog' = Tail(backlog)
                /\ link' = [link EXCEPT ![c] = "up"]
                /\ list' = Append(list, c)
                /\ fd' = [fd EXCEPT ![c] = FALSE]
                /\ len' = [len EXCEPT ![c] = 0]
                /\ offset' = [offset EXCEPT ![c] = 0]
       ELSE UNCHANGED <<backlog, link, list, contexts>>
    /\ UNCHANGED <<ready, pending, vec, answer, disk, files, out, stream, back,
                   clientVars>>

\* Mutant: the pass ends with the first client that was served.
NextClientBreaks == pc' = "select" /\ pos' = 1

NextClient == pc' = "walk" /\ pos' = pos + 1

\* The context is freed, and what was still on its way has no receiver.
Forget(c) ==
    /\ fd' = [fd EXCEPT ![c] = FALSE]
    /\ len' = [len EXCEPT ![c] = 0]
    /\ offset' = [offset EXCEPT ![c] = 0]
    /\ disk' = [disk EXCEPT ![c] = << >>]
    /\ out' = [out EXCEPT ![c] = << >>]
    /\ stream' = [stream EXCEPT ![c] = << >>]
    /\ back' = [back EXCEPT ![c] = << >>]

\* Mutants: the file stays open; the client stays in the list.
DropKeepsFile(c) ==
    /\ pc' = "walk"
    /\ link' = [link EXCEPT ![c] = "none"]
    /\ list' = RemoveAt(list, pos)
    /\ files' = files
    /\ answer' = NoAnswer
    /\ Forget(c)
    /\ UNCHANGED <<ready, pos, pending, vec, backlog, clientVars>>
DropLeavesNode(c) ==
    /\ pc' = "walk"
    /\ link' = [link EXCEPT ![c] = "none"]
    /\ list' = list /\ pos' = pos + 1
    /\ files' = IF fd[c] THEN files - 1 ELSE files
    /\ answer' = NoAnswer
    /\ Forget(c)
    /\ UNCHANGED <<ready, pending, vec, backlog, clientVars>>

\* The iterator goes back to the node before and then forward: it is at the
\* client that followed.
Drop(c) ==
    /\ pc' = "walk"
    /\ link' = [link EXCEPT ![c] = "none"]
    /\ list' = RemoveAt(list, pos)
    /\ files' = IF fd[c] THEN files - 1 ELSE files
    /\ answer' = NoAnswer
    /\ Forget(c)
    /\ UNCHANGED <<ready, pos, pending, vec, backlog, clientVars>>

EndWalk ==
    /\ pc = "walk" /\ pos > Len(list)
    /\ pc' = "select" /\ ready' = {} /\ pos' = 1
    /\ UNCHANGED <<list, pending, vec, answer, contexts, disk, files,
                   backlog, link, out, stream, back, clientVars>>

Skip ==
    /\ pc = "walk" /\ pos <= Len(list) /\ Current \notin ready
    /\ NextClient
    /\ UNCHANGED <<list, ready, pending, vec, answer, contexts, disk, files,
                   backlog, link, out, stream, back, clientVars>>

AtReady == pc = "walk" /\ pos <= Len(list) /\ Current \in ready

ReadHeader ==
    /\ AtReady /\ stream[Current] # << >>
    /\ pending' = Head(stream[Current]).n
    /\ vec' = << >>
    /\ stream' = [stream EXCEPT ![Current] = Tail(@)]
    /\ pc' = "body"
    /\ UNCHANGED <<list, ready, pos, answer, contexts, disk, files, backlog, link,
                   out, back, clientVars>>

\* Mutant: only a negative count is taken for the end.
ReadEndIgnored ==
    /\ AtReady /\ Ended(Current)
    /\ NextClient
    /\ UNCHANGED <<list, ready, pending, vec, answer, contexts, disk, files,
                   backlog, link, out, stream, back, clientVars>>

ReadEnd ==
    /\ AtReady /\ Ended(Current)
    /\ Drop(Current)

Lose ==
    /\ pc' = "lost"
    /\ UNCHANGED <<list, ready, pos, pending, vec, answer, contexts, disk, files,
                   backlog, link, out, stream, back, clientVars>>

\* Part of the four bytes of the size is taken for the size.
ReadHeaderCut ==
    /\ AtReady /\ stream[Current] # << >> /\ Current \in Unreliable
    /\ Lose

ReadBody ==
    /\ pc = "body" /\ stream[Current] # << >>
    /\ LET s == stream[Current]
           k == IF Len(s) > pending THEN pending ELSE Len(s)
       IN  /\ vec' = vec \o SubSeq(s, 1, k)
           /\ stream' = [stream EXCEPT ![Current] = SubSeq(s, k + 1, Len(s))]
           /\ pending' = pending - k
           /\ pc' = IF k = pending THEN "handle" ELSE "body"
    /\ UNCHANGED <<list, ready, pos, answer, contexts, disk, files, backlog, link,
                   out, back, clientVars>>

\* The continue goes on with the loop of the reads, and with the client that
\* has just been closed and freed.
ReadBodyEnd ==
    /\ pc = "body" /\ Ended(Current)
    /\ Lose

\* Mutant: the file is opened to append.
FileUploadAppends(c, ask) ==
    \/ /\ fd' = [fd EXCEPT ![c] = TRUE]
       /\ files' = files + 1
       /\ offset' = [offset EXCEPT ![c] = 0]
       /\ len' = [len EXCEPT ![c] = ask.len]
       /\ answer' = [n |-> ask.n, ack |-> "ok"]
       /\ UNCHANGED disk
    \/ /\ fd' = [fd EXCEPT ![c] = FALSE]
       /\ answer' = [n |-> ask.n, ack |-> "error"]
       /\ UNCHANGED <<files, disk, offset, len>>

\* stp_server_file_upload_opt; opening the file may fail.
FileUpload(c, ask) ==
    \/ /\ fd' = [fd EXCEPT ![c] = TRUE]
       /\ files' = files + 1
       /\ disk' = [disk EXCEPT ![c] = << >>]
       /\ offset' = [offset EXCEPT ![c] = 0]
       /\ len' = [len EXCEPT ![c] = ask.len]
       /\ answer' = [n |-> ask.n, ack |-> "ok"]
    \/ /\ fd' = [fd EXCEPT ![c] = FALSE]
       /\ answer' = [n |-> ask.n, ack |-> "error"]
       /\ UNCHANGED <<files, disk, offset, len>>

HandleRequest ==
    /\ pc = "handle" /\ vec[1] = Mode(0)
    /\ LET ask == vec[2]
       IN  IF ask.topic = Upload
           THEN FileUpload(Current, ask)
           ELSE /\ answer' = [n |-> ask.n,
                              ack |-> IF ask.topic \in Handled THEN "ok" ELSE "none"]
                /\ UNCHANGED <<contexts, files, disk>>
    /\ pc' = "write" /\ vec' = << >>
    /\ UNCHANGED <<list, ready, pos, pending, backlog, link, out, stream, back,
                   clientVars>>

\* A client that is gone never sees the answer.
Write ==
    /\ pc = "write"
    /\ NextClient
    /\ back' = IF cpc[Current] = "off" THEN back
               ELSE [back EXCEPT ![Current] = Append(@, answer)]
    /\ answer' = NoAnswer
    /\ UNCHANGED <<list, ready, pending, vec, contexts, disk, files, backlog, link,
                   out, stream, clientVars>>

WriteFails ==
    /\ pc = "write" /\ cpc[Current] = "off"
    /\ Drop(Current)

\* Mutants: the file is closed when it is exceeded; the first byte of the data is
\* skipped.
HandleChunkLate ==
    /\ pc = "handle" /\ vec[1] = Mode(1)
    /\ LET c == Current
       IN  /\ disk' = [disk EXCEPT ![c] = IF fd[c] THEN @ \o Tail(vec) ELSE @]
           /\ offset' = [offset EXCEPT ![c] = @ + Len(vec) - 1]
           /\ fd' = [fd EXCEPT ![c] = @ /\ offset'[c] <= len[c]]
           /\ files' = IF fd[c] /\ ~ fd'[c] THEN files - 1 ELSE files
    /\ NextClient /\ vec' = << >>
    /\ UNCHANGED <<list, ready, pending, answer, len, backlog, link, out, stream,
                   back, clientVars>>
HandleChunkShort ==
    /\ pc = "handle" /\ vec[1] = Mode(1)
    /\ LET c == Current
       IN  /\ disk' = [disk EXCEPT ![c] = IF fd[c] THEN @ \o Tail(Tail(vec)) ELSE @]
           /\ offset' = [offset EXCEPT ![c] = @ + Len(vec) - 1]
           /\ fd' = [fd EXCEPT ![c] = @ /\ offset'[c] # len[c]]
           /\ files' = IF fd[c] /\ ~ fd'[c] THEN files - 1 ELSE files
    /\ NextClient /\ vec' = << >>
    /\ UNCHANGED <<list, ready, pending, answer, len, backlog, link, out, stream,
                   back, clientVars>>

HandleChunk ==
    /\ pc = "handle" /\ vec[1] = Mode(1)
    /\ LET c == Current
       IN  /\ disk' = [disk EXCEPT ![c] = IF fd[c] THEN @ \o Tail(vec) ELSE @]
           /\ offset' = [offset EXCEPT ![c] = @ + Len(vec) - 1]
           /\ fd' = [fd EXCEPT ![c] = @ /\ offset'[c] # len[c]]
           /\ files' = IF fd[c] /\ ~ fd'[c] THEN files - 1 ELSE files
    /\ NextClient /\ vec' = << >>
    /\ UNCHANGED <<list, ready, pending, answer, len, backlog, link, out, stream,
                   back, clientVars>>

ServerStep ==
    \/ Select \/ Accept \/ EndWalk \/ Skip
    \/ ReadHeader \/ ReadEnd \/ ReadHeaderCut \/ ReadBody \/ ReadBodyEnd
    \/ HandleRequest \/ Write \/ WriteFails \/ HandleChunk

ClientStep(c) ==
    \/ Connect(c) \/ Receive(c) \/ SendChunk(c) \/ Close(c) \/ Vanish(c)
    \/ Deliver(c)
    \/ \E topic \in Topics \cup {Upload}, size \in Lengths \cup {0} :
         Request(c, topic, size)

Next == ServerStep \/ \E c \in Clients : ClientStep(c)

Spec == Init /\ [][Next]_vars

\* The server and the network run.  A client reads the answer it waits for,
\* and one that has begun an upload goes on with it, whatever it asks in
\* between, unless it closes (cf_test/test_stp.cc:130-140).
Fairness ==
    /\ WF_vars(ServerStep)
    /\ \A c \in Clients :
         WF_vars(Deliver(c)) /\ WF_vars(Receive(c)) /\ SF_vars(SendChunk(c))

FairSpec == Spec /\ Fairness
(***************************************************************************)
(* What the server keeps.                                                  *)
(***************************************************************************)
\* A connection is in exactly one place: it waits for accept, or it is in the
\* list once, from accept until it is closed, however the list changes while
\* it is walked (cf_stp.c:459,479,538).
ConnectionsListed ==
    /\ IsInjective(list \o backlog)
    /\ ToSet(list) = {c \in Clients : link[c] = "up"}
    /\ ToSet(backlog) = {c \in Clients : link[c] = "queued"}

\* Every open file belongs to a listed client with an upload in progress: no
\* file is left open when the client goes or the upload ends
\* (cf_stp.c:476,492,535,554).
FilesOwned == files = Cardinality({c \in ToSet(list) : fd[c]})

\* What is handled is one whole frame of one client, however the stream was cut
\* and whoever came in between (cf_stp.c:485-502).
WholeFrames ==
    pc = "handle" =>
        \/ Len(vec) = 2 /\ vec[1] = Mode(0) /\ vec[2].kind = "json"
        \/ /\ Len(vec) \in 2 .. Chunk + 1 /\ vec[1] = Mode(1)
           /\ \A i \in 2 .. Len(vec) : vec[i].kind = "data"

\* The client does not compare the sequence number of the answer with that of
\* its request, and need not: the next answer is its own (cf_stp.c:199-226).
OwnAnswer ==
    \A c \in Clients :
        /\ back[c] # << >> => cpc[c] = "reply" /\ Len(back[c]) = 1
        /\ \A i \in 1 .. Len(back[c]) : back[c][i].n = asked[c].n

\* The server reads freed memory or a wrong length only by the fault of a
\* connection that was cut inside a frame; a client that closes between two
\* frames never brings it there (cf_stp.c:473,496).
LostOnlyByCut == pc = "lost" => Current \in Unreliable

\* The data on its way from a client, in the order it was sent.
InFlight(c) ==
    LET taken == IF pc \in {"body", "handle"} /\ Current = c THEN vec ELSE << >>
        t == taken \o (stream[c] \o out[c])
        At == {i \in 1 .. Len(t) : t[i].kind = "data"}
        Nth(k) == CHOOSE i \in At : Cardinality({j \in At : j <= i}) = k
    IN  [k \in 1 .. Cardinality(At) |-> t[Nth(k)]]

\* The request for an upload has been served, and the client does not know yet.
ReplyUnread(c) ==
    /\ cpc[c] = "reply" /\ asked[c].topic = Upload
    /\ back[c] # << >> \/ (pc = "write" /\ Current = c)

\* While a client uploads, what is in its file, what is on its way and what it
\* has still to send are together the file, in order, without gap or repetition,
\* also while it asks for something else or already for the next upload
\* (cf_stp.c:250-261,544-556).
NothingLost ==
    \A c \in Clients :
        fd[c] /\ cpc[c] # "off" /\ ~ ReplyUnread(c) =>
            disk[c] \o InFlight(c) \o left[c] = File(len[c])

\* An upload that ends while its client stays connected has stored the whole
\* file: it is neither cut short nor closed too early (cf_stp.c:552).
StoredWhole ==
    [][\A c \in Clients :
         fd[c] /\ ~ fd'[c] /\ link'[c] = "up" => disk'[c] = File(len[c])]_vars

\* Every request is answered, though the server serves one frame of each client
\* per pass and blocks inside a frame (cf_stp.c:465,488).
Answered == \A c \in Clients : cpc[c] = "reply" ~> cpc[c] # "reply"

\* Every upload ends: the bytes received reach the announced length exactly, or
\* the client goes and the file is closed with it (cf_stp.c:552).
UploadEnds == \A c \in Clients : fd[c] ~> ~ fd[c]

\* A connection the client has left is closed by the server too, also when it
\* was never accepted before (cf_stp.c:473-480).
Released == \A c \in Clients : cpc[c] = "off" /\ link[c] # "none" ~> link[c] = "none"
=============================================================================
