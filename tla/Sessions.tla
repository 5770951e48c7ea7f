------------------------------ MODULE Sessions ------------------------------
(***************************************************************************)
(* Connections and sessions: src/exchange/server/src/server.cpp without    *)
(* what Gateway models.                                                    *)
(*                                                                         *)
(*   inbound    accepts connections, logs them in and decides when they    *)
(*              are over                                                   *)
(*   outbound   opens, feeds and closes them, from the notes of the        *)
(*              inbound thread, the answers of the engine and its logs     *)
(*                                                                         *)
(* The TCP stack and the reader at the other end are external.  A          *)
(* connection is a slot and a generation; the stack gives a slot to a new  *)
(* connection when the old one is over, the inbound thread was told so     *)
(* and the outbound thread has closed it.                                  *)
(***************************************************************************)
EXTENDS Naturals, Sequences, FiniteSets, SequencesExt

CONSTANTS
  Slots, Usernames, MAX_CLIENTS,
  capacity_, kBytesPerIndexEntry,   \* of a SessionLog
  PacketLen, ControlLen,            \* bytes of a sequenced and of a control packet
  Windows,                          \* bytes a send() may take
  NotesCapacity,
  MaxConnections, MaxPackets,       \* bounds: connections ever, packets per session
  None

Log == INSTANCE SessionLog

Clients == 1..MAX_CLIENTS

VARIABLES
  tcp,            \* the TCP stack
  peer,           \* what the other end of each connection has read
  connections,    \* inbound_connections_
  usernames,      \* usernames_: the session of a username, if it has one
  connected,      \* inbound_sessions_
  pending,        \* the note of a login that was checked, until it is pushed
  retained_from,  \* retained_from_, written by the outbound thread
  notes,          \* notes_
  trading,        \* sessions with orders: the engine may answer them at any time
  conns,          \* outbound_connections_
  sessions,       \* outbound_sessions_
  dirty,          \* dirty_
  answering,      \* the session whose event was popped, until it is answered
  phase           \* "running", then "stopping", then the outbound thread has "left"

inbound_vars  == <<connections, usernames, connected, pending, trading>>
outbound_vars == <<conns, sessions, dirty, answering>>
vars == <<tcp, peer, inbound_vars, retained_from, notes, outbound_vars, phase>>

shutdown_ == phase # "running"

NoReader == [next |-> None, packet |-> None, broken |-> FALSE]

Init ==
  /\ tcp = [s \in Slots |-> [gen |-> 0, up |-> FALSE, sendable |-> FALSE, told |-> TRUE,
                             closes |-> 1]]
  /\ peer = [s \in Slots |-> NoReader]
  /\ connections = [s \in Slots |-> [gen |-> 0, open |-> FALSE, logged_in |-> FALSE,
                                     closing |-> FALSE, client |-> 0]]
  /\ usernames = [u \in Usernames |-> None]
  /\ connected = [c \in Clients |-> FALSE]
  /\ pending = None
  /\ retained_from = [c \in Clients |-> 0]
  /\ notes = <<>>
  /\ trading = {}
  /\ conns = [s \in Slots |-> [gen |-> 0, open |-> FALSE, close_when_flushed |-> FALSE,
                               dirty |-> FALSE, client |-> 0, control |-> None,
                               control_sent |-> 0, closed_generation |-> 0]]
  /\ sessions = [c \in Clients |-> [log |-> None, slot |-> None, cursor |-> 0]]
  /\ dirty = <<>> /\ answering = None
  /\ phase = "running"
-----------------------------------------------------------------------------
(* The TCP stack (external).                                               *)

(* Nothing more reaches the reader of a connection that cannot be sent to. *)
Heard(t, p) ==
  [s \in Slots |-> IF t[s].sendable THEN p[s] ELSE [NoReader EXCEPT !.broken = p[s].broken]]

(* The connection ends: a FIN or a RST of the peer, or the close we asked  *)
(* for is complete.  A peer that only sent its FIN can still be sent to.   *)
tcp_ends(s) ==
  /\ tcp[s].up
  /\ \E sendable \in BOOLEAN :
       /\ sendable => tcp[s].sendable
       /\ tcp' = [tcp EXCEPT ![s].up = FALSE, ![s].sendable = sendable, ![s].told = FALSE]
  /\ peer' = Heard(tcp', peer)
  /\ UNCHANGED <<inbound_vars, retained_from, notes, outbound_vars, phase>>

TcpClosed(t, conn) ==
  [t EXCEPT ![conn.slot].closes = IF conn.gen = t[conn.slot].gen THEN @ + 1 ELSE 2,
            ![conn.slot].sendable = FALSE]

(* The reader takes one byte: packets come whole and one after the other,  *)
(* and after Login Accepted the sequenced ones come in order.              *)
Read(reader, byte) ==
  LET last == IF byte.kind = "sequenced" THEN PacketLen - 1 ELSE ControlLen - 1
      expected == IF reader.packet = None
                    THEN byte.at = 0 /\ (byte.kind = "sequenced" => byte.seq = reader.next)
                    ELSE byte = [reader.packet EXCEPT !.at = @ + 1]
  IN  IF ~ expected THEN [reader EXCEPT !.broken = TRUE]
      ELSE [next   |-> IF byte.at # last THEN reader.next
                       ELSE CASE byte.kind = "sequenced" -> reader.next + 1
                              [] byte.kind = "accepted" -> byte.seq
                              [] OTHER -> reader.next,
            packet |-> IF byte.at = last THEN None ELSE byte,
            broken |-> reader.broken]
-----------------------------------------------------------------------------
(* The inbound thread.                                                     *)

Conn(s) == [slot |-> s, gen |-> connections[s].gen]
Note(kind, client, conn, sequence) ==
  [kind |-> kind, client |-> client, conn |-> conn, sequence |-> sequence]

(* push_note_() waits for room, or gives up when it is time to stop. *)
push_note_(note) ==
  \/ Len(notes) < NotesCapacity /\ notes' = Append(notes, note)
  \/ Len(notes) = NotesCapacity /\ shutdown_ /\ UNCHANGED notes

Connections == SumFunction([s \in Slots |-> tcp[s].gen])

(* on_tcp_event_(): accepted. *)
accepted(s) ==
  /\ ~ tcp[s].up /\ tcp[s].told /\ tcp[s].closes > 0
  /\ Connections < MaxConnections
  /\ tcp' = [tcp EXCEPT ![s] = [gen |-> @.gen + 1, up |-> TRUE, sendable |-> TRUE,
                                told |-> TRUE, closes |-> 0]]
  /\ peer' = [peer EXCEPT ![s] = NoReader]
  /\ connections' = [connections EXCEPT ![s] =
       [gen |-> tcp[s].gen + 1, open |-> TRUE, logged_in |-> FALSE, closing |-> FALSE,
        client |-> 0]]
  /\ UNCHANGED <<usernames, connected, pending, trading, retained_from, notes, outbound_vars, phase>>

(* Mutant: the session is not free again. *)
disconnect_Keeps(s) ==
  LET c == connections[s]
  IN  \/ /\ ~ c.open
         /\ UNCHANGED <<connections, connected, notes>>
      \/ /\ c.open
         /\ UNCHANGED connected
         /\ push_note_(Note("DISCONNECTED", IF c.logged_in THEN c.client ELSE 0, Conn(s), 0))
         /\ connections' = [connections EXCEPT ![s].open = FALSE, ![s].logged_in = FALSE,
                                               ![s].closing = TRUE]

(* disconnect_(): the session is free again and the outbound thread told. *)
disconnect_(s) ==
  LET c == connections[s]
  IN  \/ /\ ~ c.open
         /\ UNCHANGED <<connections, connected, notes>>
      \/ /\ c.open
         /\ connected' = IF c.logged_in THEN [connected EXCEPT ![c.client] = FALSE] ELSE connected
         /\ push_note_(Note("DISCONNECTED", IF c.logged_in THEN c.client ELSE 0, Conn(s), 0))
         /\ connections' = [connections EXCEPT ![s].open = FALSE, ![s].logged_in = FALSE,
                                               ![s].closing = TRUE]

(* on_tcp_event_(): peer_closed, closed or reset. *)
ended(s) ==
  /\ ~ tcp[s].told
  /\ connections[s].gen = tcp[s].gen
  /\ disconnect_(s)
  /\ tcp' = [tcp EXCEPT ![s].told = TRUE]
  /\ UNCHANGED <<peer, usernames, pending, trading, retained_from, outbound_vars, phase>>

(* A connection that has not logged in, or was turned away and stays, runs *)
(* into the login time-out of check_timeouts_().  A Logout Request or a    *)
(* stream that cannot be parsed does the same to it.                       *)
login_timeout(s) ==
  /\ connections[s].open /\ ~ connections[s].logged_in
  /\ disconnect_(s)
  /\ UNCHANGED <<tcp, peer, usernames, pending, trading, retained_from, outbound_vars, phase>>

(* Logout Request, a stream that cannot be parsed, or a client that has    *)
(* been silent for too long.                                               *)
drop(s) ==
  /\ connections[s].open /\ connections[s].logged_in
  /\ disconnect_(s)
  /\ UNCHANGED <<tcp, peer, usernames, pending, trading, retained_from, outbound_vars, phase>>

TakesInput(s) == connections[s].open /\ ~ connections[s].closing

reject_login_(s) ==
  /\ connections' = [connections EXCEPT ![s].closing = TRUE]
  /\ push_note_(Note("LOGIN_REJECTED", 0, Conn(s), 0))
  /\ UNCHANGED connected

(* login_() for a login that is not well-formed, or names another session  *)
(* or no user.                                                             *)
login_invalid(s) ==
  /\ TakesInput(s) /\ ~ connections[s].logged_in
  /\ reject_login_(s)
  /\ UNCHANGED <<tcp, peer, usernames, pending, trading, retained_from, outbound_vars, phase>>

(* The session of a username: a new one while there is room for it. *)
SessionOf(u) ==
  LET used == {usernames[v] : v \in Usernames} \ {None}
  IN  IF usernames[u] # None THEN usernames[u]
      ELSE IF Cardinality(used) < MAX_CLIENTS THEN Cardinality(used) + 1 ELSE None

(* login_() up to its note: one connection per session, and nothing older  *)
(* than retained_from_ says the log still holds.  A login that is refused  *)
(* does not depend on what happens between the test and the push, one that *)
(* is accepted does: its note is pushed in a step of its own.              *)
login_(s, u, sequence) ==
  LET c == SessionOf(u)
  IN  /\ TakesInput(s) /\ ~ connections[s].logged_in
      /\ usernames' = [usernames EXCEPT ![u] = c]
      /\ \/ /\ \/ c = None
               \/ c # None /\ connected[c]
               \/ c # None /\ sequence # 0 /\ sequence < retained_from[c]
            /\ reject_login_(s)
            /\ UNCHANGED pending
         \/ /\ c # None /\ ~ connected[c]
            /\ sequence = 0 \/ sequence >= retained_from[c]
            /\ connected' = [connected EXCEPT ![c] = TRUE]
            /\ connections' = [connections EXCEPT ![s].logged_in = TRUE, ![s].client = c]
            /\ pending' = Note("LOGIN_ACCEPTED", c, Conn(s), sequence)
            /\ UNCHANGED notes
      /\ UNCHANGED <<tcp, peer, trading, retained_from, outbound_vars, phase>>

(* login_(): the note, when there is room for it. *)
login_pushes ==
  /\ pending # None
  /\ push_note_(pending)
  /\ pending' = None
  /\ UNCHANGED <<tcp, peer, connections, usernames, connected, trading, retained_from,
                 outbound_vars, phase>>

(* Packets of a session, with the ones on their way. *)
Packets(c) == (IF sessions[c].log = None THEN 0 ELSE sessions[c].log.next_seq - 1)
              + (IF answering = c THEN 1 ELSE 0)
              + Len(SelectSeq(notes, LAMBDA n : n.kind = "GATEWAY" /\ n.client = c))

(* handle_ouch_(): a message the gateway rejects is answered by a note. *)
ouch_rejected(s) ==
  /\ TakesInput(s) /\ connections[s].logged_in
  /\ Packets(connections[s].client) < MaxPackets
  /\ push_note_(Note("GATEWAY", connections[s].client, Conn(s), 0))
  /\ UNCHANGED <<tcp, peer, inbound_vars, retained_from, outbound_vars, phase>>

(* handle_ouch_(): a request goes to the engine. *)
ouch_ordered(s) ==
  /\ TakesInput(s) /\ connections[s].logged_in
  /\ trading' = trading \cup {connections[s].client}
  /\ UNCHANGED <<tcp, peer, connections, usernames, connected, pending, retained_from, notes,
                 outbound_vars, phase>>
-----------------------------------------------------------------------------
(* The outbound thread.  Its operations are functions of its state and of  *)
(* the TCP stack's: o = [conns, sessions, dirty, tcp, peer].               *)

Outbound == [conns |-> conns, sessions |-> sessions, dirty |-> dirty, tcp |-> tcp, peer |-> peer]

mark_dirty_(o, s) ==
  IF o.conns[s].dirty THEN o
  ELSE [o EXCEPT !.conns[s].dirty = TRUE, !.dirty = Append(@, s)]

send_control_(o, s, control) ==
  mark_dirty_([o EXCEPT !.conns[s].control = control, !.conns[s].control_sent = 0], s)

(* The flag and the generation that describe the slot are kept. *)
open_connection_(o, conn) ==
  [o EXCEPT !.conns[conn.slot] =
     [@ EXCEPT !.gen = conn.gen, !.open = TRUE, !.close_when_flushed = FALSE, !.client = 0,
               !.control = None, !.control_sent = 0]]

(* Mutant: the generation is not looked at. *)
close_Again(o, conn) ==
  LET c == o.conns[conn.slot]
      ours == c.open
  IN  [o EXCEPT
         !.tcp = TcpClosed(@, conn),
         !.sessions = [d \in Clients |->
            IF ours /\ c.client = d THEN [@[d] EXCEPT !.slot = None] ELSE @[d]],
         !.conns[conn.slot] =
            [c EXCEPT !.closed_generation = conn.gen, !.open = FALSE, !.client = 0,
                      !.control = None, !.control_sent = 0, !.close_when_flushed = FALSE]]

(* Mutant: a connection that was never sent anything is not closed. *)
close_OnlyOurs(o, conn) ==
  IF o.conns[conn.slot].gen # conn.gen \/ ~ o.conns[conn.slot].open THEN o
  ELSE [o EXCEPT
          !.tcp = TcpClosed(@, conn),
          !.sessions = [d \in Clients |->
             IF o.conns[conn.slot].client = d THEN [@[d] EXCEPT !.slot = None] ELSE @[d]],
          !.conns[conn.slot].open = FALSE,
          !.conns[conn.slot].client = 0]

(* close_(): once for every connection, however often it is asked for. *)
close_(o, conn) ==
  LET c == o.conns[conn.slot]
      ours == c.gen = conn.gen /\ c.open
  IN  IF c.closed_generation = conn.gen THEN o
      ELSE [o EXCEPT
              !.tcp = TcpClosed(@, conn),
              !.sessions = [d \in Clients |->
                 IF ours /\ c.client = d /\ @[d].slot = conn.slot
                   THEN [@[d] EXCEPT !.slot = None] ELSE @[d]],
              !.conns[conn.slot] =
                 IF ~ ours THEN [c EXCEPT !.closed_generation = conn.gen]
                 ELSE [c EXCEPT !.closed_generation = conn.gen, !.open = FALSE, !.client = 0,
                                !.control = None, !.control_sent = 0,
                                !.close_when_flushed = FALSE]]

Control(kind, sequence) == [kind |-> kind, seq |-> sequence, at |-> 0]

(* Login Rejected is sent, and the connection closed after it. *)
TurnedAway(o, conn) ==
  LET told == send_control_(open_connection_(o, conn), conn.slot, Control("rejected", 0))
  IN  [told EXCEPT !.conns[conn.slot].close_when_flushed = TRUE]

(* Mutant: replay from the oldest packet there is, under the number that   *)
(* was asked for.                                                          *)
accept_login_Oldest(o, note) ==
  LET c == note.client
      log == IF o.sessions[c].log = None THEN Log!NewLog ELSE o.sessions[c].log
      start == IF note.sequence = 0 \/ note.sequence > log.next_seq THEN log.next_seq
               ELSE note.sequence
      offset == Log!offset_of(log, IF start < log.first_seq THEN log.first_seq ELSE start)
      opened == [open_connection_([o EXCEPT !.sessions[c].log = log], note.conn) EXCEPT
                   !.conns[note.conn.slot].client = c,
                   !.sessions[c].slot = note.conn.slot,
                   !.sessions[c].cursor = offset]
  IN  send_control_(opened, note.conn.slot, Control("accepted", start))

(* accept_login_(): the session's log is made on its first login; replay   *)
(* starts at the sequence number asked for, or with the next new packet.   *)
accept_login_(o, note) ==
  LET c == note.client
      log == IF o.sessions[c].log = None THEN Log!NewLog ELSE o.sessions[c].log
      start == IF note.sequence = 0 \/ note.sequence > log.next_seq THEN log.next_seq
               ELSE note.sequence
      offset == Log!offset_of(log, start)
      made == [o EXCEPT !.sessions[c].log = log]
      opened == [open_connection_(made, note.conn) EXCEPT
                   !.conns[note.conn.slot].client = c,
                   !.sessions[c].slot = note.conn.slot,
                   !.sessions[c].cursor = offset]
  IN  IF offset = None THEN TurnedAway(made, note.conn)
      ELSE send_control_(opened, note.conn.slot, Control("accepted", start))

(* send_sequenced_(): into the log, which may mean to drop the connection  *)
(* that would lose what it was not sent yet.                               *)
send_sequenced_(o, c) ==
  LET session == o.sessions[c]
      behind == /\ session.slot # None
                /\ Log!would_overwrite(session.log, session.cursor, PacketLen)
      served == IF behind THEN close_(o, [slot |-> session.slot, gen |-> o.conns[session.slot].gen])
                ELSE o
      kept == [served EXCEPT !.sessions[c].log = Log!append(@, PacketLen)]
  IN  IF session.log = None THEN o
      ELSE IF kept.sessions[c].slot = None THEN kept
      ELSE mark_dirty_(kept, kept.sessions[c].slot)

(* on_note_() *)
Noted(o, note) ==
  CASE note.kind = "GATEWAY"        -> send_sequenced_(o, note.client)
    [] note.kind = "LOGIN_ACCEPTED" -> accept_login_(o, note)
    [] note.kind = "LOGIN_REJECTED" -> TurnedAway(o, note.conn)
    [] note.kind = "DISCONNECTED"   -> close_(o, note.conn)

(* What a connection has to send: its control packet, then its log. *)
Unsent(o, s) ==
  LET c == o.conns[s]
      session == o.sessions[c.client]
      byte(offset) == session.log.bytes[offset % capacity_]
  IN  [i \in 1..(IF c.control = None THEN 0 ELSE ControlLen - c.control_sent) |->
         [c.control EXCEPT !.at = c.control_sent + i - 1]]
      \o (IF c.client = 0 THEN <<>>
          ELSE [i \in 1..(session.log.end - session.cursor) |->
                  [kind |-> "sequenced", seq |-> byte(session.cursor + i - 1).seq,
                   at |-> byte(session.cursor + i - 1).at]])

(* flush_connection_(): send() takes what the window allows.  The result   *)
(* also says whether there is nothing left to do for the connection.       *)
flush_connection_(o, s, window) ==
  LET c == o.conns[s]
      bytes == Unsent(o, s)
      room == IF o.tcp[s].sendable /\ o.tcp[s].gen = c.gen THEN window ELSE 0
      n == IF room < Len(bytes) THEN room ELSE Len(bytes)
      control_left == IF c.control = None THEN 0 ELSE ControlLen - c.control_sent
      control_done == n >= control_left
      sent == [o EXCEPT
        !.peer[s] = FoldLeft(Read, @, SubSeq(bytes, 1, n)),
        !.conns[s].control = IF control_done THEN None ELSE @,
        !.conns[s].control_sent = IF control_done THEN 0 ELSE @ + n,
        !.sessions = [d \in Clients |->
           IF d = c.client /\ control_done
             THEN [@[d] EXCEPT !.cursor = @ + (n - control_left)] ELSE @[d]]]
  IN  IF n < Len(bytes) THEN [state |-> sent, done |-> ~ o.tcp[s].sendable]
      ELSE IF c.close_when_flushed
        THEN [state |-> close_(sent, [slot |-> s, gen |-> c.gen]), done |-> TRUE]
      ELSE [state |-> sent, done |-> TRUE]

(* Mutant: a connection leaves dirty_ whatever was sent. *)
FlushedOnce(o, s, window) ==
  [(IF o.conns[s].open THEN flush_connection_(o, s, window).state ELSE o)
     EXCEPT !.conns[s].dirty = FALSE]

(* A slot of dirty_ in flush_(): it stays there until nothing is left. *)
Flushed(o, s, window) ==
  LET result == flush_connection_(o, s, window)
  IN  IF ~ o.conns[s].open THEN [o EXCEPT !.conns[s].dirty = FALSE]
      ELSE IF result.done THEN [result.state EXCEPT !.conns[s].dirty = FALSE]
      ELSE [result.state EXCEPT !.dirty = Append(@, s)]

(* heartbeat_(): only to a client that has nothing else queued.  Which of  *)
(* them were sent nothing for a second is for the clock to say.            *)
heartbeat_due(s) ==
  /\ conns[s].open /\ conns[s].client # 0 /\ conns[s].control = None
  /\ sessions[conns[s].client].cursor = sessions[conns[s].client].log.end
-----------------------------------------------------------------------------
(* The outbound thread works until it has left its loop. *)
Becomes(o) ==
  /\ phase # "left" /\ answering' = None
  /\ conns' = o.conns /\ sessions' = o.sessions /\ dirty' = o.dirty
  /\ tcp' = o.tcp /\ peer' = Heard(o.tcp, o.peer)
  /\ retained_from' = [c \in Clients |-> IF o.sessions[c].log = None THEN 0
                                         ELSE o.sessions[c].log.first_seq]

on_note_ ==
  /\ answering = None /\ notes # <<>>
  /\ Becomes(Noted(Outbound, Head(notes)))
  /\ notes' = Tail(notes)
  /\ UNCHANGED <<inbound_vars, phase>>

(* Mutant: the notes are not drained again after the pop. *)
drainedBefore(c) ==
  /\ phase # "left" /\ answering = None
  /\ c \in trading
  /\ Packets(c) < MaxPackets
  /\ answering' = c
  /\ UNCHANGED <<tcp, peer, inbound_vars, retained_from, notes, conns, sessions, dirty, phase>>

(* outbound_() has popped an event of the engine and then found no note    *)
(* any more.                                                               *)
drained(c) ==
  /\ phase # "left" /\ answering = None
  /\ c \in trading /\ notes = <<>>
  /\ Packets(c) < MaxPackets
  /\ answering' = c
  /\ UNCHANGED <<tcp, peer, inbound_vars, retained_from, notes, conns, sessions, dirty, phase>>

(* The answer to the event, whatever was noted since. *)
on_event ==
  /\ answering # None
  /\ Becomes(send_sequenced_(Outbound, answering))
  /\ UNCHANGED <<notes, inbound_vars, phase>>

(* flush_() goes through dirty_ in order. *)
flush_ ==
  /\ answering = None /\ dirty # <<>>
  /\ \E window \in [Range(dirty) -> Windows] :
       Becomes(FoldLeft(LAMBDA o, s : Flushed(o, s, window[s]),
                        [Outbound EXCEPT !.dirty = <<>>], dirty))
  /\ UNCHANGED <<notes, inbound_vars, phase>>

heartbeat_(s) ==
  /\ answering = None /\ heartbeat_due(s)
  /\ Becomes(send_control_(Outbound, s, Control("heartbeat", 0)))
  /\ UNCHANGED <<notes, inbound_vars, phase>>

(* stop() *)
stop ==
  /\ phase = "running"
  /\ phase' = "stopping"
  /\ UNCHANGED <<tcp, peer, inbound_vars, retained_from, notes, outbound_vars>>

(* outbound_() after its loop, whatever is left in the rings and unsent:   *)
(* a FIN to those it has open.  A connection it has had no note about is   *)
(* not among them.                                                         *)
leave ==
  LET closed(o, s) == IF o.conns[s].open
                        THEN close_(o, [slot |-> s, gen |-> o.conns[s].gen]) ELSE o
  IN  /\ phase = "stopping" /\ answering = None
      /\ phase' = "left"
      /\ Becomes(FoldLeft(closed, Outbound, SetToSeq(Slots)))
      /\ UNCHANGED <<notes, inbound_vars>>
-----------------------------------------------------------------------------
Inbound ==
  \/ login_pushes
  \/ /\ pending = None
     /\ \/ \E s \in Slots :
             \/ accepted(s) \/ ended(s) \/ login_timeout(s) \/ drop(s) \/ login_invalid(s)
             \/ ouch_rejected(s) \/ ouch_ordered(s)
        \/ \E s \in Slots, u \in Usernames, sequence \in 0..(MaxPackets + 1) :
             login_(s, u, sequence)

Next == \/ \E s \in Slots : tcp_ends(s)
        \/ Inbound
        \/ on_note_ \/ on_event \/ flush_
        \/ \E c \in Clients : drained(c)
        \/ \E s \in Slots : heartbeat_(s)
        \/ stop \/ leave

Spec == Init /\ [][Next]_vars
-----------------------------------------------------------------------------
(* While the exchange stops, a note may be lost in a full ring; only that  *)
(* connections are closed, and how often, is still promised then.          *)

(* One connection at a time is logged into a session, for both threads:    *)
(* the outbound thread feeds a session's log to the connection the session *)
(* names and to no other, and a login never finds another one in its place.*)
OneConnectionPerSession == shutdown_ \/
  /\ \A c \in Clients :
       Cardinality({s \in Slots : connections[s].logged_in /\ connections[s].client = c})
         = IF connected[c] THEN 1 ELSE 0
  /\ \A s \in Slots, c \in Clients :
       (conns[s].open /\ conns[s].client = c) <=> (sessions[c].slot = s)
  /\ (notes # <<>> /\ Head(notes).kind = "LOGIN_ACCEPTED") =>
       sessions[Head(notes).client].slot = None /\ ~ conns[Head(notes).conn.slot].open

(* close() is called at most once for a connection, whichever of a note, a *)
(* flush, a slow reader and the end of the server asks for it, and never   *)
(* for one that has left its slot to a successor.  That it is called is    *)
(* NobodyIsForgotten.                                                      *)
ClosedOnce == \A s \in Slots : tcp[s].closes <= 1

(* What a client reads after Login Accepted are the sequenced packets from *)
(* the number it names on, each whole, once and in order, with control     *)
(* packets between them, whatever the windows of the connection were and   *)
(* whatever was appended, dropped and replayed meanwhile, also between the *)
(* test of a login against retained_from_ and the replay: a client that    *)
(* can no longer be replayed to reads Login Rejected and no packet.        *)
StreamIntact == shutdown_ \/ \A s \in Slots : ~ peer[s].broken

(* A connection that can be sent to and has something unsent is in dirty_, *)
(* or nothing would ever send it; and it is there once.                    *)
UnsentIsDirty == shutdown_ \/
  /\ \A s \in Slots : (conns[s].open /\ tcp[s].sendable /\ Unsent(Outbound, s) # <<>>)
                        => conns[s].dirty
  /\ \A s \in Slots : conns[s].dirty <=> Contains(dirty, s)
  /\ Cardinality(Range(dirty)) = Len(dirty)

(* "can't happen: a session's first order follows its first login": no     *)
(* packet is for a session that has no log yet.                            *)
LogIsThere == shutdown_ \/
  /\ answering # None => sessions[answering].log # None
  /\ (notes # <<>> /\ Head(notes).kind = "GATEWAY") => sessions[Head(notes).client].log # None

(* While the server runs no connection is forgotten between the two        *)
(* threads: one that has not been closed is open for the inbound thread,   *)
(* which will see its end or its time-out, or the note that makes the      *)
(* outbound thread close it is on its way.  So the TCP stack gets every    *)
(* slot back.  When the outbound thread has left, the connections without  *)
(* a close() are those that it never opened, for want of a note about them *)
(* that it has read: all that it ever answered are closed.                 *)
NobodyIsForgotten ==
  \A s \in Slots : tcp[s].closes = 0 =>
    /\ \/ connections[s].open \/ shutdown_
       \/ \E i \in 1..Len(notes) : notes[i].kind = "DISCONNECTED" /\ notes[i].conn = Conn(s)
    /\ phase = "left" => conns[s].gen # tcp[s].gen
=============================================================================
