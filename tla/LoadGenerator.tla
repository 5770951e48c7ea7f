---------------------------- MODULE LoadGenerator ----------------------------
(***************************************************************************)
(* One client of src/client/src/load_generator.cpp, as it is configured:   *)
(* without a rate limit.  It logs in, keeps a number of Enters in flight,  *)
(* and after a lost connection logs in again where it left off.            *)
(*                                                                         *)
(* The exchange is the part of src/exchange/server that this client meets, *)
(* of which Gateway, Sessions and SessionReplay are the detailed models:   *)
(* it answers each Enter once, keeps its answers in a log and replays it   *)
(* from the sequence number of the login.  The log drops nothing here, and *)
(* the exchange sees the end of a connection before the next one.  Only    *)
(* the network is external.  A message is what the buffers hold: a part of *)
(* one waits in read_buf or write_buf for the rest.                        *)
(***************************************************************************)
EXTENDS Integers, Sequences, SequencesExt

CONSTANTS
  PIPELINE_DEPTH, MAX_BATCH_MESSAGES, MAX_ACTIVE_ORDERS,
  MaxUserRefNum, MaxTargets  \* bounds: UserRefNums used, Cancels and Replaces per connection

VARIABLES
  cs,      \* the ClientState
  read,    \* every answer it has handled
  link,    \* the exchange has the connection
  inbox,   \* messages on their way to the exchange
  outbox,  \* packets on their way to the client
  ex       \* the exchange: who is logged in, what it has yet to answer, its log and
           \* what of it was sent, the last UserRefNum it was given

vars == <<cs, read, link, inbox, outbox, ex>>
client == <<cs, read>>

Init ==
  /\ cs = [fd |-> "none", logged_in |-> FALSE, due |-> TRUE, armed |-> {}, write_buf |-> <<>>,
           acks_pending |-> 0, orders_in_flight |-> 0, next_user_ref_num |-> 1,
           next_sequence |-> 1, active_orders |-> [i \in 0..(MAX_ACTIVE_ORDERS - 1) |-> 0],
           active_write |-> 0, active_count |-> 0, active_read |-> 0]
  /\ read = <<>>
  /\ link = FALSE /\ inbox = <<>> /\ outbox = <<>>
  /\ ex = [logged_in |-> FALSE, taken |-> <<>>, log |-> <<>>, sent |-> 0, last |-> 0]

Message(kind, urn, target) == [kind |-> kind, urn |-> urn, target |-> target]
Answer(type, urn) == [type |-> type, urn |-> urn]
-----------------------------------------------------------------------------
(* reconnect(): the pipeline starts afresh, after a while. *)
reconnect(c) ==
  IF c.fd = "none" THEN c
  ELSE [c EXCEPT !.fd = "none", !.logged_in = FALSE, !.due = FALSE, !.armed = {},
                 !.orders_in_flight = @ - c.acks_pending, !.acks_pending = 0]

(* flushWrite(): the outcomes, with what reached the network.  All of the  *)
(* buffer is sent, or a part until send() would block, or a part until it  *)
(* fails.                                                                  *)
flushWrite(c) ==
  LET n == Len(c.write_buf)
      Part(k) == SubSeq(c.write_buf, 1, k)
      Left(k) == [c EXCEPT !.write_buf = SubSeq(@, k + 1, n)]
  IN  {[cs |-> Left(n), sent |-> c.write_buf]}
      \cup {[cs |-> [Left(k) EXCEPT !.armed = {"IN", "OUT"}], sent |-> Part(k)] : k \in 0..(n - 1)}
      \cup {[cs |-> reconnect(Left(k)), sent |-> Part(k)] : k \in {i \in 0..(n - 1) : ~ link}}

(* The client and the network after one of the outcomes. *)
Flushes(c) ==
  \E o \in flushWrite(c) :
    /\ cs' = o.cs
    /\ inbox' = IF link THEN inbox \o o.sent ELSE inbox

(* Mutant: the UserRefNums start again. *)
connectClientAnew(c) ==
  [c EXCEPT !.fd = "connecting", !.logged_in = FALSE, !.write_buf = <<>>, !.acks_pending = 0,
            !.active_write = 0, !.active_count = 0, !.active_read = 0, !.armed = {"OUT"},
            !.next_user_ref_num = 1]

(* Mutant: everything is asked for again. *)
connectClientFromOne(c) ==
  [c EXCEPT !.fd = "connecting", !.logged_in = FALSE, !.write_buf = <<>>, !.acks_pending = 0,
            !.active_write = 0, !.active_count = 0, !.active_read = 0, !.armed = {"OUT"},
            !.next_sequence = 1]

(* Mutant: what was not sent on the old connection stays in write_buf. *)
connectClientUnsent(c) ==
  [c EXCEPT !.fd = "connecting", !.logged_in = FALSE, !.acks_pending = 0,
            !.active_write = 0, !.active_count = 0, !.active_read = 0, !.armed = {"OUT"}]

(* connectClient() as far as connect() is under way. *)
connectClient(c) ==
  [c EXCEPT !.fd = "connecting", !.logged_in = FALSE, !.write_buf = <<>>, !.acks_pending = 0,
            !.active_write = 0, !.active_count = 0, !.active_read = 0, !.armed = {"OUT"}]

(* run(): a client whose backoff has elapsed.  socket() may fail, which    *)
(* changes nothing, and connect() may fail at once.                        *)
connect ==
  /\ cs.fd = "none" /\ cs.due
  /\ \/ cs' = connectClient(cs)
     \/ cs' = [connectClient(cs) EXCEPT !.fd = "none", !.armed = {}]
     \/ cs' = cs
  /\ outbox' = <<>>
  /\ UNCHANGED <<read, link, inbox, ex>>

(* The clock reaches reconnect_at_ns. *)
backoff_elapses ==
  /\ cs.fd = "none" /\ ~ cs.due
  /\ cs' = [cs EXCEPT !.due = TRUE]
  /\ UNCHANGED <<read, link, inbox, outbox, ex>>

(* handleConnect(): log in, or the handshake failed. *)
handleConnect ==
  /\ cs.fd = "connecting"
  /\ \/ /\ cs' = reconnect(cs)
        /\ UNCHANGED <<link, inbox>>
     \/ /\ ~ link
        /\ link' = TRUE
        /\ \E o \in flushWrite([cs EXCEPT !.fd = "up", !.armed = {"IN"},
                                          !.write_buf = Append(@, Message("login", cs.next_sequence, 0))]) :
             cs' = o.cs /\ inbox' = o.sent
  /\ UNCHANGED <<read, outbox, ex>>

(* run(): EPOLLOUT after a send() that would have blocked. *)
writable ==
  /\ cs.fd = "up" /\ "OUT" \in cs.armed /\ cs.write_buf # <<>>
  /\ Flushes(cs)
  /\ UNCHANGED <<read, link, outbox, ex>>

(* run(): EPOLLERR, EPOLLHUP, or the end of what can be read. *)
hangup ==
  /\ cs.fd = "up" /\ ~ link
  /\ cs' = reconnect(cs)
  /\ UNCHANGED <<read, link, inbox, outbox, ex>>

(* Mutant: a heartbeat does not wait for the rest of a batch. *)
sendHeartbeatOver ==
  /\ cs.fd = "up" /\ cs.logged_in
  /\ inbox = <<>>
  /\ Flushes([cs EXCEPT !.write_buf = Append(@, Message("heartbeat", 0, 0))])
  /\ UNCHANGED <<read, link, outbox, ex>>

(* sendHeartbeat(), with one under way at most. *)
sendHeartbeat ==
  /\ cs.fd = "up" /\ cs.logged_in /\ cs.write_buf = <<>>
  /\ inbox = <<>>
  /\ Flushes([cs EXCEPT !.write_buf = <<Message("heartbeat", 0, 0)>>])
  /\ UNCHANGED <<read, link, outbox, ex>>
-----------------------------------------------------------------------------
(* Accepted and Rejected answer one Enter each and free its slot. *)
answer_enter(c) ==
  IF c.acks_pending > 0
    THEN [c EXCEPT !.acks_pending = @ - 1, !.orders_in_flight = @ - 1] ELSE c

rememberOrder(c, urn) ==
  [c EXCEPT !.active_orders[c.active_write % MAX_ACTIVE_ORDERS] = urn,
            !.active_write = @ + 1,
            !.active_count = IF @ < MAX_ACTIVE_ORDERS THEN @ + 1 ELSE @]

(* Mutant: only an Accepted frees a slot. *)
handleOuchAccepted(c, answer) ==
  CASE answer.type = "accepted" -> rememberOrder(answer_enter(c), answer.urn)
    [] answer.type = "replaced" -> rememberOrder(c, answer.urn)
    [] OTHER -> c

(* Executed and Canceled are only counted. *)
handleOuch(c, answer) ==
  CASE answer.type = "accepted" -> rememberOrder(answer_enter(c), answer.urn)
    [] answer.type = "rejected" -> answer_enter(c)
    [] answer.type = "replaced" -> rememberOrder(c, answer.urn)
    [] OTHER -> c

(* handleSoupPacket(): o = [cs, read, ok], ok until the connection has to  *)
(* go.                                                                     *)
handleSoupPacket(o, packet) ==
  CASE ~ o.ok -> o
    [] o.ok /\ packet.kind = "accepted" ->
       [o EXCEPT !.cs.next_sequence = packet.seq, !.cs.logged_in = TRUE]
    [] o.ok /\ packet.kind = "data" /\ o.cs.logged_in ->
       [o EXCEPT !.cs = [handleOuch(o.cs, packet.answer) EXCEPT !.next_sequence = @ + 1],
                 !.read = Append(@, packet.answer)]
    [] o.ok /\ packet.kind = "heartbeat" -> o
    [] OTHER -> [o EXCEPT !.ok = FALSE]

(* A message of a batch: an Enter, or a Cancel or Replace of the next      *)
(* order of the ring, once there is one.                                   *)
Rolled(c, kind) ==
  LET target == c.active_orders[c.active_read % MAX_ACTIVE_ORDERS]
      urn == c.next_user_ref_num
  IN  IF c.acks_pending >= PIPELINE_DEPTH \/ urn > MaxUserRefNum THEN c
      ELSE IF kind = "enter" \/ c.active_count = 0 \/ c.active_read >= MaxTargets
        THEN [c EXCEPT !.write_buf = Append(@, Message("enter", urn, 0)),
                       !.next_user_ref_num = @ + 1, !.acks_pending = @ + 1,
                       !.orders_in_flight = @ + 1]
      ELSE [c EXCEPT !.write_buf = Append(@, Message(kind, IF kind = "replace" THEN urn ELSE 0, target)),
                     !.next_user_ref_num = IF kind = "replace" THEN @ + 1 ELSE @,
                     !.active_read = @ + 1]

(* buildBatch(): what it may put into write_buf. *)
buildBatch(c) ==
  IF ~ c.logged_in \/ c.write_buf # <<>> THEN {c}
  ELSE {FoldLeft(Rolled, c, kinds) :
          kinds \in [1..MAX_BATCH_MESSAGES -> {"enter", "cancel", "replace"}]}

(* handleReadable(): one recv(), every packet in it, and the next batch. *)
handleReadable ==
  \E n \in 1..Len(outbox) :
    LET o == FoldLeft(handleSoupPacket, [cs |-> cs, read |-> read, ok |-> TRUE],
                      SubSeq(outbox, 1, n))
    IN  /\ cs.fd = "up"
        /\ outbox' = SubSeq(outbox, n + 1, Len(outbox))
        /\ read' = o.read
        /\ \/ ~ o.ok /\ cs' = reconnect(o.cs) /\ UNCHANGED inbox
           \/ o.ok /\ \E c \in buildBatch(o.cs) :
                        IF c.write_buf # o.cs.write_buf THEN Flushes(c)
                        ELSE cs' = c /\ UNCHANGED inbox
        /\ UNCHANGED <<link, ex>>
-----------------------------------------------------------------------------
(* The exchange. *)

(* The answers to a message that is not a login.  A Cancel or Replace of   *)
(* an order that is unknown or dead has none, and an invalid Replace       *)
(* cancels its order.  An execution is to the client what a cancellation   *)
(* is, a message that it counts.                                           *)
Answers(message) ==
  CASE message.kind = "enter"   -> {<<Answer("accepted", message.urn)>>,
                                    <<Answer("rejected", message.urn)>>}
    [] message.kind = "replace" -> {<<>>, <<Answer("replaced", message.urn)>>,
                                    <<Answer("canceled", message.target)>>}
    [] message.kind = "cancel"  -> {<<>>, <<Answer("canceled", message.target)>>}

exchange_login ==
  /\ link /\ inbox # <<>> /\ Head(inbox).kind = "login"
  /\ LET next == Len(ex.log) + 1
         start == IF Head(inbox).urn > next THEN next ELSE Head(inbox).urn
     IN  \/ /\ ex' = [ex EXCEPT !.logged_in = TRUE, !.sent = start - 1]
            /\ outbox' = Append(outbox, [kind |-> "accepted", seq |-> start])
            /\ UNCHANGED link
         \/ /\ outbox' = Append(outbox, [kind |-> "rejected"])
            /\ link' = FALSE
            /\ UNCHANGED ex
  /\ inbox' = Tail(inbox)
  /\ UNCHANGED client

(* handle_ouch_() of the inbound thread, or a heartbeat. *)
exchange_takes ==
  /\ link /\ inbox # <<>> /\ Head(inbox).kind # "login"
  /\ ex' = [ex EXCEPT !.taken = IF Head(inbox).kind = "heartbeat" THEN @ ELSE Append(@, Head(inbox)),
                      !.last = IF Head(inbox).urn > @ THEN Head(inbox).urn ELSE @]
  /\ inbox' = Tail(inbox)
  /\ UNCHANGED <<client, link, outbox>>

(* The outbound thread logs an answer, whether or not the connection that  *)
(* asked is still there.  A refusal of the gateway is a note and overtakes *)
(* what the engine has yet to answer.                                      *)
exchange_answers ==
  /\ \E i \in 1..Len(ex.taken) : \E answer \in Answers(ex.taken[i]) :
       /\ i = 1 \/ answer = <<Answer("rejected", ex.taken[i].urn)>>
       /\ ex' = [ex EXCEPT !.taken = RemoveAt(@, i), !.log = @ \o answer]
  /\ UNCHANGED <<client, link, inbox, outbox>>

exchange_sends ==
  /\ link /\ ex.logged_in /\ ex.sent < Len(ex.log) /\ cs.fd = "up"
  /\ outbox' = Append(outbox, [kind |-> "data", answer |-> ex.log[ex.sent + 1]])
  /\ ex' = [ex EXCEPT !.sent = @ + 1]
  /\ UNCHANGED <<client, link, inbox>>

(* A Server Heartbeat, with nothing else under way. *)
exchange_heartbeat ==
  /\ link /\ ex.logged_in /\ cs.fd = "up" /\ outbox = <<>>
  /\ outbox' = <<[kind |-> "heartbeat"]>>
  /\ UNCHANGED <<client, link, inbox, ex>>

(* The network: the connection is lost, with what is on its way. *)
link_ends ==
  /\ link
  /\ link' = FALSE /\ inbox' = <<>>
  /\ outbox' \in {outbox, <<>>}
  /\ ex' = [ex EXCEPT !.logged_in = FALSE]
  /\ UNCHANGED client
-----------------------------------------------------------------------------
Next == \/ connect \/ backoff_elapses \/ handleConnect \/ writable \/ hangup
        \/ sendHeartbeat \/ handleReadable
        \/ exchange_login \/ exchange_takes \/ exchange_answers \/ exchange_sends \/ exchange_heartbeat \/ link_ends

Spec == Init /\ [][Next]_vars
-----------------------------------------------------------------------------
Unsent == IF cs.fd = "up" THEN inbox \o cs.write_buf ELSE inbox
Enters(messages) == SelectSeq(messages, LAMBDA m : m.kind = "enter")
ToCome == SubSeq(ex.log, Len(read) + 1, Len(ex.log))
EnterAnswers == SelectSeq(ToCome, LAMBDA a : a.type \in {"accepted", "rejected"})

(* A client reads the answers of its session, each once and in order, over *)
(* any number of connections: next_sequence is where it left off.          *)
ResumesWhereItLeftOff ==
  IsPrefix(read, ex.log) /\ cs.next_sequence = Len(read) + 1

(* The pipeline never leaks a slot: for each one that is taken there is an *)
(* Enter under way or an answer to come, so the client cannot get stuck on *)
(* a connection that works.                                                *)
NoSlotLeaks ==
  (cs.logged_in /\ link) => cs.acks_pending <= Len(Enters(ex.taken \o Unsent)) + Len(EnterAnswers)

(* "UserRefNums must be day-unique and strictly increasing", in the order  *)
(* in which they reach the exchange and over all connections.              *)
UserRefNumsIncrease ==
  LET used == SelectSeq(Unsent, LAMBDA m : m.kind \in {"enter", "replace"})
  IN  \A i \in 1..Len(used) :
        used[i].urn > (IF i = 1 THEN ex.last ELSE used[i - 1].urn)

(* The login is the first thing on a connection and comes once: nothing    *)
(* that an earlier connection left unsent, and nothing of the pipeline,    *)
(* reaches the exchange before it.                                         *)
LoginFirst ==
  link => \A i \in 1..Len(inbox) :
            (inbox[i].kind = "login") <=> (i = 1 /\ ~ ex.logged_in)

(* "One batch at a time -- the Login Request, a heartbeat, or up to        *)
(* MAX_BATCH_MESSAGES" orders: what send() did not take is never mixed     *)
(* with a later batch, a heartbeat or the login of the next connection,    *)
(* and EPOLLOUT is armed for it, so it does not stay behind.               *)
OneBatchAtATime ==
  cs.fd = "up" =>
    /\ Len(cs.write_buf) <= MAX_BATCH_MESSAGES
    /\ \A i \in 1..Len(cs.write_buf) :
         cs.write_buf[i].kind \in {"login", "heartbeat"} => Len(cs.write_buf) = 1
    /\ cs.write_buf # <<>> => "OUT" \in cs.armed
=============================================================================
