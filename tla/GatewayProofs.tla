----------------------------- MODULE GatewayProofs -----------------------------
(***************************************************************************)
(* The exchange of Gateway gives its engine nothing but what Orderbook     *)
(* assumes, so that what is proved of Orderbook holds inside of it; it     *)
(* never hands out an OrderId twice; and every order that rests can be     *)
(* named by its owner.  For any number of clients, messages and orders,    *)
(* and any capacity of the rings.                                          *)
(***************************************************************************)
EXTENDS GatewayAnswers, OrderbookProofs

(* The prover, where no other is named. *)
USE ZenonT(30)

(* So its book is in order inside the exchange as well. *)
THEOREM BookInsideExchange == GWSpec => []IInv
  BY EngineIsOrderbook, BookInvariant, PTL DEF EngineSpec
-----------------------------------------------------------------------------
(* The work between two requests. *)
LEMMA WorkFresh ==
  ASSUME Pipe, Fresher, IInv, match_step \/ match_done \/ publish \/ emit,
         UNCHANGED <<entry, translation, inbound_ring, cur, nxt, matching_pc>>
  PROVE  Fresher'
<1>1. Waiting' = Waiting /\ Ordered'
  BY DEF Waiting, Fresher, Ordered
<1>2. CASE match = NoRequest
  BY <1>1, <1>2, WorkAdds, EngineAddsNone DEF Fresher
<1>3. CASE match # NoRequest
  <2>1. PICK new, c : new = match.id /\ c = match.client
    OBVIOUS
  <2>2. new \in OrderIds /\ c \in Clients
    BY <1>3, <2>1, AggressorFields
  <2>3. /\ AddsOnly(new, c)
        /\ match' # NoRequest => match'.id = new /\ match'.client = c
    BY <1>3, <2>1, WorkAdds
  <2>4. new < entry.next_order_id /\ Names(entry, c, new)
    BY <1>3, <2>1 DEF Fresher, Known
  <2>5. \A req \in Waiting' : req.type # "CANCEL" => new < NewId(req)
    BY <1>1, <1>3, <2>1 DEF Fresher, Fresh
  <2> QED BY <1>1, <2>2, <2>3, <2>4, <2>5, EngineAdds DEF Fresher
<1> QED BY <1>2, <1>3

(* Every step of the exchange leaves what waits fresh. *)
LEMMA FresherStep == Pipe /\ IInv /\ Fresher /\ [GWNext]_gwvars => Fresher'
<1> SUFFICES ASSUME Pipe, IInv, Fresher, [GWNext]_gwvars PROVE Fresher'
  OBVIOUS
<1>1. CASE Receive
  BY <1>1, OrderClients, ReceiveFresh DEF Receive
<1>2. CASE push_request
  BY <1>2, PushFresh
<1>3. CASE take
  BY <1>3, TakeFresh
<1>4. CASE execute
  <2>1. process(cur) /\ cur \in Request
    BY <1>4 DEF execute, Pipe
  <2>2. PICK new, c : new = NewId(cur) /\ c = cur.client
    OBVIOUS
  <2>3. new \in OrderIds /\ c \in Clients
    BY <2>1, <2>2, RequestIds
  <2>4. /\ cur.type = "CANCEL" => AddsNone /\ match' = NoRequest
        /\ cur.type # "CANCEL" =>
             AddsOnly(new, c) /\ (match' # NoRequest => match'.id = new /\ match'.client = c)
    BY <2>1, <2>2, ProcessAdds
  <2> QED BY <1>4, <2>2, <2>3, <2>4, ExecuteFresh
<1>5. CASE matching \/ push_event
  <2>1. /\ match_step \/ match_done \/ publish \/ emit
        /\ UNCHANGED <<entry, translation, inbound_ring, cur, nxt, matching_pc>>
    BY <1>5 DEF matching, push_event, inbound_vars, matching_vars, ring_vars
  <2> QED BY <2>1, WorkFresh
<1>6. CASE advance
  BY <1>6, AdvanceFresh
<1>7. CASE push_note_ \/ Outbound \/ UNCHANGED gwvars
  BY <1>7, OthersFresh
<1> QED BY <1>1, <1>2, <1>3, <1>4, <1>5, <1>6, <1>7 DEF GWNext, Push, Match

(* Pipe, IInv and Fresher together are inductive. *)
LEMMA GatewayInvariant == GWSpec => [](Pipe /\ IInv /\ Fresher)
<1>1. GWInit => Pipe /\ Fresher
  BY PipeInit, FresherInit
<1>2. Pipe /\ IInv /\ Fresher /\ [GWNext]_gwvars => Pipe' /\ Fresher'
  BY PipeStep, FresherStep
<1> QED BY <1>1, <1>2, BookInsideExchange, PTL DEF GWSpec

(* For any number of clients, messages and places in the rings: an order   *)
(* that enter() or replace() adds has an id no other order has.            *)
THEOREM IdsAreFresh == GWSpec => []FreshIds
<1>1. Pipe /\ IInv /\ Fresher => FreshIds
  BY FresherIds
<1> QED BY <1>1, GatewayInvariant, PTL

(* Every order that rests in the book has a UserRefNum its owner can       *)
(* cancel it with, also after it was replaced under another one.           *)
THEOREM OrdersAreNamed == GWSpec => []OrdersStayNamed
<1>1. Pipe /\ IInv /\ Fresher => OrdersStayNamed
  <2> SUFFICES ASSUME Fresher, NEW id \in Live(book)
               PROVE  \E r \in UserRefNums :
                        LET order == entry.orders[book.orders[id].client][r]
                        IN  order # None /\ order.id = id
    BY DEF OrdersStayNamed
  <2>1. id \in OrderIds /\ book.orders[id] # NoOrder
    BY DEF Live
  <2> QED BY <2>1 DEF Fresher, Known, Names
<1> QED BY <1>1, GatewayInvariant, PTL
-----------------------------------------------------------------------------
(* What is on its way to the clients.                                      *)

(* A request: the engine reports on the orders it names. *)
LEMMA ExecuteAnswers ==
  ASSUME Ready, Answers, execute, Outgoing', IInv'
  PROVE  Answers'
<1>0. /\ process(cur) /\ cur \in Request /\ matching_pc # "executing"
      /\ UNCHANGED <<entry, translation, notes, responder, view, event, outbound_ring>>
  BY DEF execute, inbound_vars, outbound_vars, Ready, Pipe
<1>1. out = <<>>
  BY <1>0 DEF process, ignore, enter_rejected, enter, cancel, replace_as_cancel,
              replace_resting, replace_matching, Idle, Replaceable
<1>2. PICK t : Route(t) /\ Matches(t)
  BY DEF Answers
<1>3. Speaks(t)
  BY <1>0, <1>1, <1>2, EngineSpeaks
<1>4. /\ Pipe /\ Fresher /\ Waiting' \subseteq Waiting /\ cur \in Waiting
      /\ \A req \in Waiting' : Before(cur, req)
  BY ExecuteWaiting DEF Ready
<1>5. \A req \in Waiting : Creates(req) => NewId(req) \in OrderIds /\ NewId(req) \in Nat
  BY <1>4, WaitingTypes, RequestIds
<1>6. cur.type # "CANCEL" => Creates(cur) /\ t.orders[NewId(cur)] # None
  <2> SUFFICES ASSUME cur.type # "CANCEL" PROVE Creates(cur) /\ t.orders[NewId(cur)] # None
    OBVIOUS
  <2>1. Creates(cur)
    BY <1>0, NoneAssumption DEF Creates
  <2>2. cur # translation.request
    <3>1. Before(cur, translation.request)
      BY <1>0, <1>4 DEF Fresher, Ordered
    <3>2. ~ (NewId(cur) < NewId(cur))
      BY <2>1, <1>4, <1>5, SMTT(30)
    <3> QED BY <2>1, <3>1, <3>2 DEF Before
  <2> QED BY <2>1, <2>2, <1>2, <1>4 DEF Matches
<1>7. CASE out' = <<>> /\ Opens' = Opens
  <2>1. Said(t, {})
    BY <1>3, <1>7, SaysNothing
  <2> QED BY <2>1, <1>0, <1>2, <1>4, <1>5, SaidAnswers, SMTT(30)
<1>8. ASSUME NEW ev, NEW created, Reports(ev, Opens, Opens', created),
             out' = <<ev>> \/ (\E m \in ITCH : out' = <<ev, m>>),
             created = {} \/ (cur.type # "CANCEL" /\ created = {NewId(cur)}),
             \A id \in {ev.id, ev.orig_id} :
               \/ HeldBy(id, ev.client)
               \/ cur.type # "CANCEL" /\ id = NewId(cur) /\ ev.client = cur.client
      PROVE  Answers'
  <2>1. ev.id \in OrderIds /\ ev.orig_id \in OrderIds
    BY <1>8, EventFields DEF Reports
  <2>2. ASSUME NEW id \in {ev.id, ev.orig_id}
        PROVE  /\ Names(entry, ev.client, id) /\ (id \in created => t.orders[id] # None)
               /\ \A req \in Waiting' : Creates(req) => NewId(req) # id
    <3>1. id \in created => t.orders[id] # None
      BY <1>6, <1>8
    <3>2. CASE HeldBy(id, ev.client)
      <4>1. /\ Names(entry, ev.client, id)
            /\ \A req \in Waiting : Creates(req) => NewId(req) # id
        BY <2>1, <3>2, <1>4, HeldNames
      <4> QED BY <3>1, <4>1, <1>4
    <3>3. CASE cur.type # "CANCEL" /\ id = NewId(cur) /\ ev.client = cur.client
      <4>1. Names(entry, ev.client, id)
        BY <3>3, <1>4 DEF Fresher, Fresh
      <4>2. ASSUME NEW req \in Waiting', Creates(req) PROVE NewId(req) # id
        <5>1. NewId(cur) < NewId(req) /\ NewId(cur) \in Nat /\ NewId(req) \in Nat
          BY <3>3, <4>2, <1>4, <1>5, <1>6 DEF Before
        <5> QED BY <5>1, <3>3, SMTT(30)
      <4> QED BY <3>1, <4>1, <4>2
    <3> QED BY <2>2, <3>2, <3>3, <1>8
  <2>3. Tells(entry, t, ev, Opens, Opens', created)
    BY <2>2, <1>2, <1>8 DEF Tells, Matches
  <2>4. Said(t, {ev.id, ev.orig_id})
    BY <2>3, <1>3, <1>8, SaysEvent
  <2>5. \A req \in Waiting' :
          Creates(req) => NewId(req) \in OrderIds /\ NewId(req) \notin {ev.id, ev.orig_id}
    BY <2>2, <1>4, <1>5
  <2> QED BY <2>4, <2>5, <1>0, <1>2, <1>4, SaidAnswers
<1> QED BY <1>0, <1>7, <1>8, ProcessReports DEF Ready

(* An iteration of match() and its end: the engine reports on the two      *)
(* orders of a trade, or on the incoming one.                              *)
LEMMA MatchAnswers ==
  ASSUME Ready, Answers, match_step \/ match_done, Outgoing', IInv',
         UNCHANGED <<entry, translation, notes, responder, view, event, outbound_ring>>,
         UNCHANGED <<inbound_ring, cur, nxt, matching_pc>>
  PROVE  Answers'
<1>0. out = <<>> /\ Pipe /\ Fresher /\ IInv
  BY DEF match_step, match_done, Matching, Ready
<1>1. PICK t : Route(t) /\ Matches(t)
  BY DEF Answers
<1>2. Speaks(t)
  BY <1>0, <1>1, EngineSpeaks
<1>3. Waiting' = Waiting /\ translation' = translation
  BY DEF Waiting
<1>4. \A req \in Waiting : Creates(req) => NewId(req) \in OrderIds
  BY <1>0, WaitingTypes, RequestIds
<1>5. ASSUME NEW ids, Said(t, ids),
             \A req \in Waiting : Creates(req) => NewId(req) \notin ids
      PROVE  Answers'
  BY <1>1, <1>3, <1>4, <1>5, SaidAnswers
<1>6. ASSUME NEW ev, NEW q, NEW r, Reports(ev, q, r, {}),
             \A id \in {ev.id, ev.orig_id} : HeldBy(id, ev.client)
      PROVE  /\ \A id \in {ev.id, ev.orig_id} : Names(entry, ev.client, id)
             /\ \A req \in Waiting : Creates(req) => NewId(req) \notin {ev.id, ev.orig_id}
  <2>1. ev.id \in OrderIds /\ ev.orig_id \in OrderIds
    BY <1>6, EventFields DEF Reports
  <2>2. ASSUME NEW id \in {ev.id, ev.orig_id}
        PROVE  /\ Names(entry, ev.client, id)
               /\ \A req \in Waiting : Creates(req) => NewId(req) # id
    BY <2>1, <1>0, <1>6, HeldNames
  <2> QED BY <2>2
<1>7. \A id \in OrderIds : Shares(t.orders[id]) = Opens[id]
  BY <1>1 DEF Matches
<1>8. CASE match_step
  <2>1. PICK ev1, ev2, m, mid :
          /\ Reports(ev1, Opens, mid, {}) /\ Reports(ev2, mid, Opens', {})
          /\ m \in ITCH /\ out' = <<ev1, ev2, m>>
          /\ \A id \in {ev1.id, ev1.orig_id} : HeldBy(id, ev1.client)
          /\ \A id \in {ev2.id, ev2.orig_id} : HeldBy(id, ev2.client)
    BY <1>0, <1>8, MatchStepReports
  <2>2. /\ \A id \in {ev1.id, ev1.orig_id} : Names(entry, ev1.client, id)
        /\ \A req \in Waiting : Creates(req) => NewId(req) \notin {ev1.id, ev1.orig_id}
    BY <2>1, <1>6
  <2>3. /\ \A id \in {ev2.id, ev2.orig_id} : Names(entry, ev2.client, id)
        /\ \A req \in Waiting : Creates(req) => NewId(req) \notin {ev2.id, ev2.orig_id}
    BY <2>1, <1>6
  <2>4. Tells(entry, t, ev1, Opens, mid, {})
    BY <2>1, <2>2, <1>7 DEF Tells
  <2>5. Said(t, {ev1.id, ev1.orig_id, ev2.id, ev2.orig_id})
    BY <2>1, <2>3, <2>4, <1>2, SaysTrade
  <2>6. \A req \in Waiting :
          Creates(req) => NewId(req) \notin {ev1.id, ev1.orig_id, ev2.id, ev2.orig_id}
    BY <2>2, <2>3
  <2> QED BY <2>5, <2>6, <1>5
<1>9. CASE match_done
  <2>1. CASE Opens' = Opens /\ (out' = <<>> \/ \E m \in ITCH : out' = <<m>>)
    <3>1. Said(t, {})
      BY <2>1, <1>2, SaysNothing, SaysFeed
    <3>2. \A req \in Waiting : Creates(req) => NewId(req) \notin {}
      OBVIOUS
    <3> QED BY <3>1, <3>2, <1>5, SMTT(30)
  <2>2. ASSUME NEW ev, Reports(ev, Opens, Opens', {}), out' = <<ev>>,
               \A id \in {ev.id, ev.orig_id} : HeldBy(id, ev.client)
        PROVE  Answers'
    <3>1. /\ \A id \in {ev.id, ev.orig_id} : Names(entry, ev.client, id)
          /\ \A req \in Waiting : Creates(req) => NewId(req) \notin {ev.id, ev.orig_id}
      BY <2>2, <1>6
    <3>2. Tells(entry, t, ev, Opens, Opens', {})
      BY <2>2, <3>1, <1>7 DEF Tells
    <3>3. Said(t, {ev.id, ev.orig_id})
      BY <2>2, <3>2, <1>2, SaysEvent
    <3> QED BY <3>1, <3>3, <1>5
  <2> QED BY <2>1, <2>2, <1>0, <1>9, MatchDoneReports
<1> QED BY <1>8, <1>9

(* Every step of the exchange keeps the invariant. *)
LEMMA AnswersStep ==
  ASSUME Ready, Answers, [GWNext]_gwvars, IInv', Outgoing' PROVE Answers'
<1>1. CASE Receive
  BY <1>1, ReceiveAnswers DEF Receive
<1>2. CASE push_note_
  BY <1>2, NoteAnswers
<1>3. CASE execute
  BY <1>3, ExecuteAnswers
<1>4. CASE matching
  <2>1. /\ match_step \/ match_done \/ publish
        /\ UNCHANGED <<entry, translation, notes, responder, view, event, outbound_ring>>
        /\ UNCHANGED <<inbound_ring, cur, nxt, matching_pc>>
    BY <1>4 DEF matching, inbound_vars, matching_vars, outbound_vars, ring_vars
  <2> QED BY <2>1, MatchAnswers, PublishAnswers
<1>5. CASE drain_notes
  BY <1>5, DrainAnswers
<1>6. CASE respond
  BY <1>6, RespondAnswers
<1>7. CASE push_request \/ take \/ advance \/ push_event \/ take_event
             \/ begin_batch \/ end_batch \/ UNCHANGED gwvars
  BY <1>7, SameAnswers
<1> QED BY <1>1, <1>2, <1>3, <1>4, <1>5, <1>6, <1>7 DEF GWNext, Push, Match, Outbound

(* With what is known of the requests, it is inductive. *)
LEMMA AnswersInvariant == GWSpec => [](Ready /\ Answers)
<1>1. GWInit => Numbered(entry) /\ Outgoing /\ Announced /\ Answers
  BY AnswersInit
<1>2. /\ Pipe /\ IInv /\ Fresher /\ IInv'
      /\ Numbered(entry) /\ Outgoing /\ Announced /\ Answers /\ [GWNext]_gwvars
      => Numbered(entry)' /\ Outgoing' /\ Announced' /\ Answers'
  <2> SUFFICES ASSUME Pipe, IInv, Fresher, IInv', Numbered(entry), Outgoing, Announced, Answers,
                      [GWNext]_gwvars
               PROVE  Numbered(entry)' /\ Outgoing' /\ Announced' /\ Answers'
    OBVIOUS
  <2>1. Ready
    BY DEF Ready
  <2>2. Outgoing' /\ Numbered(entry)' /\ Announced'
    BY OutgoingStep, AnnouncedStep
  <2>3. Answers'
    BY <2>1, <2>2, AnswersStep
  <2> QED BY <2>2, <2>3
<1>3. Pipe /\ IInv /\ Fresher /\ Numbered(entry) /\ Outgoing /\ Announced => Ready
  BY DEF Ready
<1> QED BY <1>1, <1>2, <1>3, GatewayInvariant, PTL DEF GWSpec

(* For any number of clients, messages and orders, and any capacity of the *)
(* rings: whichever thread is ahead, on_event() finds the records it needs *)
(* when it answers an event, and they are of the client the event is for.  *)
THEOREM EventsHaveRecords == GWSpec => []EventHasRecord
<1>1. Ready /\ Answers => EventHasRecord
  <2> SUFFICES ASSUME Ready, Answers, outbound_pc = "respond", notes = <<>>
               PROVE  /\ responder[event.id] # None /\ responder[event.orig_id] # None
                      /\ responder[event.id].record.client = event.client
    BY DEF EventHasRecord
  <2>1. /\ event.type \in EngineEventTypes /\ Len(InFlight) \in Nat \ {0} /\ InFlight[1] = event
    BY HeldFirst DEF Ready
  <2>2. PICK t : Route(t)
    BY DEF Answers
  <2>3. Leads(entry, translation.note, Now, 0, notes, Len(InFlight), InFlight, t)
    BY <2>2 DEF Route
  <2>4. PICK ks : ks = [i \in 1..(Len(InFlight) - 1) |-> InFlight[i + 1]]
    OBVIOUS
  <2>5. \A i \in 1..(Len(InFlight) - 1) : ks[i] = InFlight[i + 1]
    BY <2>4
  <2>6. Answerable(Now, event)
    BY <2>1, <2>3, <2>5, LeadsMessageTaken, SMTT(30)
  <2>7. \A id \in {event.id, event.orig_id} :
          Now.orders[id] # None /\ Now.orders[id].record.client = event.client
    BY <2>1, <2>6 DEF Answerable
  <2>8. Now.orders = responder
    BY DEF Now
  <2> QED BY <2>7, <2>8
<1> QED BY <1>1, AnswersInvariant, PTL

(* Two ways through a queue that start in the same state are the same. *)
LEMMA AfterNotesIs ==
  ASSUME NEW e, NEW note, NEW ns, Len(ns) \in Nat, NEW f, NotesPath(e, note, Len(ns), ns, f)
  PROVE  AfterNotes(f[0], ns) = f[Len(ns)]
<1> DEFINE n == Len(ns)
           a == CHOOSE after : after =
                  [i \in 0..n |-> IF i = 0 THEN f[0] ELSE Noted(after[i - 1], ns[i])]
           h == [i \in 0..n |-> f[i]]
<1>1. AfterNotes(f[0], ns) = a[n]
  BY DEF AfterNotes
<1>2. ASSUME NEW i \in 0..n
      PROVE  h[i] = IF i = 0 THEN f[0] ELSE Noted(h[i - 1], ns[i])
  <2>1. CASE i = 0
    BY <2>1
  <2>2. CASE i # 0
    <3>1. i \in 1..n /\ i - 1 \in 0..n
      BY <2>2, SMTT(30)
    <3>2. f[i] = Noted(f[i - 1], ns[i])
      BY <3>1 DEF NotesPath
    <3> QED BY <2>2, <3>1, <3>2
  <2> QED BY <2>1, <2>2
<1>3. h = [i \in 0..n |-> IF i = 0 THEN f[0] ELSE Noted(h[i - 1], ns[i])]
  BY <1>2
<1> HIDE DEF h
<1>4. a = [i \in 0..n |-> IF i = 0 THEN f[0] ELSE Noted(a[i - 1], ns[i])]
  BY <1>3
<1> HIDE DEF a
<1> DEFINE B == {i \in 0..n : a[i] # f[i]}
<1>6. B = {}
  <2> SUFFICES ASSUME B # {} PROVE FALSE
    OBVIOUS
  <2>1. B \in SUBSET Nat
    BY SMTT(30)
  <2>2. \A i \in B : i \in 0..n /\ a[i] # f[i]
    OBVIOUS
  <2>3. \A i \in 0..n : i \notin B => a[i] = f[i]
    OBVIOUS
  <2> HIDE DEF B
  <2>4. PICK i \in B : \A j \in B : i <= j
    BY <2>1, LeastExists
  <2>5. i \in 0..n /\ a[i] # f[i]
    BY <2>2, <2>4
  <2>6. i # 0
    BY <2>5, <1>4
  <2>7. i - 1 \in 0..n /\ i \in 1..n /\ i - 1 \notin B
    BY <2>1, <2>4, <2>5, <2>6, SMTT(30)
  <2>8. a[i - 1] = f[i - 1]
    BY <2>3, <2>7
  <2>9. a[i] = Noted(a[i - 1], ns[i])
    BY <2>5, <2>6, <1>4
  <2>10. f[i] = Noted(f[i - 1], ns[i])
    BY <2>7 DEF NotesPath
  <2> QED BY <2>5, <2>8, <2>9, <2>10
<1>7. n \in 0..n
  BY SMTT(30)
<1> QED BY <1>1, <1>6, <1>7

(* The same of events. *)
LEMMA AfterEventsIs ==
  ASSUME NEW e, NEW note, NEW ms, Len(ms) \in Nat, NEW g, MessagesPath(e, note, Len(ms), ms, g)
  PROVE  AfterEvents(g[0], ms) = g[Len(ms)]
<1> DEFINE n == Len(ms)
           a == CHOOSE after : after =
                  [i \in 0..n |-> IF i = 0 THEN g[0] ELSE Heard(after[i - 1], ms[i])]
           h == [i \in 0..n |-> g[i]]
<1>1. AfterEvents(g[0], ms) = a[n]
  BY DEF AfterEvents
<1>2. ASSUME NEW i \in 0..n
      PROVE  h[i] = IF i = 0 THEN g[0] ELSE Heard(h[i - 1], ms[i])
  <2>1. CASE i = 0
    BY <2>1
  <2>2. CASE i # 0
    <3>1. i \in 1..n /\ i - 1 \in 0..n
      BY <2>2, SMTT(30)
    <3>2. g[i] = Heard(g[i - 1], ms[i])
      BY <3>1 DEF MessagesPath
    <3> QED BY <2>2, <3>1, <3>2
  <2> QED BY <2>1, <2>2
<1>3. h = [i \in 0..n |-> IF i = 0 THEN g[0] ELSE Heard(h[i - 1], ms[i])]
  BY <1>2
<1> HIDE DEF h
<1>4. a = [i \in 0..n |-> IF i = 0 THEN g[0] ELSE Heard(a[i - 1], ms[i])]
  BY <1>3
<1> HIDE DEF a
<1> DEFINE B == {i \in 0..n : a[i] # g[i]}
<1>6. B = {}
  <2> SUFFICES ASSUME B # {} PROVE FALSE
    OBVIOUS
  <2>1. B \in SUBSET Nat
    BY SMTT(30)
  <2>2. \A i \in B : i \in 0..n /\ a[i] # g[i]
    OBVIOUS
  <2>3. \A i \in 0..n : i \notin B => a[i] = g[i]
    OBVIOUS
  <2> HIDE DEF B
  <2>4. PICK i \in B : \A j \in B : i <= j
    BY <2>1, LeastExists
  <2>5. i \in 0..n /\ a[i] # g[i]
    BY <2>2, <2>4
  <2>6. i # 0
    BY <2>5, <1>4
  <2>7. i - 1 \in 0..n /\ i \in 1..n /\ i - 1 \notin B
    BY <2>1, <2>4, <2>5, <2>6, SMTT(30)
  <2>8. a[i - 1] = g[i - 1]
    BY <2>3, <2>7
  <2>9. a[i] = Heard(a[i - 1], ms[i])
    BY <2>5, <2>6, <1>4
  <2>10. g[i] = Heard(g[i - 1], ms[i])
    BY <2>7 DEF MessagesPath
  <2> QED BY <2>5, <2>8, <2>9, <2>10
<1>7. n \in 0..n
  BY SMTT(30)
<1> QED BY <1>1, <1>6, <1>7

(* Whatever is filled, canceled, replaced or rejected while notes and      *)
(* events are on their way: once they are answered, every client knows the *)
(* open shares of each of its orders in the book, and OuchResponder holds  *)
(* the same number and no order that is over.                              *)
THEOREM ClientsAreTold == GWSpec => []ClientsKnowTheBook
<1>1. Ready /\ Answers => ClientsKnowTheBook
  <2> SUFFICES ASSUME Ready, Answers PROVE ClientsKnowTheBook
    OBVIOUS
  <2>1. Len(notes) \in Nat /\ Len(InFlight) \in Nat /\ EntryOK(entry)
    BY Flight, ListLength DEF Ready, Outgoing, InTransit, Pipe
  <2>2. PICK t : Route(t) /\ Matches(t)
    BY DEF Answers
  <2>3. PICK f, g : /\ f[0] = Now /\ NotesPath(entry, translation.note, Len(notes), notes, f)
                    /\ g[0] = f[Len(notes)]
                    /\ MessagesPath(entry, translation.note, Len(InFlight), InFlight, g)
                    /\ g[Len(InFlight)] = t
    BY <2>2 DEF Route, Leads
  <2>4. AfterNotes(Now, notes) = g[0]
    BY <2>1, <2>3, AfterNotesIs
  <2>5. AfterEvents(g[0], InFlight) = t
    BY <2>1, <2>3, AfterEventsIs
  <2>6. Replayed = t
    BY <2>4, <2>5 DEF Replayed, Now
  <2>7. Proper(entry, t)
    BY <2>1, <2>2, LeadsFits DEF Route, Fits
  <2>8. ASSUME NEW c \in Clients, NEW r \in UserRefNums, entry.orders[c][r] # None
        PROVE  LET order == entry.orders[c][r]
                   told  == t.view[c][r]
                   live  == t.orders[order.id]
               IN  \/ told = None /\ OpenShares(order.id) = 0
                   \/ told = 0 /\ OpenShares(order.id) = 0 /\ live = None
                   \/ told # 0 /\ told = OpenShares(order.id) /\ live.open = told
    <3>1. PICK id, told, live :
            id = entry.orders[c][r].id /\ told = t.view[c][r] /\ live = t.orders[id]
      OBVIOUS
    <3>2. id \in OrderIds
      BY <2>1, <2>8, <3>1, EntryOrders DEF KnownOrder
    <3>3. Agrees(told, live)
      BY <2>7, <2>8, <3>1 DEF Proper
    <3>4. OpenShares(id) = Shares(live)
      BY <2>2, <3>1, <3>2 DEF Matches, Opens
    <3>5. \/ told = None /\ OpenShares(id) = 0
          \/ told = 0 /\ OpenShares(id) = 0 /\ live = None
          \/ told # 0 /\ told = OpenShares(id) /\ live.open = told
      BY <3>3, <3>4 DEF Agrees, Shares
    <3> QED BY <3>1, <3>5
  <2> QED BY <2>6, <2>8 DEF ClientsKnowTheBook
<1> QED BY <1>1, AnswersInvariant, PTL
=============================================================================
