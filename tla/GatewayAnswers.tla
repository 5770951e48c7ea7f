---------------------------- MODULE GatewayAnswers ----------------------------
(***************************************************************************)
(* The answers on their way from the engine to the clients.  At any time   *)
(* the notes and messages in flight, answered in turn, lead OuchResponder  *)
(* to the shares that the book has, and the clients to the same numbers.   *)
(* What a step of the engine says of its book is a hypothesis here;        *)
(* GatewayProofs brings the two together.                                  *)
(***************************************************************************)
EXTENDS GatewayRequests

(* The prover, where no other is named. *)
USE ZenonT(30)
-----------------------------------------------------------------------------
(* The state of the engine, as far as its answers depend on it.            *)
LEMMA EngineOut ==
  IInv => /\ out \in Seq(EngineEvent \cup ITCH) /\ market_data \in Seq(ITCH)
          /\ market_data_drops \in 0..MaxDrops
  BY DEF IInv, TypeOK

(* Between two requests the shares of an order are those it rests with. *)
LEMMA SharesIdle ==
  match = NoRequest =>
    \A id \in OrderIds :
      Opens[id] = IF book.orders[id] = NoOrder THEN 0 ELSE book.orders[id].open
  BY DEF Opens, OpenShares

(* They change with the book and the incoming order only. *)
LEMMA SharesSame == UNCHANGED <<book, match>> => Opens' = Opens
  BY DEF Opens, OpenShares

-----------------------------------------------------------------------------
(* The answers to what is in flight lead to a state that matches the book. *)

(* The outbound thread has an event in hand only to answer it. *)
Outgoing ==
  /\ outbound_pc \in {"drain", "batch", "respond"}
  /\ (outbound_pc = "respond") <=> (event # None)
  /\ event \in EngineEvent \cup {None}
  /\ outbound_ring \in Seq(EngineEvent)
  /\ \E S : notes \in Seq(S)

(* A note that is still to be pushed names the order of its request. *)
Announced ==
  translation.note # None =>
    /\ NoteOK(entry, translation.note)
    /\ Creates(translation.request) =>
         Announces(translation.note) /\ NewId(translation.request) = translation.note.id

(* The responder has the shares of the book; and a request whose note is   *)
(* pushed has its order announced.                                         *)
Matches(t) ==
  /\ \A id \in OrderIds : Shares(t.orders[id]) = Opens[id]
  /\ \A req \in Waiting :
       (Creates(req) /\ (translation.note = None \/ req # translation.request))
         => t.orders[NewId(req)] # None

(* Where the answers to all that is in flight lead. *)
Now == [orders |-> responder, view |-> view]
Route(t) == Leads(entry, translation.note, Now, Len(notes), notes, Len(InFlight), InFlight, t)

(* The invariant: all that is in flight can be answered, and the answers   *)
(* lead to the shares of the book.                                         *)
Answers == \E t : Route(t) /\ Matches(t)

(* What it rests on. *)
Ready == /\ Pipe /\ IInv /\ Fresher
         /\ Numbered(entry) /\ Outgoing /\ Announced

(* What is in flight, place by place. *)
Held == IF event = None THEN 0 ELSE 1
FlightAt(i) ==
  IF i <= Held THEN event
  ELSE IF i <= Held + Len(outbound_ring) THEN outbound_ring[i - Held]
  ELSE out[i - Held - Len(outbound_ring)]
InTransit ==
  /\ Len(outbound_ring) \in Nat /\ Len(out) \in Nat /\ Held \in {0, 1}
  /\ Len(InFlight) \in Nat /\ Len(InFlight) = Held + Len(outbound_ring) + Len(out)
  /\ \A i \in 1..Len(InFlight) : InFlight[i] = FlightAt(i)

(* InFlight is the event in hand, then the ring, then what the engine has  *)
(* still to send.                                                          *)
LEMMA Flight == Outgoing /\ IInv => InTransit
<1> SUFFICES ASSUME Outgoing, IInv PROVE InTransit
  OBVIOUS
<1> DEFINE Msg == EngineEvent \cup ITCH
           first == IF event = None THEN <<>> ELSE <<event>>
<1>1. out \in Seq(Msg) /\ outbound_ring \in Seq(EngineEvent) /\ event \in EngineEvent \cup {None}
  BY EngineOut DEF Outgoing
<1>2. outbound_ring \in Seq(Msg)
  <2>1. EngineEvent \subseteq Msg
    OBVIOUS
  <2> HIDE DEF Msg
  <2> QED BY <2>1, <1>1, QueueWider
<1>3. /\ first \in Seq(Msg) /\ Len(first) = Held /\ Held \in {0, 1}
      /\ \A i \in 1..Held : first[i] = event
  <2>1. event # None => event \in Msg
    BY <1>1
  <2> HIDE DEF Msg
  <2>2. CASE event = None
    <3>1. first = <<>> /\ Held = 0
      BY <2>2 DEF Held
    <3> HIDE DEF first
    <3> QED BY <3>1, SMTT(30)
  <2>3. CASE event # None
    <3>1. first = <<event>> /\ Held = 1
      BY <2>3 DEF Held
    <3> HIDE DEF first
    <3> QED BY <2>1, <2>3, <3>1, SMTT(30)
  <2> QED BY <2>2, <2>3
<1> HIDE DEF Msg, first
<1>4. /\ first \o outbound_ring \in Seq(Msg)
      /\ Len(first \o outbound_ring) = Held + Len(outbound_ring)
      /\ \A i \in 1..(Held + Len(outbound_ring)) : (first \o outbound_ring)[i] =
           IF i <= Held THEN first[i] ELSE outbound_ring[i - Held]
  BY <1>2, <1>3, QueueJoin
<1>5. Len(outbound_ring) \in Nat /\ Len(out) \in Nat
  BY <1>1, QueueLength
<1>6. InFlight = (first \o outbound_ring) \o out
  BY DEF InFlight, first
<1>7. /\ Len(InFlight) = Held + Len(outbound_ring) + Len(out)
      /\ \A i \in 1..Len(InFlight) : InFlight[i] =
           IF i <= Held + Len(outbound_ring) THEN (first \o outbound_ring)[i]
           ELSE out[i - (Held + Len(outbound_ring))]
  BY <1>1, <1>4, <1>6, QueueJoin, SMTT(30)
<1>8. Len(InFlight) \in Nat
  BY <1>3, <1>5, <1>7, SMTT(30)
<1>9. ASSUME NEW i \in 1..Len(InFlight) PROVE InFlight[i] = FlightAt(i)
  <2>1. i - (Held + Len(outbound_ring)) = i - Held - Len(outbound_ring)
    BY <1>3, <1>5, <1>8, SMTT(30)
  <2>2. CASE i <= Held + Len(outbound_ring)
    <3>1. i \in 1..(Held + Len(outbound_ring)) /\ (i <= Held => i \in 1..Held)
      BY <2>2, <1>3, <1>5, <1>8, SMTT(30)
    <3> QED BY <2>2, <3>1, <1>3, <1>4, <1>7 DEF FlightAt
  <2>3. CASE ~ (i <= Held + Len(outbound_ring))
    <3>1. ~ (i <= Held)
      BY <2>3, <1>3, <1>5, <1>8, SMTT(30)
    <3> QED BY <2>1, <2>3, <3>1, <1>7 DEF FlightAt
  <2> QED BY <2>2, <2>3
<1> QED BY <1>3, <1>5, <1>7, <1>8, <1>9 DEF InTransit

(* The same after a step. *)
LEMMA FlightAfter == Outgoing' /\ IInv' => InTransit'
  BY Flight, PTL

(* The threads keep what they send to each other in order. *)
LEMMA OutgoingStep ==
  ASSUME Outgoing, IInv, [GWNext]_gwvars PROVE Outgoing'
<1>0. outbound_ring \in Seq(EngineEvent) /\ out \in Seq(EngineEvent \cup ITCH)
  BY EngineOut DEF Outgoing
<1>1. PICK S : notes \in Seq(S)
  BY DEF Outgoing
<1>2. CASE Receive \/ push_request \/ take \/ execute \/ matching \/ advance \/ UNCHANGED gwvars
  <2>1. UNCHANGED <<outbound_pc, event, outbound_ring, notes>>
    BY <1>2 DEF Receive, receive, push_request, take, execute, matching, advance, gwvars,
                outbound_vars, ring_vars
  <2> QED BY <2>1 DEF Outgoing
<1>3. CASE push_note_
  <2>1. /\ notes' = Append(notes, translation.note)
        /\ UNCHANGED <<outbound_pc, event, outbound_ring>>
    BY <1>3 DEF push_note_, outbound_vars
  <2>2. notes \in Seq(S \cup {translation.note})
    BY <1>1, QueueWider
  <2>3. notes' \in Seq(S \cup {translation.note})
    BY <2>1, <2>2, QueuePush
  <2> QED BY <2>1, <2>3 DEF Outgoing
<1>4. CASE push_event
  <2>1. /\ out # <<>> /\ Head(out).type \in EngineEventTypes
        /\ outbound_ring' = Append(outbound_ring, Head(out))
        /\ UNCHANGED <<outbound_pc, event, notes>>
    BY <1>4 DEF push_event, emit, outbound_vars
  <2>2. Head(out) \in EngineEvent \cup ITCH
    BY <2>1, <1>0, QueuePop
  <2>3. Head(out) \in EngineEvent
    BY <2>1, <2>2, FeedMessage
  <2>4. outbound_ring' \in Seq(EngineEvent)
    BY <2>1, <2>3, <1>0, QueuePush
  <2> QED BY <2>1, <2>4 DEF Outgoing
<1>5. CASE drain_notes
  <2>1. /\ notes # <<>> /\ notes' = Tail(notes)
        /\ UNCHANGED <<outbound_pc, event, outbound_ring>>
    BY <1>5 DEF drain_notes
  <2>2. notes' \in Seq(S)
    BY <2>1, <1>1, QueuePop
  <2> QED BY <2>1, <2>2 DEF Outgoing
<1>6. CASE begin_batch \/ end_batch
  <2>1. /\ outbound_pc \in {"drain", "batch"} /\ outbound_pc' \in {"drain", "batch"}
        /\ UNCHANGED <<event, notes, outbound_ring>>
    BY <1>6 DEF begin_batch, end_batch, ring_vars
  <2> QED BY <2>1 DEF Outgoing
<1>7. CASE take_event
  <2>1. /\ outbound_ring # <<>> /\ event' = Head(outbound_ring)
        /\ outbound_ring' = Tail(outbound_ring) /\ outbound_pc' = "respond" /\ notes' = notes
    BY <1>7 DEF take_event
  <2>2. event' \in EngineEvent /\ outbound_ring' \in Seq(EngineEvent)
    BY <2>1, <1>0, QueuePop
  <2> QED BY <2>1, <2>2, NoneAssumption DEF Outgoing
<1>8. CASE respond
  <2>1. event' = None /\ outbound_pc' = "batch" /\ UNCHANGED <<notes, outbound_ring>>
    BY <1>8 DEF respond, ring_vars
  <2> QED BY <2>1 DEF Outgoing
<1> QED BY <1>2, <1>3, <1>4, <1>5, <1>6, <1>7, <1>8 DEF GWNext, Push, Match, Outbound

(* Ids stay with one order, and a new note is about the order of its       *)
(* request.                                                                *)
LEMMA AnnouncedStep ==
  ASSUME Pipe, Numbered(entry), Announced, [GWNext]_gwvars
  PROVE  Numbered(entry)' /\ Announced'
<1>1. ASSUME NEW c \in Clients, NEW msg \in Messages, receive(c, msg)
      PROVE  Numbered(entry)' /\ Announced'
  <2>1. PICK t : t = Entry!translate(entry, c, msg)
    OBVIOUS
  <2>2. /\ t.entry.next_order_id - 1 \in OrderIds \cup {0}
        /\ entry' = t.entry /\ translation'.note = t.note /\ translation'.request = t.request
    BY <1>1, <2>1 DEF receive
  <2>3. EntryOK(entry) /\ Translated(entry, c, t) /\ Explained(entry, c, t)
    BY <2>1, <2>2, MessageOK DEF Pipe
  <2>4. /\ Numbered(t.entry) /\ (t.note # None => NoteOK(t.entry, t.note))
    BY <2>3, EntryChanges
  <2>5. Creates(t.request) => Announces(t.note) /\ NewId(t.request) = t.note.id
    BY <2>3, NoteNamesOrder
  <2> QED BY <2>2, <2>4, <2>5 DEF Announced
<1>2. CASE Push
  <2>1. entry' = entry /\ translation'.note = None
    BY <1>2, SMTT(30) DEF Push, push_note_, push_request, Pushed, Pipe
  <2> QED BY <2>1 DEF Announced
<1>3. CASE Match \/ Outbound \/ UNCHANGED gwvars
  <2>1. UNCHANGED <<entry, translation>>
    BY <1>3 DEF Match, take, execute, matching, push_event, advance, Outbound, drain_notes,
                begin_batch, take_event, respond, end_batch, gwvars, inbound_vars
  <2> QED BY <2>1 DEF Announced
<1> QED BY <1>1, <1>2, <1>3 DEF GWNext, Receive
-----------------------------------------------------------------------------
(* The engine speaks.                                                      *)

(* A step of the engine that has sent all it had to say. *)
Speaks(t) ==
  /\ EntryOK(entry) /\ Numbered(entry) /\ Pending(entry, translation.note)
  /\ InTransit /\ InTransit' /\ out = <<>> /\ Len(notes) \in Nat
  /\ UNCHANGED <<entry, translation, notes, responder, view, event, outbound_ring>>
  /\ Route(t) /\ \A id \in OrderIds : Shares(t.orders[id]) = Opens[id]

(* What it says leads on to a state that has its shares and differs in the *)
(* orders ids only.                                                        *)
Said(t, ids) ==
  \E u : /\ Route(u)'
         /\ \A id \in OrderIds : Shares(u.orders[id]) = Opens'[id]
         /\ \A id \in OrderIds : id \notin ids => u.orders[id] = t.orders[id]

(* What the engine adds comes last. *)
LEMMA Produced ==
  ASSUME InTransit, InTransit', out = <<>>, UNCHANGED <<event, outbound_ring>>
  PROVE  /\ Len(InFlight) \in Nat /\ Len(InFlight') = Len(InFlight) + Len(out')
         /\ \A i \in 1..Len(InFlight) : InFlight'[i] = InFlight[i]
         /\ \A i \in 1..Len(out') : InFlight'[Len(InFlight) + i] = out'[i]
<1>1. PICK h, n, k : h = Held /\ n = Len(outbound_ring) /\ k = Len(out')
  OBVIOUS
<1>2. /\ h \in {0, 1} /\ n \in Nat /\ k \in Nat /\ Held' = h
      /\ Len(InFlight) = h + n /\ Len(InFlight') = h + n + k
  BY <1>1, SMTT(30) DEF InTransit, Held
<1>3. ASSUME NEW i \in 1..(h + n) PROVE InFlight'[i] = InFlight[i]
  <2>1. i \in 1..Len(InFlight) /\ i \in 1..Len(InFlight')
    BY <1>2, SMTT(30)
  <2>2. InFlight[i] = FlightAt(i) /\ InFlight'[i] = FlightAt(i)'
    BY <2>1 DEF InTransit
  <2>3. i <= h + n
    BY <1>2, SMTT(30)
  <2> QED BY <2>2, <2>3, <1>1, <1>2 DEF FlightAt
<1>4. ASSUME NEW i \in 1..k PROVE InFlight'[h + n + i] = out'[i]
  <2>1. PICK x : x = h + n + i
    OBVIOUS
  <2>2. /\ x \in 1..Len(InFlight')
        /\ ~ (x <= h) /\ ~ (x <= h + n) /\ x - h - n = i
    BY <1>2, <2>1, SMTT(30)
  <2>3. InFlight'[x] = FlightAt(x)'
    BY <2>2 DEF InTransit
  <2>4. Held' = h /\ Len(outbound_ring') = n
    BY <1>1, <1>2
  <2>5. FlightAt(x)' = out'[x - h - n]
    BY <2>2, <2>4 DEF FlightAt
  <2> QED BY <2>1, <2>2, <2>3, <2>5
<1> QED BY <1>1, <1>2, <1>3, <1>4, SMTT(30)

(* A step of the engine leaves all else of the way as it was. *)
LEMMA RouteAfter ==
  ASSUME NEW t, UNCHANGED <<entry, translation, notes, responder, view>>
  PROVE  Route(t)' <=> Leads(entry, translation.note, Now, Len(notes), notes,
                             Len(InFlight'), InFlight', t)
  BY DEF Route, Now

(* The engine says nothing. *)
LEMMA SaysNothing ==
  ASSUME NEW t, Speaks(t), out' = <<>>, Opens' = Opens
  PROVE  Said(t, {})
<1>1. /\ Len(InFlight) \in Nat /\ Len(InFlight') = Len(InFlight)
      /\ \A i \in 1..Len(InFlight) : InFlight'[i] = InFlight[i]
  BY Produced, SMTT(30) DEF Speaks
<1>2. Route(t)'
  BY <1>1, LeadsSame, RouteAfter, SMTT(30) DEF Speaks, Route
<1> QED BY <1>2 DEF Said, Speaks

(* The course that a step of the engine continues. *)
Spoken(e, note, s, n, ns, k, ms, ks, t) ==
  /\ e = entry /\ Course(e, note, s, n, ns, k, ms, t) /\ Continues(k, ms, ks)
  /\ k \in Nat /\ Len(ks) = k + Len(out')
  /\ \A i \in 1..Len(out') : ks[k + i] = out'[i]
  /\ \A x : Course(e, note, s, n, ns, Len(ks), ks, x) => Route(x)'

(* Whatever it says continues the way so far. *)
LEMMA SpeaksFrom ==
  ASSUME NEW t, Speaks(t)
  PROVE  \E e, note, s, n, ns, k, ms, ks : Spoken(e, note, s, n, ns, k, ms, ks, t)
<1>1. PICK e, note, s, n, ns, k, ms, ks :
        /\ e = entry /\ note = translation.note /\ s = Now /\ n = Len(notes) /\ ns = notes
        /\ k = Len(InFlight) /\ ms = InFlight /\ ks = InFlight'
  OBVIOUS
<1>2. /\ k \in Nat /\ Len(ks) = k + Len(out')
      /\ \A i \in 1..k : ks[i] = ms[i]
      /\ \A i \in 1..Len(out') : ks[k + i] = out'[i]
  BY <1>1, Produced DEF Speaks
<1>3. Course(e, note, s, n, ns, k, ms, t)
  BY <1>1, <1>2 DEF Speaks, Route, Course
<1>4. \A x : Course(e, note, s, n, ns, Len(ks), ks, x) => Route(x)'
  BY <1>1, RouteAfter DEF Speaks, Course
<1>5. Spoken(e, note, s, n, ns, k, ms, ks, t)
  BY <1>1, <1>2, <1>3, <1>4 DEF Continues, Spoken
<1> QED BY <1>5

(* It speaks to the feed alone. *)
LEMMA SaysFeed ==
  ASSUME NEW t, Speaks(t), NEW m \in ITCH, out' = <<m>>, Opens' = Opens
  PROVE  Said(t, {})
<1>9. PICK e, note, s, n, ns, k, ms, ks : Spoken(e, note, s, n, ns, k, ms, ks, t)
  BY SpeaksFrom
<1>1. /\ e = entry /\ Course(e, note, s, n, ns, k, ms, t) /\ Continues(k, ms, ks)
      /\ k \in Nat /\ Len(ks) = k + Len(out')
      /\ \A i \in 1..Len(out') : ks[k + i] = out'[i]
      /\ \A x : Course(e, note, s, n, ns, Len(ks), ks, x) => Route(x)'
  BY <1>9 DEF Spoken
<1>2. Len(ks) = k + 1 /\ ks[k + 1] = m
  <2>1. Len(out') = 1 /\ 1 \in 1..Len(out') /\ out'[1] = m
    BY SMTT(30)
  <2> QED BY <2>1, <1>1
<1>3. Course(e, note, s, n, ns, k + 1, ks, t)
  BY <1>1, <1>2, FeedAdded
<1>4. Route(t)'
  BY <1>1, <1>2, <1>3
<1> QED BY <1>4 DEF Said, Speaks

(* It reports on one order. *)
LEMMA SaysEvent ==
  ASSUME NEW t, Speaks(t), NEW ev, NEW created, Tells(entry, t, ev, Opens, Opens', created),
         out' = <<ev>> \/ (\E m \in ITCH : out' = <<ev, m>>)
  PROVE  Said(t, {ev.id, ev.orig_id})
<1>0. PICK r : r = Opens'
  OBVIOUS
<1>9. PICK e, note, s, n, ns, k, ms, ks : Spoken(e, note, s, n, ns, k, ms, ks, t)
  BY SpeaksFrom
<1>1. /\ e = entry /\ Course(e, note, s, n, ns, k, ms, t) /\ Continues(k, ms, ks)
      /\ k \in Nat /\ Len(ks) = k + Len(out')
      /\ \A i \in 1..Len(out') : ks[k + i] = out'[i]
      /\ \A x : Course(e, note, s, n, ns, Len(ks), ks, x) => Route(x)'
  BY <1>9 DEF Spoken
<1>2. ks[k + 1] = ev
  <2>1. 1 \in 1..Len(out') /\ out'[1] = ev
    BY SMTT(30)
  <2> QED BY <2>1, <1>1
<1>3. PICK u : Course(e, note, s, n, ns, k + 1, ks, u) /\ SharesNow(ev, t, u, r)
  BY <1>0, <1>1, <1>2, ReportAdded
<1>4. Course(e, note, s, n, ns, Len(ks), ks, u)
  <2>1. CASE out' = <<ev>>
    <3>1. Len(ks) = k + 1
      BY <2>1, <1>1
    <3> QED BY <3>1, <1>3
  <2>2. CASE \E m \in ITCH : out' = <<ev, m>>
    <3>1. PICK m \in ITCH : out' = <<ev, m>>
      BY <2>2
    <3>2. Len(ks) = (k + 1) + 1 /\ ks[(k + 1) + 1] = m
      <4>1. Len(out') = 2 /\ out'[2] = m /\ 2 \in 1..Len(out') /\ k + 2 = (k + 1) + 1
        BY <3>1, <1>1, SMTT(30)
      <4> QED BY <4>1, <1>1
    <3>3. Course(e, note, s, n, ns, (k + 1) + 1, ks, u)
      BY <3>2, <1>3, Continued, FeedAdded
    <3> QED BY <3>2, <3>3
  <2> QED BY <2>1, <2>2
<1> QED BY <1>0, <1>1, <1>3, <1>4 DEF Said, SharesNow

(* It reports on the two orders of a trade. *)
LEMMA SaysTrade ==
  ASSUME NEW t, Speaks(t), NEW ev1, NEW ev2, NEW m \in ITCH, NEW mid,
         Tells(entry, t, ev1, Opens, mid, {}), Reports(ev2, mid, Opens', {}),
         out' = <<ev1, ev2, m>>,
         \A id \in {ev2.id, ev2.orig_id} : Names(entry, ev2.client, id)
  PROVE  Said(t, {ev1.id, ev1.orig_id, ev2.id, ev2.orig_id})
<1>0. PICK r : r = Opens'
  OBVIOUS
<1>9. PICK e, note, s, n, ns, k, ms, ks : Spoken(e, note, s, n, ns, k, ms, ks, t)
  BY SpeaksFrom
<1>1. /\ e = entry /\ Course(e, note, s, n, ns, k, ms, t) /\ Continues(k, ms, ks)
      /\ k \in Nat /\ Len(ks) = k + Len(out')
      /\ \A i \in 1..Len(out') : ks[k + i] = out'[i]
      /\ \A x : Course(e, note, s, n, ns, Len(ks), ks, x) => Route(x)'
  BY <1>9 DEF Spoken
<1>2. /\ ks[k + 1] = ev1 /\ ks[(k + 1) + 1] = ev2 /\ ks[((k + 1) + 1) + 1] = m
      /\ Len(ks) = ((k + 1) + 1) + 1
  <2>1. /\ Len(out') = 3 /\ out'[1] = ev1 /\ out'[2] = ev2 /\ out'[3] = m
        /\ 1 \in 1..Len(out') /\ 2 \in 1..Len(out') /\ 3 \in 1..Len(out')
        /\ k + 2 = (k + 1) + 1 /\ k + 3 = ((k + 1) + 1) + 1
    BY <1>1, SMTT(30)
  <2> QED BY <2>1, <1>1
<1>3. PICK u : Course(e, note, s, n, ns, k + 1, ks, u) /\ SharesNow(ev1, t, u, mid)
  BY <1>1, <1>2, ReportAdded
<1>4. Tells(e, u, ev2, mid, r, {})
  BY <1>0, <1>1, <1>3 DEF Tells, SharesNow
<1>5. PICK w : Course(e, note, s, n, ns, (k + 1) + 1, ks, w) /\ SharesNow(ev2, u, w, r)
  BY <1>2, <1>3, <1>4, Continued, ReportAdded
<1>6. Course(e, note, s, n, ns, ((k + 1) + 1) + 1, ks, w)
  BY <1>2, <1>5, Continued, FeedAdded
<1>7. /\ \A id \in OrderIds : Shares(w.orders[id]) = Opens'[id]
      /\ \A id \in OrderIds : id \notin {ev1.id, ev1.orig_id, ev2.id, ev2.orig_id} =>
                            w.orders[id] = t.orders[id]
  BY <1>0, <1>3, <1>5 DEF SharesNow
<1>8. Route(w)'
  BY <1>1, <1>2, <1>6
<1> QED BY <1>7, <1>8 DEF Said
-----------------------------------------------------------------------------
(* The steps.                                                              *)

(* Every order of the engine has a name, and is none of those that wait. *)
LEMMA HeldNames ==
  ASSUME Pipe, Fresher, NEW id \in OrderIds, NEW c, HeldBy(id, c)
  PROVE  /\ Names(entry, c, id)
         /\ \A req \in Waiting : Creates(req) => NewId(req) # id
<1>1. Names(entry, c, id)
  BY DEF HeldBy, Fresher, Known
<1>2. ASSUME NEW req \in Waiting, Creates(req) PROVE NewId(req) # id
  <2>1. NewId(req) \in Nat /\ id \in Nat
    BY WaitingTypes, RequestIds, NumbersAssumption
  <2>2. Fresh(req) /\ req.type # "CANCEL"
    BY <1>2 DEF Fresher, Creates
  <2>3. id < NewId(req)
    BY <2>2 DEF HeldBy, Fresh
  <2> QED BY <2>1, <2>3, SMTT(30)
<1> QED BY <1>1, <1>2

(* What the engine said about some orders leaves those that wait           *)
(* announced.                                                              *)
LEMMA SaidAnswers ==
  ASSUME NEW t, Matches(t), NEW ids, Said(t, ids), translation' = translation,
         Waiting' \subseteq Waiting,
         \A req \in Waiting' : Creates(req) => NewId(req) \in OrderIds /\ NewId(req) \notin ids
  PROVE  Answers'
<1>1. PICK u : /\ Route(u)'
               /\ \A id \in OrderIds : Shares(u.orders[id]) = Opens'[id]
               /\ \A id \in OrderIds : id \notin ids => u.orders[id] = t.orders[id]
  BY DEF Said
<1>2. ASSUME NEW req \in Waiting', Creates(req),
             translation'.note = None \/ req # translation'.request
      PROVE  u.orders[NewId(req)] # None
  <2>1. t.orders[NewId(req)] # None
    BY <1>2 DEF Matches
  <2> QED BY <2>1, <1>1, <1>2
<1>3. Matches(u)'
  BY <1>1, <1>2 DEF Matches
<1> QED BY <1>1, <1>3 DEF Answers

(* Between two steps of its book the engine has said all. *)
LEMMA EngineSpeaks ==
  ASSUME Ready, Outgoing', IInv', NEW t, Route(t), Matches(t), out = <<>>,
         UNCHANGED <<entry, translation, notes, responder, view, event, outbound_ring>>
  PROVE  Speaks(t)
<1>1. InTransit /\ InTransit'
  BY Flight, FlightAfter DEF Ready
<1>2. Pending(entry, translation.note)
  BY NotePending DEF Ready, Announced
<1>3. Len(notes) \in Nat
  BY QueueLength DEF Ready, Outgoing
<1> QED BY <1>1, <1>2, <1>3 DEF Speaks, Ready, Pipe, Matches

(* Nothing that is in flight changes, but its place. *)
LEMMA StillAnswers ==
  ASSUME Answers, UNCHANGED <<entry, notes, responder, view, book, match>>,
         translation'.note = translation.note,
         translation.note # None => translation' = translation,
         Waiting' \subseteq Waiting,
         Len(notes) \in Nat, Len(InFlight) \in Nat, Len(InFlight') = Len(InFlight),
         \A i \in 1..Len(InFlight) : InFlight'[i] = InFlight[i]
  PROVE  Answers'
<1>1. PICK t : Route(t) /\ Matches(t)
  BY DEF Answers
<1>2. Route(t)'
  <2>1. Leads(entry, translation.note, Now, Len(notes), notes, Len(InFlight), InFlight', t)
    BY <1>1, LeadsSame DEF Route
  <2>2. Now' = Now
    BY DEF Now
  <2> QED BY <2>1, <2>2 DEF Route
<1>3. Matches(t)'
  <2>1. Opens' = Opens
    BY SharesSame
  <2> QED BY <2>1, <1>1 DEF Matches
<1> QED BY <1>2, <1>3 DEF Answers

(* The thread that publishes takes its message out of the middle. *)
LEMMA PublishAnswers ==
  ASSUME Ready, Answers, publish, Outgoing', IInv',
         UNCHANGED <<entry, translation, notes, responder, view, event, outbound_ring>>,
         UNCHANGED <<inbound_ring, cur, nxt, matching_pc>>
  PROVE  Answers'
<1>0. /\ out # <<>> /\ Head(out).type \notin EngineEventTypes /\ out' = Tail(out)
      /\ UNCHANGED <<book, match>> /\ out \in Seq(EngineEvent \cup ITCH)
  BY EngineOut DEF publish, Ready
<1>1. /\ Len(out) \in Nat /\ Len(out) # 0 /\ Len(out') = Len(out) - 1 /\ Head(out) = out[1]
      /\ \A i \in 1..(Len(out) - 1) : out'[i] = out[i + 1]
  BY <1>0, QueuePop, QueueLength, QueueEmpty, SMTT(30)
<1>2. InTransit /\ InTransit' /\ Len(notes) \in Nat
  BY Flight, FlightAfter, QueueLength DEF Ready, Outgoing
<1>3. PICK h, n, c : h = Held /\ n = Len(outbound_ring) /\ c = Len(out)
  OBVIOUS
<1>4. /\ h \in {0, 1} /\ n \in Nat /\ c \in Nat \ {0} /\ Held' = h /\ Len(outbound_ring') = n
      /\ Len(InFlight) = h + n + c /\ Len(InFlight') = (h + n + c) - 1
  BY <1>1, <1>2, <1>3, SMTT(30) DEF InTransit, Held
<1>5. PICK p : p = h + n + 1
  OBVIOUS
<1>6. p \in 1..(h + n + c) /\ InFlight[p].type \notin EngineEventTypes
  <2>1. p \in 1..(h + n + c) /\ ~ (p <= h) /\ ~ (p <= h + n) /\ p - h - n = 1
    BY <1>4, <1>5, SMTT(30)
  <2>2. InFlight[p] = FlightAt(p)
    BY <2>1, <1>2, <1>4 DEF InTransit
  <2>3. InFlight[p] = out[1]
    BY <2>1, <2>2, <1>3 DEF FlightAt
  <2> QED BY <2>1, <2>3, <1>0, <1>1
<1>7. ASSUME NEW i \in 1..((h + n + c) - 1)
      PROVE  InFlight'[i] = IF i < p THEN InFlight[i] ELSE InFlight[i + 1]
  <2>1. i \in 1..Len(InFlight') /\ i \in 1..Len(InFlight) /\ i + 1 \in 1..Len(InFlight)
    BY <1>4, SMTT(30)
  <2>2. InFlight'[i] = FlightAt(i)' /\ InFlight[i] = FlightAt(i) /\ InFlight[i + 1] = FlightAt(i + 1)
    BY <2>1, <1>2 DEF InTransit
  <2>3. CASE i < p
    <3>1. i <= h + n
      BY <2>3, <1>4, <1>5, SMTT(30)
    <3>2. FlightAt(i)' = FlightAt(i)
      BY <3>1, <1>3, <1>4 DEF FlightAt
    <3> QED BY <2>2, <2>3, <3>2
  <2>4. CASE ~ (i < p)
    <3>1. /\ ~ (i <= h) /\ ~ (i <= h + n) /\ ~ (i + 1 <= h) /\ ~ (i + 1 <= h + n)
          /\ (i + 1) - h - n = (i - h - n) + 1 /\ i - h - n \in 1..(c - 1)
      BY <2>4, <1>4, <1>5, SMTT(30)
    <3>2. FlightAt(i)' = out'[i - h - n] /\ FlightAt(i + 1) = out[(i - h - n) + 1]
      BY <3>1, <1>3, <1>4 DEF FlightAt
    <3> QED BY <2>2, <2>4, <3>1, <3>2, <1>1, <1>3
  <2> QED BY <2>3, <2>4
<1>8. PICK t : Route(t) /\ Matches(t)
  BY DEF Answers
<1>9. Route(t)'
  <2>1. h + n + c \in Nat
    BY <1>4, SMTT(30)
  <2>2. Leads(entry, translation.note, Now, Len(notes), notes, (h + n + c) - 1, InFlight', t)
    BY <2>1, <1>2, <1>4, <1>6, <1>7, <1>8, LeadsFeed DEF Route
  <2>3. Now' = Now
    BY DEF Now
  <2> QED BY <2>2, <2>3, <1>4 DEF Route
<1>10. Matches(t)'
  <2>1. Opens' = Opens
    BY <1>0, SharesSame
  <2>2. Waiting' = Waiting
    BY DEF Waiting
  <2> QED BY <2>1, <2>2, <1>8 DEF Matches
<1> QED BY <1>9, <1>10 DEF Answers
-----------------------------------------------------------------------------
(* The steps that move what is in flight, or leave it.                     *)

(* An event of the engine goes to the ring. *)
LEMMA PushEventFlight ==
  ASSUME Ready, push_event, Outgoing', IInv'
  PROVE  /\ Len(InFlight) \in Nat /\ Len(InFlight') = Len(InFlight)
         /\ \A i \in 1..Len(InFlight) : InFlight'[i] = InFlight[i]
<1>0. /\ out # <<>> /\ out' = Tail(out) /\ event' = event
      /\ outbound_ring' = Append(outbound_ring, Head(out))
      /\ out \in Seq(EngineEvent \cup ITCH) /\ outbound_ring \in Seq(EngineEvent)
      /\ IInv /\ Outgoing
  BY EngineOut DEF push_event, emit, outbound_vars, Ready, Outgoing
<1>1. /\ Len(out) \in Nat /\ Len(out) # 0 /\ Len(out') = Len(out) - 1 /\ Head(out) = out[1]
      /\ \A i \in 1..(Len(out) - 1) : out'[i] = out[i + 1]
  BY <1>0, QueuePop, QueueLength, QueueEmpty, SMTT(30)
<1>2. InTransit /\ InTransit'
  BY <1>0, Flight, FlightAfter
<1>3. PICK h, n, c : h = Held /\ n = Len(outbound_ring) /\ c = Len(out)
  OBVIOUS
<1>4. PICK m : m = Head(out)
  OBVIOUS
<1>5. /\ Len(outbound_ring') = n + 1 /\ outbound_ring'[n + 1] = out[1] /\ n \in Nat
      /\ \A i \in 1..n : outbound_ring'[i] = outbound_ring[i]
  <2>1. outbound_ring \in Seq(EngineEvent \cup ITCH) /\ m \in EngineEvent \cup ITCH
    BY <1>0, <1>4, QueuePop, QueueWider
  <2> QED BY <2>1, <1>0, <1>1, <1>3, <1>4, QueuePush, QueueLength, SMTT(30)
<1>6. /\ h \in {0, 1} /\ c \in Nat \ {0} /\ Held' = h
      /\ Len(InFlight) = h + n + c /\ Len(InFlight') = h + n + c
  <2>1. Held' = h
    BY <1>0, <1>3 DEF Held
  <2>2. h \in {0, 1} /\ c \in Nat \ {0} /\ Len(InFlight) = h + n + c
    BY <1>1, <1>2, <1>3 DEF InTransit
  <2>3. Len(InFlight') = Held' + Len(outbound_ring') + Len(out')
    BY <1>2 DEF InTransit
  <2>4. Len(outbound_ring') = n + 1 /\ Len(out') = c - 1
    BY <1>1, <1>3, <1>5
  <2>5. Len(InFlight') = h + (n + 1) + (c - 1)
    BY <2>1, <2>3, <2>4
  <2>6. h + (n + 1) + (c - 1) = h + n + c
    BY <2>2, <1>5, SMTT(30)
  <2> QED BY <2>1, <2>2, <2>5, <2>6
<1>7. ASSUME NEW i \in 1..(h + n + c) PROVE InFlight'[i] = InFlight[i]
  <2>1. i \in 1..Len(InFlight') /\ i \in 1..Len(InFlight)
    BY <1>6
  <2>2. InFlight'[i] = FlightAt(i)' /\ InFlight[i] = FlightAt(i)
    BY <2>1, <1>2 DEF InTransit
  <2>3. CASE i <= h
    BY <2>2, <2>3, <1>0, <1>3, <1>6 DEF FlightAt
  <2>4. CASE ~ (i <= h) /\ i <= h + n
    <3>1. i - h \in 1..n /\ i <= h + (n + 1)
      BY <2>4, <1>5, <1>6, SMTT(30)
    <3>2. FlightAt(i)' = outbound_ring'[i - h] /\ FlightAt(i) = outbound_ring[i - h]
      BY <2>4, <3>1, <1>3, <1>5, <1>6 DEF FlightAt
    <3> QED BY <2>2, <3>1, <3>2, <1>5
  <2>5. CASE i = h + n + 1
    <3>1. ~ (i <= h) /\ ~ (i <= h + n) /\ i <= h + (n + 1) /\ i - h = n + 1 /\ i - h - n = 1
      BY <2>5, <1>5, <1>6, SMTT(30)
    <3>2. FlightAt(i)' = outbound_ring'[n + 1] /\ FlightAt(i) = out[1]
      BY <3>1, <1>3, <1>5, <1>6 DEF FlightAt
    <3> QED BY <2>2, <3>2, <1>5
  <2>6. CASE ~ (i <= h + (n + 1))
    <3>1. /\ ~ (i <= h) /\ ~ (i <= h + n) /\ i - h - (n + 1) \in 1..(c - 1)
          /\ (i - h - (n + 1)) + 1 = i - h - n
      BY <2>6, <1>5, <1>6, SMTT(30)
    <3>2. FlightAt(i)' = out'[i - h - (n + 1)] /\ FlightAt(i) = out[i - h - n]
      BY <2>6, <3>1, <1>3, <1>5, <1>6 DEF FlightAt
    <3> QED BY <2>2, <3>1, <3>2, <1>1, <1>3
  <2> QED BY <2>3, <2>4, <2>5, <2>6, <1>5, <1>6, SMTT(30)
<1> QED BY <1>5, <1>6, <1>7, SMTT(30)

(* The outbound thread takes the first of the ring. *)
LEMMA TakeEventFlight ==
  ASSUME Ready, take_event, Outgoing', IInv'
  PROVE  /\ Len(InFlight) \in Nat /\ Len(InFlight') = Len(InFlight)
         /\ \A i \in 1..Len(InFlight) : InFlight'[i] = InFlight[i]
<1>0. /\ outbound_pc = "batch" /\ outbound_ring # <<>> /\ out' = out
      /\ event' = Head(outbound_ring) /\ outbound_ring' = Tail(outbound_ring)
      /\ outbound_ring \in Seq(EngineEvent) /\ IInv /\ Outgoing
  BY DEF take_event, vars, Ready, Outgoing
<1>1. /\ Len(outbound_ring) \in Nat /\ Len(outbound_ring) # 0
      /\ Len(outbound_ring') = Len(outbound_ring) - 1 /\ Head(outbound_ring) = outbound_ring[1]
      /\ \A i \in 1..(Len(outbound_ring) - 1) : outbound_ring'[i] = outbound_ring[i + 1]
  BY <1>0, QueuePop, QueueLength, QueueEmpty, SMTT(30)
<1>2. InTransit /\ InTransit'
  BY <1>0, Flight, FlightAfter
<1>3. event = None /\ event' # None
  <2>1. event' \in EngineEvent
    BY <1>0, QueuePop
  <2> QED BY <2>1, <1>0, NoneAssumption DEF Outgoing
<1>4. PICK n, c : n = Len(outbound_ring) /\ c = Len(out)
  OBVIOUS
<1>5. /\ Held = 0 /\ Held' = 1 /\ n \in Nat \ {0} /\ c \in Nat /\ Len(outbound_ring') = n - 1
      /\ Len(InFlight) = n + c /\ Len(InFlight') = n + c
  BY <1>0, <1>1, <1>2, <1>3, <1>4, SMTT(30) DEF InTransit, Held
<1>6. ASSUME NEW i \in 1..(n + c) PROVE InFlight'[i] = InFlight[i]
  <2>1. i \in 1..Len(InFlight') /\ i \in 1..Len(InFlight)
    BY <1>5
  <2>2. InFlight'[i] = FlightAt(i)' /\ InFlight[i] = FlightAt(i)
    BY <2>1, <1>2 DEF InTransit
  <2>3. CASE i = 1
    <3>1. i <= 1 /\ ~ (i <= 0) /\ i <= 0 + n /\ i - 0 = 1
      BY <2>3, <1>5, SMTT(30)
    <3>2. FlightAt(i)' = event' /\ FlightAt(i) = outbound_ring[1]
      BY <3>1, <1>4, <1>5 DEF FlightAt
    <3> QED BY <2>2, <3>2, <1>0, <1>1
  <2>4. CASE i # 1 /\ i <= n
    <3>1. /\ ~ (i <= 1) /\ ~ (i <= 0) /\ i <= 0 + n /\ i <= 1 + (n - 1)
          /\ i - 0 = (i - 1) + 1 /\ i - 1 \in 1..(n - 1)
      BY <2>4, <1>5, SMTT(30)
    <3>2. FlightAt(i)' = outbound_ring'[i - 1] /\ FlightAt(i) = outbound_ring[(i - 1) + 1]
      BY <3>1, <1>4, <1>5 DEF FlightAt
    <3> QED BY <2>2, <3>1, <3>2, <1>1, <1>4
  <2>5. CASE ~ (i <= n)
    <3>1. /\ ~ (i <= 1) /\ ~ (i <= 0) /\ ~ (i <= 0 + n) /\ ~ (i <= 1 + (n - 1))
          /\ i - 1 - (n - 1) = i - 0 - n
      BY <2>5, <1>5, SMTT(30)
    <3>2. FlightAt(i)' = out'[i - 1 - (n - 1)] /\ FlightAt(i) = out[i - 0 - n]
      BY <3>1, <1>4, <1>5 DEF FlightAt
    <3> QED BY <2>2, <3>1, <3>2, <1>0
  <2> QED BY <2>3, <2>4, <2>5
<1> QED BY <1>5, <1>6, SMTT(30)

(* The steps that answer nothing and say nothing. *)
LEMMA SameAnswers ==
  ASSUME Ready, Answers, Outgoing', IInv',
         push_request \/ take \/ advance \/ push_event \/ take_event
           \/ begin_batch \/ end_batch \/ UNCHANGED gwvars
  PROVE  Answers'
<1>0. Pipe /\ IInv /\ Outgoing /\ Fresher
  BY DEF Ready
<1>1. InTransit /\ Len(notes) \in Nat
  BY <1>0, Flight, QueueLength DEF Outgoing
<1>2. UNCHANGED <<event, outbound_ring, out>> => InFlight' = InFlight
  BY DEF InFlight
<1>3. /\ Len(InFlight) \in Nat /\ Len(InFlight') = Len(InFlight)
      /\ \A i \in 1..Len(InFlight) : InFlight'[i] = InFlight[i]
  <2>1. CASE push_event
    BY <2>1, PushEventFlight
  <2>2. CASE take_event
    BY <2>2, TakeEventFlight
  <2>3. CASE push_request \/ take \/ advance \/ begin_batch \/ end_batch \/ UNCHANGED gwvars
    <3>1. UNCHANGED <<event, outbound_ring, out>>
      BY <2>3 DEF push_request, take, advance, begin_batch, end_batch, gwvars, vars,
                  outbound_vars, ring_vars
    <3> QED BY <3>1, <1>1, <1>2 DEF InTransit
  <2> QED BY <2>1, <2>2, <2>3
<1>4. UNCHANGED <<entry, notes, responder, view, book, match>>
  BY DEF push_request, take, advance, push_event, take_event, begin_batch, end_batch, gwvars,
         vars, inbound_vars, outbound_vars, ring_vars, emit
<1>5. /\ translation'.note = translation.note
      /\ translation.note # None => translation' = translation
  BY SMTT(30) DEF push_request, take, advance, push_event, take_event, begin_batch, end_batch, gwvars,
         inbound_vars, Pushed
<1>6. Waiting' \subseteq Waiting
  <2>1. CASE push_request
    BY <2>1, <1>0, PushWaiting
  <2>2. CASE take
    BY <2>2, <1>0, TakeWaiting
  <2>3. CASE advance
    BY <2>3, AdvanceWaiting
  <2>4. CASE push_event
    <3>1. UNCHANGED <<translation, inbound_ring, cur, nxt, matching_pc>>
      BY <2>4 DEF push_event, inbound_vars, matching_vars
    <3> QED BY <3>1 DEF Waiting
  <2>5. CASE take_event \/ begin_batch \/ end_batch \/ UNCHANGED gwvars
    BY <2>5, <1>0, OthersWaiting DEF Outbound
  <2> QED BY <2>1, <2>2, <2>3, <2>4, <2>5
<1> QED BY <1>1, <1>3, <1>4, <1>5, <1>6, StillAnswers
-----------------------------------------------------------------------------
(* A client's message.                                                     *)

(* What is in flight can be answered as before; a request for a new order  *)
(* waits for its note.                                                     *)
LEMMA ReceiveAnswers ==
  ASSUME Ready, Answers, NEW c \in Clients, NEW msg \in Messages, receive(c, msg)
  PROVE  Answers'
<1>0. Pipe /\ IInv /\ Outgoing /\ Numbered(entry) /\ EntryOK(entry)
  BY DEF Ready, Pipe
<1>1. PICK t : t = Entry!translate(entry, c, msg)
  OBVIOUS
<1>2. /\ t.entry.next_order_id - 1 \in OrderIds \cup {0}
      /\ entry' = t.entry /\ translation'.note = t.note /\ translation'.request = t.request
      /\ translation.note = None
  BY <1>1 DEF receive, Pushed
<1>3. UNCHANGED <<book, match, notes, responder, view, event, outbound_ring, out>>
  BY DEF receive, vars, outbound_vars, ring_vars
<1>4. Translated(entry, c, t) /\ Explained(entry, c, t)
  BY <1>0, <1>1, <1>2, MessageOK
<1>5. /\ \A x : Fits(entry, None, x) => Fits(t.entry, t.note, x)
      /\ \A x, y : Notable(entry, x, y) => Notable(t.entry, x, y)
  BY <1>0, <1>4, EntryChanges
<1>6. Len(notes) \in Nat /\ Len(InFlight) \in Nat
  BY <1>0, Flight, QueueLength DEF Outgoing, InTransit
<1>7. PICK s : Route(s) /\ Matches(s)
  BY DEF Answers
<1>8. Route(s)'
  <2>1. Leads(entry, None, Now, Len(notes), notes, Len(InFlight), InFlight, s)
    BY <1>2, <1>7 DEF Route
  <2>2. Leads(t.entry, t.note, Now, Len(notes), notes, Len(InFlight), InFlight, s)
    BY <2>1, <1>5, <1>6, LeadsEntry
  <2>3. Now' = Now /\ InFlight' = InFlight
    BY <1>3 DEF Now, InFlight
  <2> QED BY <2>2, <2>3, <1>2, <1>3 DEF Route
<1>9. Matches(s)'
  <2>1. Opens' = Opens
    BY <1>3, SharesSame
  <2>2. ASSUME NEW req \in Waiting', Creates(req),
               translation'.note = None \/ req # translation'.request
        PROVE  s.orders[NewId(req)] # None
    <3>1. CASE req \in Waiting
      BY <3>1, <2>2, <1>2, <1>7 DEF Matches
    <3>2. CASE req = translation'.request
      <4>1. t.note # None
        BY <2>2, <3>2, <1>0, <1>2, <1>4, NoteNamesOrder
      <4> QED BY <4>1, <2>2, <3>2, <1>2
    <3> QED BY <3>1, <3>2, <1>0, ReceiveWaiting
  <2> QED BY <2>1, <2>2, <1>7 DEF Matches
<1> QED BY <1>8, <1>9 DEF Answers

(* The note of a message is pushed: it will be answered before all events  *)
(* in flight, which are about other orders.                                *)
LEMMA NoteAnswers ==
  ASSUME Ready, Answers, push_note_ PROVE Answers'
<1>0. /\ Pipe /\ IInv /\ Outgoing /\ Numbered(entry) /\ EntryOK(entry) /\ Announced
  BY DEF Ready, Pipe
<1>1. PICK note : note = translation.note
  OBVIOUS
<1>2. /\ note # None /\ notes' = Append(notes, note) /\ translation'.note = None
      /\ UNCHANGED <<entry, book, match, responder, view, event, outbound_ring, out>>
  BY <1>0, <1>1 DEF push_note_, vars, outbound_vars, Pipe
<1>3. Waiting' = Waiting /\ translation'.request = translation.request
  BY <1>0, OthersWaiting
<1>4. NoteOK(entry, note)
       /\ (Creates(translation.request) =>
             Announces(note) /\ NewId(translation.request) = note.id)
  BY <1>0, <1>1, <1>2 DEF Announced
<1>5. PICK S : notes \in Seq(S)
  BY <1>0 DEF Outgoing
<1>6. /\ Len(notes) \in Nat /\ Len(notes') = Len(notes) + 1 /\ notes'[Len(notes) + 1] = note
      /\ \A i \in 1..Len(notes) : notes'[i] = notes[i]
  <2>1. notes \in Seq(S \cup {note})
    BY <1>5, QueueWider
  <2> QED BY <2>1, <1>2, QueuePush, QueueLength, SMTT(30)
<1>7. Len(InFlight) \in Nat
  BY <1>0, Flight DEF InTransit
<1>8. PICK s : Route(s) /\ Matches(s)
  BY DEF Answers
<1>9. PICK u : u = Noted(s, note)
  OBVIOUS
<1>10. Leads(entry, note, Now, Len(notes), notes, Len(InFlight), InFlight, s)
  BY <1>1, <1>8 DEF Route
<1>11. Route(u)'
  <2>1. Leads(entry, None, Now, Len(notes) + 1, notes', Len(InFlight), InFlight, u)
    BY <1>0, <1>2, <1>4, <1>6, <1>7, <1>9, <1>10, LeadsNote
  <2>2. Now' = Now /\ InFlight' = InFlight
    BY <1>2 DEF Now, InFlight
  <2> QED BY <2>1, <2>2, <1>2, <1>6 DEF Route
<1>12. /\ \A id \in OrderIds : Shares(u.orders[id]) = Shares(s.orders[id])
       /\ \A id \in OrderIds : s.orders[id] # None => u.orders[id] # None
       /\ Announces(note) => u.orders[note.id] # None
  <2>1. Fits(entry, note, s)
    BY <1>6, <1>7, <1>10, LeadsFits
  <2> QED BY <2>1, <1>2, <1>4, <1>9, NotedShares, SMTT(30)
<1>13. Matches(u)'
  <2>1. Opens' = Opens
    BY <1>2, SharesSame
  <2>2. ASSUME NEW req \in Waiting, Creates(req) PROVE u.orders[NewId(req)] # None
    <3>1. CASE req = translation.request
      BY <3>1, <2>2, <1>4, <1>12
    <3>2. CASE req # translation.request
      <4>1. s.orders[NewId(req)] # None
        BY <3>2, <2>2, <1>8 DEF Matches
      <4>2. NewId(req) \in OrderIds
        BY <1>0, WaitingTypes, RequestIds
      <4> QED BY <4>1, <4>2, <1>12
    <3> QED BY <3>1, <3>2
  <2> QED BY <2>1, <2>2, <1>3, <1>8, <1>12 DEF Matches
<1> QED BY <1>11, <1>13 DEF Answers
-----------------------------------------------------------------------------
(* The answers.                                                            *)

(* A note is answered. *)
LEMMA DrainAnswers ==
  ASSUME Ready, Answers, drain_notes PROVE Answers'
<1>0. Pipe /\ IInv /\ Outgoing
  BY DEF Ready
<1>1. /\ notes # <<>> /\ notes' = Tail(notes)
      /\ UNCHANGED <<entry, translation, book, match, event, outbound_ring, out>>
      /\ responder' = Responder!on_note(responder, Head(notes)).orders
      /\ view' = Told(view, Responder!on_note(responder, Head(notes)).response)
  BY DEF drain_notes, inbound_vars, vars
<1>2. PICK S : notes \in Seq(S)
  BY <1>0 DEF Outgoing
<1>3. /\ Len(notes) \in Nat \ {0} /\ Len(notes') = Len(notes) - 1 /\ Head(notes) = notes[1]
      /\ \A i \in 1..(Len(notes) - 1) : notes'[i] = notes[i + 1]
  BY <1>1, <1>2, QueuePop, QueueLength, QueueEmpty, SMTT(30)
<1>4. Now' = Noted(Now, notes[1])
  BY <1>1, <1>3 DEF Now, Noted
<1>5. Len(InFlight) \in Nat /\ InFlight' = InFlight
  BY <1>0, <1>1, Flight DEF InTransit, InFlight
<1>6. PICK t : Route(t) /\ Matches(t)
  BY DEF Answers
<1>7. Route(t)'
  <2>1. Leads(entry, translation.note, Noted(Now, notes[1]), Len(notes) - 1, notes',
              Len(InFlight), InFlight, t)
    BY <1>3, <1>5, <1>6, LeadsNoteTaken DEF Route
  <2> QED BY <2>1, <1>1, <1>3, <1>4, <1>5 DEF Route
<1>8. Matches(t)'
  <2>1. Opens' = Opens
    BY <1>1, SharesSame
  <2>2. Waiting' = Waiting
    BY <1>0, OthersWaiting DEF Outbound
  <2> QED BY <2>1, <2>2, <1>1, <1>6 DEF Matches
<1> QED BY <1>7, <1>8 DEF Answers

(* The event the outbound thread holds is the first in flight. *)
LEMMA HeldFirst ==
  ASSUME Outgoing, IInv, outbound_pc = "respond"
  PROVE  /\ event \in EngineEvent /\ event.type \in EngineEventTypes
         /\ Held = 1 /\ Len(InFlight) \in Nat \ {0} /\ InFlight[1] = event
<1>1. event \in EngineEvent /\ event # None
  BY DEF Outgoing
<1>2. Held = 1 /\ InTransit
  BY <1>1, Flight DEF Held
<1>3. Len(InFlight) \in Nat \ {0}
  BY <1>2, SMTT(30) DEF InTransit
<1>4. 1 \in 1..Len(InFlight) /\ 1 <= 1
  BY <1>3, SMTT(30)
<1>5. InFlight[1] = event
  BY <1>2, <1>4 DEF InTransit, FlightAt
<1> QED BY <1>1, <1>2, <1>3, <1>5, EventFields

(* An event is answered. *)
LEMMA RespondAnswers ==
  ASSUME Ready, Answers, respond, Outgoing', IInv' PROVE Answers'
<1>0. Pipe /\ IInv /\ Outgoing
  BY DEF Ready
<1>1. /\ outbound_pc = "respond" /\ notes = <<>> /\ notes' = notes /\ event' = None
      /\ UNCHANGED <<entry, translation, book, match, outbound_ring, out>>
      /\ responder' = Responder!on_event(responder, event).orders
      /\ view' = Told(view, Responder!on_event(responder, event).response)
  BY DEF respond, inbound_vars, vars, ring_vars
<1>2. /\ event \in EngineEvent /\ event.type \in EngineEventTypes
      /\ Held = 1 /\ Len(InFlight) \in Nat \ {0} /\ InFlight[1] = event
  BY <1>0, <1>1, HeldFirst
<1>3. Now' = Heard(Now, InFlight[1])
  BY <1>1, <1>2 DEF Now, Heard
<1>4. InTransit /\ InTransit' /\ Held' = 0
  BY <1>0, <1>1, Flight, FlightAfter DEF Held
<1>5. PICK n, c : n = Len(outbound_ring) /\ c = Len(out)
  OBVIOUS
<1>6. /\ n \in Nat /\ c \in Nat /\ Len(outbound_ring') = n
      /\ Len(InFlight) = 1 + n + c /\ Len(InFlight') = (1 + n + c) - 1
  <2>1. n \in Nat /\ c \in Nat /\ Len(InFlight) = 1 + n + c
    BY <1>2, <1>4, <1>5 DEF InTransit
  <2>2. Len(InFlight') = Held' + Len(outbound_ring') + Len(out')
    BY <1>4 DEF InTransit
  <2>3. Len(outbound_ring') = n /\ Len(out') = c
    BY <1>1, <1>5
  <2>4. Len(InFlight') = 0 + n + c
    BY <2>2, <2>3, <1>4
  <2> QED BY <2>1, <2>3, <2>4, SMTT(30)
<1>7. ASSUME NEW i \in 1..(Len(InFlight) - 1) PROVE InFlight'[i] = InFlight[i + 1]
  <2>1. /\ i \in 1..Len(InFlight') /\ i + 1 \in 1..Len(InFlight)
        /\ ~ (i <= 0) /\ ~ (i + 1 <= 1) /\ (i + 1) - 1 = i - 0
        /\ (i <= 0 + n) <=> (i + 1 <= 1 + n) /\ (i + 1) - 1 - n = i - 0 - n
    BY <1>6, SMTT(30)
  <2>2. InFlight'[i] = FlightAt(i)' /\ InFlight[i + 1] = FlightAt(i + 1)
    BY <2>1, <1>4 DEF InTransit
  <2>3. FlightAt(i)' = IF i <= 0 + n THEN outbound_ring[i - 0] ELSE out[i - 0 - n]
    BY <2>1, <1>1, <1>4, <1>6 DEF FlightAt
  <2>4. FlightAt(i + 1) = IF i + 1 <= 1 + n THEN outbound_ring[(i + 1) - 1] ELSE out[(i + 1) - 1 - n]
    BY <2>1, <1>2, <1>5 DEF FlightAt
  <2> QED BY <2>1, <2>2, <2>3, <2>4
<1>8. PICK t : Route(t) /\ Matches(t)
  BY DEF Answers
<1>9. Route(t)'
  <2>1. Len(notes) = 0
    BY <1>1
  <2>2. Leads(entry, translation.note, Now, 0, notes, Len(InFlight), InFlight, t)
    BY <2>1, <1>8 DEF Route
  <2>3. Leads(entry, translation.note, Heard(Now, InFlight[1]), 0, notes,
              Len(InFlight) - 1, InFlight', t)
    BY <2>2, <1>2, <1>7, LeadsMessageTaken
  <2>4. Len(InFlight') = Len(InFlight) - 1
    BY <1>6
  <2> QED BY <2>1, <2>3, <2>4, <1>1, <1>3 DEF Route
<1>10. Matches(t)'
  <2>1. Opens' = Opens
    BY <1>1, SharesSame
  <2>2. Waiting' = Waiting
    BY <1>0, OthersWaiting DEF Outbound
  <2> QED BY <2>1, <2>2, <1>1, <1>8 DEF Matches
<1> QED BY <1>9, <1>10 DEF Answers
-----------------------------------------------------------------------------
(* At the start nothing is in flight. *)
LEMMA AnswersInit ==
  ASSUME GWInit PROVE Numbered(entry) /\ Outgoing /\ Announced /\ Answers
<1>0. /\ entry = Entry!Empty /\ notes = <<>> /\ outbound_ring = <<>> /\ out = <<>>
      /\ outbound_pc = "drain" /\ event = None /\ responder = Responder!Empty
      /\ view = [c \in Clients |-> [r \in UserRefNums |-> None]]
      /\ match = NoRequest /\ \A id \in OrderIds : book.orders[id] = NoOrder
  BY DEF GWInit, Init
<1>1. translation.note = None
  BY DEF GWInit, Pushed
<1>2. \A c \in Clients, r \in UserRefNums : entry.orders[c][r] = None /\ view[c][r] = None
  BY <1>0 DEF Entry!Empty
<1>3. Numbered(entry) /\ Announced
  BY <1>1, <1>2 DEF Numbered, Announced
<1>4. Outgoing
  <2>1. outbound_ring \in Seq(EngineEvent) /\ notes \in Seq({})
    BY <1>0, SMTT(30)
  <2> QED BY <2>1, <1>0 DEF Outgoing
<1>5. PICK s : s = Now
  OBVIOUS
<1>6. s.orders = responder /\ s.view = view /\ s = [orders |-> responder, view |-> view]
  BY <1>5 DEF Now
<1>7. responder \in [OrderIds -> LiveOrder \cup {None}] /\ \A id \in OrderIds : responder[id] = None
  BY <1>0 DEF Responder!Empty
<1>8. s \in State
  <2>1. view \in [Clients -> [UserRefNums -> Nat \cup {None}]]
    BY <1>0
  <2> QED BY <2>1, <1>6, <1>7 DEF State
<1>9. Fits(entry, None, s)
  <2>1. Proper(entry, s)
    BY <1>2, <1>6, <1>7, <1>8 DEF Proper
  <2>2. Silent(entry, None, s)
    BY <1>2, <1>6, <1>7 DEF Silent, Announces
  <2> QED BY <2>1, <2>2 DEF Fits
<1>10. Route(s)
  <2>1. Len(notes) = 0 /\ Len(InFlight) = 0
    BY <1>0, SMTT(30) DEF InFlight
  <2>2. PICK f : f = [i \in {0} |-> s]
    OBVIOUS
  <2>3. f[0] = s /\ \A i \in 0..0 : f[i] = s
    BY <2>2, SMTT(30)
  <2>4. NotesPath(entry, None, 0, notes, f)
    BY <2>3, <1>9, SMTT(30) DEF NotesPath
  <2>5. MessagesPath(entry, None, 0, InFlight, f)
    BY <2>3, <1>9, SMTT(30) DEF MessagesPath
  <2>6. Leads(entry, None, s, 0, notes, 0, InFlight, s)
    BY <2>3, <2>4, <2>5 DEF Leads
  <2> QED BY <2>1, <2>6, <1>1, <1>5 DEF Route
<1>11. Matches(s)
  <2>1. \A id \in OrderIds : Opens[id] = 0 /\ Shares(s.orders[id]) = 0
    BY <1>0, <1>6, <1>7, SharesIdle DEF Shares
  <2>2. Waiting = {}
    <3>1. inbound_ring = <<>> /\ cur = None /\ nxt = None /\ translation.request = None
      BY DEF GWInit, Pushed
    <3>2. {inbound_ring[i] : i \in DOMAIN inbound_ring} = {}
      BY <3>1, SMTT(30)
    <3> QED BY <3>1, <3>2 DEF Waiting
  <2> QED BY <2>1, <2>2 DEF Matches
<1> QED BY <1>3, <1>4, <1>10, <1>11 DEF Answers
=============================================================================
