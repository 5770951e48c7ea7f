---------------------------- MODULE GatewayRequests ----------------------------
(***************************************************************************)
(* The requests on their way from the gateway to the engine: what the      *)
(* steps of the exchange leave true of them.  What the engine itself does  *)
(* to its book is a hypothesis here; GatewayProofs brings the two together.*)
(***************************************************************************)
EXTENDS Gateway, GatewayLemmas, EngineContract, TLAPS

(* The prover, where no other is named. *)
USE ZenonT(30)
-----------------------------------------------------------------------------
(* Requests on their way to the engine.                                    *)

(* What the threads hand on to the engine are requests that Orderbook      *)
(* allows.                                                                 *)
Pipe ==
  /\ EntryOK(entry)
  /\ translation = [note |-> translation.note, request |-> translation.request]
  /\ translation.request \in Request \cup {None}
  /\ inbound_ring \in Seq(Request)
  /\ cur \in Request \cup {None} /\ nxt \in Request \cup {None}
  /\ matching_pc \in {"take", "execute", "executing"}
  /\ matching_pc = "take" => cur = None /\ nxt = None
  /\ matching_pc = "execute" => cur \in Request /\ nxt = None

(* The engine inside the exchange takes the steps of Orderbook, and those  *)
(* only.                                                                   *)
LEMMA PipeInit == GWInit => Pipe /\ Init
<1> SUFFICES ASSUME GWInit PROVE Pipe /\ Init
  OBVIOUS
<1>1. translation = Pushed /\ entry = Entry!Empty /\ Init
  BY DEF GWInit
<1>2. Pushed.request = None /\ Pushed = [note |-> Pushed.note, request |-> Pushed.request]
  BY DEF Pushed
<1>3. inbound_ring \in Seq(Request) /\ cur = None /\ nxt = None /\ matching_pc = "take"
  BY SMTT(30) DEF GWInit
<1> QED BY <1>1, <1>2, <1>3, EmptyEntry DEF Pipe

(* Every step of the exchange keeps to that, and is one of Orderbook or    *)
(* leaves it alone.                                                        *)
LEMMA PipeStep ==
  ASSUME Pipe, [GWNext]_gwvars PROVE Pipe' /\ [Next]_vars
<1>1. ASSUME NEW c \in Clients, NEW msg \in Messages, receive(c, msg)
      PROVE  Pipe' /\ [Next]_vars
  <2> DEFINE t == Entry!translate(entry, c, msg)
  <2>1. /\ t.entry.next_order_id - 1 \in OrderIds \cup {0}
        /\ entry' = t.entry
        /\ translation' = [note |-> t.note, request |-> t.request]
        /\ UNCHANGED <<vars, cur, nxt, matching_pc, inbound_ring>>
    BY <1>1 DEF receive, matching_vars, ring_vars
  <2>2. Translated(entry, c, t)
    BY <2>1, MessageOK DEF Pipe
  <2> HIDE DEF t
  <2>3. EntryOK(entry') /\ t.request \in Request \cup {None}
    BY <2>1, <2>2 DEF Translated, Grows
  <2> QED BY <2>1, <2>3 DEF Pipe
<1>2. CASE push_note_
  BY <1>2 DEF push_note_, Pipe, matching_vars
<1>3. CASE push_request
  <2>1. /\ inbound_ring' = Append(inbound_ring, translation.request)
        /\ translation.request \in Request
        /\ translation' = [note |-> None, request |-> None]
        /\ UNCHANGED <<vars, entry, cur, nxt, matching_pc>>
    BY <1>3 DEF push_request, Pushed, matching_vars, Pipe
  <2>2. inbound_ring' \in Seq(Request)
    BY <2>1, QueuePush DEF Pipe
  <2> QED BY <2>1, <2>2 DEF Pipe
<1>4. CASE take
  <2>1. cur' \in Request /\ inbound_ring' \in Seq(Request)
    BY <1>4, Popped DEF take, Pipe
  <2> QED BY <1>4, <2>1 DEF take, Pipe, inbound_vars
<1>5. CASE execute
  <2>1. nxt' \in Request \cup {None} /\ inbound_ring' \in Seq(Request)
    BY <1>5, Popped DEF execute, Pipe
  <2>2. Next
    BY <1>5 DEF execute, Pipe, Next
  <2> QED BY <1>5, <2>1, <2>2 DEF execute, Pipe, inbound_vars
<1>6. CASE matching
  <2>1. Next
    BY <1>6 DEF matching, Next, Work
  <2> QED BY <1>6, <2>1 DEF matching, Pipe, inbound_vars, matching_vars, ring_vars
<1>7. CASE push_event
  <2>1. Next
    BY <1>7 DEF push_event, Next, Work
  <2> QED BY <1>7, <2>1 DEF push_event, Pipe, inbound_vars, matching_vars
<1>8. CASE advance
  BY <1>8 DEF advance, Pipe, inbound_vars, ring_vars
<1>9. CASE Outbound
  BY <1>9 DEF Outbound, drain_notes, begin_batch, take_event, respond, end_batch, Pipe,
              inbound_vars, matching_vars, ring_vars
<1>10. CASE UNCHANGED gwvars
  BY <1>10 DEF gwvars, Pipe, inbound_vars, matching_vars, ring_vars
<1> QED BY <1>1, <1>2, <1>3, <1>4, <1>5, <1>6, <1>7, <1>8, <1>9, <1>10
        DEF GWNext, Receive, Push, Match

(* Whatever the clients send, and however full the rings are: the engine   *)
(* of the exchange is the Orderbook of its own module.                     *)
THEOREM EngineIsOrderbook == GWSpec => EngineSpec
<1>1. GWInit => Pipe /\ Init
  BY PipeInit
<1>2. Pipe /\ [GWNext]_gwvars => Pipe' /\ [Next]_vars
  BY PipeStep
<1> QED BY <1>1, <1>2, PTL DEF GWSpec, EngineSpec, Spec
-----------------------------------------------------------------------------
(* OrderIds.                                                               *)

(* Ids are handed out in ascending order, and the requests stay in the     *)
(* order of their ids: what is executing was handed out before what waits. *)
Ordered ==
  /\ \A i, j \in 1..Len(inbound_ring) : i < j => Before(inbound_ring[i], inbound_ring[j])
  /\ \A i \in 1..Len(inbound_ring) :
       /\ matching_pc # "executing" => Before(cur, inbound_ring[i])
       /\ Before(nxt, inbound_ring[i])
       /\ Before(inbound_ring[i], translation.request)
  /\ matching_pc # "executing" => Before(cur, translation.request)
  /\ Before(nxt, translation.request)

(* The id of a new order is greater than those of the engine. *)
Fresh(req) ==
  req.type # "CANCEL" =>
    /\ NewId(req) < entry.next_order_id
    /\ \A id \in OrderIds : book.orders[id] # NoOrder => id < NewId(req)
    /\ match # NoRequest => match.id < NewId(req)
    /\ Names(entry, req.client, NewId(req))

(* The orders of the engine are known to the gateway. *)
Known ==
  /\ \A id \in OrderIds : book.orders[id] # NoOrder =>
       id < entry.next_order_id /\ Names(entry, book.orders[id].client, id)
  /\ match # NoRequest =>
       match.id < entry.next_order_id /\ Names(entry, match.client, match.id)

(* Requests wait in the order of their ids, each with an id above all of   *)
(* the book, and every order can be named by its client.                   *)
Fresher == Ordered /\ (\A req \in Waiting : Fresh(req)) /\ Known

(* Where a request waits. *)
WaitsSomewhere ==
  \A req \in Waiting :
    \/ \E i \in 1..Len(inbound_ring) : req = inbound_ring[i]
    \/ req = translation.request /\ req # None
    \/ req = nxt /\ req # None
    \/ req = cur /\ req # None /\ matching_pc # "executing"

(* What a request that waits is. *)
LEMMA WaitingTypes ==
  ASSUME Pipe
  PROVE  /\ Waiting \subseteq Request
         /\ \A i \in 1..Len(inbound_ring) : inbound_ring[i] \in Waiting
         /\ translation.request # None => translation.request \in Waiting
         /\ nxt # None => nxt \in Waiting
         /\ matching_pc = "execute" => cur \in Waiting \/ cur = None
         /\ WaitsSomewhere
<1>1. DOMAIN inbound_ring = 1..Len(inbound_ring)
      /\ \A i \in 1..Len(inbound_ring) : inbound_ring[i] \in Request
  BY QueueLength, QueueLength DEF Pipe
<1>2. {inbound_ring[i] : i \in DOMAIN inbound_ring} =
        {inbound_ring[i] : i \in 1..Len(inbound_ring)}
  BY <1>1
<1> QED BY <1>1, <1>2 DEF Waiting, WaitsSomewhere, Pipe

(* The same after a step. *)
LEMMA WaitingAfter == Pipe' => WaitsSomewhere'
<1>1. Pipe => WaitsSomewhere
  BY WaitingTypes
<1> QED BY <1>1, PTL

(* FreshIds is a consequence. *)
LEMMA FresherIds == Pipe /\ Fresher => FreshIds
<1> SUFFICES ASSUME Pipe, Fresher, NEW req \in Waiting, req.type # "CANCEL"
    PROVE  /\ book.orders[NewId(req)] = NoOrder
           /\ match # NoRequest => match.id # NewId(req)
           /\ \A other \in Waiting :
                (other.type # "CANCEL" /\ NewId(other) = NewId(req)) => other = req
  BY DEF FreshIds
<1>1. \A x \in Waiting : x \in Request /\ NewId(x) \in OrderIds /\ NewId(x) \in Nat
  BY WaitingTypes, RequestIds
<1>2. book.orders[NewId(req)] = NoOrder
  BY <1>1, SMTT(30) DEF Fresher, Fresh
<1>3. match # NoRequest => match.id # NewId(req)
  BY <1>1, SMTT(30) DEF Fresher, Fresh
<1>4. ASSUME NEW other \in Waiting, other.type # "CANCEL", NewId(other) = NewId(req)
      PROVE  other = req
  <2>1. Creates(req) /\ Creates(other)
    BY <1>1, <1>4, NoneAssumption DEF Creates
  <2>2. ~ Before(req, other) /\ ~ Before(other, req)
    BY <2>1, <1>1, <1>4, SMTT(30) DEF Before
  <2>3. /\ \/ \E i \in 1..Len(inbound_ring) : req = inbound_ring[i]
           \/ req = translation.request
           \/ req = nxt
           \/ req = cur /\ matching_pc # "executing"
        /\ \/ \E i \in 1..Len(inbound_ring) : other = inbound_ring[i]
           \/ other = translation.request
           \/ other = nxt
           \/ other = cur /\ matching_pc # "executing"
    BY WaitingTypes DEF WaitsSomewhere
  <2>4. matching_pc # "executing" => nxt = None
    BY DEF Pipe
  <2>5. req # None /\ other # None
    BY <2>1 DEF Creates
  <2>6. ASSUME NEW i \in 1..Len(inbound_ring), NEW j \in 1..Len(inbound_ring),
               req = inbound_ring[i], other = inbound_ring[j]
        PROVE  other = req
    <3>1. ~ (i < j) /\ ~ (j < i)
      BY <2>2, <2>6 DEF Fresher, Ordered
    <3>2. i = j
      BY <3>1, SMTT(30)
    <3> QED BY <3>2, <2>6
  <2> QED BY <2>2, <2>3, <2>4, <2>5, <2>6 DEF Fresher, Ordered
<1> QED BY <1>2, <1>3, <1>4
-----------------------------------------------------------------------------
(* A step of the engine leaves what waits fresh, if it adds no order but   *)
(* one with a smaller id that its client can name.                         *)
LEMMA EngineAdds ==
  ASSUME Fresher, entry' = entry, Waiting' \subseteq Waiting,
         NEW new \in OrderIds, NEW c \in Clients, AddsOnly(new, c),
         match' # NoRequest => match'.id = new /\ match'.client = c,
         new < entry.next_order_id, Names(entry, c, new),
         \A req \in Waiting' : req.type # "CANCEL" => new < NewId(req)
  PROVE  (\A req \in Waiting' : Fresh(req)') /\ Known'
<1>1. ASSUME NEW req \in Waiting' PROVE Fresh(req)'
  <2>1. Fresh(req) /\ (req.type # "CANCEL" => new < NewId(req))
    BY <1>1 DEF Fresher
  <2> QED BY <2>1 DEF Fresh, AddsOnly, Kept
<1>2. Known'
  BY DEF Fresher, Known, AddsOnly, Kept
<1> QED BY <1>1, <1>2

(* A step that adds no order leaves it so too. *)
LEMMA EngineAddsNone ==
  ASSUME Fresher, entry' = entry, Waiting' \subseteq Waiting, AddsNone, match' = NoRequest
  PROVE  (\A req \in Waiting' : Fresh(req)') /\ Known'
<1>1. ASSUME NEW req \in Waiting' PROVE Fresh(req)'
  <2>1. Fresh(req)
    BY <1>1 DEF Fresher
  <2> QED BY <2>1 DEF Fresh, AddsNone, Kept
<1>2. Known'
  BY DEF Fresher, Known, AddsNone, Kept
<1> QED BY <1>1, <1>2

(* Neither does a step of another thread. *)
LEMMA NotTheEngine ==
  ASSUME Fresher, UNCHANGED <<book, match, entry>>, Waiting' \subseteq Waiting
  PROVE  (\A req \in Waiting' : Fresh(req)') /\ Known'
<1>1. ASSUME NEW req \in Waiting' PROVE Fresh(req)'
  <2>1. Fresh(req)
    BY <1>1 DEF Fresher
  <2> QED BY <2>1 DEF Fresh
<1>2. Known'
  BY DEF Fresher, Known
<1> QED BY <1>1, <1>2

(* A request is taken, and the one after it: what waits has greater ids. *)
LEMMA ExecuteWaiting ==
  ASSUME Pipe, Fresher, execute
  PROVE  Waiting' \subseteq Waiting /\ (\A req \in Waiting' : Before(cur, req)) /\ cur \in Waiting
<1>0. /\ matching_pc = "execute" /\ matching_pc' = "executing" /\ cur \in Request
      /\ translation' = translation
      /\ \/ inbound_ring = <<>> /\ nxt' = None /\ inbound_ring' = inbound_ring
         \/ /\ inbound_ring # <<>> /\ nxt' = Head(inbound_ring)
            /\ inbound_ring' = Tail(inbound_ring)
  BY DEF execute, Pipe, inbound_vars
<1>1. Pipe'
  BY PipeStep DEF GWNext, Match
<1>2. cur # None /\ cur \in Waiting
  BY <1>0, NoneAssumption, WaitingTypes
<1>3. /\ \A i \in 1..Len(inbound_ring') : \E j \in 1..Len(inbound_ring) :
           inbound_ring'[i] = inbound_ring[j]
      /\ nxt' # None => \E j \in 1..Len(inbound_ring) : nxt' = inbound_ring[j]
  BY <1>0, Popped, SMTT(30) DEF Pipe
<1>4. \A req \in Waiting' :
        \/ \E j \in 1..Len(inbound_ring) : req = inbound_ring[j]
        \/ req = translation.request /\ req # None
  <2> SUFFICES ASSUME NEW req \in Waiting'
               PROVE  \/ \E j \in 1..Len(inbound_ring) : req = inbound_ring[j]
                      \/ req = translation.request /\ req # None
    OBVIOUS
  <2>1. \/ \E i \in 1..Len(inbound_ring') : req = inbound_ring'[i]
        \/ req = translation'.request /\ req # None
        \/ req = nxt' /\ req # None
    BY <1>0, <1>1, WaitingAfter DEF WaitsSomewhere
  <2> QED BY <2>1, <1>0, <1>3
<1>5. Waiting' \subseteq Waiting
  BY <1>4, WaitingTypes
<1>6. \A req \in Waiting' : Before(cur, req)
  BY <1>0, <1>4 DEF Fresher, Ordered
<1> QED BY <1>2, <1>5, <1>6

(* They are still in the order of their ids. *)
LEMMA ExecuteFresh ==
  ASSUME Pipe, Fresher, execute,
         NEW new \in OrderIds, NEW c \in Clients, new = NewId(cur), c = cur.client,
         cur.type = "CANCEL" => AddsNone /\ match' = NoRequest,
         cur.type # "CANCEL" =>
           AddsOnly(new, c) /\ (match' # NoRequest => match'.id = new /\ match'.client = c)
  PROVE  Fresher'
<1>0. /\ matching_pc = "execute" /\ matching_pc' = "executing" /\ cur \in Request
      /\ process(cur) /\ cur' = cur /\ nxt = None /\ entry' = entry
      /\ translation' = translation
      /\ \/ inbound_ring = <<>> /\ nxt' = None /\ inbound_ring' = inbound_ring
         \/ /\ inbound_ring # <<>> /\ nxt' = Head(inbound_ring)
            /\ inbound_ring' = Tail(inbound_ring)
  BY DEF execute, Pipe, inbound_vars
<1>2. cur # None /\ cur \in Waiting
  BY <1>0, NoneAssumption, ExecuteWaiting
<1>5. Waiting' \subseteq Waiting
  BY ExecuteWaiting
<1>6. \A req \in Waiting' : Before(cur, req)
  BY ExecuteWaiting
<1>7. \A req \in Waiting' : Creates(req) <=> req.type # "CANCEL"
  BY <1>5, WaitingTypes, NoneAssumption DEF Creates
<1>8. (\A req \in Waiting' : Fresh(req)') /\ Known'
  <2>1. CASE cur.type = "CANCEL"
    BY <2>1, <1>0, <1>5, EngineAddsNone
  <2>2. CASE cur.type # "CANCEL"
    <3>1. new < entry.next_order_id /\ Names(entry, c, new)
      BY <2>2, <1>2 DEF Fresher, Fresh
    <3>2. \A req \in Waiting' : req.type # "CANCEL" => new < NewId(req)
      BY <2>2, <1>2, <1>6, <1>7 DEF Before, Creates
    <3> QED BY <2>2, <3>1, <3>2, <1>0, <1>5, EngineAdds
  <2> QED BY <2>1, <2>2
<1>9. Ordered'
  <2>1. CASE inbound_ring = <<>>
    <3>1. Len(inbound_ring') = 0
      BY <2>1, <1>0, SMTT(30)
    <3>2. Before(nxt', translation'.request)
      BY <2>1, <1>0 DEF Before, Creates
    <3> QED BY <3>1, <3>2, <1>0, SMTT(30) DEF Ordered
  <2>2. CASE inbound_ring # <<>>
    <3>1. /\ nxt' = inbound_ring[1] /\ 1 \in 1..Len(inbound_ring) /\ Len(inbound_ring) \in Nat
          /\ Len(inbound_ring') = Len(inbound_ring) - 1
          /\ \A i \in 1..Len(inbound_ring') :
               inbound_ring'[i] = inbound_ring[i + 1] /\ i + 1 \in 1..Len(inbound_ring)
      BY <2>2, <1>0, Popped DEF Pipe
    <3>2. \A i, j \in 1..Len(inbound_ring) : i < j => Before(inbound_ring[i], inbound_ring[j])
      BY DEF Fresher, Ordered
    <3>3. \A i \in 1..Len(inbound_ring) : Before(inbound_ring[i], translation.request)
      BY DEF Fresher, Ordered
    <3>4. \A i, j \in 1..Len(inbound_ring') : i < j => Before(inbound_ring'[i], inbound_ring'[j])
      BY <2>2, <3>2, <1>0, RingOrder DEF Pipe
    <3>5. \A i \in 1..Len(inbound_ring') : Before(nxt', inbound_ring'[i])
      BY <2>2, <3>2, <1>0, RingOrder DEF Pipe
    <3>6. /\ \A i \in 1..Len(inbound_ring') : Before(inbound_ring'[i], translation'.request)
          /\ Before(nxt', translation'.request)
      BY <3>1, <3>3, <1>0
    <3> QED BY <3>4, <3>5, <3>6, <1>0 DEF Ordered
  <2> QED BY <2>1, <2>2
<1> QED BY <1>8, <1>9 DEF Fresher

(* An empty place takes the first of the ring. *)
LEMMA TakeWaiting ==
  ASSUME Pipe, take PROVE Waiting' \subseteq Waiting
<1>0. /\ matching_pc = "take" /\ inbound_ring # <<>>
      /\ cur' = Head(inbound_ring) /\ inbound_ring' = Tail(inbound_ring)
      /\ nxt = None /\ nxt' = None /\ translation' = translation
  BY DEF take, Pipe, inbound_vars
<1>1. /\ cur' = inbound_ring[1] /\ 1 \in 1..Len(inbound_ring)
      /\ \A i \in 1..Len(inbound_ring') :
           inbound_ring'[i] = inbound_ring[i + 1] /\ i + 1 \in 1..Len(inbound_ring)
  BY <1>0, Popped DEF Pipe
<1>2. Pipe'
  BY PipeStep DEF GWNext, Match
<1> QED BY <1>0, <1>1, <1>2, WaitingAfter, WaitingTypes, SMTT(30) DEF WaitsSomewhere

(* take() hands on the first of the ring. *)
LEMMA TakeFresh ==
  ASSUME Pipe, Fresher, take PROVE Fresher'
<1>0. /\ matching_pc = "take" /\ matching_pc' = "execute" /\ inbound_ring # <<>>
      /\ cur' = Head(inbound_ring) /\ inbound_ring' = Tail(inbound_ring)
      /\ cur = None /\ nxt = None /\ nxt' = None
      /\ UNCHANGED <<book, match, entry, translation>>
  BY DEF take, Pipe, inbound_vars, vars
<1>1. /\ cur' = inbound_ring[1] /\ 1 \in 1..Len(inbound_ring) /\ Len(inbound_ring) \in Nat
      /\ Len(inbound_ring') = Len(inbound_ring) - 1
      /\ \A i \in 1..Len(inbound_ring') :
           inbound_ring'[i] = inbound_ring[i + 1] /\ i + 1 \in 1..Len(inbound_ring)
  BY <1>0, Popped DEF Pipe
<1>3. Waiting' \subseteq Waiting
  BY TakeWaiting
<1>4. \A i, j \in 1..Len(inbound_ring) : i < j => Before(inbound_ring[i], inbound_ring[j])
  BY DEF Fresher, Ordered
<1>5. \A i \in 1..Len(inbound_ring) : Before(inbound_ring[i], translation.request)
  BY DEF Fresher, Ordered
<1>6. /\ \A i, j \in 1..Len(inbound_ring') : i < j => Before(inbound_ring'[i], inbound_ring'[j])
      /\ \A i \in 1..Len(inbound_ring') : Before(cur', inbound_ring'[i])
  BY <1>0, <1>4, RingOrder DEF Pipe
<1>7. /\ \A i \in 1..Len(inbound_ring') : Before(inbound_ring'[i], translation'.request)
      /\ Before(cur', translation'.request)
  BY <1>0, <1>1, <1>5
<1>8. \A b : Before(nxt', b)
  BY <1>0 DEF Before, Creates
<1>9. Ordered'
  BY <1>6, <1>7, <1>8 DEF Ordered
<1> QED BY <1>0, <1>3, <1>9, NotTheEngine DEF Fresher

(* The request popped ahead is next. *)
LEMMA AdvanceWaiting == advance => Waiting' \subseteq Waiting
<1> SUFFICES ASSUME advance PROVE Waiting' \subseteq Waiting
  OBVIOUS
<1>1. /\ matching_pc = "executing" /\ cur' = nxt /\ nxt' = None
      /\ UNCHANGED <<translation, inbound_ring>>
  BY DEF advance, inbound_vars, ring_vars
<1> QED BY <1>1 DEF Waiting

(* So does the step to the next request. *)
LEMMA AdvanceFresh ==
  ASSUME Pipe, Fresher, advance PROVE Fresher'
<1>0. /\ matching_pc = "executing" /\ matching_pc' # "executing"
      /\ cur' = nxt /\ nxt' = None
      /\ UNCHANGED <<book, match, entry, translation, inbound_ring>>
  BY DEF advance, inbound_vars, ring_vars, vars
<1>1. Waiting' \subseteq Waiting
  BY AdvanceWaiting
<1>2. \A b : Before(nxt', b)
  BY <1>0 DEF Before, Creates
<1>3. Ordered'
  BY <1>0, <1>2 DEF Fresher, Ordered
<1> QED BY <1>0, <1>1, <1>3, NotTheEngine DEF Fresher

(* A request joins the ring behind those with smaller ids. *)
LEMMA PushWaiting ==
  ASSUME Pipe, push_request PROVE Waiting' \subseteq Waiting
<1> DEFINE req == translation.request
<1>0. /\ req # None /\ req \in Request /\ inbound_ring' = Append(inbound_ring, req)
      /\ translation'.request = None
      /\ UNCHANGED <<cur, nxt, matching_pc>>
  BY DEF push_request, Pushed, Pipe, matching_vars
<1>1. /\ Len(inbound_ring) \in Nat /\ Len(inbound_ring') = Len(inbound_ring) + 1
      /\ inbound_ring'[Len(inbound_ring) + 1] = req
      /\ \A i \in 1..Len(inbound_ring) : inbound_ring'[i] = inbound_ring[i]
  BY <1>0, QueuePush, QueueLength, SMTT(30) DEF Pipe
<1>2. \A i \in 1..Len(inbound_ring') : i \in 1..Len(inbound_ring) \/ i = Len(inbound_ring) + 1
  BY <1>1, SMTT(30)
<1>3. Pipe'
  BY PipeStep DEF GWNext, Push
<1>4. req \in Waiting
  BY <1>0, WaitingTypes
<1>5. \A i \in 1..Len(inbound_ring') : inbound_ring'[i] \in Waiting
  BY <1>1, <1>2, <1>4, WaitingTypes
<1>6. (nxt' # None => nxt' \in Waiting)
      /\ (cur' # None /\ matching_pc' # "executing" => cur' \in Waiting)
  BY <1>0 DEF Waiting
<1> QED BY <1>0, <1>3, <1>5, <1>6, WaitingAfter DEF WaitsSomewhere

(* The new request has the greatest id of all. *)
LEMMA PushFresh ==
  ASSUME Pipe, Fresher, push_request PROVE Fresher'
<1> DEFINE req == translation.request
<1>0. /\ req # None /\ req \in Request /\ inbound_ring' = Append(inbound_ring, req)
      /\ translation'.request = None
      /\ UNCHANGED <<book, match, entry, cur, nxt, matching_pc>>
  BY DEF push_request, Pushed, Pipe, matching_vars, vars
<1>1. /\ Len(inbound_ring) \in Nat /\ Len(inbound_ring') = Len(inbound_ring) + 1
      /\ inbound_ring'[Len(inbound_ring) + 1] = req
      /\ \A i \in 1..Len(inbound_ring) : inbound_ring'[i] = inbound_ring[i]
  BY <1>0, QueuePush, QueueLength, SMTT(30) DEF Pipe
<1>2. \A i \in 1..Len(inbound_ring') : i \in 1..Len(inbound_ring) \/ i = Len(inbound_ring) + 1
  BY <1>1, SMTT(30)
<1>4. Waiting' \subseteq Waiting
  BY PushWaiting
<1> HIDE DEF req
<1>5. \A a : Before(a, translation'.request)
  BY <1>0 DEF Before, Creates
<1>6. /\ \A i, j \in 1..Len(inbound_ring) : i < j => Before(inbound_ring[i], inbound_ring[j])
      /\ \A i \in 1..Len(inbound_ring) :
           /\ matching_pc # "executing" => Before(cur, inbound_ring[i])
           /\ Before(nxt, inbound_ring[i])
           /\ Before(inbound_ring[i], req)
      /\ matching_pc # "executing" => Before(cur, req)
      /\ Before(nxt, req)
  BY DEF Fresher, Ordered, req
<1>7. \A i, j \in 1..Len(inbound_ring') : i < j => Before(inbound_ring'[i], inbound_ring'[j])
  <2> SUFFICES ASSUME NEW i \in 1..Len(inbound_ring'), NEW j \in 1..Len(inbound_ring'), i < j
               PROVE  Before(inbound_ring'[i], inbound_ring'[j])
    OBVIOUS
  <2>1. i \in 1..Len(inbound_ring)
    BY <1>1, SMTT(30)
  <2> QED BY <2>1, <1>1, <1>2, <1>6
<1>8. \A i \in 1..Len(inbound_ring') :
        /\ matching_pc' # "executing" => Before(cur', inbound_ring'[i])
        /\ Before(nxt', inbound_ring'[i])
  BY <1>0, <1>1, <1>2, <1>6
<1>9. Ordered'
  BY <1>5, <1>7, <1>8 DEF Ordered
<1> QED BY <1>0, <1>4, <1>9, NotTheEngine DEF Fresher

(* A message: what is known stays known, and the id of a new order is one  *)
(* that was never handed out.                                              *)
LEMMA ReceiveWaiting ==
  ASSUME Pipe, NEW c \in Clients, NEW msg \in Messages, receive(c, msg)
  PROVE  \A r \in Waiting' : r \in Waiting \/ (r = translation'.request /\ r # None)
<1>0. UNCHANGED <<cur, nxt, matching_pc, inbound_ring>>
  BY DEF receive, matching_vars, ring_vars
<1>1. Pipe'
  BY PipeStep DEF GWNext, Receive
<1>2. cur # None /\ matching_pc # "executing" => cur \in Waiting
  BY DEF Waiting
<1>3. \A r \in Waiting' :
        \/ \E i \in 1..Len(inbound_ring') : r = inbound_ring'[i]
        \/ r = translation'.request /\ r # None
        \/ r = nxt' /\ r # None
        \/ r = cur' /\ r # None /\ matching_pc' # "executing"
  BY <1>1, WaitingAfter DEF WaitsSomewhere
<1>4. /\ \A i \in 1..Len(inbound_ring) : inbound_ring[i] \in Waiting
      /\ nxt # None => nxt \in Waiting
  BY WaitingTypes
<1> QED BY <1>0, <1>2, <1>3, <1>4

(* A message of a client, as a step. *)
LEMMA ReceiveFresh ==
  ASSUME Pipe, Fresher, NEW c \in Clients, NEW msg \in Messages, receive(c, msg),
         \A id \in OrderIds : book.orders[id] # NoOrder => book.orders[id].client \in Clients,
         match # NoRequest => match.client \in Clients /\ match.id \in OrderIds
  PROVE  Fresher'
<1> DEFINE t == Entry!translate(entry, c, msg)
<1>0. /\ t.entry.next_order_id - 1 \in OrderIds \cup {0}
      /\ entry' = t.entry /\ translation'.request = t.request
      /\ translation.request = None
      /\ UNCHANGED <<book, match, cur, nxt, matching_pc, inbound_ring>>
  BY DEF receive, Pushed, matching_vars, ring_vars, vars
<1>1. Translated(entry, c, t)
  BY <1>0, MessageOK DEF Pipe
<1>2. PICK req : req = t.request
  OBVIOUS
<1> HIDE DEF t
<1>3. /\ Grows(entry, entry') /\ translation'.request = req
      /\ Creates(req) => /\ req.client = c /\ NewId(req) \in OrderIds
                         /\ entry.next_order_id <= NewId(req)
                         /\ NewId(req) < entry'.next_order_id
                         /\ Names(entry', c, NewId(req))
  BY <1>0, <1>1, <1>2 DEF Translated
<1>4. /\ entry.next_order_id \in Nat /\ entry'.next_order_id \in Nat
      /\ entry'.next_order_id >= entry.next_order_id
  BY <1>3 DEF Grows, EntryOK, Pipe
<1>5. \A k \in Clients, id \in OrderIds : Names(entry, k, id) => Names(entry', k, id)
  BY <1>3 DEF Grows
<1>6. \A r \in Waiting' : r \in Waiting \/ (r = req /\ req # None)
  BY <1>3, ReceiveWaiting
<1>7. \A r \in Waiting : r \in Request /\ r.client \in Clients /\ NewId(r) \in OrderIds
                          /\ NewId(r) \in Nat
  BY WaitingTypes, RequestIds
<1>8. \A id \in OrderIds : id \in Nat
  BY NumbersAssumption
<1>9. ASSUME NEW r \in Waiting' PROVE Fresh(r)'
  <2>1. CASE r \in Waiting
    <3>1. Fresh(r)
      BY <2>1 DEF Fresher
    <3>2. Names(entry, r.client, NewId(r)) => Names(entry', r.client, NewId(r))
      BY <2>1, <1>5, <1>7
    <3>3. NewId(r) < entry.next_order_id => NewId(r) < entry'.next_order_id
      BY <2>1, <1>4, <1>7, SMTT(30)
    <3> QED BY <3>1, <3>2, <3>3, <1>0 DEF Fresh
  <2>2. CASE r = req /\ req # None
    <3> SUFFICES ASSUME r.type # "CANCEL" PROVE Fresh(r)'
      BY DEF Fresh
    <3>1. Creates(req)
      BY <2>2 DEF Creates
    <3>2. NewId(req) \in Nat
      BY <1>3, <1>8, <3>1
    <3>3. \A id \in OrderIds : id < entry.next_order_id => id < NewId(req)
      <4>1. entry.next_order_id <= NewId(req)
        BY <1>3, <3>1
      <4> QED BY <4>1, <3>2, <1>4, <1>8, SMTT(30)
    <3>4. \A id \in OrderIds : book'.orders[id] # NoOrder => id < NewId(req)
      BY <1>0, <3>3 DEF Fresher, Known
    <3>5. match' # NoRequest => match'.id < NewId(req)
      BY <1>0, <3>3 DEF Fresher, Known
    <3> QED BY <2>2, <1>3, <3>1, <3>4, <3>5 DEF Fresh
  <2> QED BY <1>6, <1>9, <2>1, <2>2
<1>10. Known'
  <2>1. ASSUME NEW id \in OrderIds, book'.orders[id] # NoOrder
        PROVE  id < entry'.next_order_id /\ Names(entry', book'.orders[id].client, id)
    <3>1. book.orders[id].client \in Clients /\ id < entry.next_order_id
          /\ Names(entry, book.orders[id].client, id)
      BY <1>0, <2>1 DEF Fresher, Known
    <3>2. id < entry'.next_order_id
      BY <1>4, <1>8, <3>1, SMTT(30)
    <3>3. Names(entry', book.orders[id].client, id)
      BY <1>5, <3>1
    <3> QED BY <1>0, <3>2, <3>3
  <2>2. ASSUME match' # NoRequest
        PROVE  match'.id < entry'.next_order_id /\ Names(entry', match'.client, match'.id)
    <3>1. match.client \in Clients /\ match.id \in OrderIds /\ match.id < entry.next_order_id
          /\ Names(entry, match.client, match.id)
      BY <1>0, <2>2 DEF Fresher, Known
    <3>2. match.id < entry'.next_order_id
      BY <1>4, <1>8, <3>1, SMTT(30)
    <3>3. Names(entry', match.client, match.id)
      BY <1>5, <3>1
    <3> QED BY <1>0, <3>2, <3>3
  <2> QED BY <2>1, <2>2 DEF Known
<1>11. ASSUME NEW a \in Waiting PROVE Before(a, req)
  <2> SUFFICES ASSUME Creates(a), Creates(req) PROVE NewId(a) < NewId(req)
    BY DEF Before
  <2>1. NewId(a) < entry.next_order_id
    BY DEF Fresher, Fresh, Creates
  <2> QED BY <2>1, <1>3, <1>4, <1>7, <1>8, SMTT(30)
<1>12. Ordered'
  <2>1. \A i \in 1..Len(inbound_ring) : Before(inbound_ring[i], req)
    BY <1>11, WaitingTypes
  <2>2. Before(nxt, req)
    BY <1>11, WaitingTypes DEF Before, Creates
  <2>3. matching_pc # "executing" => Before(cur, req)
    BY <1>11 DEF Waiting, Before, Creates
  <2> QED BY <1>0, <1>3, <2>1, <2>2, <2>3 DEF Fresher, Ordered
<1> QED BY <1>9, <1>10, <1>12 DEF Fresher

(* The other threads, and a note on its way. *)
LEMMA OthersWaiting ==
  ASSUME Pipe, push_note_ \/ Outbound \/ UNCHANGED gwvars
  PROVE  /\ UNCHANGED <<book, match, entry, cur, nxt, matching_pc, inbound_ring>>
         /\ translation'.request = translation.request
         /\ Waiting' = Waiting
<1>1. /\ UNCHANGED <<book, match, entry, cur, nxt, matching_pc, inbound_ring>>
      /\ translation'.request = translation.request
  <2>1. CASE push_note_
    BY <2>1 DEF push_note_, matching_vars, vars, Pipe
  <2>2. CASE Outbound
    BY <2>2 DEF Outbound, drain_notes, begin_batch, take_event, respond, end_batch,
                inbound_vars, matching_vars, ring_vars, vars
  <2>3. CASE UNCHANGED gwvars
    BY <2>3 DEF gwvars, inbound_vars, matching_vars, ring_vars, vars
  <2> QED BY <2>1, <2>2, <2>3
<1>2. Waiting' = Waiting
  BY <1>1 DEF Waiting
<1> QED BY <1>1, <1>2

(* None of these changes what waits. *)
LEMMA OthersFresh ==
  ASSUME Pipe, Fresher, push_note_ \/ Outbound \/ UNCHANGED gwvars PROVE Fresher'
<1>1. /\ UNCHANGED <<book, match, entry, cur, nxt, matching_pc, inbound_ring>>
      /\ translation'.request = translation.request /\ Waiting' = Waiting
  BY OthersWaiting
<1>2. Ordered'
  BY <1>1 DEF Fresher, Ordered
<1> QED BY <1>1, <1>2, NotTheEngine DEF Fresher

(* At the start nothing waits. *)
LEMMA FresherInit == GWInit => Fresher
<1> SUFFICES ASSUME GWInit PROVE Fresher
  OBVIOUS
<1>1. /\ inbound_ring = <<>> /\ cur = None /\ nxt = None /\ translation.request = None
      /\ match = NoRequest /\ \A id \in OrderIds : book.orders[id] = NoOrder
  BY DEF GWInit, Pushed, Init
<1>2. Waiting = {}
  <2>1. DOMAIN inbound_ring = {}
    BY <1>1, SMTT(30)
  <2>2. {inbound_ring[i] : i \in DOMAIN inbound_ring} = {}
    BY <2>1
  <2> QED BY <1>1, <2>2 DEF Waiting
<1>3. Ordered
  BY <1>1, SMTT(30) DEF Ordered, Before, Creates
<1> QED BY <1>1, <1>2, <1>3 DEF Fresher, Known
=============================================================================
