------------------------------ MODULE Lifecycle ------------------------------
(***************************************************************************)
(* Start and stop of the exchange: src/exchange/app/exchange.cpp, the      *)
(* start and stop of Server and Engine, and the places where a thread may  *)
(* wait for another when it is time to stop.                               *)
(*                                                                         *)
(* What travels over the rings does not matter here: a ring is the number  *)
(* of items in it.  How many events a request causes is open.              *)
(***************************************************************************)
EXTENDS Naturals

CONSTANTS
  RingCapacity,
  MaxEvents,      \* bound: events of one request
  MaxBurst,       \* bound: messages received at once
  kOutboundBatch

VARIABLES
  stop_,       \* Exchange::stop_, which the engine watches
  shutdown_,   \* Server::shutdown_
  main,        \* where the main thread is
  inbound,     \* the inbound thread: messages left of a burst, what it has to push
  matching,    \* the matching thread: requests in hand, events it still has to push
  outbound,    \* the outbound thread: events left of its batch
  requests, events, notes  \* items in the rings

rings == <<requests, events, notes>>
threads == <<inbound, matching, outbound>>
vars == <<stop_, shutdown_, main, threads, rings>>

Init ==
  /\ stop_ = FALSE /\ shutdown_ = FALSE
  /\ main = "start_server"
  /\ inbound = [at |-> "none", burst |-> 0, push |-> {}]
  /\ matching = [at |-> "none", cur |-> 0, nxt |-> 0, emit |-> 0]
  /\ outbound = [at |-> "none", left |-> 0]
  /\ requests = 0 /\ events = 0 /\ notes = 0
-----------------------------------------------------------------------------
(* SIGINT or SIGTERM: Exchange::stop(). *)
signal ==
  /\ ~ stop_
  /\ stop_' = TRUE
  /\ UNCHANGED <<shutdown_, main, threads, rings>>

(* The main thread: Exchange::run() and then the destructors, of the       *)
(* server, whose threads are already joined, and of the engine, whose      *)
(* jthread joins the matching thread.                                      *)
start_server ==
  /\ main = "start_server"
  /\ main' = "start_engine"
  /\ inbound' = [inbound EXCEPT !.at = "loop"]
  /\ outbound' = [outbound EXCEPT !.at = "loop"]
  /\ UNCHANGED <<stop_, shutdown_, matching, rings>>

start_engine ==
  /\ main = "start_engine"
  /\ main' = "wait"
  /\ matching' = [matching EXCEPT !.at = "loop"]
  /\ UNCHANGED <<stop_, shutdown_, inbound, outbound, rings>>

server_stop ==
  /\ main = "wait" /\ stop_
  /\ shutdown_' = TRUE
  /\ main' = "join_inbound"
  /\ UNCHANGED <<stop_, threads, rings>>

join_inbound ==
  /\ main = "join_inbound" /\ inbound.at = "done"
  /\ main' = "join_outbound"
  /\ UNCHANGED <<stop_, shutdown_, threads, rings>>

join_outbound ==
  /\ main = "join_outbound" /\ outbound.at = "done"
  /\ main' = "join_matching"
  /\ UNCHANGED <<stop_, shutdown_, threads, rings>>

join_matching ==
  /\ main = "join_matching" /\ matching.at = "done"
  /\ main' = "done"
  /\ UNCHANGED <<stop_, shutdown_, threads, rings>>

Main == start_server \/ start_engine \/ server_stop \/ join_inbound \/ join_outbound
        \/ join_matching
-----------------------------------------------------------------------------
(* The inbound thread.  shutdown_ is looked at before a burst is received. *)
receive_burst ==
  /\ inbound.at = "loop" /\ inbound.burst = 0 /\ inbound.push = {} /\ ~ shutdown_
  /\ \E n \in 1..MaxBurst : inbound' = [inbound EXCEPT !.burst = n]
  /\ UNCHANGED <<stop_, shutdown_, main, matching, outbound, rings>>

(* A message or an event of a connection makes it push a note, a request,  *)
(* or a note and then a request.                                           *)
on_tcp_event_ ==
  /\ inbound.burst > 0 /\ inbound.push = {}
  /\ \E push \in SUBSET {"note", "request"} :
       inbound' = [inbound EXCEPT !.burst = @ - 1, !.push = push]
  /\ UNCHANGED <<stop_, shutdown_, main, matching, outbound, rings>>

(* Mutant: only room ends the wait. *)
push_note_Forever ==
  /\ "note" \in inbound.push
  /\ notes < RingCapacity
  /\ notes' = notes + 1
  /\ inbound' = [inbound EXCEPT !.push = @ \ {"note"}]
  /\ UNCHANGED <<stop_, shutdown_, main, matching, outbound, requests, events>>

(* push_note_(): until there is room, or for nothing when it is time to    *)
(* stop.                                                                   *)
push_note_ ==
  /\ "note" \in inbound.push
  /\ \/ notes < RingCapacity /\ notes' = notes + 1
     \/ notes = RingCapacity /\ shutdown_ /\ UNCHANGED notes
  /\ inbound' = [inbound EXCEPT !.push = @ \ {"note"}]
  /\ UNCHANGED <<stop_, shutdown_, main, matching, outbound, requests, events>>

(* handle_ouch_(): the request, after its note. *)
push_request ==
  /\ inbound.push = {"request"}
  /\ \/ requests < RingCapacity /\ requests' = requests + 1
     \/ requests = RingCapacity /\ shutdown_ /\ UNCHANGED requests
  /\ inbound' = [inbound EXCEPT !.push = {}]
  /\ UNCHANGED <<stop_, shutdown_, main, matching, outbound, notes, events>>

inbound_leave ==
  /\ inbound.at = "loop" /\ inbound.burst = 0 /\ inbound.push = {} /\ shutdown_
  /\ inbound' = [inbound EXCEPT !.at = "done"]
  /\ UNCHANGED <<stop_, shutdown_, main, matching, outbound, rings>>

Inbound == on_tcp_event_ \/ push_note_ \/ push_request \/ inbound_leave
-----------------------------------------------------------------------------
(* The matching thread: handleMatching() with one request read ahead.      *)

matching_leave ==
  /\ matching.at = "loop" /\ stop_
  /\ matching' = [matching EXCEPT !.at = "done"]
  /\ UNCHANGED <<stop_, shutdown_, main, inbound, outbound, rings>>

(* An iteration begins with a look at the flag. *)
matching_begin ==
  /\ matching.at = "loop" /\ ~ stop_
  /\ matching' = [matching EXCEPT !.at = "poll"]
  /\ UNCHANGED <<stop_, shutdown_, main, inbound, outbound, rings>>

(* Nothing in hand and nothing in the ring. *)
nothing_to_take ==
  /\ matching.at = "poll" /\ matching.cur = 0 /\ requests = 0
  /\ matching' = [matching EXCEPT !.at = "loop"]
  /\ UNCHANGED <<stop_, shutdown_, main, inbound, outbound, rings>>

(* A request if there was none in hand, and another one if there is one. *)
take ==
  LET cur == IF matching.cur = 1 THEN 1 ELSE IF requests > 0 THEN 1 ELSE 0
      left == requests - (cur - matching.cur)
      nxt == IF left > 0 THEN 1 ELSE 0
  IN  /\ matching.at = "poll" /\ cur = 1
      /\ requests' = left - nxt
      /\ \E n \in 0..MaxEvents :
           matching' = [at |-> "execute", cur |-> cur, nxt |-> nxt, emit |-> n]
      /\ UNCHANGED <<stop_, shutdown_, main, inbound, outbound, notes, events>>

(* emit(): until there is room. *)
emit ==
  /\ matching.at = "execute" /\ matching.emit > 0
  /\ events < RingCapacity
  /\ events' = events + 1
  /\ matching' = [matching EXCEPT !.emit = @ - 1]
  /\ UNCHANGED <<stop_, shutdown_, main, inbound, outbound, requests, notes>>

executed ==
  /\ matching.at = "execute" /\ matching.emit = 0
  /\ matching' = [at |-> "loop", cur |-> matching.nxt, nxt |-> 0, emit |-> 0]
  /\ UNCHANGED <<stop_, shutdown_, main, inbound, outbound, rings>>

Matching == matching_leave \/ matching_begin \/ nothing_to_take \/ take \/ emit \/ executed
-----------------------------------------------------------------------------
(* The outbound thread.  shutdown_ is looked at once per iteration.        *)
outbound_begin ==
  /\ outbound.at = "loop" /\ ~ shutdown_
  /\ outbound' = [at |-> "drain", left |-> kOutboundBatch]
  /\ UNCHANGED <<stop_, shutdown_, main, inbound, matching, rings>>

(* drain_notes(), before every event and first of all. *)
drain_notes ==
  /\ outbound.at = "drain"
  /\ notes' = 0
  /\ outbound' = [outbound EXCEPT !.at = "batch"]
  /\ UNCHANGED <<stop_, shutdown_, main, inbound, matching, requests, events>>

pop_event ==
  /\ outbound.at = "batch" /\ outbound.left > 0 /\ events > 0
  /\ events' = events - 1
  /\ outbound' = [at |-> "drain", left |-> outbound.left - 1]
  /\ UNCHANGED <<stop_, shutdown_, main, inbound, matching, requests, notes>>

(* The batch is done or there is no event; flush_() and heartbeat_() wait  *)
(* for nobody.                                                             *)
outbound_again ==
  /\ outbound.at = "batch" /\ (outbound.left = 0 \/ events = 0)
  /\ outbound' = [at |-> "loop", left |-> 0]
  /\ UNCHANGED <<stop_, shutdown_, main, inbound, matching, rings>>

outbound_leave ==
  /\ outbound.at = "loop" /\ shutdown_
  /\ outbound' = [outbound EXCEPT !.at = "done"]
  /\ UNCHANGED <<stop_, shutdown_, main, inbound, matching, rings>>

Outbound == outbound_begin \/ drain_notes \/ pop_event \/ outbound_again \/ outbound_leave
-----------------------------------------------------------------------------
Next == signal \/ Main \/ receive_burst \/ Inbound \/ Matching \/ Outbound

(* Every thread runs; messages and signals need not come. *)
Spec == /\ Init /\ [][Next]_vars
        /\ WF_vars(Main) /\ WF_vars(Inbound) /\ WF_vars(Matching) /\ WF_vars(Outbound)
-----------------------------------------------------------------------------
(* After a signal the process ends, unless the matching thread is in       *)
(* emit() and the ring of events stays full: there is no other way for the *)
(* exchange to hang.  The two threads of the server leave in any case,     *)
(* whatever the rings hold: "spin until there's room or we're shutting     *)
(* down".                                                                  *)
EndsUnlessRingIsFull ==
  stop_ ~> \/ main = "done"
           \/ [](/\ inbound.at = "done" /\ outbound.at = "done"
                /\ matching.emit > 0 /\ events = RingCapacity)

(* "the engine's matching thread watches stop_ itself", and a full ring of *)
(* events "only means a transient backpressure spike, not a stuck          *)
(* consumer": the process ends after a signal.                             *)
EngineStops == stop_ ~> (main = "done")
=============================================================================
