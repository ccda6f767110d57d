------------------------------- MODULE Server -------------------------------
(***************************************************************************)
(* Serving the orders API: a request goes through the middlewares of       *)
(* App.Run (app/app.go, pkg/http/middleware.go) to the orders controller   *)
(* and store, and its client hears an answer.                              *)
(*                                                                         *)
(* TimeoutMW runs the handler in a goroutine of its own, which writes into *)
(* a buffer and says it is done over a channel; the chain waits for that   *)
(* or for the deadline.  A handler that misses the deadline runs on.  A    *)
(* request that asks for a websocket, of whichever route, bypasses it: its *)
(* handler runs in the chain's own goroutine and writes to the connection. *)
(*                                                                         *)
(* RequestID and RequestLogger change nothing a client or a handler can    *)
(* tell apart, and no auth middleware is installed.                        *)
(***************************************************************************)
EXTENDS Orders

CONSTANTS
  Request,     \* bound: requests under way at once
  Upgrading,   \* bound: the kinds of requests that come with "Upgrade: websocket"
  Nil,         \* nothing written yet, no walk
  MaxOrders    \* bound: orders created

ASSUME ServerAssumption ==
  Nil \notin Request /\ Upgrading \subseteq {"create", "get", "list", "socket"}

VARIABLES
  store,       \* the orders
  calls,       \* the requests, with their handler's goroutine
  walk         \* a client that reads the whole list, page by page

serverVars == <<store, calls, walk>>

(* upgrade: it has the header "Upgrade: websocket"; chain: the middlewares' goroutine; handler:  *)
(* the one TimeoutMW starts, or the same one, todo: what it is to do; buffer: what it answers;   *)
(* done: its channel; sent: what the client was sent.                                            *)
Idle == [upgrade |-> FALSE, chain |-> "heard", handler |-> "ended", todo |-> Nil, buffer |-> Nil,
         done |-> <<>>, sent |-> <<>>]

Waits(r) == calls[r].chain = "waiting"
Direct(r) == calls[r].chain = "direct"
Handles(r, stages) == calls[r].handler \in stages

(* What is over for the client and for the handler leaves nothing behind. *)
Over(call) == call.chain = "heard" /\ call.handler \in {"ended", "panicked"}
Becomes(r, call) == calls' = [calls EXCEPT ![r] = IF Over(call) THEN Idle ELSE call]

(* Besides the lists that are walked.  The order asked for may not be there yet. *)
Ops ==
  [kind : {"create"}, valid : BOOLEAN]
    \union [kind : {"get"}, id : {1}]
    \union [kind : {"preflight", "socket"}]

-----------------------------------------------------------------------------
(* The chain *)

Sent(r, answer) == [calls[r] EXCEPT !.chain = "returned", !.sent = Append(@, answer)]

(* CORS answers a preflight itself. *)
Preflight(r) == Sent(r, [status |-> 204])

(* A websocket upgrade bypasses TimeoutMW; anything else gets a goroutine. *)
Started(op, upgrade) ==
  [Idle EXCEPT !.upgrade = upgrade, !.chain = IF upgrade THEN "direct" ELSE "waiting",
               !.handler = "begins", !.todo = op]

Arrives(r, op, upgrade) ==
  /\ calls[r] = Idle
  /\ Becomes(r, IF op.kind = "preflight" THEN Preflight(r) ELSE Started(op, upgrade))

(* Recover answers for a handler that panicked, unless it meant to abort the connection, or has  *)
(* sent its status: then what it sent stands.                                                    *)
Recovered(r, how) ==
  IF how = "abort" THEN [calls[r] EXCEPT !.chain = "aborted"]
  ELSE IF calls[r].sent # <<>> THEN [calls[r] EXCEPT !.chain = "returned"]
  ELSE Sent(r, [status |-> 500])

Flushed(r) == Sent(r, calls[r].buffer)

(* The goroutine is done: the buffer goes out, or its panic goes on to Recover. *)
Completes(r) ==
  /\ Waits(r) /\ calls[r].done # <<>>
  /\ LET how == Head(calls[r].done)
         answered == IF how = "acted" THEN Flushed(r) ELSE Recovered(r, how)
     IN Becomes(r, [answered EXCEPT !.done = <<>>])
  /\ UNCHANGED <<store, walk>>

(* The deadline passes, or the client is gone. *)
TimesOut(r) ==
  /\ Waits(r)
  /\ Becomes(r, Sent(r, [status |-> 504]))
  /\ UNCHANGED <<store, walk>>

-----------------------------------------------------------------------------
(* The handler *)

(* Faulty: the handler writes to the connection. *)
WritesThrough(r) ==
  /\ Handles(r, {"begins"})
  /\ calls[r].todo.kind # "socket"
  /\ LET handled == Handled(store, calls[r].todo)
     IN /\ store' = handled.store
        /\ Becomes(r, [calls[r] EXCEPT !.handler = "acted", !.todo = Nil, !.buffer = handled.answer,
                                       !.sent = Append(@, handled.answer)])
  /\ UNCHANGED walk

(* The store operation, and the answer: into the buffer, if there is one. *)
Acts(r) ==
  /\ Handles(r, {"begins"})
  /\ calls[r].todo.kind # "socket"
  /\ calls[r].todo.kind = "create" => Len(store.ids) < MaxOrders
  /\ LET handled == Handled(store, calls[r].todo)
     IN /\ store' = handled.store
        /\ Becomes(r, [calls[r] EXCEPT !.handler = "acted", !.todo = Nil, !.buffer = handled.answer])
  /\ UNCHANGED walk

(* Before it acts, or after, with its answer in the buffer. *)
Panics(r) ==
  /\ Handles(r, {"begins", "acted"}) /\ ~Direct(r)
  /\ \E how \in {"panic", "abort"} : Becomes(r, [calls[r] EXCEPT !.handler = how, !.todo = Nil])
  /\ UNCHANGED <<store, walk>>

(* The channel holds one value, received or not. *)
CanSend(r) == Len(calls[r].done) < 1

(* The deferred send of what recover() caught. *)
Ends(r) ==
  /\ Handles(r, {"acted", "panic", "abort"}) /\ ~Direct(r) /\ CanSend(r)
  /\ Becomes(r, [calls[r] EXCEPT !.done = Append(@, calls[r].handler),
                                 !.handler = IF @ = "acted" THEN "ended" ELSE "panicked"])
  /\ UNCHANGED <<store, walk>>

-----------------------------------------------------------------------------
(* A handler that writes to the connection: no deadline, and no buffer to drop *)

(* A socket's takes the connection over, or refuses to upgrade; any other writes what it answers, *)
(* unless the server's WriteTimeout has passed and ends the connection.                           *)
DirectWrites(r) ==
  /\ Direct(r)
  /\ \/ /\ Handles(r, {"begins"}) /\ calls[r].todo.kind = "socket"
        /\ \E status \in {101, 400, 500} :
             Becomes(r, [calls[r] EXCEPT !.handler = "wrote", !.todo = Nil,
                                         !.sent = Append(@, [status |-> status])])
     \/ /\ Handles(r, {"acted"})
        /\ Becomes(r, [calls[r] EXCEPT !.handler = "wrote", !.sent = Append(@, calls[r].buffer)])
     \/ /\ Handles(r, {"acted"})
        /\ Becomes(r, [calls[r] EXCEPT !.handler = "ended", !.chain = "aborted"])
  /\ UNCHANGED <<store, walk>>

DirectReturns(r) ==
  /\ Direct(r) /\ Handles(r, {"wrote"})
  /\ Becomes(r, [calls[r] EXCEPT !.handler = "ended", !.chain = "returned"])
  /\ UNCHANGED <<store, walk>>

(* Before it acts, before it writes, or half-way through its body: straight to Recover. *)
DirectPanics(r) ==
  /\ Direct(r)
  /\ \E how \in {"panic", "abort"} :
       Becomes(r, [Recovered(r, how) EXCEPT !.handler = "panicked", !.todo = Nil])
  /\ UNCHANGED <<store, walk>>

-----------------------------------------------------------------------------
(* Clients *)

(* With or without the header; a socket's route without it refuses as an invalid create does. *)
Asks(r) ==
  /\ \E op \in Ops, upgrade \in BOOLEAN :
       /\ upgrade => op.kind \in Upgrading
       /\ op.kind = "socket" => upgrade
       /\ Arrives(r, op, upgrade)
  /\ UNCHANGED <<store, walk>>

(* A walk begins at the head of the list; known: the orders there were (history). *)
WalkBegins ==
  /\ walk = Nil
  /\ \E limit \in {NoLimit, MaxLimit + 1} :
       walk' = [limit |-> limit, cursor |-> NoCursor, seen |-> <<>>, known |-> Len(store.ids),
                on |-> Nil, over |-> FALSE]
  /\ UNCHANGED <<store, calls>>

WalkAsks(r) ==
  /\ walk # Nil /\ walk.on = Nil /\ ~walk.over
  /\ Arrives(r, [kind |-> "list", limit |-> walk.limit, cursor |-> walk.cursor], FALSE)
  /\ walk' = [walk EXCEPT !.on = r]
  /\ UNCHANGED store

(* The walk takes a page it is sent, and asks again for one it is not. *)
Walked(answers) ==
  IF answers # <<>> /\ answers[1].status = 200
  THEN [walk EXCEPT !.seen = @ \o answers[1].list.page, !.cursor = answers[1].list.next, !.on = Nil,
                    !.over = answers[1].list.next = NoCursor]
  ELSE [walk EXCEPT !.on = Nil]

Hears(r) ==
  /\ calls[r].chain \in {"returned", "aborted"}
  /\ Becomes(r, [calls[r] EXCEPT !.chain = "heard"])
  /\ walk' = IF walk # Nil /\ walk.on = r THEN Walked(calls[r].sent) ELSE walk
  /\ UNCHANGED store

-----------------------------------------------------------------------------

ServerInit ==
  /\ store = EmptyStore
  /\ calls = [r \in Request |-> Idle]
  /\ walk = Nil

ServerNext ==
  \/ WalkBegins
  \/ \E r \in Request :
       \/ Asks(r) \/ Completes(r) \/ TimesOut(r)
       \/ Acts(r) \/ Panics(r) \/ Ends(r)
       \/ DirectWrites(r) \/ DirectReturns(r) \/ DirectPanics(r)
       \/ WalkAsks(r) \/ Hears(r)

ServerSpec == ServerInit /\ [][ServerNext]_serverVars

-----------------------------------------------------------------------------
(* Safety *)

(* A client is sent one answer, unless the connection is ended, however the deadline races the   *)
(* handler's end or its panic: nothing a late handler writes follows the 504, and Recover's 500  *)
(* follows nothing.  An order a 201 names is in the store.  Behind TimeoutMW a success is the    *)
(* word of a handler that has ended without a panic; one that bypasses it may yet panic, and     *)
(* what it sent stands (TimeoutMW, bufferedWriter, statusWriter, Recover).                       *)
OneAnswer ==
  \A r \in Request :
    LET call == calls[r] IN
    /\ Len(call.sent) <= 1
    /\ call.chain = "returned" => Len(call.sent) = 1
    /\ call.sent # <<>> /\ call.sent[1].status \in {200, 201} =>
         /\ call.sent[1].status = 201 => Holds(store, call.sent[1].id)
         /\ ~call.upgrade => call.handler = "ended" /\ call.sent[1] = call.buffer

(* A client that follows the cursors sees the orders in order, none twice and none left out, and *)
(* at the end every one there was when it began, while others create orders and pages time out   *)
(* and are asked for again (List, ListOrders).                                                   *)
PagesCoverOrders ==
  walk # Nil =>
    /\ Len(walk.seen) <= Len(store.ids) /\ walk.seen = SubSeq(store.ids, 1, Len(walk.seen))
    /\ walk.over => Len(walk.seen) >= walk.known
=============================================================================
