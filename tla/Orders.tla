------------------------------- MODULE Orders -------------------------------
(***************************************************************************)
(* The in-memory order store (domain/orders/service.go) and what its       *)
(* controller makes of a request for it (app/controller/orders).  A store  *)
(* operation holds the store's mutex throughout, so it is one step.        *)
(*                                                                         *)
(* An order is its id, and an id the number it is printed from.            *)
(***************************************************************************)
EXTENDS Integers, Sequences

CONSTANTS
  DefaultLimit,   \* orders on a page when the client names no limit
  MaxLimit        \* most orders on a page

ASSUME OrdersAssumption ==
  MaxLimit \in Nat \ {0} /\ DefaultLimit \in 1..MaxLimit

NoCursor == 0
NoLimit == -1

Store == [seq : Nat, ids : Seq(Nat)]
EmptyStore == [seq |-> 0, ids |-> <<>>]

-----------------------------------------------------------------------------
(* The store *)

(* Faulty: the newest order first. *)
CreateFirst(store) == [seq |-> store.seq + 1, ids |-> <<store.seq + 1>> \o store.ids]

Create(store) == [seq |-> store.seq + 1, ids |-> Append(store.ids, store.seq + 1)]
Created(store) == store.seq + 1

Holds(store, id) == \E i \in DOMAIN store.ids : store.ids[i] = id

(* How many orders come before the page: those up to the cursor, or all when no order has it. *)
StartAfter(store, cursor) ==
  IF cursor = NoCursor THEN 0
  ELSE IF Holds(store, cursor) THEN CHOOSE i \in DOMAIN store.ids : store.ids[i] = cursor
  ELSE Len(store.ids)

Least(a, b) == IF a <= b THEN a ELSE b

(* The page and the cursor of the next, if orders are left. *)
List(store, limit, cursor) ==
  LET start == StartAfter(store, cursor)
      end == Least(start + limit, Len(store.ids))
  IN [page |-> SubSeq(store.ids, start + 1, end),
      next |-> IF start < end /\ end < Len(store.ids) THEN store.ids[end] ELSE NoCursor]

-----------------------------------------------------------------------------
(* The controller *)

(* The limit the client asked for, brought between one and the most. *)
PageLimit(limit) ==
  IF limit = NoLimit THEN DefaultLimit
  ELSE IF limit < 1 THEN 1
  ELSE Least(limit, MaxLimit)

(* What the handler answers, and the store it leaves. *)
Handled(store, op) ==
  CASE op.kind = "create" ->
         IF op.valid THEN [store |-> Create(store), answer |-> [status |-> 201, id |-> Created(store)]]
         ELSE [store |-> store, answer |-> [status |-> 400]]
    [] op.kind = "get" ->
         [store |-> store, answer |-> [status |-> IF Holds(store, op.id) THEN 200 ELSE 404]]
    [] op.kind = "list" ->
         [store |-> store,
          answer |-> [status |-> 200, list |-> List(store, PageLimit(op.limit), op.cursor)]]
=============================================================================
