--------------------------- MODULE OrderPlacement ---------------------------
(***************************************************************************)
(* How a batch of plans becomes orders: ExecutionGatewayService.execute    *)
(* takes the plans one after the other, the broker looks up the position   *)
(* and the product, asks for a preview, creates the order and asks for its *)
(* fills, and every one of these requests goes through one client that     *)
(* tries again after a busy exchange or a broken connection.  RT's         *)
(* submissions and the risk brake share the client.                        *)
(***************************************************************************)
EXTENDS Integers, FiniteSets, Sequences

CONSTANTS
  Threads,    \* those that execute batches
  Batch,      \* the number of plans of a batch
  Retries,    \* max_retries of the client
  MaxBatches, \* bound: batches
  MaxFaults   \* bound: broken connections and busy replies

VARIABLES
  client,  \* the client in use; a broken connection replaces it
  orders,  \* the orders on the exchange
  call,    \* per thread, the batch it executes and the request it is at
  batches, faults

vars == <<client, orders, call, batches, faults>>

Request == {"position", "product", "preview", "create", "fills"}
Outcome == {"filled", "unconfirmed", "refused", "technical"}

Idle == [pc |-> "idle", batch |-> 0, plan |-> 0, attempt |-> 0, uses |-> 0,
         reached |-> FALSE, results |-> <<>>, told |-> "nothing"]

TypeOK ==
  /\ client \in 0 .. MaxFaults /\ batches \in 0 .. MaxBatches /\ faults \in 0 .. MaxFaults
  /\ orders \subseteq [batch : 1 .. MaxBatches, plan : 1 .. Batch, id : 0 .. Retries]
  /\ \A t \in Threads : /\ call[t].pc \in {"idle"} \cup Request
                        /\ call[t].told \in {"nothing", "results", "error"}
                        /\ \A i \in DOMAIN call[t].results : call[t].results[i] \in Outcome

Init ==
  /\ client = 0 /\ orders = {} /\ batches = 0 /\ faults = 0
  /\ call = [t \in Threads |-> Idle]

-----------------------------------------------------------------------------
\* Mutant of OrderId: every attempt carries an id of its own.
OrderIdPerAttempt(c) == c.attempt

\* client_order_id: chosen once, before the request and its repetitions.
OrderId(c) == 0

Order(c) == [batch |-> c.batch, plan |-> c.plan, id |-> OrderId(c)]
Accepted(c) == Order(c) \in orders

\* A request goes out through the client of that moment.
Ask(c, request) == [c EXCEPT !.pc = request, !.attempt = 0, !.uses = client, !.reached = FALSE]

\* A plan has its result, and the next one is taken.
Record(c, outcome) ==
  LET told == [c EXCEPT !.results = Append(@, outcome)]
  IN  IF c.plan = Batch THEN [told EXCEPT !.pc = "idle", !.told = "results"]
                        ELSE Ask([told EXCEPT !.plan = @ + 1], "position")

\* An exception leaves the loop over the plans: what the others came to is lost.
Raise(c) == [c EXCEPT !.pc = "idle", !.told = "error", !.results = <<>>]

Becomes(t, c) == call' = [call EXCEPT ![t] = c]

Execute(t) ==
  /\ call[t].pc = "idle" /\ batches < MaxBatches
  /\ batches' = batches + 1
  /\ Becomes(t, Ask([Idle EXCEPT !.batch = batches + 1, !.plan = 1], "position"))
  /\ UNCHANGED <<client, orders, faults>>

\* The exchange receives the request: it takes an order unless it knows its id.
Reach(t) ==
  LET c == call[t]
  IN /\ c.pc # "idle" /\ ~c.reached
     /\ Becomes(t, [c EXCEPT !.reached = TRUE])
     /\ \/ c.pc = "create" /\ orders' = orders \cup {Order(c)}
        \/ UNCHANGED orders
     /\ UNCHANGED <<client, batches, faults>>

\* The reply arrives.  A plan that reduces ends where there is no position; a
\* product fetched in the last five seconds is not asked for.
Reply(t) ==
  LET c == call[t]
  IN /\ c.pc # "idle" /\ c.reached
     /\ CASE c.pc = "position" -> \/ Becomes(t, Ask(c, "product")) \/ Becomes(t, Ask(c, "preview"))
                                  \/ Becomes(t, Record(c, "refused"))
          [] c.pc = "product"  -> Becomes(t, Ask(c, "preview"))
          [] c.pc = "preview"  -> Becomes(t, Ask(c, "create")) \/ Becomes(t, Record(c, "refused"))
          [] c.pc = "create" /\ Accepted(c)  -> Becomes(t, Ask(c, "fills")) \/ Becomes(t, Record(c, "unconfirmed"))
          [] c.pc = "create" /\ ~Accepted(c) -> Becomes(t, Record(c, "refused")) \/ Becomes(t, Record(c, "technical"))
          [] c.pc = "fills"    -> Becomes(t, Record(c, "filled"))
     /\ UNCHANGED <<client, orders, batches, faults>>

\* Another try, through the client of that moment, or the end of the batch.
Again(c, used) ==
  IF c.attempt = Retries THEN Raise(c) ELSE [c EXCEPT !.attempt = @ + 1, !.uses = used, !.reached = FALSE]

\* One of the statuses that are tried again, whatever became of the request.
Busy(t) ==
  /\ call[t].pc # "idle" /\ call[t].reached /\ faults < MaxFaults
  /\ faults' = faults + 1
  /\ Becomes(t, Again(call[t], client))
  /\ UNCHANGED <<client, orders, batches>>

\* The connection breaks before the exchange has the request or before the reply
\* is here, and the client is closed and replaced for everyone.
Broken(t) ==
  /\ call[t].pc # "idle" /\ faults < MaxFaults
  /\ faults' = faults + 1
  /\ client' = client + 1
  /\ Becomes(t, Again(call[t], client + 1))
  /\ UNCHANGED <<orders, batches>>

\* A request through a client somebody has closed raises what is not an error of
\* the transport, and is not tried again.
Closed(t) ==
  /\ call[t].pc # "idle" /\ call[t].uses # client
  /\ Becomes(t, Raise(call[t]))
  /\ UNCHANGED <<client, orders, batches, faults>>

\* A status that is not tried again.  The exchange refuses without placing.
Refused(t) ==
  /\ call[t].pc # "idle" /\ call[t].reached
  /\ ~(call[t].pc = "create" /\ Accepted(call[t]))
  /\ Becomes(t, Raise(call[t]))
  /\ UNCHANGED <<client, orders, batches, faults>>

Next == \E t \in Threads : \/ Execute(t) \/ Reach(t) \/ Reply(t) \/ Busy(t)
                           \/ Broken(t) \/ Closed(t) \/ Refused(t)
Spec == Init /\ [][Next]_vars

-----------------------------------------------------------------------------
Placed(batch, plan) == {o \in orders : o.batch = batch /\ o.plan = plan}

\* Whatever is lost on the way, a plan of a batch is placed at most once; a result
\* says truly whether it was; and a plan is placed only after the ones before it
\* have been settled (ExecutionGatewayService.execute, CoinbaseTransport._request).
PlacedOnceAsTold ==
  /\ \A o \in orders : Cardinality(Placed(o.batch, o.plan)) = 1
  /\ \A t \in Threads : \A i \in DOMAIN call[t].results :
       (call[t].results[i] \in {"filled", "unconfirmed"}) <=> (Placed(call[t].batch, i) # {})
  /\ \A t \in Threads, i \in 1 .. Batch :
       call[t].told # "error" /\ i > Len(call[t].results) + 1 => Placed(call[t].batch, i) = {}

\* A batch that raised has placed nothing.  It does not hold: the reply to an
\* order may be lost on the last try, the fills may be refused after the order was
\* taken, and the plans before the one that raised were executed.
ErrorPlacedNothing ==
  \A t \in Threads : call[t].told = "error" => \A i \in 1 .. Batch : Placed(call[t].batch, i) = {}
=============================================================================
