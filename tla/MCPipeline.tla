----------------------------- MODULE MCPipeline -----------------------------
(* Small deployments: what is configured, what clients ask, what other     *)
(* programs produce, and what may fail.                                    *)
EXTENDS PipelineProperties

MCClient == {"c1", "c2", "c3"}

MCMarkets == [BTC |-> [minAmount |-> 1, minTotal |-> 2, priceTick |-> 2,
                       amountTick |-> 1]]

Body(type, price) == [symbol |-> "BTC", type |-> type, price |-> price, amount |-> 1]

Good   == Body("limit", 2)
Stop   == Body("stop_limit", 2)
Market == Body("market", 0)
OffTick == Body("limit", 3)

Ask(op, via, body, target) ==
  [op |-> op, via |-> via, user |-> 1, parses |-> TRUE, body |-> body,
   target |-> target]
Submit(via, body) == Ask("submit", via, body, 0)
Cancel(via, id) == Ask("cancel", via, Good, id)
Silent == [Cancel("grpc", 0) EXCEPT !.parses = FALSE]

Requests(r1, r2, r3) == [c \in MCClient |-> CASE c = "c1" -> r1
                                              [] c = "c2" -> r2
                                              [] c = "c3" -> r3]

Deploy(producer, consumer, request, messages) ==
  [producer |-> producer, consumer |-> consumer, request |-> request,
   upstream |-> messages, restarts |-> 0, rebalances |-> FALSE,
   signal |-> FALSE, faults |-> {}]

NoRequests == Requests(Silent, Silent, Silent)
Trading(id) ==
  Requests(Submit("http", Good), Submit("grpc", Good), Cancel("http", id))

MCDeployments ==
  { \* two orders and a cancel, with each producer
    Deploy("async", FALSE, Requests(Submit("http", Good), Submit("grpc", Market), Cancel("http", 1)), <<>>),
    Deploy("sync", FALSE, Trading(1), <<>>),
    Deploy("sync", FALSE, Trading(2), <<>>),
    \* failing writes, and brokers that do not answer
    [Deploy("sync", FALSE, Requests(Submit("grpc", Good), Submit("grpc", Market), Silent), <<>>)
       EXCEPT !.faults = {"rows"}],
    [Deploy("async", FALSE, Requests(Submit("grpc", Good), Silent, Cancel("grpc", 1)), <<>>)
       EXCEPT !.faults = {"brokers"}, !.signal = TRUE],
    [Deploy("sync", FALSE, Requests(Submit("grpc", Good), Silent, Cancel("http", 1)), <<>>)
       EXCEPT !.faults = {"brokers"}, !.signal = TRUE],
    \* a signal while calls are under way
    [Deploy("none", FALSE, Requests(Submit("http", Good), Submit("http", Stop), Cancel("http", 1)), <<>>)
       EXCEPT !.signal = TRUE],
    [Deploy("sync", FALSE, Requests(Submit("http", Good), Submit("grpc", OffTick), Silent), <<>>)
       EXCEPT !.signal = TRUE],
    \* messages, a crash and a rebalance
    [Deploy("none", TRUE, NoRequests, <<Good, Garbage, OffTick, Good>>)
       EXCEPT !.restarts = 1, !.rebalances = TRUE, !.signal = TRUE],
    \* the configuration of the repository: updates come back as orders
    Deploy("async", TRUE, Requests(Submit("grpc", Good), Silent, Silent), <<>>) }

MCCaller == MCClient \cup {"consumer"}
MCEmitter == MCClient \cup {"matcher"}
=============================================================================
