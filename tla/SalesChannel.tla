---------------------------- MODULE SalesChannel ----------------------------
(***************************************************************************)
(* The sales of a session as Redis knows them: the key session:sales:{id}, *)
(* incremented by whoever sells, and the channel session:sales:update, on  *)
(* which the seller publishes the new count.  Every pod's subscriber       *)
(* writes the count of each message it gets into the same key, in the      *)
(* order of its connection.  Pub/sub keeps nothing for a pod that is not   *)
(* connected.                                                              *)
(***************************************************************************)
EXTENDS Integers, Sequences

CONSTANTS
  Pods,       \* the processes, each with a subscriber and a session worker
  MaxSession  \* the sessions are 1..MaxSession

VARIABLES
  sales,  \* sales[s]: the key session:sales:{s}, or NoKey
  chan    \* chan[p]: the sales messages on their way to pod p

Sessions == 1..MaxSession
NoKey    == -1
Message  == [session: Sessions, count: Nat \ {0}]

SalesOK == sales \in [Sessions -> {NoKey} \cup Nat] /\ chan \in [Pods -> Seq(Message)]

\* GET and INCR read a missing key as 0.
Count(s) == IF sales[s] = NoKey THEN 0 ELSE sales[s]

\* INCR.
Incr(s) == sales' = [sales EXCEPT ![s] = Count(s) + 1]

\* PUBLISH to the pods in R, those connected at this moment.
PublishTo(R, s, n) ==
  chan' = [p \in Pods |-> IF p \in R THEN Append(chan[p], [session |-> s, count |-> n]) ELSE chan[p]]

\* A slip a change to the code could make: INCRBY for SET, the count taken for a difference.
OverwriteAdds(s, n) == sales' = [sales EXCEPT ![s] = Count(s) + n]

\* The SET of handleSalesUpdate.
Overwrite(s, n) == sales' = [sales EXCEPT ![s] = n]

HandleSalesUpdate(p) ==
  /\ chan[p] # <<>>
  /\ Overwrite(Head(chan[p]).session, Head(chan[p]).count)
  /\ chan' = [chan EXCEPT ![p] = Tail(@)]

\* A failing SET is logged and the message forgotten.
StoreFails(p) ==
  /\ chan[p] # <<>>
  /\ chan' = [chan EXCEPT ![p] = Tail(@)]
  /\ UNCHANGED sales

\* The connection is lost, and with it what was on its way.
Disconnect(p) ==
  /\ chan[p] # <<>>
  /\ chan' = [chan EXCEPT ![p] = <<>>]
  /\ UNCHANGED sales
=============================================================================
