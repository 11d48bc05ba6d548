------------------------------ MODULE Streaming ------------------------------
(* market/streaming.py: the reconnect loop that every long-lived public       *)
(* websocket shares. A stream is where its loop stands and how many           *)
(* connections in a row have failed without yielding an item. The delay of a  *)
(* backoff is not timed: a sleeping stream may wake at any moment.            *)
EXTENDS Naturals

CONSTANT MaxReconnects      \* max_reconnect_attempts

ASSUME StreamingAssumption == MaxReconnects \in Nat

(* The link is "open" inside open_once(), "backoff" when asleep, "exhausted"  *)
(* once FeedExhausted was raised, "died" when an exception the loop does not  *)
(* catch ended it, and "off" when it was never started.                       *)

(* A loop that has just been started opens its first connection.              *)
Opened == [link |-> "open", attempt |-> 0]

Disabled == [link |-> "off", attempt |-> 0]

(* Mutation: an item does not reset the counter, so that failures of          *)
(* different outages add up.                                                  *)
YieldedKeepsCount(s) == s

(* Any item yielded resets the counter.                                       *)
Yielded(s) == [s EXCEPT !.attempt = 0]

(* The connection failed, was closed, or was silent for too long.             *)
Failed(s) ==
  [link    |-> IF s.attempt + 1 > MaxReconnects THEN "exhausted" ELSE "backoff",
   attempt |-> s.attempt + 1]

(* The sleep is over and open_once() is called again.                         *)
Reopened(s) == [s EXCEPT !.link = "open"]

=============================================================================
