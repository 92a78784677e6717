---------------------------- MODULE StopListening ----------------------------
(***************************************************************************)
(* Util/socket: the statistics a Socket keeps of its own work and the      *)
(* StopListeningCondition that decides, from them, when Listen() gives     *)
(* control back.  A condition is a tree: NONE, IDENTITY with a limit on    *)
(* some counters, or NOT, AND, OR, XOR of conditions.  StopConditions      *)
(* evaluates the tree.                                                     *)
(***************************************************************************)
EXTENDS Integers, Sequences, TLC

\* SocketStats, the counters the conditions and the retries look at.
ErrorsLight == {"event_errors", "client_errors", "server_errors"}
Errors == ErrorsLight \cup {"errors", "bind_errors", "select_errors", "receive_errors",
                            "send_errors", "connection_errors", "disconnect_errors"}
SendReceiveCounts == {"peak", "current", "distinct", "nulls", "sent_bytes", "sent_transactions",
                      "received_bytes", "received_transactions"}
TimerFields == {"msec_since_last_event", "msec_waiting_to_connect"}
Counters == Errors \cup SendReceiveCounts \cup TimerFields

NoStats == [c \in Counters |-> 0]
Zeroed(stats, fields) == [c \in Counters |-> IF c \in fields THEN 0 ELSE stats[c]]
Counted(stats, fields) == [c \in Counters |-> IF c \in fields THEN stats[c] + 1 ELSE stats[c]]
ResetSocketStatsLight(stats) == Zeroed(stats, SendReceiveCounts \cup ErrorsLight)

\* The order in which a leaf looks for the counter it limits, and the code
\* that Listen() returns when the limit is reached.
LeafOrder ==
  << << "errors", "TOO_MANY_ERRORS" >>,
     << "client_errors", "CLIENT_SOCKET_ERROR_EVENT" >>,
     << "server_errors", "SERVER_SOCKET_ERROR_EVENT" >>,
     << "select_errors", "SELECT_ERROR" >>,
     << "event_errors", "ERROR_EVENT" >>,
     << "send_errors", "SEND_ERROR" >>,
     << "receive_errors", "RECEIVE_ERROR" >>,
     << "connection_errors", "CONNECT_ERROR" >>,
     << "disconnect_errors", "DISCONNECT_ERROR" >>,
     << "msec_since_last_event", "NO_ACTIVITY" >>,
     << "current", "TOO_MANY_CONNECTIONS" >>,
     << "distinct", "CUMULATIVE_CONNECTIONS_THRESHOLD" >>,
     << "sent_bytes", "CUMULATIVE_BYTES_SENT" >>,
     << "sent_transactions", "CUMULATIVE_SEND_TRANSACTIONS" >>,
     << "received_bytes", "CUMULATIVE_BYTES_RECEIVED" >>,
     << "received_transactions", "CUMULATIVE_RECEIVE_TRANSACTIONS" >>,
     << "nulls", "CUMULATIVE_RECEIVE_NULL_CHARS" >> >>

\* limits holds the fields that are not at their default value.
Leaf(limits) == [op |-> "IDENTITY", limits |-> limits]
None == [op |-> "NONE"]
Not(left) == [op |-> "NOT", left |-> left]
Both(op, left, right) == [op |-> op, left |-> left, right |-> right]
\* StopListeningCondition(): stop at the first error.
DefaultCondition == Leaf("errors" :> 1)

Reached(stats, counter, limit) ==
  \/ stats[counter] >= limit
  \/ counter = "current" /\ stats["peak"] >= limit
\* A leaf is decided by the first of its limits alone.
LeafKeeps(stats, limits, codes) ==
  LET first == CHOOSE i \in DOMAIN LeafOrder :
                 /\ LeafOrder[i][1] \in DOMAIN limits
                 /\ \A j \in 1 .. i - 1 : LeafOrder[j][1] \notin DOMAIN limits
      counter == LeafOrder[first][1]
  IN  IF Reached(stats, counter, limits[counter])
      THEN [keep |-> FALSE, codes |-> codes \cup {LeafOrder[first][2]}]
      ELSE [keep |-> TRUE, codes |-> codes]

\* SetListenTimeout on the condition in use, or on the one that is not.
TimedOut(inUse, condition, ms) ==
  IF inUse THEN Both("OR", condition, Leaf("msec_since_last_event" :> ms))
  ELSE LET others == IF condition.op = "IDENTITY" THEN DOMAIN condition.limits \ {"errors"} ELSE {}
       IN  Leaf([c \in others \cup {"msec_since_last_event"} |->
                   IF c = "msec_since_last_event" THEN ms ELSE condition.limits[c]])
==============================================================================
