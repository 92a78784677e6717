------------------------------ MODULE MCSocket ------------------------------
(* Socket with bytes of three values, lengths of one or two bytes and      *)
(* messages of at most one byte.                                           *)
EXTENDS StopConditions

Prefixed(header, big) == [header |-> header, big |-> big, count |-> -1]
\* The peer's encoding of a message behind its length.
Frame(framing, message) ==
  LET length == <<Len(message)>> \o [i \in 1 .. framing.header - 1 |-> 0]
  IN  (IF framing.big THEN Reverse(length) ELSE length) \o message

Little == Prefixed(2, FALSE)
Big == Prefixed(1, TRUE)
MCStreams ==
  {[framing |-> Little, frames |-> << Frame(Little, << 2 >>), Frame(Little, << >>) >>, fin |-> FALSE],
   [framing |-> Big, frames |-> << Frame(Big, << 1 >>) >>, fin |-> TRUE]}
MCPayloads == {<< >>, << 1, 2 >>}

Handled == {"HANDLE_NEW_CONNECTIONS", "HANDLE_RECEIVE"}
Condition ==
  Both("OR", Both("AND", Leaf("distinct" :> 2), Not(Leaf("current" :> 2))), Leaf("errors" :> 2))
MCListenParams ==
  {[type |-> Handled, stop |-> DefaultCondition, receive |-> Little],
   [type |-> Handled \cup {"USE_STOP_CONDITION"}, stop |-> Condition, receive |-> Big],
   [type |-> {"HANDLE_NEW_CONNECTIONS"}, stop |-> DefaultCondition, receive |-> NoCallback]}
\* The header's example of a condition, with two connections for its ten, and one
\* with XOR.
DocumentedConditions ==
  {Both("OR", Both("AND", Leaf("distinct" :> 2), Leaf("current" :> 0)), Leaf("errors" :> 1)),
   Both("XOR", Leaf("distinct" :> 2), Leaf("errors" :> 1))}
MCDocumented ==
  {[type |-> Handled \cup {"USE_STOP_CONDITION"}, stop |-> c, receive |-> Big] :
     c \in DocumentedConditions}
MCScripts ==
  {<< "Listen", "ResetForReceive", "Listen" >>,
   << "Listen", "SwapBuffer", "ResetSocketErrorsAndAbortSignals", "Listen" >>,
   << "SendDataNoFlush", "SendData", "FlushSendBuffer" >>,
   << "SendDataNoFlush", "SendDataNoFlush", "FlushSendBuffers", "FlushSendBuffers" >>,
   << "SetListenParams", "SetListenTimeout", "SetListenTimeout", "Listen" >>,
   << "SetListenReceiveDataCallback", "Listen", "Disconnect", "Listen" >>,
   << "Connect", "Connect", "Reset", "SendData", "Disconnect" >>}
\* One call, for the runs with several faults.
MCOneCall == {<< "Listen" >>, << "Connect" >>}
MCConnectParams ==
  {[non_blocking |-> b, timeout |-> 3, retries |-> 1, sleep |-> 1, tries |-> 1, bind_retries |-> 1] :
     b \in BOOLEAN}
=============================================================================
