---------------------------- MODULE ClientSession ----------------------------
(***************************************************************************)
(* The websocket sessions and their registry.  A session is shared by the  *)
(* goroutine that reads its connection, by its writeLoop, and by every     *)
(* handler that answers it or delivers to it, so each critical section,    *)
(* context check and channel operation is a step of its own.               *)
(***************************************************************************)
EXTENDS Domain, Integers, SequencesExt

CONSTANT OutboundCap   \* sessionOutboundBufferSize

ASSUME OutboundCapPositive == OutboundCap \in Nat \ {0}

VARIABLES registry,          \* the clients whose session the registry holds
          ctxDone,           \* ctxDone[c]: session.ctx of c has been cancelled
          searchRequestID,   \* searchRequestID[c], None for the empty string
          outbound,          \* outbound[c]: the buffered channel of c
          sending            \* clients whose handler is inside sendWithContext's select

sessionVars == <<registry, ctxDone, searchRequestID, outbound, sending>>

SessionsInit == /\ registry = {}
                /\ ctxDone = [c \in Client |-> FALSE]
                /\ searchRequestID = [c \in Client |-> None]
                /\ outbound = [c \in Client |-> <<>>]
                /\ sending = {}

Register(c) == c \notin registry /\ registry' = registry \cup {c}

Unregister(c) == registry' = registry \ {c}

SetSearchRequestID(c, id) == searchRequestID' = [searchRequestID EXCEPT ![c] = id]

ClearSearchRequestID(c) == SetSearchRequestID(c, None)

Cancel(c) == ctxDone' = [ctxDone EXCEPT ![c] = TRUE]

(* sendWithContext, called by the handler of client s on the session of t with
   the context of client `by': both contexts are live when they are checked... *)
BeginSend(s, t, by) ==
  /\ s \notin sending
  /\ ~ctxDone[t] /\ ~ctxDone[by]
  /\ sending' = sending \cup {s}
  /\ UNCHANGED outbound

\* Faulty variant: the channel is unbounded.
EndSendUnbounded(s, t, message) ==
  /\ s \in sending
  /\ outbound' = [outbound EXCEPT ![t] = Append(@, message)]
  /\ sending' = sending \ {s}

(* ...then the select finds room in the channel, even if a context has ended in
   the meantime: a select with several ready cases picks any of them. *)
EndSend(s, t, message) ==
  /\ s \in sending
  /\ Len(outbound[t]) < OutboundCap
  /\ outbound' = [outbound EXCEPT ![t] = Append(@, message)]
  /\ sending' = sending \ {s}

\* Faulty variant: no timeout.
FailSendByContext(s, t, by) ==
  /\ ctxDone[t] \/ ctxDone[by]
  /\ sending' = sending \ {s}
  /\ UNCHANGED outbound

(* The check refuses, or the select sees a context end or the enqueue timeout,
   which fires only while the channel is full. *)
FailSend(s, t, by) ==
  /\ \/ ctxDone[t] \/ ctxDone[by]
     \/ s \in sending /\ Len(outbound[t]) = OutboundCap
  /\ sending' = sending \ {s}
  /\ UNCHANGED outbound

Writable(c) == outbound[c] # <<>>

(* writeLoop takes the next message and writes it to the connection.  A select
   with the context ended may still take a message.  A step after the loop has
   returned only makes room in the channel of a session that has ended, as the
   loop's own last step may have done. *)
WriteNext(c) ==
  /\ Writable(c)
  /\ outbound' = [outbound EXCEPT ![c] = Tail(@)]
  /\ UNCHANGED <<registry, ctxDone, searchRequestID, sending>>

(* A write fails or its deadline passes: writeLoop closes the connection and
   cancels the session under whatever its reader is doing. *)
WriteFails(c) ==
  /\ Writable(c)
  /\ Cancel(c)
  /\ outbound' = [outbound EXCEPT ![c] = Tail(@)]
  /\ UNCHANGED <<registry, searchRequestID, sending>>
=============================================================================
