---------------------------- MODULE DashboardFeed ---------------------------
(***************************************************************************)
(* WebSocketManager and WebSocketActor: transactions created are broadcast *)
(* through a tokio channel, a ring of bounded capacity, to one forwarding  *)
(* task per connection, which hands each message to the connection's       *)
(* actor.  Only creations are broadcast: broadcast_transaction_updated and *)
(* broadcast_metrics have no caller.                                       *)
(***************************************************************************)
EXTENDS Naturals, Sequences

CONSTANTS Clients,   \* WebSocket connections
          Capacity,  \* messages the ring keeps: 1000, which tokio rounds up
          LastMessage

VARIABLES tail,      \* messages ever put into the ring, named by their number
          socket,    \* each connection: "none", "open" or "closed"
          task,      \* its forwarding task: "none", "waiting" in recv,
                     \* "holding" a message, or "ended"
          next,      \* the message the task asks for, or holds
          since,     \* history: the number of the last message before it came
          received   \* history: what the client was sent

feedVars == <<tail, socket, task, next, since, received>>

Init ==
  /\ tail = 0
  /\ socket = [c \in Clients |-> "none"]
  /\ task = [c \in Clients |-> "none"]
  /\ next = [c \in Clients |-> 1]
  /\ since = [c \in Clients |-> 0]
  /\ received = [c \in Clients |-> <<>>]

-----------------------------------------------------------------------------
(* websocket_handler, started: subscribe at the tail, spawn the task.      *)
Connect(c) ==
  /\ socket[c] = "none"
  /\ socket' = [socket EXCEPT ![c] = "open"]
  /\ task' = [task EXCEPT ![c] = "waiting"]
  /\ next' = [next EXCEPT ![c] = tail + 1]
  /\ since' = [since EXCEPT ![c] = tail]
  /\ UNCHANGED <<tail, received>>

(* broadcast_transaction_created: never waits, and overwrites the oldest   *)
(* message of a full ring.  Without a receiver it is an error, logged.     *)
Broadcast ==
  /\ tail < LastMessage
  /\ \E c \in Clients : task[c] \in {"waiting", "holding"}
  /\ tail' = tail + 1
  /\ UNCHANGED <<socket, task, next, since, received>>

Lags(c) == tail - next[c] >= Capacity

(* rx.recv: the next message, if the ring still has it.                    *)
Recv(c) ==
  /\ task[c] = "waiting" /\ next[c] <= tail
  /\ ~Lags(c)
  /\ task' = [task EXCEPT ![c] = "holding"]
  /\ UNCHANGED <<tail, socket, next, since, received>>

(* rx.recv answers Lagged, an error, which ends `while let Ok(msg)': the   *)
(* connection stays open.  Mutant: the loop goes on with what is left.     *)
GoOnAfterLag(c) ==
  /\ task[c] = "waiting" /\ Lags(c)
  /\ next' = [next EXCEPT ![c] = tail + 1 - Capacity]
  /\ UNCHANGED <<tail, socket, task, since, received>>

RecvLagged(c) ==
  /\ task[c] = "waiting" /\ Lags(c)
  /\ task' = [task EXCEPT ![c] = "ended"]
  /\ UNCHANGED <<tail, socket, next, since, received>>

(* addr.send, and the actor's handle, which writes the frame.              *)
Forward(c) ==
  /\ task[c] = "holding" /\ socket[c] = "open"
  /\ received' = [received EXCEPT ![c] = Append(@, next[c])]
  /\ next' = [next EXCEPT ![c] = @ + 1]
  /\ task' = [task EXCEPT ![c] = "waiting"]
  /\ UNCHANGED <<tail, socket, since>>

(* The actor has stopped: the task notices at its next message only.       *)
ForwardFails(c) ==
  /\ task[c] = "holding" /\ socket[c] = "closed"
  /\ task' = [task EXCEPT ![c] = "ended"]
  /\ UNCHANGED <<tail, socket, next, since, received>>

(* A Close frame, or the end of the stream, stops the actor.               *)
Disconnect(c) ==
  /\ socket[c] = "open"
  /\ socket' = [socket EXCEPT ![c] = "closed"]
  /\ UNCHANGED <<tail, task, next, since, received>>

Next ==
  \/ Broadcast
  \/ \E c \in Clients :
       \/ Connect(c) \/ Disconnect(c)
       \/ Recv(c) \/ RecvLagged(c) \/ Forward(c) \/ ForwardFails(c)

Spec == Init /\ [][Next]_feedVars

-----------------------------------------------------------------------------
(* What a dashboard has received is every creation since it connected, in  *)
(* order, without a gap or a repetition, up to some point: a client that   *)
(* falls behind by more than the ring holds is cut off, never skipped over,*)
(* and an open connection goes silent for no other reason.                 *)
FeedHasNoGaps ==
  \A c \in Clients :
    /\ \A i \in DOMAIN received[c] : received[c][i] = since[c] + i
    /\ socket[c] = "open" /\ task[c] = "ended"
         => tail - (since[c] + Len(received[c])) > Capacity
=============================================================================
