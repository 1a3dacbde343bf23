----------------------------- MODULE ShmChannel -----------------------------
(***************************************************************************)
(* What the shared memory ring promises its users: a bounded channel.      *)
(* post_send either refuses and changes nothing, or takes one place in     *)
(* line and fills it (ring.hpp:76); messages leave in the order in which   *)
(* their places were taken, each to exactly one receiver, whose view stays *)
(* valid until it releases it; a place is occupied from reservation to     *)
(* release, and there are Capacity of them.                                *)
(***************************************************************************)
EXTENDS Sequences, Naturals, FiniteSets

CONSTANTS Producers, Consumers, Messages, Capacity, NoMessage

VARIABLES
  sending,  \* producer -> the message it is posting, or NoMessage
  queue,    \* places in line: <<producer, message>>, or <<producer, NoMessage>>
            \* while the producer is still filling it
  views     \* consumer -> the <<producer, message>> it holds, or NoMessage

vars == <<sending, queue, views>>

Waiting(p) == \E i \in 1 .. Len(queue) : queue[i] = <<p, NoMessage>>
Held == {c \in Consumers : views[c] # NoMessage}

Init ==
  /\ sending = [p \in Producers |-> NoMessage]
  /\ queue = <<>>
  /\ views = [c \in Consumers |-> NoMessage]

Call(p, m) ==
  /\ sending[p] = NoMessage
  /\ sending' = [sending EXCEPT ![p] = m]
  /\ UNCHANGED <<queue, views>>

\* retry_lock, retry_nomem or fatal: nothing has happened.
Refuse(p) ==
  /\ sending[p] # NoMessage
  /\ ~ Waiting(p)
  /\ sending' = [sending EXCEPT ![p] = NoMessage]
  /\ UNCHANGED <<queue, views>>

Reserve(p) ==
  /\ sending[p] # NoMessage
  /\ ~ Waiting(p)
  /\ Len(queue) + Cardinality(Held) < Capacity
  /\ queue' = Append(queue, <<p, NoMessage>>)
  /\ UNCHANGED <<sending, views>>

Fill(p) ==
  /\ \E i \in 1 .. Len(queue) :
       /\ queue[i] = <<p, NoMessage>>
       /\ queue' = [queue EXCEPT ![i] = <<p, sending[p]>>]
  /\ sending' = [sending EXCEPT ![p] = NoMessage]
  /\ UNCHANGED views

Claim(c) ==
  /\ views[c] = NoMessage
  /\ queue # <<>>
  /\ Head(queue)[2] # NoMessage
  /\ views' = [views EXCEPT ![c] = Head(queue)]
  /\ queue' = Tail(queue)
  /\ UNCHANGED sending

Release(c) ==
  /\ views[c] # NoMessage
  /\ views' = [views EXCEPT ![c] = NoMessage]
  /\ UNCHANGED <<sending, queue>>

Next ==
  \/ \E p \in Producers :
       \/ \E m \in Messages : Call(p, m)
       \/ Refuse(p) \/ Reserve(p) \/ Fill(p)
  \/ \E c \in Consumers : Claim(c) \/ Release(c)

Spec == Init /\ [][Next]_vars
=============================================================================
