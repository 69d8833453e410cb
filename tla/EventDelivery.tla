---------------------------- MODULE EventDelivery ----------------------------
(***************************************************************************)
(* What the event channel between a hooked thread and the guest agent      *)
(* promises.  A thread sends its events one at a time and is blocked while *)
(* one is outstanding (sendToEventPipe).  The send returns "done" only     *)
(* after the agent has handled the event, events of one thread are handled *)
(* in the order they were sent, and an event may be handled again before   *)
(* the send returns (a stuttering step here, because handling is recorded  *)
(* as the number of the last event handled).  A send may also give up, and *)
(* a thread may be killed at any time; the event it was sending may still  *)
(* be handled afterwards.                                                  *)
(***************************************************************************)
EXTENDS Naturals

CONSTANTS Clients,      \* threads of hooked processes
          MaxMsg        \* bound: events each thread sends

VARIABLES phase,        \* phase[c]: "idle", "pending" or "gone"
          sent,         \* sent[c]: number of events c has started to send
          handled,      \* handled[c]: number of the last event of c handled
          outcome       \* outcome[c]: how the last send of c ended

vars == <<phase, sent, handled, outcome>>

Init == /\ phase = [c \in Clients |-> "idle"]
        /\ sent = [c \in Clients |-> 0]
        /\ handled = [c \in Clients |-> 0]
        /\ outcome = [c \in Clients |-> "none"]

Send(c) == /\ phase[c] = "idle"
           /\ sent[c] < MaxMsg
           /\ sent' = [sent EXCEPT ![c] = @ + 1]
           /\ phase' = [phase EXCEPT ![c] = "pending"]
           /\ outcome' = [outcome EXCEPT ![c] = "none"]
           /\ UNCHANGED handled

Handle(c) == /\ phase[c] \in {"pending", "gone"}
             /\ handled' = [handled EXCEPT ![c] = sent[c]]
             /\ UNCHANGED <<phase, sent, outcome>>

\* The send returns successfully.
Return(c) == /\ phase[c] = "pending"
             /\ handled[c] = sent[c]
             /\ phase' = [phase EXCEPT ![c] = "idle"]
             /\ outcome' = [outcome EXCEPT ![c] = "done"]
             /\ UNCHANGED <<sent, handled>>

\* The send gives up: handled or not, the thread does not know.
Drop(c) == /\ phase[c] = "pending"
           /\ phase' = [phase EXCEPT ![c] = "idle"]
           /\ outcome' = [outcome EXCEPT ![c] = "failed"]
           /\ UNCHANGED <<sent, handled>>

Die(c) == /\ phase[c] # "gone"
          /\ phase' = [phase EXCEPT ![c] = "gone"]
          /\ UNCHANGED <<sent, handled, outcome>>

Next == \E c \in Clients : Send(c) \/ Handle(c) \/ Return(c) \/ Drop(c) \/ Die(c)

Spec == Init /\ [][Next]_vars
=============================================================================
