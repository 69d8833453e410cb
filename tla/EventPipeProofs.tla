--------------------------- MODULE EventPipeProofs ---------------------------
(***************************************************************************)
(* Proofs about EventPipe for any number of threads, events and failing    *)
(* handlers.  IInv is inductive; the safety properties follow from it, and *)
(* every step of the pipe is a step of EventDelivery or leaves the         *)
(* abstract state unchanged.                                               *)
(***************************************************************************)
EXTENDS EventPipe, TLAPS

\* The invariant holds when the first process is hooked.
LEMMA InitInv == Init => IInv
<1> SUFFICES ASSUME Init PROVE IInv
  OBVIOUS
<1> USE ConstAssumption DEF Init
<1>1. TypeOK
  <2>1. 0 \in 0..MaxMsg /\ 0 \in Nat
    BY SMT
  <2>2. QED
    BY <2>1, Zenon DEF TypeOK
<1>2. InstanceInv /\ HandleInv
  BY DEF InstanceInv, HandleInv
<1>3. MessageInv /\ AnswerInv /\ LateInv
  BY DEF MessageInv, AnswerInv, LateInv, Unanswered
<1>4. QED
  BY <1>1, <1>2, <1>3 DEF IInv

\* Each action preserves the invariant: one step per action.
LEMMA StepInv == IInv /\ [Next]_vars => IInv'
<1> SUFFICES ASSUME IInv, [Next]_vars PROVE IInv'
  OBVIOUS
<1> USE ConstAssumption DEF IInv, TypeOK, InstanceInv, HandleInv, MessageInv,
                            AnswerInv, LateInv, Unanswered
<1>1. ASSUME NEW c \in Clients, Send(c) PROVE IInv'
  BY <1>1 DEF Send, svars
<1>2. ASSUME NEW c \in Clients, NEW s \in Servers, Connect(c, s) PROVE IInv'
  BY <1>2 DEF Connect
<1>3. ASSUME NEW c \in Clients, GiveUp(c) PROVE IInv'
  BY <1>3 DEF GiveUp, svars
<1>4. ASSUME NEW c \in Clients, WriteMessage(c) PROVE IInv'
  BY <1>4 DEF WriteMessage
<1>5. ASSUME NEW c \in Clients, StartRead(c) PROVE IInv'
  BY <1>5 DEF StartRead, svars
<1>6. ASSUME NEW c \in Clients, ReadAnswer(c) PROVE IInv'
  BY <1>6 DEF ReadAnswer, svars
<1>7. ASSUME NEW c \in Clients, ReadFails(c) PROVE IInv'
  BY <1>7 DEF ReadFails, svars
<1>8. ASSUME NEW c \in Clients, Finish(c) PROVE IInv'
  <2>1. TypeOK'
    BY <1>8 DEF Finish, svars
  <2>2. InstanceInv'
    BY <1>8 DEF Finish, svars
  <2>3. HandleInv'
    BY <1>8 DEF Finish, svars
  <2>4. MessageInv'
    BY <1>8 DEF Finish, svars
  <2>5. AnswerInv'
    BY <1>8 DEF Finish, svars
  <2>6. LateInv'
    BY <1>8 DEF Finish, svars
  <2>7. QED
    BY <2>1, <2>2, <2>3, <2>4, <2>5, <2>6
<1>9. ASSUME NEW c \in Clients, Die(c) PROVE IInv'
  BY <1>9 DEF Die, svars
<1>10. ASSUME NEW s \in Servers, LoopAgain(s) PROVE IInv'
  BY <1>10 DEF LoopAgain, cvars
<1>11. ASSUME NEW s \in Servers, LeaveLoop(s) PROVE IInv'
  BY <1>11 DEF LeaveLoop, cvars
<1>12. ASSUME NEW s \in Servers, Listen(s) PROVE IInv'
  BY <1>12 DEF Listen, cvars
<1>13. ASSUME NEW s \in Servers, Accept(s) PROVE IInv'
  BY <1>13 DEF Accept, cvars
<1>14. ASSUME NEW s \in Servers, WaitFails(s) PROVE IInv'
  BY <1>14 DEF WaitFails, cvars
<1>15. ASSUME NEW s \in Servers, Recover(s) PROVE IInv'
  BY <1>15 DEF Recover, cvars
<1>16. ASSUME NEW s \in Servers, ReadMessage(s) PROVE IInv'
  BY <1>16 DEF ReadMessage, cvars
<1>17. ASSUME NEW s \in Servers, ReadBroken(s) PROVE IInv'
  BY <1>17 DEF ReadBroken, cvars
<1>18. ASSUME NEW s \in Servers, Dispatch(s) PROVE IInv'
  BY <1>18 DEF Dispatch, cvars
<1>19. ASSUME NEW s \in Servers, DispatchThrows(s) PROVE IInv'
  BY <1>19 DEF DispatchThrows, Disconnect
<1>20. ASSUME NEW s \in Servers, WriteAck(s) PROVE IInv'
  BY <1>20 DEF WriteAck
<1>21. ASSUME NEW s \in Servers, WriteFails(s) PROVE IInv'
  BY <1>21 DEF WriteFails, cvars
<1>22. ASSUME NEW s \in Servers, DisconnectAfterAck(s) PROVE IInv'
  BY <1>22 DEF DisconnectAfterAck, Disconnect
<1>23. CASE Collect
  <2>1. TypeOK'
    BY <1>23 DEF Collect, cvars
  <2>2. InstanceInv'
    BY <1>23 DEF Collect, cvars
  <2>3. HandleInv'
    BY <1>23 DEF Collect, cvars
  <2>4. MessageInv'
    BY <1>23 DEF Collect, cvars
  <2>5. AnswerInv'
    BY <1>23 DEF Collect, cvars
  <2>6. LateInv'
    BY <1>23 DEF Collect, cvars
  <2>7. QED
    BY <2>1, <2>2, <2>3, <2>4, <2>5, <2>6
<1>24. CASE Stop
  <2>1. TypeOK'
    BY <1>24 DEF Stop, svars, cvars
  <2>2. InstanceInv'
    BY <1>24 DEF Stop, svars, cvars
  <2>3. HandleInv'
    BY <1>24 DEF Stop, svars, cvars
  <2>4. MessageInv'
    BY <1>24 DEF Stop, svars, cvars
  <2>5. AnswerInv'
    BY <1>24 DEF Stop, svars, cvars
  <2>6. LateInv'
    BY <1>24 DEF Stop, svars, cvars
  <2>7. QED
    BY <2>1, <2>2, <2>3, <2>4, <2>5, <2>6
<1>25. ASSUME AgentGone PROVE IInv'
  <2>1. TypeOK'
    <3>1. 0 \in 0..MaxMsg
      BY SMT
    <3>2. QED
      BY <1>25, <3>1, Zenon DEF AgentGone
  <2>2. InstanceInv'
    BY <1>25 DEF AgentGone
  <2>3. HandleInv'
    BY <1>25 DEF AgentGone
  <2>4. MessageInv'
    BY <1>25 DEF AgentGone
  <2>5. AnswerInv'
    BY <1>25 DEF AgentGone
  <2>6. LateInv'
    BY <1>25 DEF AgentGone
  <2>7. QED
    BY <2>1, <2>2, <2>3, <2>4, <2>5, <2>6
<1>26. CASE UNCHANGED vars
  BY <1>26 DEF vars
<1>27. QED
  BY <1>1, <1>2, <1>3, <1>4, <1>5, <1>6, <1>7, <1>8, <1>9, <1>10, <1>11, <1>12,
     <1>13, <1>14, <1>15, <1>16, <1>17, <1>18, <1>19, <1>20, <1>21, <1>22, <1>23,
     <1>24, <1>25, <1>26 DEF Next, ClientStep, ServerStep, CloseThrows, AgentDies

-----------------------------------------------------------------------------
\* The inductive invariant, type correctness included, in every state of the
\* channel.
THEOREM Invariant == Spec => []IInv
<1>1. QED
  BY InitInv, StepInv, PTL DEF Spec

\* A send of sendToEventPipe that returned successfully had its event
\* dispatched before.
THEOREM DoneMeansDispatchedTheorem == Spec => []DoneMeansDispatched
<1>1. IInv => DoneMeansDispatched
  BY DEF IInv, AnswerInv, DoneMeansDispatched
<1>2. QED
  BY <1>1, Invariant, PTL

\* Two EventSrv threads never handle events of one hooked thread at once.
THEOREM OneHandlerPerThreadTheorem == Spec => []OneHandlerPerThread
<1>1. IInv => OneHandlerPerThread
  BY DEF IInv, MessageInv, Unanswered, OneHandlerPerThread
<1>2. QED
  BY <1>1, Invariant, PTL

\* Each EventSrv thread handles at most one event after Stop().
THEOREM AtMostOneLateEventTheorem == Spec => []AtMostOneLateEvent
<1>1. IInv => AtMostOneLateEvent
  BY DEF IInv, TypeOK, LateInv, AtMostOneLateEvent
<1>2. QED
  BY <1>1, Invariant, PTL

-----------------------------------------------------------------------------
(* The pipe implements EventDelivery.                                      *)

\* The initial states of the pipe are initial states of the channel.
LEMMA RefineInit == Init => Delivery!Init
BY DEF Init, Delivery!Init, Phase

\* Every step of the pipe is a step of the channel, or invisible in it.
LEMMA RefineStep ==
    ASSUME IInv, [Next]_vars
    PROVE  [Delivery!Next]_(Delivery!vars)
<1> USE DEF Phase, Delivery!vars
<1> DEFINE Same == UNCHANGED <<Phase, cur, dispatched, outcome>>
<1>0. ASSUME Same PROVE [Delivery!Next]_(Delivery!vars)
  BY <1>0
<1>a. TypeOK
  BY DEF IInv
<1>1. ASSUME NEW c \in Clients, Send(c) PROVE Delivery!Next
  <2>1. Delivery!Send(c)
    BY <1>1, <1>a DEF Send, Delivery!Send, TypeOK
  <2>2. QED
    BY <2>1 DEF Delivery!Next
<1>2. ASSUME NEW c \in Clients, GiveUp(c) PROVE Delivery!Next
  <2>1. Delivery!Drop(c)
    BY <1>2, <1>a DEF GiveUp, Delivery!Drop, TypeOK
  <2>2. QED
    BY <2>1 DEF Delivery!Next
<1>3. ASSUME NEW c \in Clients, Finish(c) PROVE Delivery!Next
  <2>1. dispatched[c] = cur[c]
    BY <1>3 DEF Finish, IInv, AnswerInv
  <2>2. Delivery!Return(c)
    BY <1>3, <1>a, <2>1 DEF Finish, Delivery!Return, TypeOK
  <2>3. QED
    BY <2>2 DEF Delivery!Next
<1>4. ASSUME NEW c \in Clients, Die(c) PROVE Delivery!Next
  <2>1. Delivery!Die(c)
    BY <1>4, <1>a DEF Die, Delivery!Die, TypeOK
  <2>2. QED
    BY <2>1 DEF Delivery!Next
<1>5. ASSUME NEW s \in Servers, Dispatch(s) PROVE Delivery!Next
  <2>1. /\ from[s] \in Clients
        /\ num[s] = cur[from[s]]
        /\ conn[from[s]] = s \/ cli[from[s]] = "gone"
    BY <1>5, ConstAssumption
       DEF Dispatch, IInv, TypeOK, InstanceInv, MessageInv, Unanswered
  <2>2. cli[from[s]] # "idle"
    BY <1>5, <2>1, ConstAssumption DEF IInv, HandleInv
  <2>3. Phase[from[s]] \in {"pending", "gone"}
    BY <2>1, <2>2
  <2>4. Delivery!Handle(from[s])
    BY <1>5, <1>a, <2>1, <2>3 DEF Dispatch, cvars, Delivery!Handle, TypeOK
  <2>5. QED
    BY <2>1, <2>4 DEF Delivery!Next
<1>6. ASSUME NEW c \in Clients, NEW s \in Servers, Connect(c, s) PROVE Same
  BY <1>6, <1>a DEF Connect, TypeOK
<1>7. ASSUME NEW c \in Clients,
             WriteMessage(c) \/ StartRead(c) \/ ReadAnswer(c) \/ ReadFails(c)
      PROVE  Same
  BY <1>7, <1>a DEF WriteMessage, StartRead, ReadAnswer, ReadFails, TypeOK
<1>8. ASSUME NEW s \in Servers, WriteAck(s) PROVE Same
  BY <1>8, <1>a DEF WriteAck, TypeOK
<1>9. ASSUME NEW s \in Servers,
             \/ LoopAgain(s) \/ LeaveLoop(s) \/ Listen(s) \/ Accept(s)
             \/ WaitFails(s) \/ Recover(s) \/ ReadMessage(s) \/ ReadBroken(s)
             \/ WriteFails(s)
      PROVE  Same
  BY <1>9 DEF LoopAgain, LeaveLoop, Listen, Accept, WaitFails, Recover,
              ReadMessage, ReadBroken, WriteFails, cvars
<1>10. ASSUME NEW s \in Servers, DispatchThrows(s) \/ DisconnectAfterAck(s)
       PROVE  Same
  BY <1>10 DEF DispatchThrows, DisconnectAfterAck
<1>11. ASSUME Collect \/ Stop \/ UNCHANGED vars PROVE Same
  BY <1>11 DEF Collect, Stop, cvars, vars
<1>12. ASSUME AgentGone PROVE Same
  BY <1>12 DEF AgentGone
<1>13. QED
  BY <1>0, <1>1, <1>2, <1>3, <1>4, <1>5, <1>6, <1>7, <1>8, <1>9, <1>10, <1>11, <1>12
     DEF Next, ClientStep, ServerStep, CloseThrows, AgentDies

\* The event channel delivers what EventDelivery promises.
THEOREM Refinement == Spec => DeliverySpec
<1>1. QED
  BY RefineInit, RefineStep, Invariant, PTL DEF Spec, DeliverySpec, Delivery!Spec
=============================================================================
