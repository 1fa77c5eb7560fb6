------------------------- MODULE RoomLifecycleProofs -------------------------
(***************************************************************************)
(* Proofs about RoomLifecycle, for every set of rooms, users and calls.    *)
(***************************************************************************)
EXTENDS RoomLifecycle, TLAPS

\* The initial states satisfy the inductive invariant.
LEMMA LifecycleInit == Init => LifecycleInv
  BY DEF Init, LifecycleInv, TypeOK, CallKnows, OneWinner, OwnerWins, NoSendAfterEnd, Won,
         Statuses, Ops, Results

\* Every variable keeps its type.
LEMMA LifecycleTypes == TypeOK /\ [Next]_vars => TypeOK'
<1> SUFFICES ASSUME TypeOK, [Next]_vars PROVE TypeOK'
  OBVIOUS
<1> USE DEF TypeOK, Statuses, Ops, Results
<1>1. ASSUME NEW c \in Calls, Create(c) PROVE TypeOK'
  BY <1>1 DEF Create, Begin, Return, tableVars
<1>2. ASSUME NEW c \in Calls, NEW o \in {"start", "end"}, ReadRoom(c, o) PROVE TypeOK'
  BY <1>2 DEF ReadRoom, Check, Begin, Return, Go, tableVars
<1>3. ASSUME NEW c \in Calls, UpdateStatus(c) PROVE TypeOK'
  BY <1>3 DEF UpdateStatus, Return, To, callVars
<1>4. ASSUME NEW c \in Calls, ValidateRoomForSend(c) PROVE TypeOK'
  BY <1>4 DEF ValidateRoomForSend, Begin, Return, Go, tableVars
<1>5. ASSUME NEW c \in Calls, FinishSend(c) PROVE TypeOK'
  BY <1>5 DEF FinishSend, Return, tableVars, callVars
<1>6. ASSUME NEW r \in Rooms, BanRoom(r) PROVE TypeOK'
  BY <1>6 DEF BanRoom, callVars
<1>7. CASE UNCHANGED vars
  BY <1>7 DEF vars, tableVars, callVars
<1> QED
  BY <1>1, <1>2, <1>3, <1>4, <1>5, <1>6, <1>7 DEF Next

\* What calls know stays true, and with it the rest of the invariant.
LEMMA LifecycleNext == LifecycleInv /\ [Next]_vars => LifecycleInv'
<1> SUFFICES ASSUME LifecycleInv, [Next]_vars PROVE LifecycleInv'
  OBVIOUS
<1>0. TypeOK /\ TypeOK'
  BY LifecycleTypes DEF LifecycleInv
<1> USE DEF LifecycleInv, CallKnows, OneWinner, OwnerWins, NoSendAfterEnd, Won
<1>1. ASSUME NEW c \in Calls, Create(c) PROVE LifecycleInv'
  BY <1>0, <1>1, SMTT(40) DEF TypeOK, Create, Begin, Return, tableVars
<1>2. ASSUME NEW c \in Calls, NEW o \in {"start", "end"}, ReadRoom(c, o) PROVE LifecycleInv'
  BY <1>0, <1>2 DEF TypeOK, ReadRoom, Check, From, Begin, Return, Go, tableVars
<1>3. ASSUME NEW c \in Calls, UpdateStatus(c) PROVE LifecycleInv'
  <2>1. /\ op[c] \in {"start", "end"} /\ owner[target[c]] = user[c] /\ result[c] = "none"
        /\ \A o : ~Won(c, o)
    BY <1>3 DEF UpdateStatus
  <2>2. \/ /\ status[target[c]] = From(op[c])
           /\ status' = [status EXCEPT ![target[c]] = To(op[c])]
           /\ Return(c, "ok") \/ Return(c, "failed")
        \/ /\ \E res \in {"invalid_transition", "not_found", "failed"} : Return(c, res)
           /\ UNCHANGED status
    BY <1>3 DEF UpdateStatus
  <2>3. UNCHANGED <<owner, op, target, user, late>>
    BY <1>3 DEF UpdateStatus, callVars
  <2>4. CallKnows'
    BY <1>0, <2>1, <2>2, <2>3 DEF TypeOK, Return, From, To
  <2>5. OwnerWins' /\ NoSendAfterEnd'
    BY <1>0, <2>1, <2>2, <2>3 DEF TypeOK, Return
  <2>6. OneWinner'
    <3>1. ASSUME NEW d \in Calls, d # c, NEW o, Won(d, o)' PROVE Won(d, o)
      BY <1>0, <2>2, <2>3, <3>1 DEF TypeOK, Return
    <3>2. ASSUME Won(c, op[c])', NEW d \in Calls, Won(d, op[c]), target[d] = target[c]
          PROVE  FALSE
      BY <1>0, <2>1, <2>2, <3>2 DEF TypeOK, Return, From
    <3> QED
      BY <2>1, <2>3, <3>1, <3>2
  <2> QED
    BY <1>0, <2>4, <2>5, <2>6
<1>4. ASSUME NEW c \in Calls, ValidateRoomForSend(c) PROVE LifecycleInv'
  <2>1. /\ pc[c] = "idle" /\ op' = [op EXCEPT ![c] = "send"]
        /\ UNCHANGED <<status, owner, target, user>>
    BY <1>4 DEF ValidateRoomForSend, Begin, tableVars
  <2>2. \/ status[target[c]] = "live" /\ Go(c, "sending")
        \/ \E res \in {"not_found", "banned", "not_live", "failed"} : Return(c, res)
    BY <1>4 DEF ValidateRoomForSend, SendAllowed
  <2>3. late' = late \/ (late' = late \cup {c} /\ EndedOK(target[c]) # {})
    BY <1>4 DEF ValidateRoomForSend
  <2>4. EndedOK(target[c]) # {} => status[target[c]] = "ended"
    BY DEF EndedOK
  <2>7. CallKnows'
    BY <1>0, <2>1, <2>2, <2>3, <2>4 DEF TypeOK, Return, Go
  <2>8. OneWinner' /\ OwnerWins'
    BY <1>0, <2>1, <2>2 DEF TypeOK, Return, Go
  <2>9. NoSendAfterEnd'
    BY <1>0, <2>1, <2>2, <2>3 DEF TypeOK, Return, Go
  <2> QED
    BY <1>0, <2>7, <2>8, <2>9
<1>5. ASSUME NEW c \in Calls, FinishSend(c) PROVE LifecycleInv'
  BY <1>0, <1>5, SMTT(40) DEF TypeOK, FinishSend, Return, tableVars, callVars
<1>6. ASSUME NEW r \in Rooms, BanRoom(r) PROVE LifecycleInv'
  BY <1>0, <1>6 DEF TypeOK, BanRoom, callVars
<1>7. CASE UNCHANGED vars
  BY <1>0, <1>7 DEF vars, tableVars, callVars
<1> QED
  BY <1>1, <1>2, <1>3, <1>4, <1>5, <1>6, <1>7 DEF Next

\* The inductive invariant holds in every behaviour.
THEOREM LifecycleInvariant == Spec => []LifecycleInv
<1> QED
  BY LifecycleInit, LifecycleNext, PTL DEF Spec

\* Whatever calls race, at most one caller is told to have started a room and
\* at most one to have ended it.
THEOREM TransitionsWonOnce == Spec => []OneWinner
<1>1. LifecycleInv => OneWinner
  BY DEF LifecycleInv
<1> QED
  BY <1>1, LifecycleInvariant, PTL

\* No send that begins after EndRoom returned success is acknowledged.
THEOREM EndIsFinalForSends == Spec => []NoSendAfterEnd
<1>1. LifecycleInv => NoSendAfterEnd
  BY DEF LifecycleInv
<1> QED
  BY <1>1, LifecycleInvariant, PTL

\* Every step of the service is a step of the room's state machine or leaves
\* the rooms table alone: the service implements the state machine.
THEOREM Refinement == Spec => ImplementsStateMachine
<1>1. Init => Machine!Init
  BY DEF Init, Machine!Init
<1>2. LifecycleInv /\ [Next]_vars => [Machine!Next]_<<status, owner, mover>>
  <2> SUFFICES ASSUME LifecycleInv, [Next]_vars
               PROVE  [Machine!Next]_<<status, owner, mover>>
    OBVIOUS
  <2> USE DEF Machine!Next
  <2>1. ASSUME NEW c \in Calls, Create(c) PROVE [Machine!Next]_<<status, owner, mover>>
    BY <2>1 DEF LifecycleInv, TypeOK, Create, Begin, tableVars, Machine!Create
  <2>2. ASSUME NEW c \in Calls, UpdateStatus(c) PROVE [Machine!Next]_<<status, owner, mover>>
    BY <2>2 DEF LifecycleInv, TypeOK, CallKnows, UpdateStatus, From, To, Machine!Move
  <2>3. ASSUME NEW r \in Rooms, BanRoom(r) PROVE [Machine!Next]_<<status, owner, mover>>
    BY <2>3 DEF BanRoom, Machine!Ban
  <2>4. CASE UNCHANGED <<status, owner, mover>>
    BY <2>4
  <2> QED
    BY <2>1, <2>2, <2>3, <2>4 DEF Next, ReadRoom, ValidateRoomForSend, FinishSend, vars, tableVars
<1> QED
  BY <1>1, <1>2, LifecycleInvariant, PTL DEF Spec, ImplementsStateMachine, Machine!Spec

=============================================================================
