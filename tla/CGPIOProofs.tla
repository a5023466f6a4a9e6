---------------------------- MODULE CGPIOProofs -----------------------------
(***************************************************************************)
(* The flag, the event thread and the directions of class CGPIO, for any   *)
(* number of threads and callbacks.                                        *)
(***************************************************************************)
EXTENDS CGPIO, TLAPS

(* The thread is alone until a launch or an open is recorded as rushed.    *)
AtMostOneAlive ==
  ~rushed => \A s, t \in Threads : pc[s] # "none" /\ pc[t] # "none" => s = t

(* A pin has the direction of its object until the other method has set    *)
(* its own: a refused call comes after a call of the other method.         *)
DirectionExplained ==
  mode = "IO" /\ fd = "open" =>
    \/ bDirection = direction
    \/ direction = "INPUT" /\ "Write" \in asked
    \/ direction = "OUTPUT" /\ "Read" \in asked

(* What makes these properties inductive.                                  *)
ClassInv ==
  /\ TypeOK
  /\ RunningIffConnected
  /\ AtMostOneAlive
  /\ PollReplacesRead
  /\ DirectionExplained
  /\ OneWayNeverRefused

(* The descriptor and the driver's table entry.                            *)
FileUsed == \E t \in Threads : pc[t] \in InFile

(* A descriptor that is open, or a poll or read in progress, keeps the     *)
(* gpio open in the driver; one that was closed keeps it so only for the   *)
(* polls and reads that had begun.                                         *)
FileInv ==
  /\ armed \/ FileUsed => bIsOpened
  /\ orphan => FileUsed
  /\ fd = "open" => bIsOpened /\ ~orphan
  /\ fd = "closed" /\ bIsOpened => orphan
  /\ mode = "gone" => fd # "open"

LEMMA ClassInit == Init => ClassInv
BY DEF Init, Constructed, ClassInv, TypeOK, Places, InRead, InFile,
       RunningIffConnected, AtMostOneAlive, PollReplacesRead,
       DirectionExplained, OneWayNeverRefused

(* A step of a thread changes no flag, no slot and no direction.  It       *)
(* clears bDone only when it leaves the read, and then it is alone.        *)
LEMMA ThreadStepInv ==
  ASSUME ClassInv, FileInv, NEW t \in Threads, ThreadStep(t)
  PROVE  ClassInv'
<1> USE DEF ClassInv, TypeOK, Places, InRead, InFile, RunningIffConnected,
        AtMostOneAlive, PollReplacesRead, DirectionExplained,
        OneWayNeverRefused, objectVars, fileVars, driverVars, historyVars
<1>1. CASE PollReturns(t)
  <2>1. bIsOpened' \in BOOLEAN /\ armed' \in BOOLEAN /\ orphan' \in BOOLEAN
    BY <1>1 DEF PollReturns, LeaveFile, Close
  <2>2. /\ pc[t] = "polling"
        /\ pc' = [pc EXCEPT ![t] = IF bDone \/ orphan THEN "read" ELSE "check"]
        /\ UNCHANGED <<objectVars, fd, bDirection, bDone, historyVars>>
    BY <1>1 DEF PollReturns, Goto, Ready
  <2>3. fd = "open" => ~orphan
    BY DEF FileInv
  <2>4. QED
    BY <2>1, <2>2, <2>3
<1>2. CASE ReadCalled(t)
  BY <1>2 DEF ReadCalled, Goto
<1>3. CASE ReadUnlocks(t)
  BY <1>3 DEF ReadUnlocks, Goto
<1>4. CASE ReadReturns(t)
  <2>1. bIsOpened' \in BOOLEAN /\ armed' \in BOOLEAN /\ orphan' \in BOOLEAN
    BY <1>4 DEF ReadReturns, LeaveFile, Close
  <2>2. /\ pc[t] = "take" /\ pc' = [pc EXCEPT ![t] = "call"]
        /\ bDone' = FALSE
        /\ UNCHANGED <<objectVars, fd, bDirection, historyVars>>
    BY <1>4 DEF ReadReturns, Goto
  <2>3. PollReplacesRead'
    BY <2>2
  <2>4. QED
    BY <2>1, <2>2, <2>3
<1>5. CASE CallsCallbacks(t)
  BY <1>5 DEF CallsCallbacks, Goto
<1>6. CASE DeletesEvent(t)
  <2>1. bIsOpened' \in BOOLEAN /\ armed' \in BOOLEAN /\ orphan' \in BOOLEAN
    BY <1>6 DEF DeletesEvent, Close
  <2>2. /\ pc[t] = "delete" /\ pc' = [pc EXCEPT ![t] = "check"]
        /\ fd' \in {fd, "closed"}
        /\ UNCHANGED <<objectVars, bDone, bDirection, historyVars>>
    BY <1>6 DEF DeletesEvent, Goto
  <2>3. QED
    BY <2>1, <2>2
<1>7. CASE ChecksFlag(t)
  BY <1>7 DEF ChecksFlag, Goto
<1>8. CASE PollCalled(t)
  BY <1>8 DEF PollCalled, Goto
<1>9. QED
  BY <1>1, <1>2, <1>3, <1>4, <1>5, <1>6, <1>7, <1>8 DEF ThreadStep

(* Registrations.  A thread is launched only while no function is connected, *)
(* and then it is alone or the launch is recorded as rushed.               *)
LEMMA MethodInv ==
  ASSUME ClassInv, NEW f \in Callbacks,
         RegisterCallback(f) \/ UnregisterCallback(f) \/ Disconnect(f)
  PROVE  ClassInv'
<1> USE DEF ClassInv, TypeOK, Places, InRead, InFile, RunningIffConnected,
        AtMostOneAlive, PollReplacesRead, DirectionExplained,
        OneWayNeverRefused, objectVars, fileVars, driverVars, historyVars
<1>1. CASE RegisterCallback(f)
  <2>1. CASE slots = {}
    <3>1. PICK t \in Threads : Goto(t, "none", "poll")
      BY <1>1, <2>1 DEF RegisterCallback, Launching
    <3>2. rushed' \in BOOLEAN /\ (~rushed' => ~rushed /\ Alive = {})
      BY <1>1, <2>1 DEF RegisterCallback
    <3>3. AtMostOneAlive' /\ PollReplacesRead'
      BY <1>1, <3>1, <3>2 DEF RegisterCallback, Goto, Alive
    <3>4. QED
      BY <1>1, <2>1, <3>1, <3>2, <3>3 DEF RegisterCallback, Launching, Goto
  <2>2. CASE slots # {}
    BY <1>1, <2>2 DEF RegisterCallback, Launching
  <2>3. QED
    BY <2>1, <2>2
<1>2. CASE UnregisterCallback(f)
  BY <1>2 DEF UnregisterCallback
<1>3. CASE Disconnect(f)
  BY <1>3 DEF Disconnect
<1>4. QED
  BY <1>1, <1>2, <1>3

(* Opening, reading, writing, events, the end of registrations, and the    *)
(* life of the object.                                                     *)
LEMMA ObjectInv ==
  ASSUME ClassInv,
         \/ Event \/ OpenFails \/ OpenSucceeds \/ Read \/ Write
         \/ RegisterRefused \/ UnregisterAllCallbacks
         \/ Destroy \/ Construct \/ ProcessExits
  PROVE  ClassInv'
<1> USE DEF ClassInv, TypeOK, Places, InRead, InFile, RunningIffConnected,
        AtMostOneAlive, PollReplacesRead, DirectionExplained,
        OneWayNeverRefused, objectVars, fileVars, driverVars, historyVars
<1>1. CASE Event
  BY <1>1 DEF Event
<1>2. CASE OpenFails
  BY <1>2 DEF OpenFails
<1>3. CASE OpenSucceeds
  <2>1. ~rushed' => Alive = {}
    BY <1>3 DEF OpenSucceeds
  <2>2. QED
    BY <1>3, <2>1 DEF OpenSucceeds, Alive
<1>4. CASE Read
  BY <1>4 DEF Read, Access, ReadDirection
<1>5. CASE Write
  BY <1>5 DEF Write, Access, WriteDirection
<1>6. CASE Destroy
  <2>1. bIsOpened' \in BOOLEAN /\ armed' \in BOOLEAN /\ orphan' \in BOOLEAN
    BY <1>6 DEF Destroy, Close
  <2>2. /\ mode' = "gone" /\ slots' = {} /\ running' \in BOOLEAN
        /\ fd' \in {fd, "closed"}
        /\ UNCHANGED <<direction, pc, bDirection, bDone, historyVars>>
    BY <1>6 DEF Destroy
  <2>3. QED
    BY <2>1, <2>2
<1>7. CASE Construct
  BY <1>7 DEF Construct, Constructed, Alive
<1>8. CASE ProcessExits
  BY <1>8 DEF ProcessExits
<1>9. CASE RegisterRefused
  BY <1>9 DEF RegisterRefused
<1>10. CASE UnregisterAllCallbacks
  BY <1>10 DEF UnregisterAllCallbacks
<1>11. QED
  BY <1>1, <1>2, <1>3, <1>4, <1>5, <1>6, <1>7, <1>8, <1>9, <1>10

LEMMA ClassStepInv == ClassInv /\ FileInv /\ [Next]_vars => ClassInv'
<1> SUFFICES ASSUME ClassInv, FileInv, [Next]_vars PROVE ClassInv'
  OBVIOUS
<1>1. CASE UNCHANGED vars
  BY <1>1 DEF vars, objectVars, fileVars, driverVars, historyVars, ClassInv,
              TypeOK, RunningIffConnected, AtMostOneAlive, PollReplacesRead,
              DirectionExplained, OneWayNeverRefused
<1>2. CASE \E f \in Callbacks :
             RegisterCallback(f) \/ UnregisterCallback(f) \/ Disconnect(f)
  BY <1>2, MethodInv
<1>3. CASE \E t \in Threads : ThreadStep(t)
  BY <1>3, ThreadStepInv
<1>4. CASE \/ Event \/ OpenFails \/ OpenSucceeds \/ Read \/ Write
           \/ RegisterRefused \/ UnregisterAllCallbacks
           \/ Destroy \/ Construct \/ ProcessExits
  BY <1>4, ObjectInv
<1>5. QED
  BY <1>1, <1>2, <1>3, <1>4 DEF Next

(* What closing does, with the polls and reads of users in progress.       *)
LEMMA CloseFile ==
  ASSUME FileInv, NEW users \in SUBSET Threads, Close(users)
  PROVE  /\ orphan' <=> \E t \in users : pc[t] \in InFile
         /\ bIsOpened' <=> orphan'
         /\ armed' => bIsOpened'
BY DEF Close

LEMMA FileStep == TypeOK /\ FileInv /\ [Next]_vars => FileInv'
<1> SUFFICES ASSUME TypeOK, FileInv, [Next]_vars PROVE FileInv'
  OBVIOUS
<1> USE DEF TypeOK, Places, InRead, InFile, FileInv, FileUsed, objectVars,
        fileVars, driverVars, historyVars
<1>1. ASSUME NEW t \in Threads, ThreadStep(t) PROVE FileInv'
  <2>1. CASE ReadUnlocks(t) \/ CallsCallbacks(t) \/ ChecksFlag(t)
    <3>1. \A s \in Threads : pc[s] \in InFile <=> pc'[s] \in InFile
      BY <2>1 DEF ReadUnlocks, CallsCallbacks, ChecksFlag, Goto
    <3>2. UNCHANGED <<mode, fd, fileVars>>
      BY <2>1 DEF ReadUnlocks, CallsCallbacks, ChecksFlag
    <3>3. QED
      BY <3>1, <3>2
  <2>2. CASE PollCalled(t) \/ ReadCalled(t)
    BY <2>2 DEF PollCalled, ReadCalled, Goto
  <2>3. CASE PollReturns(t) \/ ReadReturns(t)
    <3>1. /\ UNCHANGED <<mode, fd>> /\ pc'[t] \notin InFile
          /\ \A s \in Threads \ {t} : pc'[s] = pc[s]
          /\ LeaveFile(t)
      BY <2>3 DEF PollReturns, ReadReturns, Goto
    <3>2. CASE orphan
      <4>1. /\ orphan' <=> \E s \in Threads \ {t} : pc[s] \in InFile
            /\ bIsOpened' <=> orphan'
            /\ armed' => bIsOpened'
        BY <3>1, <3>2, CloseFile DEF LeaveFile
      <4>2. orphan' <=> FileUsed'
        BY <3>1, <4>1
      <4>3. fd # "open"
        BY <3>2
      <4>4. QED
        BY <3>1, <4>1, <4>2, <4>3
    <3>3. CASE ~orphan
      <4>1. UNCHANGED fileVars
        BY <3>1, <3>3 DEF LeaveFile
      <4>2. FileUsed' => FileUsed
        BY <3>1
      <4>3. QED
        BY <3>1, <3>3, <4>1, <4>2
    <3>4. QED
      BY <3>2, <3>3
  <2>4. CASE DeletesEvent(t)
    <3>1. UNCHANGED mode
      BY <2>4 DEF DeletesEvent
    <3>2. \A s \in Threads : pc[s] \in InFile <=> pc'[s] \in InFile
      BY <2>4 DEF DeletesEvent, Goto
    <3>3. CASE UNCHANGED <<fd, fileVars>>
      BY <3>1, <3>2, <3>3
    <3>4. CASE fd' = "closed" /\ Close(Threads)
      <4>1. /\ orphan' <=> FileUsed
            /\ bIsOpened' <=> orphan'
            /\ armed' => bIsOpened'
        BY <3>4, CloseFile
      <4>2. FileUsed' <=> FileUsed
        BY <3>2
      <4>3. QED
        BY <3>1, <3>4, <4>1, <4>2
    <3>5. QED
      BY <2>4, <3>3, <3>4 DEF DeletesEvent
  <2>5. QED
    BY <1>1, <2>1, <2>2, <2>3, <2>4 DEF ThreadStep
<1>2. ASSUME NEW f \in Callbacks,
             RegisterCallback(f) \/ UnregisterCallback(f) \/ Disconnect(f)
      PROVE  FileInv'
  <2>1. UNCHANGED <<mode, fd, fileVars>>
    BY <1>2 DEF RegisterCallback, UnregisterCallback, Disconnect
  <2>2. \A t \in Threads : pc[t] \in InFile <=> pc'[t] \in InFile
    BY <1>2 DEF RegisterCallback, UnregisterCallback, Disconnect, Goto
  <2>3. QED
    BY <2>1, <2>2
<1>3. CASE Event \/ RegisterRefused \/ UnregisterAllCallbacks \/ Read \/ Write
  BY <1>3 DEF Event, RegisterRefused, UnregisterAllCallbacks, Read, Write, Access
<1>4. CASE OpenFails
  BY <1>4 DEF OpenFails
<1>5. CASE OpenSucceeds
  BY <1>5 DEF OpenSucceeds
<1>6. CASE Destroy
  <2>1. CASE fd = "open"
    <3>1. /\ orphan' <=> FileUsed
          /\ bIsOpened' <=> orphan'
          /\ armed' => bIsOpened'
      BY <1>6, <2>1, CloseFile DEF Destroy
    <3>2. fd' = "closed" /\ UNCHANGED pc
      BY <1>6, <2>1 DEF Destroy
    <3>3. QED
      BY <3>1, <3>2
  <2>2. CASE fd # "open"
    BY <1>6, <2>2 DEF Destroy
  <2>3. QED
    BY <2>1, <2>2
<1>7. CASE Construct
  BY <1>7 DEF Construct
<1>8. CASE ProcessExits
  BY <1>8 DEF ProcessExits
<1>9. CASE UNCHANGED vars
  BY <1>9 DEF vars
<1>10. QED
  BY <1>1, <1>2, <1>3, <1>4, <1>5, <1>6, <1>7, <1>8, <1>9 DEF Next

LEMMA ClassInvariant == Spec => [](ClassInv /\ FileInv)
<1>1. Init => FileInv
  BY DEF Init, FileInv, FileUsed, InFile, InRead
<1>2. ClassInv => TypeOK
  BY DEF ClassInv
<1>3. QED
  BY <1>1, <1>2, ClassInit, ClassStepInv, FileStep, PTL DEF Spec

-----------------------------------------------------------------------------
(* The flag m_bThreadRunning says whether functions are connected, for any *)
(* program that does not disconnect a callback by its connection.          *)
THEOREM FlagIsRight == Spec => []RunningIffConnected
<1>1. ClassInv => RunningIffConnected
  BY DEF ClassInv
<1>2. QED
  BY <1>1, ClassInvariant, PTL

(* The read after the poll finds its event, unless a second thread may     *)
(* have taken it.                                                          *)
THEOREM ReadFindsEvent == Spec => []PollReplacesRead
<1>1. ClassInv => PollReplacesRead
  BY DEF ClassInv
<1>2. QED
  BY <1>1, ClassInvariant, PTL

(* An object used in one way only never has a call refused for the         *)
(* direction of its pin.                                                   *)
THEOREM DirectionIsRight == Spec => []OneWayNeverRefused
<1>1. ClassInv => OneWayNeverRefused
  BY DEF ClassInv
<1>2. QED
  BY <1>1, ClassInvariant, PTL

(* However the descriptor is closed (by the destructor, or behind the      *)
(* object's back by the destructor of a CEvent) and whatever threads are   *)
(* in a poll or a read at that moment, the driver gives the gpio and its   *)
(* interrupt back when the last of these has returned, and not before.     *)
ClosedIsGivenBack ==
  /\ fd = "closed" /\ ~FileUsed => ~bIsOpened /\ ~armed
  /\ FileUsed => bIsOpened

(* For any number of threads, in poll, read or neither, of one object or   *)
(* several.                                                                *)
THEOREM GpioGivenBack == Spec => []ClosedIsGivenBack
<1>1. FileInv => ClosedIsGivenBack
  BY DEF FileInv, ClosedIsGivenBack
<1>2. QED
  BY <1>1, ClassInvariant, PTL

(* An open that succeeds starts from nothing: no handler of an earlier use *)
(* is registered, and no thread that outlived its object is still in a     *)
(* poll or a read of the gpio.                                             *)
THEOREM OpenIsFresh ==
  Spec => [][OpenSucceeds => ~armed /\ ~orphan /\ ~FileUsed]_vars
<1>1. FileInv /\ OpenSucceeds => ~armed /\ ~orphan /\ ~FileUsed
  BY DEF FileInv, OpenSucceeds
<1>2. QED
  BY <1>1, ClassInvariant, PTL

-----------------------------------------------------------------------------
(* While the flag of a living object is set there is a thread, for any     *)
(* number of callbacks, registered and removed in any order: what          *)
(* EventFetched rests on.                                                  *)
THEOREM ThreadServes == Spec => []AlwaysServed
<1>1. Init => AlwaysServed
  BY DEF Init, AlwaysServed, Alive
<1>2. TypeOK /\ AlwaysServed /\ [Next]_vars => AlwaysServed'
  <2> SUFFICES ASSUME TypeOK, AlwaysServed, [Next]_vars PROVE AlwaysServed'
    OBVIOUS
  <2> USE DEF TypeOK, AlwaysServed, Alive, objectVars, Goto
  <2>1. ASSUME NEW t \in Threads, ThreadStep(t) PROVE AlwaysServed'
    <3>1. UNCHANGED <<mode, running>>
      BY <2>1 DEF ThreadStep, PollCalled, PollReturns, ReadCalled, ReadUnlocks,
                  ReadReturns, CallsCallbacks, DeletesEvent, ChecksFlag
    <3>2. CASE ChecksFlag(t)
      BY <3>1, <3>2 DEF ChecksFlag
    <3>3. CASE ~ChecksFlag(t)
      <4>1. pc'[t] # "none"
        BY <2>1, <3>3 DEF ThreadStep, PollCalled, PollReturns, ReadCalled,
                          ReadUnlocks, ReadReturns, CallsCallbacks, DeletesEvent
      <4>2. QED
        BY <4>1
    <3>4. QED
      BY <3>2, <3>3
  <2>2. ASSUME NEW f \in Callbacks,
               RegisterCallback(f) \/ UnregisterCallback(f) \/ Disconnect(f)
        PROVE  AlwaysServed'
    <3>1. CASE RegisterCallback(f) /\ Launching
      <4>1. PICK t \in Threads : Goto(t, "none", "poll")
        BY <3>1 DEF RegisterCallback
      <4>2. pc'[t] # "none"
        BY <4>1
      <4>3. QED
        BY <4>2
    <3>2. CASE RegisterCallback(f) /\ ~Launching
      BY <3>2 DEF RegisterCallback
    <3>3. CASE UnregisterCallback(f) \/ Disconnect(f)
      BY <3>3 DEF UnregisterCallback, Disconnect
    <3>4. QED
      BY <2>2, <3>1, <3>2, <3>3
  <2>3. CASE \/ Event \/ OpenFails \/ OpenSucceeds \/ Read \/ Write
             \/ RegisterRefused \/ UnregisterAllCallbacks
             \/ Destroy \/ Construct \/ ProcessExits
    BY <2>3 DEF Event, OpenFails, OpenSucceeds, Read, Write, Access,
       RegisterRefused, UnregisterAllCallbacks, Destroy, Construct, ProcessExits
  <2>4. CASE UNCHANGED vars
    BY <2>4 DEF vars
  <2>5. QED
    BY <2>1, <2>2, <2>3, <2>4 DEF Next
<1>3. ClassInv => TypeOK
  BY DEF ClassInv
<1>4. QED
  BY <1>1, <1>2, <1>3, ClassInvariant, PTL DEF Spec
=============================================================================
