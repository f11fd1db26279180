------------------------- MODULE MotorStartupProofs -------------------------
(***************************************************************************)
(* Proofs about MotorStartup: typing, what the constructor hands over, and *)
(* what it takes for anchored.                                             *)
(***************************************************************************)
EXTENDS MotorStartup, TLAPS

\* Up to the wait nothing was sent, enabled or counted.
AllocInv == pc = "alloc" => /\ ~enabled /\ waited = 0 /\ device = Idle
                            /\ stable_counts = 0 /\ streak = 0

\* In the wait, the code counts the iterations in a row that found all motors
\* operational, and does not believe the motors anchored.
WaitInv == pc = "wait" => /\ Node!AutoEnables /\ ~enabled /\ last_cmds = Idle
                          /\ stable_counts = streak /\ streak <= RequiredStable

\* A node that runs has waited, and then is enabled whether the wait succeeded
\* or not; or it has not, and then nothing was sent.
RunInv == pc = "running" => /\ enabled <=> Node!AutoEnables
                            /\ last_cmds = Idle \/ (Node!AutoEnables /\ last_cmds = Anchor)
                            /\ ~Node!AutoEnables => waited = 0 /\ device = Idle

IInv == TypeOK /\ AllocInv /\ WaitInv /\ RunInv /\ AnchoredMeansStable

-----------------------------------------------------------------------------

\* A motor that idles is not anchored, and there is a motor.
LEMMA IdleIsNotAnchor == Idle # Anchor
<1>1. Node!IdleCommand.mode # Node!AnchorCommand.mode
  BY DEF Node!IdleCommand, Node!AnchorCommand
<1>2. 1 \in Motors
  BY StartupAssumption DEF Motors
<1>3. QED
  BY <1>1, <1>2 DEF Idle, Anchor

\* Whether the node enables itself is settled by its parameters.
LEMMA AutoEnablesStays == Node!AutoEnables' <=> Node!AutoEnables
BY DEF Node!AutoEnables

\* Nothing else is sent in construction than the two commands.
LEMMA DeviceType ==
  /\ Idle \in [Motors -> {Node!IdleCommand, Node!AnchorCommand}]
  /\ \A took \in SUBSET Motors :
        anchor_write(took) /\ device \in [Motors -> {Node!IdleCommand, Node!AnchorCommand}]
        => device' \in [Motors -> {Node!IdleCommand, Node!AnchorCommand}]
  BY DEF Idle, anchor_write

\* An iteration of the wait preserves the invariant: the count and the streak
\* grow and restart together.
LEMMA IterateInv ==
  ASSUME IInv, Iterate
  PROVE  IInv'
<1> USE StartupAssumption DEF IInv, TypeOK, AllocInv, WaitInv, RunInv, AnchoredMeansStable
<1> SUFFICES ASSUME NEW reading \in [Motors -> BOOLEAN], NEW took \in SUBSET Motors,
                    WaitSucceeds(reading, took) \/ WaitIterates(reading, took)
             PROVE  IInv'
  BY DEF Iterate
<1> DEFINE all == \A m \in Motors : states'[m]
<1>1. /\ pc = "wait" /\ waited <= Timeout
      /\ states' \in [Motors -> BOOLEAN] /\ streak' = IF all THEN streak + 1 ELSE 0
      /\ anchor_write(took) /\ UNCHANGED <<devs, released, ok>>
  BY DEF WaitSucceeds, WaitIterates, read_states
<1>2. device' \in [Motors -> {Node!IdleCommand, Node!AnchorCommand}]
  BY <1>1, DeviceType
<1>3. CASE WaitSucceeds(reading, took)
  <2>1. /\ all /\ stable_counts' = stable_counts + 1 /\ stable_counts' >= RequiredStable
        /\ last_cmds' = Anchor /\ enabled' = TRUE /\ pc' = "running" /\ UNCHANGED waited
    BY <1>3 DEF WaitSucceeds, EndWait
  <2>2. /\ stable_counts = streak /\ stable_counts \in 0..RequiredStable
        /\ Node!AutoEnables
    BY <1>1
  <2>3. /\ stable_counts' \in 0..(RequiredStable + 1) /\ streak' \in Nat
        /\ streak' >= RequiredStable
    BY <1>1, <2>1, <2>2
  <2>4. TypeOK'
    BY <1>1, <1>2, <2>1, <2>3
  <2>5. RunInv'
    BY <2>1, <2>2, AutoEnablesStays
  <2>6. AllocInv' /\ WaitInv' /\ AnchoredMeansStable'
    BY <2>1, <2>3
  <2>7. QED
    BY <2>4, <2>5, <2>6
<1>4. CASE WaitIterates(reading, took)
  <2>1. /\ stable_counts' = IF all THEN stable_counts + 1 ELSE 0
        /\ all => stable_counts' < RequiredStable
        /\ waited' = waited + 1 /\ UNCHANGED <<pc, enabled, last_cmds>>
    BY <1>4 DEF WaitIterates
  <2>2. stable_counts' \in 0..(RequiredStable + 1) /\ waited' \in 0..(Timeout + 1)
    BY <1>1, <2>1
  <2>3. stable_counts' = streak' /\ streak' <= RequiredStable
    BY <1>1, <2>1
  <2>4. QED
    BY <1>1, <1>2, <2>1, <2>2, <2>3
<1>5. QED
  BY <1>3, <1>4

\* Every step preserves the invariant, a signal during the wait included.
LEMMA StepInv ==
  ASSUME IInv, [Next]_vars
  PROVE  IInv'
<1> USE StartupAssumption DEF IInv, TypeOK, AllocInv, WaitInv, RunInv, AnchoredMeansStable
<1>1. CASE AllocMotor \/ Throw
  BY <1>1 DEF AllocMotor, Throw
<1>2. CASE InitMotors
  <2>1. /\ pc = "alloc" /\ last_cmds' = Idle
        /\ pc' = IF Node!AutoEnables THEN "wait" ELSE "running"
        /\ UNCHANGED <<devs, released, states, stable_counts, waited, enabled, device, ok, streak>>
    BY <1>2 DEF InitMotors
  <2>2. TypeOK'
    BY <2>1
  <2>3. /\ stable_counts = 0 /\ streak = 0 /\ ~enabled /\ waited = 0 /\ device = Idle
    BY <2>1
  <2>4. AllocInv' /\ WaitInv'
    BY <2>1, <2>3, AutoEnablesStays
  <2>5. RunInv'
    BY <2>1, <2>3, AutoEnablesStays
  <2>6. AnchoredMeansStable'
    BY <2>1, IdleIsNotAnchor
  <2>7. QED
    BY <2>2, <2>4, <2>5, <2>6
<1>3. CASE WaitTimesOut
  <2>1. /\ pc = "wait" /\ pc' = "running" /\ enabled' = TRUE
        /\ UNCHANGED <<devs, released, states, stable_counts, waited, last_cmds, device,
                       ok, streak>>
    BY <1>3 DEF WaitTimesOut, EndWait
  <2>2. TypeOK'
    BY <2>1
  <2>3. last_cmds = Idle /\ Node!AutoEnables
    BY <2>1
  <2>4. AllocInv' /\ WaitInv' /\ RunInv'
    BY <2>1, <2>3, AutoEnablesStays
  <2>5. AnchoredMeansStable'
    BY <2>1, <2>3, IdleIsNotAnchor
  <2>6. QED
    BY <2>2, <2>4, <2>5
<1>4. CASE Interrupt
  BY <1>4 DEF Interrupt
<1>5. CASE WaitInterrupted
  <2>1. /\ pc = "wait" /\ pc' \in {"running", "failed"} /\ enabled' = TRUE
        /\ UNCHANGED <<devs, released, states, stable_counts, waited, last_cmds, device,
                       ok, streak>>
    BY <1>5 DEF WaitInterrupted
  <2>2. TypeOK'
    BY <2>1
  <2>3. last_cmds = Idle /\ Node!AutoEnables
    BY <2>1
  <2>4. AllocInv' /\ WaitInv' /\ RunInv'
    BY <2>1, <2>3, AutoEnablesStays
  <2>5. AnchoredMeansStable'
    BY <2>1, <2>3, IdleIsNotAnchor
  <2>6. QED
    BY <2>2, <2>4, <2>5
<1>6. CASE Destroy
  BY <1>6 DEF Destroy
<1>7. CASE UNCHANGED vars
  BY <1>7 DEF vars
<1>8. QED
  BY <1>1, <1>2, <1>3, <1>4, <1>5, <1>6, <1>7, IterateInv DEF Next, Construct, Finished

\* The invariant holds throughout.
THEOREM Invariance == Spec => []IInv
<1>1. Init => IInv
  <2> SUFFICES ASSUME Init PROVE IInv
    OBVIOUS
  <2>1. /\ 0 \in 0..N /\ 0 \in 0..(RequiredStable + 1) /\ 0 \in 0..(Timeout + 1)
        /\ [m \in Motors |-> FALSE] \in [Motors -> BOOLEAN]
    BY StartupAssumption
  <2>2. TypeOK
    BY <2>1, DeviceType DEF Init, TypeOK
  <2>3. AllocInv /\ WaitInv /\ RunInv /\ AnchoredMeansStable
    BY DEF Init, AllocInv, WaitInv, RunInv, AnchoredMeansStable
  <2>4. QED
    BY <2>2, <2>3 DEF IInv
<1>2. IInv /\ [Next]_vars => IInv'
  BY StepInv
<1>3. QED
  BY <1>1, <1>2, PTL DEF Spec

-----------------------------------------------------------------------------

\* Types are kept; in particular the wait's clock stays within its bound.
THEOREM TypeCorrect == Spec => []TypeOK
BY Invariance, PTL DEF IInv

\* Whatever the drives do and however the wait ends, the constructor hands over
\* an initial state of MotorNode, of which the theorems in MotorNodeProofs speak.
THEOREM HandsOver == Spec => []HandsOverInit
<1>1. IInv => HandsOverInit
  <2> SUFFICES ASSUME IInv, pc = "running" PROVE Node!Init
    BY DEF HandsOverInit
  <2>1. enabled = Node!AutoEnables
    BY DEF IInv, TypeOK, RunInv, Node!AutoEnables
  <2>2. last_cmds \in {[m \in 1..N |-> Node!IdleCommand]}
                      \cup (IF Node!AutoEnables THEN {[m \in 1..N |-> Node!AnchorCommand]}
                            ELSE {})
    BY DEF IInv, RunInv, Idle, Anchor, Motors
  <2>3. waited \in (IF Node!AutoEnables THEN 0..TimeCap ELSE {0})
    BY StartupAssumption DEF IInv, TypeOK, RunInv
  <2>4. device \in [1..N -> {Node!IdleCommand}
                           \cup (IF Node!AutoEnables THEN {Node!AnchorCommand} ELSE {})]
    BY DEF IInv, TypeOK, RunInv, Idle, Motors
  <2>5. QED
    BY <2>1, <2>2, <2>3, <2>4 DEF Node!Init, Node!Motors
<1>2. QED
  BY <1>1, Invariance, PTL

\* The node takes the motors for anchored only after RequiredStable iterations
\* in a row that found all of them operational.
THEOREM AnchoredIsStable == Spec => []AnchoredMeansStable
BY Invariance, PTL DEF IInv

=============================================================================
