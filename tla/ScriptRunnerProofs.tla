-------------------------- MODULE ScriptRunnerProofs --------------------------
(* For every plan that meets the conditions of ScriptPlans, every agenda and  *)
(* any number of faults: the runner keeps its types, wires only what is       *)
(* deployed, carries out the steps in order, migrates what it tracks, and     *)
(* connects the protocol; rewards go live complete, and what is funded and    *)
(* then lost has a fault of its own.                                          *)
EXTENDS ScriptRunner, FiniteSetTheorems, SequenceTheorems, TLAPS

LEMMA Bounds == MaxInstances \in Nat \ {0} /\ MaxFaults \in Nat /\ 0 \in Instances
  BY PlanAssumption DEF Instances

(* Every step of a script is one of Steps, and its fields have their types.   *)
LEMMA PlanSteps == ASSUME NEW s \in Scripts, NEW n \in DOMAIN Plan[s]
                   PROVE  Plan[s][n] \in Steps /\ Plan[s] \in Seq(Steps) /\ Len(Plan[s]) \in Nat
                          /\ DOMAIN Plan[s] = 1 .. Len(Plan[s])
  BY PlanAssumption

LEMMA PlanLength == ASSUME NEW s \in Scripts
                    PROVE  Len(Plan[s]) \in Nat /\ DOMAIN Plan[s] = 1 .. Len(Plan[s])
  BY PlanAssumption

LEMMA StepFields ==
    ASSUME NEW step \in Steps
    PROVE  /\ step.op \in {"load", "deploy", "save"} => step.contracts \subseteq Contracts
           /\ step.op = "tx" => /\ step.retried \in BOOLEAN
                                /\ step.holder \in Contracts
                                /\ step.puts \subseteq Slots \X (Contracts \cup Words)
                                /\ step.adds \subseteq Counters
                                /\ step.record \in Records \cup {NoRecord}
           /\ step.op = "track" => step.record \in Records
  BY DEF Steps

(* The command in progress is a sequence of scripts that is not empty.        *)
LEMMA CommandScripts == ASSUME TypeOK, todo # <<>>
                        PROVE  /\ Command \in Seq(Scripts) /\ Len(Command) \in Nat /\ Len(Command) > 0
                               /\ Tail(todo) \in Seq(Seq(Scripts) \ {<<>>})
  <1>1. todo \in Seq(Seq(Scripts) \ {<<>>})
    BY DEF TypeOK, OperatorTypes
  <1>2. Head(todo) \in Seq(Scripts) \ {<<>>} /\ Tail(todo) \in Seq(Seq(Scripts) \ {<<>>})
    BY <1>1, HeadTailProperties
  <1>3. QED BY <1>2, EmptySeq DEF Command

LEMMA ScriptInPlan == ASSUME TypeOK, at > 0
                      PROVE  /\ Script \in Scripts /\ at \in DOMAIN Command
                             /\ Len(Plan[Script]) \in Nat
                             /\ DOMAIN Plan[Script] = 1 .. Len(Plan[Script])
  <1>1. todo # <<>> /\ at \in 1 .. Len(Command)
    BY CommandScripts DEF TypeOK, InPlace, OperatorTypes
  <1>2. Script \in Scripts /\ at \in DOMAIN Command
    BY <1>1, CommandScripts DEF Script
  <1>3. QED BY <1>2, PlanLength

LEMMA StepInPlan == ASSUME TypeOK, NEW op, InStep(op)
                    PROVE  /\ at > 0 /\ Script \in Scripts /\ pc \in DOMAIN Plan[Script]
                           /\ Step = Plan[Script][pc] /\ Step \in Steps /\ Step.op = op
  <1>1. running /\ at > 0 /\ at \in Nat
    BY DEF TypeOK, InPlace, OperatorTypes, InStep
  <1>2. Script \in Scripts /\ Len(Plan[Script]) \in Nat /\ DOMAIN Plan[Script] = 1 .. Len(Plan[Script])
    BY <1>1, ScriptInPlan
  <1>3. pc \in DOMAIN Plan[Script]
    BY <1>2 DEF TypeOK, InPlace, ProcessTypes, InStep
  <1>4. QED BY <1>1, <1>2, <1>3, PlanSteps DEF Step, InStep

-------------------------------------------------------------------------------
(* Types.                                                                     *)

(* What is connected before the first command is there.                       *)
LEMMA InitWires ==
    ASSUME Init, NEW w \in wire
    PROVE  \E need \in Needs : /\ need \in Contracts \X Slots \X Contracts
                               /\ w = <<need[2], 1, <<need[3], 1>>>>
                               /\ {need[1], need[3]} \subseteq Legacy[todo]
  BY NeedsAreMet DEF Init

LEMMA TypeInit == Init => TypeOK
  <1> SUFFICES ASSUME Init PROVE TypeOK
    OBVIOUS
  <1>1. todo \in Seq(Seq(Scripts) \ {<<>>})
    BY PlanAssumption DEF Init
  <1>2. deployed \in [Contracts -> Instances]
    BY PlanAssumption DEF Init, Instances
  <1>3. added \in [Counters -> [Instances -> Nat]]
    BY DEF Init
  <1>4. mem \in [Contracts -> Instances]
    BY PlanAssumption DEF Init, Nowhere, Instances
  <1>5. OperatorTypes
    BY <1>1, Bounds DEF Init, OperatorTypes
  <1>9. running \in BOOLEAN
    BY DEF Init
  <1>10. ProcessTypes
    BY <1>4, <1>9 DEF Init, ProcessTypes
  <1>11. ASSUME NEW w \in wire PROVE w \in Slots \X Instances \X Values
    <2>1. 1 \in Instances
      BY Bounds DEF Instances
    <2>2. QED BY <2>1, InitWires DEF Values
  <1>6. DiskTypes /\ ChainTypes
    BY <1>2, <1>3, <1>11 DEF Init, DiskTypes, ChainTypes
  <1>7. BoundTypes /\ InPlace
    BY Bounds DEF Init, BoundTypes, InPlace
  <1>8. QED BY <1>5, <1>10, <1>6, <1>7 DEF TypeOK

(* The values a transaction writes are values of slots.                       *)
LEMMA LandTypes ==
    ASSUME TypeOK, InStep("tx"), Land
    PROVE  /\ wire' \subseteq Slots \X Instances \X Values
           /\ added' \in [Counters -> [Instances -> Nat]]
           /\ overwritten' \in Nat /\ userChanges' \in Nat
           /\ deployed' \in [Contracts -> Instances]
  <1>1. Step \in Steps /\ Step.op = "tx"
    BY StepInPlan
  <1>2. Step.holder \in Contracts /\ Step.puts \subseteq Slots \X (Contracts \cup Words)
    BY <1>1, StepFields
  <1>3. Target \in Instances
    BY <1>2 DEF TypeOK, ProcessTypes, Target
  <1>4. ASSUME NEW v \in Contracts \cup Words PROVE ValueOf(v) \in Values
    BY PlanAssumption DEF TypeOK, ProcessTypes, ValueOf, Values, Instances
  <1>5. Puts \subseteq Slots \X Instances \X Values
    BY <1>2, <1>3, <1>4 DEF Puts
  <1>6. wire' \subseteq Slots \X Instances \X Values
    BY <1>5 DEF Land, TypeOK, ChainTypes
  <1>7. added' \in [Counters -> [Instances -> Nat]]
    <2>1. ASSUME NEW s \in Counters PROVE added[s] \in [Instances -> Nat]
      BY DEF TypeOK, ChainTypes
    <2>2. ASSUME NEW s \in Counters
          PROVE (IF s \in Step.adds THEN [added[s] EXCEPT ![Target] = @ + 1] ELSE added[s]) \in [Instances -> Nat]
      BY <2>1, <1>3
    <2>3. QED BY <2>2 DEF Land
  <1>8. QED BY <1>6, <1>7, PlanAssumption DEF Land, TypeOK, ChainTypes, BoundTypes
(* Entering a script puts the process in place.                               *)
LEMMA EnterTypes ==
    ASSUME TypeOK, todo # <<>>, todo' = todo,
           NEW script \in 1 .. Len(Command), NEW target \in Nat, Enter(script, target),
           target > 0 => script = at /\ target <= Len(Plan[Script]) /\ IsTarget(target)
    PROVE  ProcessTypes' /\ InPlace' /\ at' \in Nat
  <1>1. Command' = Command /\ Command \in Seq(Scripts) /\ Len(Command) \in Nat
    BY CommandScripts DEF Command
  <1>2. Command[script] \in Scripts /\ at' = script /\ at' > 0
    BY <1>1 DEF Enter
  <1>3. Script' = Command[script] /\ Len(Plan[Script']) \in Nat
    BY <1>1, <1>2, PlanLength DEF Script
  <1>4. mem' \in [Contracts -> Instances]
    BY Bounds DEF Enter, Nowhere
  <1>5. running' \in BOOLEAN
    BY DEF Enter
  <1>6. ProcessTypes'
    BY <1>4, <1>5 DEF Enter, ProcessTypes
  <1>7. InPlace'
    BY <1>1, <1>2, <1>3 DEF Enter, InPlace, IsTarget, Script
  <1>8. QED BY <1>6, <1>7, <1>2, <1>1

(* A step of a script leaves the process in it.                               *)
LEMMA StayTypes ==
    ASSUME TypeOK, at > 0, UNCHANGED <<todo, at>>,
           running' \in BOOLEAN, pc' \in 1 .. Len(Plan[Script]) + 1, mem' \in [Contracts -> Instances],
           skipTo' \in {0, skipTo}, skipTo' > 0 => pc' <= skipTo
    PROVE  ProcessTypes' /\ InPlace'
  <1>1. Script' = Script /\ Command' = Command /\ Len(Plan[Script]) \in Nat
    BY ScriptInPlan DEF Script, Command
  <1>2. skipTo \in Nat /\ pc \in Nat \ {0}
    BY DEF TypeOK, ProcessTypes
  <1>3. ProcessTypes'
    BY <1>1, <1>2 DEF ProcessTypes
  <1>4. InPlace'
    BY <1>1, <1>2 DEF InPlace, IsTarget, TypeOK, OperatorTypes
  <1>5. QED BY <1>3, <1>4

(* Where a transaction is due that is not skipped, the skipping ends.         *)
LEMMA DueEndsSkipping ==
    ASSUME TypeOK, InStep("tx"), ~IsSkipped, Step.retried
    PROVE  skipTo = 0 \/ skipTo = pc
  BY StepInPlan DEF TypeOK, ProcessTypes, InPlace, IsSkipped

(* Any other step is before the transaction that is skipped to.               *)
LEMMA SkippedIsAhead ==
    ASSUME TypeOK, NEW op, InStep(op), skipTo > 0, op = "tx" => ~Step.retried \/ IsSkipped \/ IsMigrated
    PROVE  pc + 1 <= skipTo
  <1>1. at > 0 /\ Script \in Scripts /\ pc \in DOMAIN Plan[Script] /\ Step = Plan[Script][pc] /\ Step.op = op
    BY StepInPlan
  <1>2. pc <= skipTo /\ IsTarget(skipTo) /\ pc \in Nat /\ skipTo \in Nat
    BY <1>1 DEF TypeOK, InPlace, ProcessTypes
  <1>3. CASE pc = skipTo
    <2>1. Step.op = "tx" /\ Step.retried /\ Script \in Resumable
      BY <1>1, <1>2, <1>3 DEF IsTarget
    <2>2. Step.record = NoRecord
      BY <2>1, <1>1, PlanAssumption
    <2>3. ~IsSkipped /\ ~IsMigrated
      BY <2>2, <1>3, <1>2 DEF IsSkipped, IsMigrated
    <2>4. QED BY <2>1, <2>3, <1>1
  <1>4. QED BY <1>2, <1>3

(* A step that goes on to the next one.                                       *)
LEMMA ProceedTypes ==
    ASSUME TypeOK, NEW op, InStep(op), UNCHANGED <<todo, at>>, pc' = pc + 1,
           running' = running, mem' \in [Contracts -> Instances],
           skipTo' = 0 \/ (skipTo' = skipTo /\ (op = "tx" => ~Step.retried \/ IsSkipped \/ IsMigrated))
    PROVE  ProcessTypes' /\ InPlace'
  <1>1. at > 0 /\ pc' \in 1 .. Len(Plan[Script]) + 1
    BY StepInPlan, ScriptInPlan
  <1>2. running' \in BOOLEAN /\ skipTo \in Nat
    BY DEF TypeOK, ProcessTypes
  <1>3. skipTo' \in {0, skipTo} /\ (skipTo' > 0 => pc' <= skipTo)
    BY <1>2, SkippedIsAhead
  <1>4. QED BY <1>1, <1>2, <1>3, StayTypes

(* A process that ends where it is.                                           *)
LEMMA AbortTypes ==
    ASSUME TypeOK, running, UNCHANGED <<todo, at>>, Abort
    PROVE  ProcessTypes' /\ InPlace'
  <1>1. at > 0 /\ at \in Nat /\ pc \in Nat \ {0} /\ skipTo \in Nat /\ mem \in [Contracts -> Instances]
    BY DEF TypeOK, InPlace, OperatorTypes, ProcessTypes
  <1>2. pc \in 1 .. Len(Plan[Script]) + 1 /\ (skipTo > 0 => pc <= skipTo)
    BY <1>1, ScriptInPlan DEF TypeOK, InPlace
  <1>3. running' \in BOOLEAN /\ pc' = pc /\ mem' = mem /\ skipTo' = skipTo
    BY DEF Abort
  <1>4. QED BY <1>1, <1>2, <1>3, StayTypes

(* Nothing but the process and the position changes when a script starts.     *)
LEMMA OthersKept ==
    ASSUME TypeOK, UNCHANGED <<disk, onChain>>
    PROVE  DiskTypes' /\ ChainTypes'
  BY DEF TypeOK, DiskTypes, ChainTypes, disk, onChain

LEMMA BoundsKept ==
    ASSUME TypeOK, UNCHANGED <<faults, users>>
    PROVE  BoundTypes'
  BY DEF TypeOK, BoundTypes, users

LEMMA OperatorKept ==
    ASSUME TypeOK, UNCHANGED operator
    PROVE  OperatorTypes' /\ UNCHANGED <<todo, at, reruns>>
  BY DEF TypeOK, OperatorTypes, operator

LEMMA TypeStart == ASSUME TypeOK, StartCommand PROVE TypeOK'
  <1>1. 1 \in 1 .. Len(Command) /\ todo' = todo /\ todo # <<>> /\ Enter(1, 0)
    BY CommandScripts DEF StartCommand
  <1>2. ProcessTypes' /\ InPlace' /\ at' \in Nat
    BY <1>1, EnterTypes
  <1>3. OperatorTypes'
    BY <1>2 DEF TypeOK, OperatorTypes, StartCommand
  <1>4. DiskTypes' /\ ChainTypes' /\ BoundTypes'
    BY OthersKept, BoundsKept DEF StartCommand
  <1>5. QED BY <1>2, <1>3, <1>4 DEF TypeOK

LEMMA TypeNextScript == ASSUME TypeOK, NextScript PROVE TypeOK'
  <1>1. at > 0 /\ at \in Nat /\ todo # <<>> /\ todo' = todo /\ Len(Command) \in Nat
    BY CommandScripts DEF NextScript, TypeOK, InPlace, OperatorTypes
  <1>2. at + 1 \in 1 .. Len(Command) /\ Enter(at + 1, 0)
    BY <1>1 DEF NextScript
  <1>3. ProcessTypes' /\ InPlace' /\ at' \in Nat
    BY <1>1, <1>2, EnterTypes
  <1>4. OperatorTypes'
    BY <1>3 DEF TypeOK, OperatorTypes, NextScript
  <1>5. DiskTypes' /\ ChainTypes' /\ BoundTypes'
    BY OthersKept, BoundsKept DEF NextScript
  <1>6. QED BY <1>3, <1>4, <1>5 DEF TypeOK

LEMMA TypeEnd == ASSUME TypeOK, EndCommand PROVE TypeOK'
  <1>1. todo # <<>> /\ Tail(todo) \in Seq(Seq(Scripts) \ {<<>>})
    BY CommandScripts DEF EndCommand, TypeOK, InPlace
  <1>2. OperatorTypes'
    BY <1>1 DEF TypeOK, OperatorTypes, EndCommand
  <1>3. mem' \in [Contracts -> Instances] /\ running' \in BOOLEAN
    BY Bounds DEF EndCommand, Nowhere
  <1>4. ProcessTypes' /\ InPlace'
    BY <1>3 DEF EndCommand, ProcessTypes, InPlace
  <1>5. DiskTypes' /\ ChainTypes' /\ BoundTypes'
    BY OthersKept, BoundsKept DEF EndCommand
  <1>6. QED BY <1>2, <1>4, <1>5 DEF TypeOK

LEMMA TypeLoad == ASSUME TypeOK, GetDeployData PROVE TypeOK'
  <1>1. OperatorTypes' /\ UNCHANGED <<todo, at>>
    BY OperatorKept DEF GetDeployData
  <1>2. DiskTypes' /\ ChainTypes' /\ BoundTypes'
    BY OthersKept, BoundsKept DEF GetDeployData
  <1>3. InStep("load") /\ running
    BY DEF GetDeployData, InStep
  <1>4. CASE \A c \in Step.contracts : recorded[c] > 0
    <2>1. mem' \in [Contracts -> Instances]
      BY <1>4 DEF GetDeployData, TypeOK, ProcessTypes, DiskTypes
    <2>2. pc' = pc + 1 /\ running' = running /\ skipTo' = skipTo
      BY <1>4 DEF GetDeployData
    <2>3. ProcessTypes' /\ InPlace'
      BY <1>1, <1>3, <2>1, <2>2, ProceedTypes
    <2>4. QED BY <1>1, <1>2, <2>3 DEF TypeOK
  <1>5. CASE ~\A c \in Step.contracts : recorded[c] > 0
    <2>1. Abort
      BY <1>5 DEF GetDeployData
    <2>2. ProcessTypes' /\ InPlace'
      BY <2>1, <1>1, <1>3, AbortTypes
    <2>3. QED BY <1>1, <1>2, <2>2 DEF TypeOK
  <1>6. QED BY <1>4, <1>5

LEMMA TypeDeploy == ASSUME TypeOK, Deploy PROVE TypeOK'
  <1>1. OperatorTypes' /\ UNCHANGED <<todo, at>>
    BY OperatorKept DEF Deploy
  <1>2. InStep("deploy") /\ Step.contracts \subseteq Contracts
    BY StepInPlan, StepFields DEF Deploy
  <1>3. \A c \in Step.contracts : deployed[c] + 1 \in Instances
    BY <1>2, Bounds DEF Deploy, TypeOK, ChainTypes, Instances
  <1>4. deployed' \in [Contracts -> Instances]
    BY <1>3, Bounds DEF Deploy, TypeOK, ChainTypes, Instances
  <1>5. mem' \in [Contracts -> Instances]
    BY <1>3 DEF Deploy, TypeOK, ProcessTypes
  <1>6. ProcessTypes' /\ InPlace'
    BY <1>1, <1>2, <1>5, ProceedTypes DEF Deploy
  <1>7. DiskTypes' /\ ChainTypes' /\ BoundTypes'
    BY <1>4, BoundsKept DEF Deploy, TypeOK, DiskTypes, ChainTypes, disk
  <1>8. QED BY <1>1, <1>6, <1>7 DEF TypeOK

LEMMA TypeSave == ASSUME TypeOK, SaveDeploymentData PROVE TypeOK'
  <1>1. OperatorTypes' /\ UNCHANGED <<todo, at>>
    BY OperatorKept DEF SaveDeploymentData
  <1>2. mem \in [Contracts -> Instances] /\ recorded \in [Contracts -> Instances]
    BY DEF TypeOK, ProcessTypes, DiskTypes
  <1>3. ProcessTypes' /\ InPlace'
    BY <1>1, <1>2, ProceedTypes DEF SaveDeploymentData, Proceed, Goto
  <1>4. recorded' \in [Contracts -> Instances]
    BY <1>2 DEF SaveDeploymentData
  <1>5. DiskTypes' /\ ChainTypes' /\ BoundTypes'
    BY <1>4, BoundsKept DEF SaveDeploymentData, TypeOK, DiskTypes, ChainTypes, onChain
  <1>6. QED BY <1>1, <1>3, <1>5 DEF TypeOK

LEMMA TypeExecute == ASSUME TypeOK, ExecuteTx PROVE TypeOK'
  <1>1. OperatorTypes' /\ UNCHANGED <<todo, at>> /\ DiskTypes'
    BY OperatorKept DEF ExecuteTx, TypeOK, DiskTypes, disk
  <1>2. InStep("tx") /\ Land
    BY DEF ExecuteTx
  <1>3. ChainTypes' /\ BoundTypes'
    BY <1>2, LandTypes DEF ExecuteTx, TypeOK, ChainTypes, BoundTypes
  <1>4. mem \in [Contracts -> Instances]
    BY DEF TypeOK, ProcessTypes
  <1>5. ProcessTypes' /\ InPlace'
    <2>1. pc' = pc + 1 /\ running' = running /\ mem' = mem /\ mem' \in [Contracts -> Instances]
      BY <1>4 DEF ExecuteTx, Goto
    <2>2. CASE Step.retried
      <3>1. skipTo' = 0
        BY <2>2 DEF ExecuteTx
      <3>2. at > 0 /\ pc' \in 1 .. Len(Plan[Script]) + 1 /\ running' \in BOOLEAN
        BY <1>2, <2>1, StepInPlan, ScriptInPlan DEF TypeOK, ProcessTypes
      <3>3. QED BY <1>1, <2>1, <3>1, <3>2, StayTypes
    <2>3. CASE ~Step.retried
      <3>1. skipTo' = skipTo
        BY <2>3 DEF ExecuteTx
      <3>2. QED BY <1>1, <1>2, <2>1, <2>3, <3>1, ProceedTypes
    <2>4. QED BY <2>2, <2>3
  <1>6. QED BY <1>1, <1>3, <1>5 DEF TypeOK

LEMMA TypeSkip == ASSUME TypeOK, SkipTx PROVE TypeOK'
  <1>1. OperatorTypes' /\ UNCHANGED <<todo, at>>
    BY OperatorKept DEF SkipTx
  <1>2. DiskTypes' /\ ChainTypes' /\ BoundTypes'
    BY OthersKept, BoundsKept DEF SkipTx
  <1>3. mem \in [Contracts -> Instances] /\ InStep("tx")
    BY DEF TypeOK, ProcessTypes, SkipTx
  <1>4. ProcessTypes' /\ InPlace'
    BY <1>1, <1>3, ProceedTypes DEF SkipTx, IsSent, Proceed, Goto
  <1>5. QED BY <1>1, <1>2, <1>4 DEF TypeOK

LEMMA TypeLose == ASSUME TypeOK, LoseReceipt PROVE TypeOK'
  <1>1. OperatorTypes' /\ UNCHANGED <<todo, at>> /\ DiskTypes'
    BY OperatorKept DEF LoseReceipt, TypeOK, DiskTypes, disk
  <1>2. InStep("tx") /\ Land /\ running
    BY DEF LoseReceipt, InStep
  <1>3. ChainTypes' /\ BoundTypes'
    BY <1>2, LandTypes, Bounds DEF LoseReceipt, TypeOK, ChainTypes, BoundTypes
  <1>4. mem \in [Contracts -> Instances] /\ running' \in BOOLEAN
    <2>1. mem \in [Contracts -> Instances] /\ running \in BOOLEAN
      BY DEF TypeOK, ProcessTypes
    <2>2. running' = running \/ running' = FALSE
      BY DEF LoseReceipt, Goto, Abort
    <2>3. QED BY <2>1, <2>2
  <1>5. at > 0 /\ pc \in 1 .. Len(Plan[Script]) + 1
    BY <1>2, StepInPlan, ScriptInPlan
  <1>6. CASE Step.retried
    BY <1>1, <1>3, <1>4, <1>5, <1>6, StayTypes DEF LoseReceipt, Goto, TypeOK
  <1>7. CASE ~Step.retried
    BY <1>1, <1>2, <1>3, <1>7, AbortTypes DEF LoseReceipt, TypeOK
  <1>8. QED BY <1>6, <1>7

LEMMA TypeTrack == ASSUME TypeOK, SaveMigrationData PROVE TypeOK'
  <1>1. OperatorTypes' /\ UNCHANGED <<todo, at>>
    BY OperatorKept DEF SaveMigrationData
  <1>2. mem \in [Contracts -> Instances] /\ InStep("track") /\ Step.record \in Records
    BY StepInPlan, StepFields DEF TypeOK, ProcessTypes, SaveMigrationData
  <1>3. ProcessTypes' /\ InPlace'
    BY <1>1, <1>2, ProceedTypes DEF SaveMigrationData, Proceed, Goto
  <1>4. DiskTypes' /\ ChainTypes' /\ BoundTypes'
    BY <1>2, BoundsKept DEF SaveMigrationData, TypeOK, DiskTypes, ChainTypes, onChain
  <1>5. QED BY <1>1, <1>3, <1>4 DEF TypeOK

LEMMA TypeAbort == ASSUME TypeOK, Throw \/ Crash PROVE TypeOK'
  <1>1. OperatorTypes' /\ UNCHANGED <<todo, at>> /\ running /\ Abort
    BY OperatorKept DEF Throw, Refused, Crash, InStep
  <1>2. DiskTypes' /\ ChainTypes'
    BY OthersKept DEF Throw, Crash
  <1>3. BoundTypes'
    BY Bounds DEF Throw, Crash, TypeOK, BoundTypes, users
  <1>4. QED BY <1>1, <1>2, <1>3, AbortTypes DEF TypeOK

LEMMA TypeRerun == ASSUME TypeOK, Rerun PROVE TypeOK'
  <1>1. at \in Nat /\ todo # <<>> /\ at <= Len(Command) /\ todo' = todo /\ Len(Command) \in Nat
    BY CommandScripts DEF Rerun, TypeOK, InPlace, OperatorTypes
  <1>2. PICK script \in 1 .. at : Enter(script, 0)
    BY DEF Rerun
  <1>3. ProcessTypes' /\ InPlace' /\ at' \in Nat
    BY <1>1, <1>2, EnterTypes
  <1>4. OperatorTypes'
    BY <1>1, <1>3, Bounds DEF TypeOK, OperatorTypes, Rerun
  <1>5. DiskTypes' /\ ChainTypes' /\ BoundTypes'
    BY OthersKept, BoundsKept DEF Rerun
  <1>6. QED BY <1>3, <1>4, <1>5 DEF TypeOK

LEMMA TypeResume == ASSUME TypeOK, Resume PROVE TypeOK'
  <1>1. at \in Nat /\ todo # <<>> /\ at \in 1 .. Len(Command) /\ todo' = todo
    BY CommandScripts DEF Resume, TypeOK, InPlace, OperatorTypes
  <1>2. PICK n \in DOMAIN Plan[Script] : HasId(n, Plan[Script][FailedAt].id) /\ Enter(at, n)
    BY DEF Resume, FirstWith
  <1>3. n \in Nat /\ n <= Len(Plan[Script]) /\ IsTarget(n)
    BY <1>1, <1>2, ScriptInPlan DEF HasId
  <1>4. ProcessTypes' /\ InPlace' /\ at' \in Nat
    BY <1>1, <1>2, <1>3, EnterTypes
  <1>5. OperatorTypes'
    BY <1>1, <1>4, Bounds DEF TypeOK, OperatorTypes, Resume
  <1>6. DiskTypes' /\ ChainTypes' /\ BoundTypes'
    BY OthersKept, BoundsKept DEF Resume
  <1>7. QED BY <1>4, <1>5, <1>6 DEF TypeOK

LEMMA TypeUser == ASSUME TypeOK, UserChange PROVE TypeOK'
  <1>1. OperatorTypes' /\ DiskTypes' /\ BoundTypes'
    BY DEF UserChange, TypeOK, OperatorTypes, DiskTypes, BoundTypes, operator, disk
  <1>2. PICK r \in Records, w \in wire : wire' = (wire \ {w}) \cup {<<w[1], w[2], UserMade>>}
    BY DEF UserChange
  <1>3. UserMade \in Values
    BY PlanAssumption, Bounds DEF UserMade, Values
  <1>4. wire' \subseteq Slots \X Instances \X Values
    BY <1>2, <1>3 DEF TypeOK, ChainTypes
  <1>5. ChainTypes'
    BY <1>4 DEF UserChange, TypeOK, ChainTypes
  <1>6. ProcessTypes'
    BY DEF UserChange, TypeOK, ProcessTypes, process
  <1>7. InPlace'
    BY DEF UserChange, TypeOK, InPlace, IsTarget, Script, Command, process, operator
  <1>8. QED BY <1>1, <1>5, <1>6, <1>7 DEF TypeOK

LEMMA TypeNext == ASSUME TypeOK, [Next]_vars PROVE TypeOK'
  <1>1. CASE UNCHANGED vars
    <2>1. UNCHANGED <<todo, at, reruns, running, pc, skipTo, mem, recorded, tracked,
                      deployed, wire, added, faults, userChanges, overwritten>>
      BY <1>1 DEF vars, operator, process, disk, onChain, users
    <2>2. OperatorTypes' /\ ProcessTypes' /\ DiskTypes' /\ ChainTypes' /\ BoundTypes'
      BY <2>1 DEF TypeOK, OperatorTypes, ProcessTypes, DiskTypes, ChainTypes, BoundTypes
    <2>3. InPlace'
      BY <2>1 DEF TypeOK, InPlace, IsTarget, Script, Command
    <2>4. QED BY <2>2, <2>3 DEF TypeOK
  <1>2. CASE Next
    BY <1>2, TypeStart, TypeNextScript, TypeEnd, TypeLoad, TypeDeploy, TypeSave, TypeExecute,
       TypeSkip, TypeLose, TypeTrack, TypeAbort, TypeRerun, TypeResume, TypeUser
    DEF Next, Advance, RunStep
  <1>3. QED BY <1>1, <1>2

(* The variables have their types and the process is in the script that the   *)
(* operator has in progress, whatever crashes, is repeated or resumed.        *)
(* (executeTx.js:37-64)                                                       *)
THEOREM Typing == Spec => []TypeOK
  <1>1. QED BY TypeInit, TypeNext, PTL DEF Spec

-------------------------------------------------------------------------------
(* Wires.  What a script holds at a step it has loaded or deployed before, in *)
(* this process.                                                              *)

WireIsDeployed(w, instances) ==
    /\ w[2] > 0
    /\ \/ w[3][2] = 0 /\ w[3][1] \in Words
       \/ w[3][1] \in Contracts /\ w[3][2] \in Nat \ {0} /\ w[3][2] <= instances[w[3][1]]
Loaded == at > 0 => \A c \in Holds(Script, pc) : mem[c] > 0
Known == \A c \in Contracts : recorded[c] <= deployed[c] /\ mem[c] <= deployed[c]
WInv == TypeOK /\ Loaded /\ Known /\ \A w \in wire : WireIsDeployed(w, deployed)

LEMMA WInvImplies == WInv => WiresAreDeployed
  BY DEF WInv, Known, WireIsDeployed, WiresAreDeployed

LEMMA WInvInit == Init => WInv
  <1> SUFFICES ASSUME Init PROVE WInv
    OBVIOUS
  <1>1. TypeOK
    BY TypeInit
  <1>2. Known
    BY <1>1 DEF Init, Known, Nowhere, TypeOK, ChainTypes, Instances
  <1>3. Loaded
    BY DEF Init, Loaded
  <1>4. ASSUME NEW w \in wire PROVE WireIsDeployed(w, deployed)
    <2>1. PICK need \in Needs : /\ need \in Contracts \X Slots \X Contracts
                                /\ w = <<need[2], 1, <<need[3], 1>>>>
                                /\ {need[1], need[3]} \subseteq Legacy[todo]
      BY InitWires
    <2>2. need[3] \in Contracts /\ deployed[need[3]] = 1
      BY <2>1 DEF Init
    <2>3. w[2] = 1 /\ w[3][1] = need[3] /\ w[3][2] = 1
      BY <2>1
    <2>4. QED BY <2>2, <2>3 DEF WireIsDeployed
  <1>5. QED BY <1>1, <1>2, <1>3, <1>4 DEF WInv

(* Nothing is held at the first step; a step adds what it loads or deploys.   *)
LEMMA HoldsFirst == ASSUME NEW s PROVE Holds(s, 1) = {}
  BY DEF Holds

LEMMA HoldsNext ==
    ASSUME NEW s \in Scripts, NEW n \in DOMAIN Plan[s], NEW c \in Holds(s, n + 1)
    PROVE  c \in Holds(s, n) \/ (Plan[s][n].op \in {"load", "deploy"} /\ c \in Plan[s][n].contracts)
  BY PlanLength DEF Holds

LEMMA HoldsContracts == ASSUME NEW s \in Scripts, NEW n \in Nat, n <= Len(Plan[s]) + 1
                        PROVE  Holds(s, n) \subseteq Contracts
  <1>1. ASSUME NEW i \in 1 .. n - 1, Plan[s][i].op \in {"load", "deploy"}
        PROVE  Plan[s][i].contracts \subseteq Contracts
    BY <1>1, PlanLength, PlanSteps, StepFields
  <1>2. QED BY <1>1 DEF Holds

LEMMA EnterLoaded == ASSUME NEW s, NEW t, Enter(s, t) PROVE Loaded'
  BY HoldsFirst DEF Enter, Loaded

(* What is loaded stays loaded while the script goes on.                      *)
LEMMA StayLoaded ==
    ASSUME WInv, NEW op, InStep(op), UNCHANGED <<todo, at>>, op \notin {"load", "deploy"},
           mem' = mem, pc' \in {pc, pc + 1}
    PROVE  Loaded'
  <1>1. at > 0 /\ Script \in Scripts /\ pc \in DOMAIN Plan[Script] /\ Plan[Script][pc].op = op
    BY StepInPlan DEF WInv
  <1>2. Script' = Script
    BY DEF Script, Command
  <1>3. ASSUME NEW c \in Holds(Script, pc') PROVE mem[c] > 0
    BY <1>1, <1>3, HoldsNext DEF WInv, Loaded
  <1>4. QED BY <1>2, <1>3 DEF Loaded

(* A transaction is sent to a contract that is there, and names such ones.    *)
LEMMA LandWires ==
    ASSUME WInv, InStep("tx"), Land
    PROVE  \A w \in wire' : WireIsDeployed(w, deployed')
  <1>1. at > 0 /\ Script \in Scripts /\ pc \in DOMAIN Plan[Script] /\ Step = Plan[Script][pc]
        /\ Step \in Steps /\ Step.op = "tx"
    BY StepInPlan DEF WInv
  <1>2. Step.holder \in Contracts /\ Step.puts \subseteq Slots \X (Contracts \cup Words)
    BY <1>1, StepFields
  <1>3. Uses(Step) \subseteq Holds(Script, pc)
    BY <1>1, LoadsFirst
  <1>4. \A c \in Uses(Step) : mem[c] > 0
    BY <1>1, <1>3 DEF WInv, Loaded
  <1>5. Target > 0
    BY <1>1, <1>4 DEF Uses, Target
  <1>6. ASSUME NEW w \in Puts PROVE WireIsDeployed(w, deployed)
    <2>1. PICK p \in Step.puts : w = <<p[1], Target, ValueOf(p[2])>>
      BY DEF Puts
    <2>2. p[2] \in Contracts \cup Words
      BY <1>2
    <2>3. CASE p[2] \in Contracts
      <3>1. p[2] \in Uses(Step) /\ mem[p[2]] \in Nat
        BY <1>1, <2>3 DEF Uses, WInv, TypeOK, ProcessTypes, Instances
      <3>2. mem[p[2]] > 0 /\ mem[p[2]] <= deployed[p[2]]
        BY <1>4, <3>1, <2>3 DEF WInv, Known
      <3>3. w[2] > 0 /\ w[3][1] = p[2] /\ w[3][2] = mem[p[2]]
        BY <2>1, <2>3, <1>5 DEF ValueOf
      <3>4. QED BY <2>3, <3>1, <3>2, <3>3 DEF WireIsDeployed
    <2>4. CASE p[2] \notin Contracts
      <3>1. w[2] > 0 /\ w[3][1] = p[2] /\ w[3][2] = 0
        BY <2>1, <2>4, <1>5 DEF ValueOf
      <3>2. QED BY <2>2, <2>4, <3>1 DEF WireIsDeployed
    <2>5. QED BY <2>3, <2>4
  <1>7. QED BY <1>6 DEF Land, WInv

LEMMA WiresKept == ASSUME WInv, UNCHANGED <<wire, deployed>>
                   PROVE  \A w \in wire' : WireIsDeployed(w, deployed')
  BY DEF WInv

LEMMA WInvEnter ==
    ASSUME WInv, TypeOK', NEW s, NEW t, Enter(s, t), UNCHANGED <<recorded, deployed, wire>>
    PROVE  WInv'
  <1>1. Known'
    <2>1. \A c \in Contracts : mem'[c] = 0 /\ deployed[c] \in Nat
      BY DEF Enter, Nowhere, WInv, TypeOK, ChainTypes, Instances
    <2>2. QED BY <2>1 DEF Known, WInv
  <1>2. QED BY <1>1, EnterLoaded, WiresKept DEF WInv

LEMMA WInvStay ==
    ASSUME WInv, TypeOK', NEW op, InStep(op), UNCHANGED <<todo, at>>, op \notin {"load", "deploy"},
           mem' = mem, pc' \in {pc, pc + 1}, UNCHANGED <<recorded, deployed>>,
           \A w \in wire' : WireIsDeployed(w, deployed')
    PROVE  WInv'
  <1>1. Loaded'
    BY StayLoaded
  <1>2. Known'
    BY DEF Known, WInv
  <1>3. QED BY <1>1, <1>2 DEF WInv

(* A process that ends keeps what it held; nobody reads it any more.          *)
LEMMA WInvAbort ==
    ASSUME WInv, TypeOK', UNCHANGED <<todo, at>>, Abort, UNCHANGED <<recorded, deployed>>,
           \A w \in wire' : WireIsDeployed(w, deployed')
    PROVE  WInv'
  <1>1. Loaded'
    BY DEF WInv, Loaded, Abort, Script, Command
  <1>2. Known'
    BY DEF Known, WInv, Abort
  <1>3. QED BY <1>1, <1>2 DEF WInv

LEMMA WInvLoad == ASSUME WInv, TypeOK', GetDeployData PROVE WInv'
  <1>1. UNCHANGED <<todo, at, recorded, deployed, wire>> /\ InStep("load")
    BY DEF GetDeployData, operator, disk, onChain
  <1>2. \A w \in wire' : WireIsDeployed(w, deployed')
    BY <1>1, WiresKept
  <1>3. CASE \A c \in Step.contracts : recorded[c] > 0
    <2>1. mem' = [c \in Contracts |-> IF c \in Step.contracts THEN recorded[c] ELSE mem[c]] /\ pc' = pc + 1
      BY <1>3 DEF GetDeployData
    <2>2. at > 0 /\ Script \in Scripts /\ pc \in DOMAIN Plan[Script] /\ Step = Plan[Script][pc]
      BY <1>1, StepInPlan DEF WInv
    <2>3. Script' = Script /\ pc' \in Nat /\ pc' <= Len(Plan[Script]) + 1
      BY <1>1, <2>1, <2>2, PlanLength DEF Script, Command
    <2>4. ASSUME NEW c \in Holds(Script, pc + 1) PROVE mem'[c] > 0
      <3>1. c \in Contracts
        BY <2>1, <2>2, <2>3, <2>4, HoldsContracts
      <3>2. c \in Holds(Script, pc) \/ c \in Step.contracts
        BY <2>2, <2>4, HoldsNext
      <3>3. QED BY <3>1, <3>2, <2>1, <2>2, <1>3 DEF WInv, Loaded
    <2>5. Loaded'
      BY <2>1, <2>3, <2>4 DEF Loaded
    <2>6. Known'
      BY <1>1, <2>1 DEF Known, WInv
    <2>7. QED BY <1>2, <2>5, <2>6 DEF WInv
  <1>4. CASE ~\A c \in Step.contracts : recorded[c] > 0
    <2>1. Abort
      BY <1>4 DEF GetDeployData
    <2>2. QED BY <2>1, <1>1, <1>2, WInvAbort
  <1>5. QED BY <1>3, <1>4

LEMMA WInvDeploy == ASSUME WInv, TypeOK', Deploy PROVE WInv'
  <1>1. UNCHANGED <<todo, at, recorded, wire>> /\ InStep("deploy") /\ pc' = pc + 1
    BY DEF Deploy, operator, disk
  <1>2. \A c \in Contracts : deployed[c] \in Nat /\ deployed'[c] \in Nat /\ deployed'[c] >= deployed[c]
                              /\ mem[c] \in Nat /\ recorded[c] \in Nat
    BY DEF Deploy, WInv, TypeOK, ChainTypes, ProcessTypes, DiskTypes, Instances
  <1>3. \A c \in Contracts : mem'[c] = (IF c \in Step.contracts THEN deployed'[c] ELSE mem[c])
    BY <1>2 DEF Deploy
  <1>4. at > 0 /\ Script \in Scripts /\ pc \in DOMAIN Plan[Script] /\ Step = Plan[Script][pc]
    BY <1>1, StepInPlan DEF WInv
  <1>5. Script' = Script /\ pc' \in Nat /\ pc' <= Len(Plan[Script]) + 1
    BY <1>1, <1>4, PlanLength DEF Script, Command
  <1>6. ASSUME NEW c \in Holds(Script, pc + 1) PROVE mem'[c] > 0
    <2>1. c \in Contracts
      BY <1>1, <1>4, <1>5, <1>6, HoldsContracts
    <2>2. c \in Holds(Script, pc) \/ c \in Step.contracts
      BY <1>4, <1>6, HoldsNext
    <2>3. CASE c \in Step.contracts
      BY <2>1, <2>3, <1>2 DEF Deploy
    <2>4. CASE c \notin Step.contracts
      BY <2>1, <2>2, <2>4, <1>3, <1>4 DEF WInv, Loaded
    <2>5. QED BY <2>3, <2>4
  <1>7. Loaded'
    BY <1>1, <1>5, <1>6 DEF Loaded
  <1>8. Known'
    <2>1. \A c \in Contracts : recorded[c] <= deployed'[c]
      BY <1>2 DEF WInv, Known
    <2>2. \A c \in Contracts : mem'[c] <= deployed'[c]
      BY <1>2, <1>3 DEF WInv, Known
    <2>3. QED BY <2>1, <2>2, <1>1 DEF Known
  <1>9. ASSUME NEW w \in wire PROVE WireIsDeployed(w, deployed')
    <2>1. WireIsDeployed(w, deployed)
      BY DEF WInv
    <2>2. QED BY <2>1, <1>2 DEF WireIsDeployed
  <1>10. QED BY <1>1, <1>7, <1>8, <1>9 DEF WInv

LEMMA WInvSave == ASSUME WInv, TypeOK', SaveDeploymentData PROVE WInv'
  <1>1. UNCHANGED <<todo, at, deployed, wire, mem>> /\ InStep("save") /\ pc' = pc + 1
    BY DEF SaveDeploymentData, Proceed, Goto, operator, onChain
  <1>2. Known'
    BY <1>1 DEF SaveDeploymentData, WInv, Known
  <1>3. Loaded'
    BY <1>1, StayLoaded
  <1>4. QED BY <1>1, <1>2, <1>3, WiresKept DEF WInv

LEMMA WInvUser == ASSUME WInv, TypeOK', UserChange PROVE WInv'
  <1>1. UNCHANGED <<todo, at, pc, mem, recorded, deployed>>
    BY DEF UserChange, operator, process, disk
  <1>2. PICK w \in wire : wire' = (wire \ {w}) \cup {<<w[1], w[2], UserMade>>}
    BY DEF UserChange
  <1>3. WireIsDeployed(w, deployed)
    BY DEF WInv
  <1>4. WireIsDeployed(<<w[1], w[2], UserMade>>, deployed)
    BY <1>3, PlanAssumption DEF WireIsDeployed, UserMade
  <1>5. \A x \in wire' : WireIsDeployed(x, deployed')
    BY <1>1, <1>2, <1>4 DEF WInv
  <1>6. Loaded' /\ Known'
    BY <1>1 DEF WInv, Loaded, Known, Script, Command
  <1>7. QED BY <1>5, <1>6 DEF WInv

LEMMA WInvNext == ASSUME WInv, [Next]_vars PROVE WInv'
  <1>1. TypeOK'
    BY TypeNext DEF WInv
  <1>2. CASE UNCHANGED vars
    <2>1. UNCHANGED <<todo, at, pc, mem, recorded, deployed, wire>>
      BY <1>2 DEF vars, operator, process, disk, onChain
    <2>2. QED BY <1>1, <2>1 DEF WInv, Loaded, Known, Script, Command
  <1>3. CASE StartCommand
    BY <1>1, <1>3, WInvEnter DEF StartCommand, disk, onChain
  <1>4. CASE NextScript
    BY <1>1, <1>4, WInvEnter DEF NextScript, disk, onChain
  <1>5. CASE EndCommand
    <2>1. UNCHANGED <<recorded, deployed, wire>> /\ at' = 0 /\ mem' = Nowhere
      BY <1>5 DEF EndCommand, disk, onChain
    <2>2. Known'
      BY <2>1 DEF Known, Nowhere, WInv, TypeOK, ChainTypes, Instances
    <2>3. QED BY <1>1, <2>1, <2>2, WiresKept DEF WInv, Loaded
  <1>6. CASE ExecuteTx
    <2>1. InStep("tx") /\ Land /\ UNCHANGED <<todo, at, recorded, mem>> /\ pc' = pc + 1
      BY <1>6 DEF ExecuteTx, Goto, operator, disk
    <2>2. UNCHANGED deployed
      BY <2>1 DEF Land
    <2>3. QED BY <1>1, <2>1, <2>2, LandWires, WInvStay
  <1>7. CASE SkipTx
    <2>1. InStep("tx") /\ UNCHANGED <<todo, at, recorded, deployed, wire, mem>> /\ pc' = pc + 1
      BY <1>7 DEF SkipTx, Proceed, Goto, operator, disk, onChain
    <2>2. QED BY <1>1, <2>1, WiresKept, WInvStay
  <1>8. CASE LoseReceipt
    <2>1. InStep("tx") /\ Land /\ UNCHANGED <<todo, at, recorded>>
      BY <1>8 DEF LoseReceipt, operator, disk
    <2>2. UNCHANGED deployed /\ \A w \in wire' : WireIsDeployed(w, deployed')
      BY <2>1, LandWires DEF Land
    <2>3. CASE Step.retried
      <3>1. mem' = mem /\ pc' = pc
        BY <1>8, <2>3 DEF LoseReceipt, Goto
      <3>2. QED BY <1>1, <2>1, <2>2, <3>1, WInvStay
    <2>4. CASE ~Step.retried
      <3>1. Abort
        BY <1>8, <2>4 DEF LoseReceipt
      <3>2. QED BY <1>1, <2>1, <2>2, <3>1, WInvAbort
    <2>5. QED BY <2>3, <2>4
  <1>9. CASE SaveMigrationData
    <2>1. InStep("track") /\ UNCHANGED <<todo, at, recorded, deployed, wire, mem>> /\ pc' = pc + 1
      BY <1>9 DEF SaveMigrationData, Proceed, Goto, operator, onChain
    <2>2. QED BY <1>1, <2>1, WiresKept, WInvStay
  <1>10. CASE Throw \/ Crash
    <2>1. Abort /\ UNCHANGED <<todo, at, recorded, deployed, wire>>
      BY <1>10 DEF Throw, Refused, Crash, operator, disk, onChain
    <2>2. QED BY <1>1, <2>1, WiresKept, WInvAbort
  <1>11. CASE Rerun \/ Resume
    <2>1. UNCHANGED <<recorded, deployed, wire>> /\ \E s, t : Enter(s, t)
      BY <1>11 DEF Rerun, Resume, disk, onChain
    <2>2. QED BY <1>1, <2>1, WInvEnter
  <1>12. QED
    BY <1>1, <1>2, <1>3, <1>4, <1>5, <1>6, <1>7, <1>8, <1>9, <1>10, <1>11,
       WInvLoad, WInvDeploy, WInvSave, WInvUser
    DEF Next, Advance, RunStep

(* Whatever crashes, is run again or is resumed in the middle: transactions   *)
(* only reach, and only name, contracts that are deployed, and so do records. *)
(* (deploy.js:317, 342)                                                       *)
THEOREM Wiring == Spec => []WiresAreDeployed
  <1>1. QED BY WInvInit, WInvNext, WInvImplies, PTL DEF Spec

-------------------------------------------------------------------------------
(* Order.  The steps before the one that is skipped to are done already: they *)
(* count as done while the script passes them again.                          *)

LEMMA OrderedInit == Init => Ordered!Init
  BY DEF Init, Ordered!Init, Prefix

(* A step of a script that goes on is the next one, or one that is done.      *)
LEMMA StepsInOrder ==
    ASSUME TypeOK, NEW op, InStep(op), UNCHANGED <<todo, at, reruns>>, pc' = pc + 1,
           \/ skipTo' = 0 /\ (skipTo = 0 \/ skipTo = pc)
           \/ skipTo' = skipTo /\ skipTo > 0
    PROVE  Ordered!DoNext \/ UNCHANGED Ordered!vars
  <1>1. at > 0 /\ pc \in Nat \ {0} /\ skipTo \in Nat /\ pc <= Len(Plan[Script])
        /\ Len(Plan[Script]) \in Nat
    BY StepInPlan, ScriptInPlan DEF TypeOK, ProcessTypes
  <1>2. CASE skipTo' = 0 /\ (skipTo = 0 \/ skipTo = pc)
    <2>1. Prefix = pc - 1 /\ Prefix' = pc
      BY <1>1, <1>2 DEF Prefix
    <2>2. Prefix < Len(Plan[Script]) /\ Prefix' = Prefix + 1
      BY <2>1, <1>1
    <2>3. QED BY <2>2, <1>1 DEF Ordered!DoNext, Ordered!Length, Ordered!Command, Script, Command
  <1>3. CASE skipTo' = skipTo /\ skipTo > 0
    BY <1>1, <1>3 DEF Prefix, Ordered!vars
  <1>4. QED BY <1>2, <1>3

LEMMA OtherStepsInOrder ==
    ASSUME TypeOK, NEW op, InStep(op), UNCHANGED <<todo, at, reruns>>, pc' = pc + 1, skipTo' = skipTo
    PROVE  Ordered!DoNext \/ UNCHANGED Ordered!vars
  <1>1. skipTo \in Nat
    BY DEF TypeOK, ProcessTypes
  <1>2. QED BY <1>1, StepsInOrder

LEMMA NothingDone ==
    ASSUME UNCHANGED <<todo, at, reruns, pc, skipTo>>
    PROVE  UNCHANGED Ordered!vars
  BY DEF Ordered!vars, Prefix

(* At the end of a script everything in it is done.                           *)
LEMMA AtTheEnd ==
    ASSUME TypeOK, running, pc > Len(Plan[Script])
    PROVE  at > 0 /\ at \in Nat /\ Len(Plan[Script]) \in Nat /\ Prefix = Len(Plan[Script])
  <1>1. at > 0 /\ at \in Nat /\ skipTo \in Nat /\ pc \in Nat
    BY DEF TypeOK, InPlace, OperatorTypes, ProcessTypes
  <1>2. Len(Plan[Script]) \in Nat
    BY <1>1, ScriptInPlan
  <1>3. pc <= Len(Plan[Script]) + 1 /\ (skipTo > 0 => pc <= skipTo /\ skipTo <= Len(Plan[Script]))
    BY <1>1 DEF TypeOK, InPlace
  <1>4. QED BY <1>1, <1>2, <1>3 DEF Prefix

(* Starting over goes back: to an earlier script, or to an earlier step.      *)
LEMMA GoesBack ==
    ASSUME TypeOK, Rerun \/ Resume
    PROVE  (at' \in 1 .. at - 1 /\ Prefix' = 0) \/ (at' = at /\ Prefix' \in 0 .. Prefix)
  <1>1. at > 0 /\ at \in Nat /\ pc \in Nat \ {0} /\ skipTo \in Nat
    BY DEF Rerun, Resume, TypeOK, OperatorTypes, ProcessTypes
  <1>2. CASE Rerun
    <2>1. PICK script \in 1 .. at : Enter(script, 0)
      BY <1>2 DEF Rerun
    <2>2. at' = script /\ Prefix' = 0 /\ Prefix \in Nat
      BY <2>1, <1>1 DEF Enter, Prefix
    <2>3. QED BY <1>1, <2>2
  <1>3. CASE Resume
    <2>1. PICK n \in DOMAIN Plan[Script] : FirstWith(n, Plan[Script][FailedAt].id) /\ Enter(at, n)
      BY <1>3 DEF Resume
    <2>2. n \in Nat \ {0} /\ FailedAt \in Nat /\ DOMAIN Plan[Script] = 1 .. Len(Plan[Script])
      BY <1>1, <1>3, <2>1, ScriptInPlan DEF Resume
    <2>3. n <= FailedAt
      <3>1. HasId(FailedAt, Plan[Script][FailedAt].id)
        BY <1>3 DEF Resume, HasId
      <3>2. FailedAt \notin 1 .. n - 1
        BY <2>1, <3>1 DEF FirstWith
      <3>3. FailedAt > 0
        BY <1>3, <2>2 DEF Resume
      <3>4. QED BY <3>2, <3>3, <2>2
    <2>4. at' = at /\ Prefix' = n - 1
      BY <2>1, <1>1, <2>2 DEF Enter, Prefix
    <2>5. Prefix = FailedAt - 1
      BY <1>1 DEF Prefix, FailedAt
    <2>6. QED BY <2>2, <2>3, <2>4, <2>5
  <1>4. QED BY <1>2, <1>3

LEMMA OrderedNext == ASSUME TypeOK, [Next]_vars PROVE [Ordered!Next]_Ordered!vars
  <1>1. CASE UNCHANGED vars
    BY <1>1, NothingDone DEF vars, operator, process
  <1>2. CASE StartCommand
    <2>1. Ordered!Begin
      BY <1>2 DEF StartCommand, Enter, Ordered!Begin, Prefix
    <2>2. QED BY <2>1 DEF Ordered!Next, Ordered!Advance
  <1>3. CASE NextScript
    <2>1. at > 0 /\ at \in Nat /\ Prefix = Len(Plan[Script])
      BY <1>3, AtTheEnd DEF NextScript
    <2>2. at' = at + 1 /\ Prefix' = 0 /\ UNCHANGED <<todo, reruns>> /\ at < Len(Command)
      BY <1>3, <2>1 DEF NextScript, Enter, Prefix
    <2>3. Ordered!NextScript
      BY <2>1, <2>2 DEF Ordered!NextScript, Ordered!Length, Ordered!Command, Script, Command
    <2>4. QED BY <2>3 DEF Ordered!Next, Ordered!Advance
  <1>4. CASE EndCommand
    <2>1. at > 0 /\ Prefix = Len(Plan[Script])
      BY <1>4, AtTheEnd DEF EndCommand
    <2>2. todo' = Tail(todo) /\ at' = 0 /\ Prefix' = 0 /\ UNCHANGED reruns /\ at = Len(Command)
      BY <1>4 DEF EndCommand, Prefix
    <2>3. Ordered!Complete
      BY <2>1, <2>2 DEF Ordered!Complete, Ordered!Length, Ordered!Command, Script, Command
    <2>4. QED BY <2>3 DEF Ordered!Next, Ordered!Advance
  <1>5. CASE GetDeployData
    <2>1. InStep("load") /\ UNCHANGED <<todo, at, reruns>>
      BY <1>5 DEF GetDeployData, operator
    <2>2. (pc' = pc + 1 /\ skipTo' = skipTo) \/ UNCHANGED <<pc, skipTo>>
      BY <1>5 DEF GetDeployData, Abort
    <2>3. QED BY <2>1, <2>2, OtherStepsInOrder, NothingDone DEF Ordered!Next, Ordered!Advance
  <1>6. CASE Deploy
    BY <1>6, OtherStepsInOrder DEF Deploy, operator, Ordered!Next, Ordered!Advance
  <1>7. CASE SaveDeploymentData
    BY <1>7, OtherStepsInOrder DEF SaveDeploymentData, Proceed, Goto, operator, Ordered!Next, Ordered!Advance
  <1>8. CASE SaveMigrationData
    BY <1>8, OtherStepsInOrder DEF SaveMigrationData, Proceed, Goto, operator, Ordered!Next, Ordered!Advance
  <1>9. CASE SkipTx
    BY <1>9, OtherStepsInOrder DEF SkipTx, IsSent, Proceed, Goto, operator, Ordered!Next, Ordered!Advance
  <1>10. CASE ExecuteTx
    <2>1. InStep("tx") /\ UNCHANGED <<todo, at, reruns>> /\ pc' = pc + 1
      BY <1>10 DEF ExecuteTx, Goto, operator
    <2>2. CASE Step.retried
      <3>1. skipTo' = 0 /\ (skipTo = 0 \/ skipTo = pc)
        BY <1>10, <2>2, DueEndsSkipping DEF ExecuteTx, IsSent
      <3>2. QED BY <2>1, <3>1, StepsInOrder DEF Ordered!Next, Ordered!Advance
    <2>3. CASE ~Step.retried
      <3>1. skipTo' = skipTo
        BY <1>10, <2>3 DEF ExecuteTx
      <3>2. QED BY <2>1, <3>1, OtherStepsInOrder DEF Ordered!Next, Ordered!Advance
    <2>4. QED BY <2>2, <2>3
  <1>11. CASE LoseReceipt
    <2>1. InStep("tx") /\ UNCHANGED <<todo, at, reruns>> /\ ~IsSkipped
      BY <1>11 DEF LoseReceipt, IsSent, operator
    <2>2. CASE Step.retried
      <3>1. pc' = pc /\ skipTo' = 0 /\ (skipTo = 0 \/ skipTo = pc)
        BY <1>11, <2>1, <2>2, DueEndsSkipping DEF LoseReceipt, Goto
      <3>2. UNCHANGED Ordered!vars
        BY <2>1, <3>1 DEF Ordered!vars, Prefix
      <3>3. QED BY <3>2
    <2>3. CASE ~Step.retried
      BY <1>11, <2>1, <2>3, NothingDone DEF LoseReceipt, Abort
    <2>4. QED BY <2>2, <2>3
  <1>12. CASE Throw \/ Crash \/ UserChange
    BY <1>12, NothingDone DEF Throw, Crash, UserChange, Abort, operator, process
  <1>13. CASE Rerun \/ Resume
    <2>1. (at' \in 1 .. at - 1 /\ Prefix' = 0) \/ (at' = at /\ Prefix' \in 0 .. Prefix)
      BY <1>13, GoesBack
    <2>2. at > 0 /\ reruns < MaxFaults /\ reruns' = reruns + 1 /\ todo' = todo
      BY <1>13 DEF Rerun, Resume
    <2>3. Ordered!StartOver
      BY <2>1, <2>2 DEF Ordered!StartOver
    <2>4. QED BY <2>3 DEF Ordered!Next
  <1>14. QED
    BY <1>1, <1>2, <1>3, <1>4, <1>5, <1>6, <1>7, <1>8, <1>9, <1>10, <1>11, <1>12, <1>13
    DEF Next, Advance, RunStep

(* The runner carries out the commands, the scripts and the steps in order    *)
(* and leaves none out, for every plan, any number of faults and every point  *)
(* at which the operator resumes.  (executeTx.js:37-64)                       *)
THEOREM Ordering == Spec => ImplementsOrderedSteps
  <1>1. QED BY TypeInit, TypeNext, OrderedInit, OrderedNext, PTL DEF Spec, ImplementsOrderedSteps, Ordered!SafeSpec
-------------------------------------------------------------------------------
(* Migration.  A record whose transaction has landed is tracked by the very   *)
(* next step of the same process, unless a fault falls between them.          *)

Tracking(r) == InStep("track") /\ Step.record = r
SentBefore == \A r \in Records : Tracking(r) => Migrated(r)
Pending == {r \in Records \ tracked : Migrated(r) /\ ~Tracking(r)}
TInv == TypeOK /\ TrackedIsMigrated /\ SentBefore
FInv == TInv /\ IsFiniteSet(Pending) /\ overwritten + Cardinality(Pending) <= faults

(* What the process tracks is a record, and it tracks one at a time.          *)
LEMMA TracksARecord == ASSUME TypeOK, InStep("track") PROVE Step.record \in Records
  BY StepInPlan, StepFields

(* The transaction that is due, and the step that follows it.                 *)
LEMMA TxInPlan ==
    ASSUME TypeOK, InStep("tx")
    PROVE  /\ Step.record \in Records \cup {NoRecord}
           /\ \A p \in Step.puts : \A r \in Records : p[1] = UserSlot[r] => Step.record = r
           /\ Step.record # NoRecord =>
                /\ pc + 1 \in DOMAIN Plan[Script] /\ Plan[Script][pc + 1].op = "track"
                /\ Plan[Script][pc + 1].record = Step.record
                /\ \E p \in Step.puts : p[1] = UserSlot[Step.record]
  <1>1. /\ Script \in Scripts /\ pc \in DOMAIN Plan[Script] /\ Step = Plan[Script][pc]
        /\ Step \in Steps /\ Step.op = "tx"
    BY StepInPlan
  <1>2. Step.record \in Records \cup {NoRecord}
    BY <1>1, StepFields
  <1>3. DOMAIN Plan[Script] = 1 .. Len(Plan[Script]) /\ Len(Plan[Script]) \in Nat
    BY <1>1, PlanLength
  <1>4. /\ \A p \in Step.puts : \A r \in Records : p[1] = UserSlot[r] => Step.record = r
        /\ Step.record # NoRecord =>
             /\ pc < Len(Plan[Script]) /\ Plan[Script][pc + 1].op = "track"
             /\ Plan[Script][pc + 1].record = Step.record
    BY <1>1, TracksWhatItSent
  <1>5. CASE Step.record # NoRecord
    <2>1. pc + 1 \in DOMAIN Plan[Script] /\ (pc + 1) - 1 = pc
      BY <1>3, <1>4, <1>1, <1>5
    <2>2. \E p \in Plan[Script][(pc + 1) - 1].puts : p[1] = UserSlot[Plan[Script][pc + 1].record]
      BY <2>1, <1>1, <1>4, <1>5, TracksWhatItSent
    <2>3. QED BY <1>1, <1>2, <1>4, <2>1, <2>2
  <1>6. QED BY <1>2, <1>4, <1>5

(* A step that is tracked comes after the transaction of its record.          *)
LEMMA TrackInPlan ==
    ASSUME NEW s \in Scripts, NEW n \in DOMAIN Plan[s], n + 1 \in DOMAIN Plan[s], Plan[s][n + 1].op = "track"
    PROVE  Plan[s][n].op = "tx" /\ Plan[s][n].record = Plan[s][n + 1].record
  <1>1. n \in Nat /\ (n + 1) - 1 = n
    BY PlanLength
  <1>2. QED BY <1>1, TracksWhatItSent

(* A transaction of a record sets the record's slot; slots that are set stay  *)
(* set, and no other record's is.                                             *)
LEMMA LandMigrates ==
    ASSUME TypeOK, InStep("tx"), Land
    PROVE  /\ \A r \in Records : Migrated(r)' <=> (Migrated(r) \/ r = Step.record)
           /\ UNCHANGED userChanges
  <1>1. ASSUME NEW r \in Records, Migrated(r) PROVE Migrated(r)'
    <2>1. PICK w \in wire : w[1] = UserSlot[r]
      BY <1>1 DEF Migrated
    <2>2. CASE w \in Replaced
      <3>1. PICK p \in Step.puts : p[1] = w[1]
        BY <2>2 DEF Replaced
      <3>2. <<p[1], Target, ValueOf(p[2])>> \in wire'
        BY <3>1 DEF Land, Puts
      <3>3. QED BY <3>1, <3>2, <2>1 DEF Migrated
    <2>3. CASE w \notin Replaced
      BY <2>1, <2>3 DEF Land, Migrated
    <2>4. QED BY <2>2, <2>3
  <1>2. ASSUME NEW r \in Records, r = Step.record PROVE Migrated(r)'
    <2>1. PICK p \in Step.puts : p[1] = UserSlot[r]
      BY <1>2, TxInPlan, PlanAssumption
    <2>2. <<p[1], Target, ValueOf(p[2])>> \in wire'
      BY <2>1 DEF Land, Puts
    <2>3. QED BY <2>1, <2>2 DEF Migrated
  <1>3. ASSUME NEW r \in Records, Migrated(r)', ~Migrated(r) PROVE r = Step.record
    <2>1. PICK w \in wire' : w[1] = UserSlot[r]
      BY <1>3 DEF Migrated
    <2>2. w \in Puts
      BY <2>1, <1>3 DEF Land, Migrated
    <2>3. PICK p \in Step.puts : w = <<p[1], Target, ValueOf(p[2])>>
      BY <2>2 DEF Puts
    <2>4. QED BY <2>1, <2>3, TxInPlan
  <1>4. QED BY <1>1, <1>2, <1>3 DEF Land

(* What users change stays migrated.                                          *)
LEMMA ChangedIsMigrated == ASSUME UserChange PROVE \A r : Migrated(r)' <=> Migrated(r)
  <1>1. PICK w \in wire : wire' = (wire \ {w}) \cup {<<w[1], w[2], UserMade>>}
    BY DEF UserChange
  <1>2. ASSUME NEW r, Migrated(r) PROVE Migrated(r)'
    <2>1. PICK x \in wire : x[1] = UserSlot[r]
      BY <1>2 DEF Migrated
    <2>2. CASE x = w
      <3>1. <<w[1], w[2], UserMade>> \in wire' /\ <<w[1], w[2], UserMade>>[1] = UserSlot[r]
        BY <1>1, <2>1, <2>2
      <3>2. QED BY <3>1 DEF Migrated
    <2>3. CASE x # w
      BY <1>1, <2>1, <2>3 DEF Migrated
    <2>4. QED BY <2>2, <2>3
  <1>3. \A r : Migrated(r)' => Migrated(r)
    BY <1>1 DEF Migrated
  <1>4. QED BY <1>2, <1>3

(* A process that starts a script, or ends, tracks nothing.                   *)
LEMMA EnterTracksNothing == ASSUME NEW s, NEW t, Enter(s, t), TypeOK' PROVE \A r : ~Tracking(r)'
  <1>1. SUFFICES ASSUME InStep("track")' PROVE FALSE
    BY DEF Tracking
  <1>2. pc' = 1 /\ running'
    BY DEF Enter
  <1>3. todo' \in Seq(Seq(Scripts) \ {<<>>}) /\ todo' # <<>> /\ at' \in 1 .. Len(Head(todo'))
    BY <1>2 DEF TypeOK, OperatorTypes, InPlace, Command
  <1>4. Head(todo') \in Seq(Scripts)
    BY <1>3, HeadTailProperties
  <1>5. Script' \in Scripts
    BY <1>3, <1>4 DEF Script, Command
  <1>6. 1 \in DOMAIN Plan[Script'] /\ Plan[Script'][1].op = "track"
    BY <1>1, <1>2, <1>5, PlanLength DEF InStep, Step
  <1>7. QED BY <1>5, <1>6, TracksWhatItSent

LEMMA AbortTracksNothing == ASSUME ~running' PROVE \A r : ~Tracking(r)'
  BY DEF Tracking, InStep
(* Going on to a step that tracks, the process is at the transaction.         *)
LEMMA OnlyAfterTx ==
    ASSUME TypeOK, TypeOK', NEW op, InStep(op), UNCHANGED <<todo, at>>, pc' = pc + 1, NEW r, Tracking(r)'
    PROVE  op = "tx" /\ Step.record = r
  <1>1. Script \in Scripts /\ pc \in DOMAIN Plan[Script] /\ Step = Plan[Script][pc] /\ Step.op = op
    BY StepInPlan
  <1>2. Script' = Script
    BY DEF Script, Command
  <1>3. pc + 1 <= Len(Plan[Script]) /\ Plan[Script][pc + 1].op = "track" /\ Plan[Script][pc + 1].record = r
    BY <1>2 DEF Tracking, InStep, Step
  <1>4. pc + 1 \in DOMAIN Plan[Script]
    BY <1>1, <1>3, PlanLength
  <1>5. QED BY <1>1, <1>3, <1>4, TrackInPlan

(* A script that migrates is never resumed in the middle.                     *)
LEMMA MigrationsAreNotSkipped == ASSUME TypeOK, InStep("tx"), Step.record # NoRecord PROVE ~IsSkipped
  <1>1. Script \in Scripts /\ pc \in DOMAIN Plan[Script] /\ Step = Plan[Script][pc] /\ Step.op = "tx" /\ at > 0
    BY StepInPlan
  <1>2. Script \notin Resumable
    BY <1>1, PlanAssumption
  <1>3. skipTo \in Nat /\ pc \in Nat
    BY DEF TypeOK, ProcessTypes
  <1>4. skipTo = 0
    BY <1>1, <1>2, <1>3 DEF TypeOK, InPlace, IsTarget
  <1>5. QED BY <1>3, <1>4 DEF IsSkipped, TypeOK, ProcessTypes

-------------------------------------------------------------------------------
(* What is tracked was sent before.                                           *)

LEMMA NothingIsMigrated == ASSUME Init, NEW r \in Records PROVE ~Migrated(r)
  <1>1. ASSUME NEW w \in wire PROVE w[1] # UserSlot[r]
    <2>1. PICK need \in Needs : w = <<need[2], 1, <<need[3], 1>>>>
      BY InitWires
    <2>2. QED BY <2>1, NeedsAreMet
  <1>2. QED BY <1>1 DEF Migrated

LEMMA TInvInit == Init => TInv
  <1>1. ASSUME Init PROVE TrackedIsMigrated /\ SentBefore
    BY <1>1 DEF Init, TrackedIsMigrated, SentBefore, Tracking, InStep
  <1>2. QED BY <1>1, TypeInit DEF TInv

(* A step that leaves the file and the chain alone and does not begin to track *)
(* anything.                                                                  *)
LEMMA TInvQuiet ==
    ASSUME TInv, TypeOK', UNCHANGED <<tracked, wire>>, \A r \in Records : Tracking(r)' => Tracking(r)
    PROVE  TInv'
  <1>1. \A r : Migrated(r)' <=> Migrated(r)
    BY DEF Migrated
  <1>2. TrackedIsMigrated' /\ SentBefore'
    BY <1>1 DEF TInv, TrackedIsMigrated, SentBefore
  <1>3. QED BY <1>2 DEF TInv

LEMMA TInvExecute == ASSUME TInv, TypeOK', ExecuteTx PROVE TInv'
  <1>1. TypeOK /\ InStep("tx") /\ Land /\ UNCHANGED <<todo, at, tracked>> /\ pc' = pc + 1
    BY DEF TInv, ExecuteTx, Goto, operator, disk
  <1>2. \A r \in Records : Migrated(r)' <=> (Migrated(r) \/ r = Step.record)
    BY <1>1, LandMigrates
  <1>3. \A r \in Records : Tracking(r)' => r = Step.record
    BY <1>1, OnlyAfterTx
  <1>4. tracked \subseteq Records
    BY <1>1 DEF TypeOK, DiskTypes
  <1>5. TrackedIsMigrated'
    BY <1>1, <1>2, <1>4 DEF TInv, TrackedIsMigrated
  <1>6. SentBefore'
    BY <1>2, <1>3 DEF SentBefore
  <1>7. QED BY <1>5, <1>6 DEF TInv

LEMMA TInvLose == ASSUME TInv, TypeOK', LoseReceipt PROVE TInv' /\ \A r : ~Tracking(r)'
  <1>1. TypeOK /\ InStep("tx") /\ Land /\ UNCHANGED <<todo, at, tracked>>
    BY DEF TInv, LoseReceipt, operator, disk
  <1>2. \A r \in Records : Migrated(r)' <=> (Migrated(r) \/ r = Step.record)
    BY <1>1, LandMigrates
  <1>3. \A r : ~Tracking(r)'
    <2>1. CASE Step.retried
      <3>1. pc' = pc /\ Step' = Step /\ Step.op = "tx"
        BY <1>1, <2>1, StepInPlan DEF LoseReceipt, Goto, Step, Script, Command
      <3>2. QED BY <3>1 DEF Tracking, InStep
    <2>2. CASE ~Step.retried
      BY <2>2, AbortTracksNothing DEF LoseReceipt, Abort
    <2>3. QED BY <2>1, <2>2
  <1>4. tracked \subseteq Records
    BY <1>1 DEF TypeOK, DiskTypes
  <1>5. TrackedIsMigrated' /\ SentBefore'
    BY <1>1, <1>2, <1>3, <1>4 DEF TInv, TrackedIsMigrated, SentBefore
  <1>6. QED BY <1>3, <1>5 DEF TInv

(* A migration that is skipped is tracked already.                            *)
LEMMA TInvSkip == ASSUME TInv, TypeOK', SkipTx PROVE TInv'
  <1>1. TypeOK /\ InStep("tx") /\ UNCHANGED <<todo, at, tracked, wire>> /\ pc' = pc + 1
    BY DEF TInv, SkipTx, Proceed, Goto, operator, disk, onChain
  <1>2. \A r : Migrated(r)' <=> Migrated(r)
    BY <1>1 DEF Migrated
  <1>3. ASSUME NEW r \in Records, Tracking(r)' PROVE Migrated(r)
    <2>1. Step.record = r /\ r # NoRecord
      BY <1>1, <1>3, OnlyAfterTx, PlanAssumption
    <2>2. r \in tracked
      BY <1>1, <2>1, MigrationsAreNotSkipped DEF SkipTx, IsSent, IsMigrated
    <2>3. QED BY <2>2 DEF TInv, TrackedIsMigrated
  <1>4. TrackedIsMigrated' /\ SentBefore'
    BY <1>1, <1>2, <1>3 DEF TInv, TrackedIsMigrated, SentBefore
  <1>5. QED BY <1>4 DEF TInv

LEMMA TInvTrack == ASSUME TInv, TypeOK', SaveMigrationData PROVE TInv' /\ \A r : ~Tracking(r)'
  <1>1. TypeOK /\ InStep("track") /\ UNCHANGED <<todo, at, wire>> /\ pc' = pc + 1
        /\ tracked' = tracked \cup {Step.record}
    BY DEF TInv, SaveMigrationData, Proceed, Goto, operator, onChain
  <1>2. \A r : Migrated(r)' <=> Migrated(r)
    BY <1>1 DEF Migrated
  <1>3. Step.record \in Records /\ Tracking(Step.record)
    BY <1>1, TracksARecord DEF Tracking
  <1>4. Migrated(Step.record)
    BY <1>3 DEF TInv, SentBefore
  <1>5. \A r : ~Tracking(r)'
    BY <1>1, OnlyAfterTx
  <1>6. TrackedIsMigrated' /\ SentBefore'
    BY <1>1, <1>2, <1>4, <1>5 DEF TInv, TrackedIsMigrated, SentBefore
  <1>7. QED BY <1>5, <1>6 DEF TInv

(* The other steps: none begins to track, and only a crash ends it.           *)
LEMMA QuietSteps ==
    ASSUME TypeOK, TypeOK',
           \/ StartCommand \/ NextScript \/ EndCommand \/ GetDeployData \/ Deploy \/ SaveDeploymentData
           \/ Throw \/ Rerun \/ Resume \/ UNCHANGED vars
    PROVE  UNCHANGED <<tracked, wire, overwritten, faults>> /\ \A r : Tracking(r)' <=> Tracking(r)
  <1>1. CASE StartCommand \/ NextScript \/ Rerun \/ Resume
    <2>1. UNCHANGED <<tracked, wire, overwritten, faults>>
      BY <1>1 DEF StartCommand, NextScript, Rerun, Resume, disk, onChain, users
    <2>2. \A r : ~Tracking(r)'
      BY <1>1, EnterTracksNothing DEF StartCommand, NextScript, Rerun, Resume
    <2>3. ~InStep("track")
      <3>1. CASE NextScript
        <4>1. Len(Plan[Script]) \in Nat /\ pc \in Nat
          BY <3>1, AtTheEnd DEF NextScript, TypeOK, ProcessTypes
        <4>2. QED BY <3>1, <4>1 DEF NextScript, InStep
      <3>2. CASE StartCommand \/ Rerun \/ Resume
        BY <3>2 DEF StartCommand, Rerun, Resume, InStep, TypeOK, InPlace
      <3>3. QED BY <1>1, <3>1, <3>2
    <2>4. QED BY <2>1, <2>2, <2>3 DEF Tracking
  <1>2. CASE EndCommand
    <2>1. UNCHANGED <<tracked, wire, overwritten, faults>> /\ ~running'
      BY <1>2 DEF EndCommand, disk, onChain, users
    <2>2. Len(Plan[Script]) \in Nat /\ pc \in Nat
      BY <1>2, AtTheEnd DEF EndCommand, TypeOK, ProcessTypes
    <2>3. ~InStep("track")
      BY <1>2, <2>2 DEF EndCommand, InStep
    <2>4. QED BY <2>1, <2>3, AbortTracksNothing DEF Tracking
  <1>3. CASE GetDeployData \/ Deploy \/ SaveDeploymentData
    <2>1. UNCHANGED <<todo, at, tracked, wire, overwritten, faults>>
      BY <1>3 DEF GetDeployData, Deploy, SaveDeploymentData, operator, disk, onChain, users
    <2>2. PICK op \in {"load", "deploy", "save"} : InStep(op) /\ (pc' = pc + 1 \/ ~running')
      BY <1>3 DEF GetDeployData, Deploy, SaveDeploymentData, Proceed, Goto, Abort
    <2>3. \A r : ~Tracking(r)
      BY <2>2 DEF Tracking, InStep
    <2>4. \A r : ~Tracking(r)'
      BY <2>1, <2>2, OnlyAfterTx, AbortTracksNothing
    <2>5. QED BY <2>1, <2>3, <2>4
  <1>4. CASE Throw
    <2>1. UNCHANGED <<tracked, wire, overwritten, faults>> /\ ~running'
      BY <1>4 DEF Throw, Abort, disk, onChain, users
    <2>2. ~InStep("track")
      BY <1>4 DEF Throw, Refused, InStep
    <2>3. QED BY <2>1, <2>2, AbortTracksNothing DEF Tracking
  <1>5. CASE UNCHANGED vars
    BY <1>5 DEF vars, operator, process, disk, onChain, users, Tracking, InStep, Step, Script, Command
  <1>6. QED BY <1>1, <1>2, <1>3, <1>4, <1>5

LEMMA CrashTracksNothing ==
    ASSUME Crash
    PROVE  UNCHANGED <<tracked, wire, overwritten>> /\ faults' = faults + 1 /\ \A r : ~Tracking(r)'
  BY AbortTracksNothing DEF Crash, Abort, disk, onChain, users

LEMMA UsersTrackNothing ==
    ASSUME UserChange
    PROVE  UNCHANGED <<tracked, overwritten, faults>> /\ \A r : Tracking(r)' <=> Tracking(r)
  BY DEF UserChange, operator, process, disk, Tracking, InStep, Step, Script, Command

LEMMA TInvNext == ASSUME TInv, [Next]_vars PROVE TInv'
  <1>1. TypeOK /\ TypeOK'
    BY TypeNext DEF TInv
  <1>2. CASE \/ StartCommand \/ NextScript \/ EndCommand \/ GetDeployData \/ Deploy \/ SaveDeploymentData
             \/ Throw \/ Rerun \/ Resume \/ UNCHANGED vars
    BY <1>1, <1>2, QuietSteps, TInvQuiet
  <1>3. CASE Crash
    BY <1>1, <1>3, CrashTracksNothing, TInvQuiet
  <1>4. CASE UserChange
    <2>1. TrackedIsMigrated' /\ SentBefore'
      BY <1>4, UsersTrackNothing, ChangedIsMigrated DEF TInv, TrackedIsMigrated, SentBefore
    <2>2. QED BY <1>1, <2>1 DEF TInv
  <1>5. QED
    BY <1>1, <1>2, <1>3, <1>4, TInvExecute, TInvLose, TInvSkip, TInvTrack DEF Next, Advance, RunStep

(* A rerun may leave out what the tracking file names: whatever crashed, was  *)
(* sent again or was started again, it has been migrated.                     *)
(* (M_upgrade_migration.js:94, 164)                                           *)
THEOREM TrackingIsTrue == Spec => []TrackedIsMigrated
  <1>1. TInv => TrackedIsMigrated
    BY DEF TInv
  <1>2. QED BY <1>1, TInvInit, TInvNext, PTL DEF Spec
-------------------------------------------------------------------------------
(* Nothing is migrated a second time without a fault.  Pending are the        *)
(* records whose transaction has landed and that nobody will track any more:  *)
(* a fault leaves behind one at most, and sending one again takes it away.    *)

LEMMA FInvInit == Init => FInv
  <1> SUFFICES ASSUME Init PROVE FInv
    OBVIOUS
  <1>1. Pending = {}
    BY NothingIsMigrated DEF Pending
  <1>2. IsFiniteSet(Pending) /\ Cardinality(Pending) = 0
    BY <1>1, FS_EmptySet
  <1>3. overwritten + Cardinality(Pending) <= faults
    BY <1>2 DEF Init
  <1>4. QED BY <1>2, <1>3, TInvInit DEF FInv

(* A step that leaves no record behind.                                       *)
LEMMA NothingPends ==
    ASSUME FInv, TInv', Pending' \subseteq Pending, UNCHANGED overwritten, faults' >= faults
    PROVE  FInv'
  <1>1. IsFiniteSet(Pending') /\ Cardinality(Pending') <= Cardinality(Pending)
    BY FS_Subset DEF FInv
  <1>2. /\ Cardinality(Pending) \in Nat /\ Cardinality(Pending') \in Nat
        /\ overwritten \in Nat /\ faults \in Nat /\ faults' \in Nat
    BY <1>1, FS_CardinalityType, Bounds DEF FInv, TInv, TypeOK, BoundTypes
  <1>3. overwritten' + Cardinality(Pending') <= faults'
    BY <1>1, <1>2 DEF FInv
  <1>4. QED BY <1>1, <1>3 DEF FInv

(* A fault that leaves one behind.                                            *)
LEMMA OnePends ==
    ASSUME FInv, TInv', NEW r, Pending' \subseteq Pending \cup {r}, UNCHANGED overwritten, faults' = faults + 1
    PROVE  FInv'
  <1>1. IsFiniteSet(Pending \cup {r}) /\ Cardinality(Pending \cup {r}) <= Cardinality(Pending) + 1
    <2>1. IsFiniteSet(Pending)
      BY DEF FInv
    <2>2. /\ IsFiniteSet(Pending \cup {r})
          /\ Cardinality(Pending \cup {r}) = Cardinality(Pending) \/ Cardinality(Pending \cup {r}) = Cardinality(Pending) + 1
      BY <2>1, FS_AddElement
    <2>3. Cardinality(Pending) \in Nat
      BY <2>1, FS_CardinalityType
    <2>4. QED BY <2>2, <2>3
  <1>2. IsFiniteSet(Pending') /\ Cardinality(Pending') <= Cardinality(Pending \cup {r})
    BY <1>1, FS_Subset
  <1>3. /\ Cardinality(Pending) \in Nat /\ Cardinality(Pending \cup {r}) \in Nat /\ Cardinality(Pending') \in Nat
        /\ overwritten \in Nat /\ faults \in Nat
    BY <1>1, <1>2, FS_CardinalityType DEF FInv, TInv, TypeOK, BoundTypes
  <1>4. overwritten' + Cardinality(Pending') <= faults'
    BY <1>1, <1>2, <1>3 DEF FInv
  <1>5. QED BY <1>2, <1>4 DEF FInv

(* Who overwrites, sends a record that pended.                                *)
LEMMA OverwritesPending ==
    ASSUME TInv, InStep("tx"), ~IsMigrated, Land
    PROVE  \/ overwritten' = overwritten
           \/ overwritten' = overwritten + 1 /\ Step.record \in Pending
  <1>1. CASE Step.record # NoRecord /\ <<UserSlot[Step.record], Target, UserMade>> \in wire
    <2>1. Step.record \in Records
      BY <1>1, TxInPlan DEF TInv
    <2>2. Migrated(Step.record)
      BY <1>1 DEF Migrated
    <2>3. Step.record \notin tracked /\ ~Tracking(Step.record)
      BY <1>1 DEF IsMigrated, Tracking, InStep
    <2>4. overwritten' = overwritten + 1
      BY <1>1 DEF Land
    <2>5. QED BY <2>1, <2>2, <2>3, <2>4 DEF Pending
  <1>2. CASE ~(Step.record # NoRecord /\ <<UserSlot[Step.record], Target, UserMade>> \in wire)
    <2>1. overwritten' = overwritten + 0 /\ overwritten \in Nat
      BY <1>2 DEF Land, TInv, TypeOK, BoundTypes
    <2>2. QED BY <2>1
  <1>3. QED BY <1>1, <1>2

(* A transaction that lands leaves no other record behind.                    *)
LEMMA LandPends ==
    ASSUME TInv, InStep("tx"), Land, UNCHANGED tracked
    PROVE  Pending' \subseteq Pending \cup {Step.record}
  <1>1. ASSUME NEW q \in Pending', q # Step.record PROVE q \in Pending
    <2>1. q \in Records \ tracked /\ Migrated(q)'
      BY <1>1 DEF Pending
    <2>2. Migrated(q)
      BY <2>1, <1>1, LandMigrates DEF TInv
    <2>3. ~Tracking(q)
      BY DEF Tracking, InStep
    <2>4. QED BY <2>1, <2>2, <2>3 DEF Pending
  <1>2. QED BY <1>1

LEMMA FInvExecute == ASSUME FInv, TInv', ExecuteTx PROVE FInv'
  <1>1. /\ TInv /\ TypeOK /\ TypeOK' /\ InStep("tx") /\ ~IsMigrated /\ Land
        /\ UNCHANGED <<todo, at, running, tracked, faults>> /\ pc' = pc + 1
    BY DEF FInv, TInv, ExecuteTx, IsSent, Goto, operator, disk
  <1>2. ASSUME NEW r \in Pending', r = Step.record PROVE FALSE
    <2>1. Step.record \in Records /\ Step.record # NoRecord
      BY <1>2, PlanAssumption DEF Pending
    <2>2. /\ Script \in Scripts /\ pc + 1 \in DOMAIN Plan[Script] /\ Plan[Script][pc + 1].op = "track"
          /\ Plan[Script][pc + 1].record = Step.record
      BY <1>1, <2>1, TxInPlan, StepInPlan
    <2>3. Script' = Script /\ pc + 1 <= Len(Plan[Script])
      BY <1>1, <2>2, PlanLength DEF Script, Command
    <2>4. Step' = Plan[Script][pc + 1]
      BY <1>1, <2>3 DEF Step
    <2>5. running'
      BY <1>1 DEF InStep
    <2>6. Tracking(r)'
      BY <1>1, <1>2, <2>2, <2>3, <2>4, <2>5 DEF Tracking, InStep
    <2>7. ~Tracking(r)'
      BY <1>2 DEF Pending
    <2>8. QED BY <2>6, <2>7
  <1>3. Pending' \subseteq Pending \ {Step.record}
    BY <1>1, <1>2, LandPends
  <1>4. CASE overwritten' = overwritten
    <2>1. faults' >= faults
      BY <1>1 DEF TypeOK, BoundTypes
    <2>2. QED BY <2>1, <1>3, <1>4, NothingPends
  <1>5. CASE overwritten' = overwritten + 1 /\ Step.record \in Pending
    <2>1. /\ IsFiniteSet(Pending \ {Step.record})
          /\ Cardinality(Pending \ {Step.record}) = Cardinality(Pending) - 1
      BY <1>5, FS_RemoveElement DEF FInv
    <2>2. IsFiniteSet(Pending') /\ Cardinality(Pending') <= Cardinality(Pending \ {Step.record})
      BY <1>3, <2>1, FS_Subset
    <2>3. /\ Cardinality(Pending) \in Nat /\ Cardinality(Pending') \in Nat
          /\ overwritten \in Nat /\ faults \in Nat
      BY <1>1, <2>2, FS_CardinalityType, Bounds DEF FInv, TypeOK, BoundTypes
    <2>4. overwritten' + Cardinality(Pending') <= faults'
      BY <1>1, <1>5, <2>1, <2>2, <2>3 DEF FInv
    <2>5. QED BY <2>2, <2>4 DEF FInv
  <1>6. QED BY <1>1, <1>4, <1>5, OverwritesPending

LEMMA FInvLose == ASSUME FInv, TInv', LoseReceipt PROVE FInv'
  <1>1. /\ TInv /\ TypeOK /\ InStep("tx") /\ ~IsMigrated /\ Land
        /\ UNCHANGED tracked /\ faults' = faults + 1
    BY DEF FInv, TInv, LoseReceipt, IsSent, disk
  <1>2. Pending' \subseteq Pending \cup {Step.record}
    BY <1>1, LandPends
  <1>3. CASE overwritten' = overwritten
    BY <1>1, <1>2, <1>3, OnePends
  <1>4. CASE overwritten' = overwritten + 1 /\ Step.record \in Pending
    <2>1. Pending' \subseteq Pending
      BY <1>2, <1>4
    <2>2. IsFiniteSet(Pending') /\ Cardinality(Pending') <= Cardinality(Pending)
      BY <2>1, FS_Subset DEF FInv
    <2>3. /\ Cardinality(Pending) \in Nat /\ Cardinality(Pending') \in Nat
          /\ overwritten \in Nat /\ faults \in Nat
      BY <1>1, <2>2, FS_CardinalityType, Bounds DEF FInv, TypeOK, BoundTypes
    <2>4. overwritten' + Cardinality(Pending') <= faults'
      BY <1>1, <1>4, <2>2, <2>3 DEF FInv
    <2>5. QED BY <2>2, <2>4 DEF FInv
  <1>5. QED BY <1>1, <1>3, <1>4, OverwritesPending

LEMMA FInvNext == ASSUME FInv, [Next]_vars PROVE FInv'
  <1>1. TInv /\ TInv' /\ TypeOK /\ TypeOK'
    BY TInvNext DEF FInv, TInv
  <1>2. faults \in Nat /\ faults >= faults /\ faults + 1 >= faults
    BY <1>1, Bounds DEF TypeOK, BoundTypes
  <1>3. CASE \/ StartCommand \/ NextScript \/ EndCommand \/ GetDeployData \/ Deploy \/ SaveDeploymentData
             \/ Throw \/ Rerun \/ Resume \/ UNCHANGED vars
    <2>1. UNCHANGED <<tracked, wire, overwritten, faults>> /\ \A r : Tracking(r)' <=> Tracking(r)
      BY <1>1, <1>3, QuietSteps
    <2>2. Pending' \subseteq Pending
      BY <2>1 DEF Pending, Migrated
    <2>3. QED BY <1>1, <1>2, <2>1, <2>2, NothingPends
  <1>4. CASE SkipTx
    <2>1. UNCHANGED <<tracked, wire, overwritten, faults>> /\ \A r : ~Tracking(r)
      BY <1>4 DEF SkipTx, disk, onChain, users, Tracking, InStep
    <2>2. Pending' \subseteq Pending
      BY <2>1 DEF Pending, Migrated
    <2>3. QED BY <1>1, <1>2, <2>1, <2>2, NothingPends
  <1>5. CASE SaveMigrationData
    <2>1. /\ InStep("track") /\ tracked' = tracked \cup {Step.record}
          /\ UNCHANGED <<wire, overwritten, faults>>
      BY <1>5 DEF SaveMigrationData, onChain, users
    <2>2. Pending' \subseteq Pending
      BY <2>1 DEF Pending, Migrated, Tracking
    <2>3. QED BY <1>1, <1>2, <2>1, <2>2, NothingPends
  <1>6. CASE Crash
    <2>1. UNCHANGED <<tracked, wire, overwritten>> /\ faults' = faults + 1
      BY <1>6, CrashTracksNothing
    <2>2. Pending' \subseteq Pending \cup {Step.record}
      BY <2>1 DEF Pending, Migrated, Tracking
    <2>3. QED BY <1>1, <2>1, <2>2, OnePends
  <1>7. CASE UserChange
    <2>1. UNCHANGED <<tracked, overwritten, faults>> /\ \A r : Tracking(r)' <=> Tracking(r)
      BY <1>7, UsersTrackNothing
    <2>2. Pending' \subseteq Pending
      BY <2>1, <1>7, ChangedIsMigrated DEF Pending
    <2>3. QED BY <1>1, <1>2, <2>1, <2>2, NothingPends
  <1>8. QED
    BY <1>1, <1>3, <1>4, <1>5, <1>6, <1>7, FInvExecute, FInvLose DEF Next, Advance, RunStep

(* What owners have changed after the migration is run over at most once for  *)
(* every crash or lost receipt, and never without one, however often the      *)
(* command is run again.  (M_upgrade_migration.js:85-95, 153-165)             *)
THEOREM OverwritesAreFaults == Spec => []ChangesAreKept
  <1>1. FInv => ChangesAreKept
    <2> SUFFICES ASSUME FInv PROVE ChangesAreKept
      OBVIOUS
    <2>1. Cardinality(Pending) \in Nat /\ overwritten \in Nat /\ faults \in Nat
      BY FS_CardinalityType, Bounds DEF FInv, TInv, TypeOK, BoundTypes
    <2>2. QED BY <2>1 DEF FInv, ChangesAreKept
  <1>2. QED BY <1>1, FInvInit, FInvNext, PTL DEF Spec
-------------------------------------------------------------------------------
(* Connections.  Within a command that records the protocol anew, a           *)
(* connection holds from the step that makes it to the end of the command, as *)
(* no later step changes the records it is about.                             *)

(* What a script takes for the recorded contracts are the recorded ones.      *)
Current == running => \A c \in Settled(Script, pc) : mem[c] = recorded[c]
Done(i, n) == i < at \/ (i = at /\ n <= Prefix)
Made(need) ==
    \E i \in DOMAIN Command : \E n \in DOMAIN Plan[Command[i]] : Makes(Command, i, n, need) /\ Done(i, n)
MadeHold == at > 0 => \A need \in Needs : Made(need) => WiredTo(need)
KeptWhole == at > 0 /\ Keeps(Command) => Whole
Shaped == \A i \in DOMAIN todo : Keeps(todo[i]) \/ Connects(todo[i])
CInv == TypeOK /\ Current /\ Shaped /\ ProtocolIsWired /\ KeptWhole /\ MadeHold

LEMMA SettledFirst == ASSUME NEW s PROVE Settled(s, 1) = {}
  BY DEF Settled

LEMMA SettledNext ==
    ASSUME NEW s \in Scripts, NEW n \in DOMAIN Plan[s], NEW c \in Settled(s, n + 1)
    PROVE  \/ Plan[s][n].op \in {"load", "save"} /\ c \in Plan[s][n].contracts
           \/ c \in Settled(s, n) /\ (Plan[s][n].op = "deploy" => c \notin Plan[s][n].contracts)
  <1>1. n \in Nat \ {0}
    BY PlanLength
  <1>2. PICK i \in 1 .. (n + 1) - 1 :
            /\ Plan[s][i].op \in {"load", "save"} /\ c \in Plan[s][i].contracts
            /\ \A k \in i + 1 .. (n + 1) - 1 : Plan[s][k].op = "deploy" => c \notin Plan[s][k].contracts
    BY DEF Settled
  <1>3. CASE i = n
    BY <1>2, <1>3
  <1>4. CASE i # n
    <2>1. i \in 1 .. n - 1 /\ n \in i + 1 .. (n + 1) - 1
      BY <1>1, <1>2, <1>4
    <2>2. \A k \in i + 1 .. n - 1 : k \in i + 1 .. (n + 1) - 1
      BY <1>1
    <2>3. c \in Settled(s, n)
      BY <1>2, <2>1, <2>2 DEF Settled
    <2>4. QED BY <1>2, <2>1, <2>3
  <1>5. QED BY <1>3, <1>4

LEMMA SettledContracts == ASSUME NEW s, NEW n PROVE Settled(s, n) \subseteq Contracts
  BY DEF Settled

LEMMA CurrentEnter == ASSUME NEW s, NEW t, Enter(s, t) PROVE Current'
  BY SettledFirst DEF Enter, Current

LEMMA CurrentOff == ASSUME ~running' PROVE Current'
  BY DEF Current

LEMMA CurrentStay ==
    ASSUME TypeOK, Current, NEW op, InStep(op), op \notin {"load", "deploy", "save"},
           UNCHANGED <<todo, at, mem, recorded>>, pc' \in {pc, pc + 1}
    PROVE  Current'
  <1>1. Script \in Scripts /\ pc \in DOMAIN Plan[Script] /\ Plan[Script][pc].op = op /\ running
    BY StepInPlan DEF InStep
  <1>2. Script' = Script
    BY DEF Script, Command
  <1>3. \A c \in Settled(Script, pc') : c \in Settled(Script, pc)
    BY <1>1, SettledNext
  <1>4. QED BY <1>1, <1>2, <1>3 DEF Current

LEMMA CurrentLoad == ASSUME TypeOK, Current, GetDeployData PROVE Current'
  <1>1. InStep("load") /\ UNCHANGED <<todo, at, recorded>>
    BY DEF GetDeployData, operator, disk
  <1>2. Script \in Scripts /\ pc \in DOMAIN Plan[Script] /\ Step = Plan[Script][pc] /\ Step.op = "load" /\ running
    BY <1>1, StepInPlan DEF InStep
  <1>3. Script' = Script
    BY <1>1 DEF Script, Command
  <1>4. CASE \A c \in Step.contracts : recorded[c] > 0
    <2>1. pc' = pc + 1 /\ mem' = [c \in Contracts |-> IF c \in Step.contracts THEN recorded[c] ELSE mem[c]]
      BY <1>4 DEF GetDeployData
    <2>2. ASSUME NEW c \in Settled(Script, pc + 1) PROVE mem'[c] = recorded[c]
      <3>1. c \in Contracts
        BY <2>2, SettledContracts
      <3>2. c \in Step.contracts \/ c \in Settled(Script, pc)
        BY <1>2, <2>2, SettledNext
      <3>3. QED BY <1>2, <2>1, <3>1, <3>2 DEF Current
    <2>3. QED BY <1>1, <1>3, <2>1, <2>2 DEF Current
  <1>5. CASE ~\A c \in Step.contracts : recorded[c] > 0
    BY <1>5, CurrentOff DEF GetDeployData, Abort
  <1>6. QED BY <1>4, <1>5

LEMMA CurrentDeploy == ASSUME TypeOK, Current, Deploy PROVE Current'
  <1>1. InStep("deploy") /\ UNCHANGED <<todo, at, recorded>> /\ pc' = pc + 1
    BY DEF Deploy, operator, disk
  <1>2. Script \in Scripts /\ pc \in DOMAIN Plan[Script] /\ Step = Plan[Script][pc] /\ Step.op = "deploy" /\ running
    BY <1>1, StepInPlan DEF InStep
  <1>3. Script' = Script
    BY <1>1 DEF Script, Command
  <1>4. ASSUME NEW c \in Settled(Script, pc + 1) PROVE mem'[c] = recorded[c]
    <2>1. c \in Contracts
      BY <1>4, SettledContracts
    <2>2. c \in Settled(Script, pc) /\ c \notin Step.contracts
      BY <1>2, <1>4, SettledNext
    <2>3. QED BY <1>2, <2>1, <2>2 DEF Current, Deploy
  <1>5. QED BY <1>1, <1>3, <1>4 DEF Current

LEMMA CurrentSave == ASSUME TypeOK, Current, SaveDeploymentData PROVE Current'
  <1>1. InStep("save") /\ UNCHANGED <<todo, at, mem>> /\ pc' = pc + 1
    BY DEF SaveDeploymentData, Proceed, Goto, operator
  <1>2. Script \in Scripts /\ pc \in DOMAIN Plan[Script] /\ Step = Plan[Script][pc] /\ Step.op = "save" /\ running
    BY <1>1, StepInPlan DEF InStep
  <1>3. Script' = Script
    BY <1>1 DEF Script, Command
  <1>4. ASSUME NEW c \in Settled(Script, pc + 1) PROVE mem'[c] = recorded'[c]
    <2>1. c \in Contracts
      BY <1>4, SettledContracts
    <2>2. c \in Step.contracts \/ c \in Settled(Script, pc)
      BY <1>2, <1>4, SettledNext
    <2>3. QED BY <1>1, <1>2, <2>1, <2>2 DEF Current, SaveDeploymentData
  <1>5. QED BY <1>1, <1>3, <1>4 DEF Current

(* A transaction that writes a slot the protocol needs connects the recorded  *)
(* contracts; no transaction disconnects them.                                *)
LEMMA WritesConnect ==
    ASSUME TypeOK, Current, InStep("tx"), Land, UNCHANGED recorded, NEW need \in Needs, Writes(Step, need[2])
    PROVE  WiredTo(need)'
  <1>1. Script \in Scripts /\ pc \in DOMAIN Plan[Script] /\ Step = Plan[Script][pc] /\ running
    BY StepInPlan DEF InStep
  <1>2. PICK p \in Step.puts : p[1] = need[2]
    BY DEF Writes
  <1>3. /\ Step.holder = need[1] /\ p[2] = need[3] /\ need[3] \in Contracts
        /\ need[1] \in Settled(Script, pc) /\ need[3] \in Settled(Script, pc)
    BY <1>1, <1>2, NeedsAreMet
  <1>4. Target = recorded[need[1]] /\ ValueOf(p[2]) = <<need[3], recorded[need[3]]>>
    BY <1>1, <1>3 DEF Current, Target, ValueOf
  <1>5. <<p[1], Target, ValueOf(p[2])>> \in wire'
    BY <1>2 DEF Land, Puts
  <1>6. QED BY <1>2, <1>4, <1>5 DEF WiredTo

LEMMA LandStaysConnected ==
    ASSUME TypeOK, Current, InStep("tx"), Land, UNCHANGED recorded, NEW need \in Needs, WiredTo(need)
    PROVE  WiredTo(need)'
  <1>1. CASE Writes(Step, need[2])
    BY <1>1, WritesConnect
  <1>2. CASE ~Writes(Step, need[2])
    <2>1. Step.op = "tx"
      BY StepInPlan
    <2>2. <<need[2], recorded[need[1]], <<need[3], recorded[need[3]]>>>> \notin Replaced
      BY <1>2, <2>1 DEF Replaced, Writes
    <2>3. QED BY <2>2 DEF Land, WiredTo
  <1>3. QED BY <1>1, <1>2

LEMMA UsersStayConnected ==
    ASSUME UserChange, NEW need \in Needs, WiredTo(need)
    PROVE  WiredTo(need)'
  <1>1. PICK r \in Records, w \in wire : w[1] = UserSlot[r] /\ wire' = (wire \ {w}) \cup {<<w[1], w[2], UserMade>>}
    BY DEF UserChange
  <1>2. UNCHANGED recorded
    BY DEF UserChange, disk
  <1>3. w # <<need[2], recorded[need[1]], <<need[3], recorded[need[3]]>>>>
    BY <1>1, NeedsAreMet
  <1>4. QED BY <1>1, <1>2, <1>3 DEF WiredTo

LEMMA UntouchedStaysConnected ==
    ASSUME UNCHANGED <<wire, recorded>>
    PROVE  /\ \A need \in Needs : WiredTo(need)' <=> WiredTo(need)
           /\ Whole' <=> Whole
  BY DEF WiredTo, Whole
LEMMA CInvInit == Init => CInv
  <1> SUFFICES ASSUME Init PROVE CInv
    OBVIOUS
  <1>1. TypeOK /\ at = 0 /\ ~running /\ todo \in Agendas
    BY TypeInit DEF Init
  <1>2. Shaped
    BY <1>1, CommandsConnect DEF Shaped
  <1>3. Whole
    <2>1. CASE Protocol \subseteq Legacy[todo]
      <3>1. ASSUME NEW need \in Needs PROVE WiredTo(need)
        <4>1. need \in Contracts \X Slots \X Contracts /\ {need[1], need[3]} \subseteq Legacy[todo]
          BY <2>1, NeedsAreMet DEF Protocol
        <4>2. recorded[need[1]] = 1 /\ recorded[need[3]] = 1
          BY <4>1 DEF Init
        <4>3. <<need[2], 1, <<need[3], 1>>>> \in wire
          BY <4>1 DEF Init
        <4>4. QED BY <4>2, <4>3 DEF WiredTo
      <3>2. QED BY <3>1 DEF Whole
    <2>2. CASE Protocol \cap Legacy[todo] = {}
      <3>1. ASSUME NEW c \in Protocol PROVE recorded[c] = 0
        <4>1. c \in Contracts /\ c \notin Legacy[todo]
          BY <2>2, NeedsAreMet DEF Protocol
        <4>2. QED BY <4>1 DEF Init
      <3>2. QED BY <3>1 DEF Whole
    <2>3. QED BY <1>1, <2>1, <2>2, CommandsConnect
  <1>4. QED
    BY <1>1, <1>2, <1>3 DEF CInv, Current, ProtocolIsWired, KeptWhole, MadeHold

(* A step within a command that changes no record.                            *)
LEMMA CInvStay ==
    ASSUME CInv, TypeOK', Current', at > 0, at' > 0, UNCHANGED <<todo, recorded>>,
           \A need \in Needs : WiredTo(need) => WiredTo(need)',
           \A need \in Needs : Made(need)' => Made(need) \/ WiredTo(need)'
    PROVE  CInv'
  <1>1. Command' = Command
    BY DEF Command
  <1>2. Shaped' /\ ProtocolIsWired'
    BY DEF CInv, Shaped, ProtocolIsWired
  <1>3. KeptWhole'
    BY <1>1 DEF CInv, KeptWhole, Whole
  <1>4. MadeHold'
    BY DEF CInv, MadeHold
  <1>5. QED BY <1>2, <1>3, <1>4 DEF CInv

(* What was done before: nothing new, or the step the process was at.         *)
LEMMA MadeKept ==
    ASSUME UNCHANGED todo, \A i \in DOMAIN Command : \A n \in DOMAIN Plan[Command[i]] : Done(i, n)' => Done(i, n)
    PROVE  \A need \in Needs : Made(need)' => Made(need)
  BY DEF Made, Command

LEMMA MadeNext ==
    ASSUME TypeOK, NEW op, InStep(op), UNCHANGED <<todo, at>>, Prefix' = Prefix \/ Prefix' = pc,
           NEW need \in Needs, Made(need)'
    PROVE  \/ Made(need)
           \/ Makes(Command, at, pc, need) /\ Prefix' = pc /\ op = "tx" /\ Writes(Step, need[2])
  <1>1. at > 0 /\ pc \in Nat /\ skipTo \in Nat
    BY StepInPlan DEF TypeOK, ProcessTypes
  <1>2. PICK i \in DOMAIN Command : \E n \in DOMAIN Plan[Command[i]] : Makes(Command, i, n, need) /\ Done(i, n)'
    BY DEF Made, Command
  <1>3. PICK n \in DOMAIN Plan[Command[i]] : Makes(Command, i, n, need) /\ Done(i, n)'
    BY <1>2
  <1>4. CASE Done(i, n)
    BY <1>3, <1>4 DEF Made
  <1>5. CASE ~Done(i, n)
    <2>1. i = at /\ n <= Prefix' /\ Prefix' = pc
      BY <1>3, <1>5 DEF Done
    <2>2. Prefix \in Nat /\ (Prefix = pc - 1 \/ Prefix >= pc)
      <3>1. pc > 0 /\ (skipTo > 0 => pc <= skipTo)
        BY <1>1 DEF TypeOK, InPlace, ProcessTypes
      <3>2. Prefix = IF skipTo > 0 THEN skipTo - 1 ELSE pc - 1
        BY <1>1 DEF Prefix
      <3>3. CASE skipTo = pc \/ skipTo = 0
        BY <1>1, <3>1, <3>2, <3>3
      <3>4. CASE skipTo # pc /\ skipTo # 0
        BY <1>1, <3>1, <3>2, <3>4
      <3>5. QED BY <3>3, <3>4
    <2>3. n \in Nat
      BY <2>1, <1>1, ScriptInPlan DEF Script
    <2>4. n = pc
      BY <1>1, <1>5, <2>1, <2>2, <2>3 DEF Done
    <2>5. Writes(Step, need[2])
      BY <1>3, <2>1, <2>4 DEF Makes, Step, Script
    <2>6. op = "tx"
      BY <2>5 DEF Writes, InStep
    <2>7. QED BY <1>3, <2>1, <2>4, <2>5, <2>6
  <1>6. QED BY <1>4, <1>5

(* How far a step takes the process.                                          *)
LEMMA PrefixNext ==
    ASSUME TypeOK, NEW op, InStep(op), UNCHANGED <<todo, at>>, pc' = pc + 1, skipTo' \in {0, skipTo},
           skipTo' = 0 => skipTo \in {0, pc}
    PROVE  (Prefix' = Prefix /\ skipTo' = skipTo /\ skipTo > 0) \/ (Prefix' = pc /\ skipTo' = 0)
  <1>1. at > 0 /\ pc \in Nat /\ skipTo \in Nat
    BY StepInPlan DEF TypeOK, ProcessTypes
  <1>2. at' # 0 /\ pc' - 1 = pc
    BY <1>1
  <1>3. CASE skipTo' = 0
    BY <1>1, <1>2, <1>3 DEF Prefix
  <1>4. CASE skipTo' # 0
    <2>1. skipTo' = skipTo /\ skipTo > 0
      BY <1>1, <1>4
    <2>2. Prefix' = Prefix
      BY <1>1, <1>2, <2>1 DEF Prefix
    <2>3. QED BY <2>1, <2>2
  <1>5. QED BY <1>3, <1>4

LEMMA CInvExecute == ASSUME CInv, TypeOK', ExecuteTx PROVE CInv'
  <1>1. /\ TypeOK /\ Current /\ InStep("tx") /\ Land
        /\ UNCHANGED <<todo, at, recorded, mem>> /\ pc' = pc + 1
    BY DEF CInv, ExecuteTx, Goto, operator, disk
  <1>2. Current'
    BY <1>1, CurrentStay
  <1>3. at > 0 /\ skipTo \in Nat
    BY <1>1, StepInPlan DEF TypeOK, ProcessTypes
  <1>4. skipTo' \in {0, skipTo} /\ (skipTo' = 0 => skipTo \in {0, pc})
    BY <1>1, DueEndsSkipping DEF ExecuteTx, IsSent
  <1>5. Prefix' = Prefix \/ Prefix' = pc
    BY <1>1, <1>4, PrefixNext
  <1>6. \A need \in Needs : Made(need)' => Made(need) \/ WiredTo(need)'
    BY <1>1, <1>5, MadeNext, WritesConnect
  <1>7. \A need \in Needs : WiredTo(need) => WiredTo(need)'
    BY <1>1, LandStaysConnected
  <1>8. QED BY <1>1, <1>2, <1>3, <1>6, <1>7, CInvStay

(* What is skipped has been done; a migration connects nothing.               *)
LEMMA CInvSkip == ASSUME CInv, TypeOK', SkipTx PROVE CInv'
  <1>1. /\ TypeOK /\ Current /\ InStep("tx")
        /\ UNCHANGED <<todo, at, recorded, wire, mem, skipTo>> /\ pc' = pc + 1
    BY DEF CInv, SkipTx, Proceed, Goto, operator, disk, onChain
  <1>2. Current'
    BY <1>1, CurrentStay
  <1>3. at > 0 /\ skipTo \in Nat /\ pc \in Nat
    BY <1>1, StepInPlan DEF TypeOK, ProcessTypes
  <1>4. (Prefix' = Prefix /\ skipTo > 0) \/ (Prefix' = pc /\ skipTo = 0)
    BY <1>1, <1>3, PrefixNext
  <1>5. ASSUME NEW need \in Needs, Made(need)' PROVE Made(need)
    <2>1. CASE Writes(Step, need[2]) /\ Prefix' = pc
      <3>1. Step.record = NoRecord
        BY <1>1, <2>1, StepInPlan, NeedsAreMet
      <3>2. IsSkipped
        BY <3>1 DEF SkipTx, IsSent, IsMigrated
      <3>3. pc < skipTo
        BY <3>2 DEF IsSkipped
      <3>4. Prefix' = Prefix
        BY <1>3, <1>4, <3>3
      <3>5. UNCHANGED <<todo, at, Prefix>>
        BY <1>1, <3>4
      <3>6. QED BY <1>5, <3>5, MadeKept DEF Done
    <2>2. CASE ~(Writes(Step, need[2]) /\ Prefix' = pc)
      BY <1>1, <1>4, <1>5, <2>2, MadeNext
    <2>3. QED BY <2>1, <2>2
  <1>6. QED BY <1>1, <1>2, <1>3, <1>5, UntouchedStaysConnected, CInvStay

(* A step that neither writes slots nor records.                              *)
LEMMA CInvPass ==
    ASSUME CInv, TypeOK', Current', NEW op, InStep(op), op # "tx",
           UNCHANGED <<todo, at, recorded, wire, skipTo>>, pc' = pc + 1
    PROVE  CInv'
  <1>1. TypeOK /\ at > 0 /\ skipTo \in Nat
    BY StepInPlan DEF CInv, TypeOK, ProcessTypes
  <1>2. Prefix' = Prefix \/ Prefix' = pc
    BY <1>1, PrefixNext
  <1>3. \A need \in Needs : Made(need)' => Made(need)
    BY <1>1, <1>2, MadeNext
  <1>4. QED BY <1>1, <1>3, UntouchedStaysConnected, CInvStay

(* The process ends, or goes back.                                            *)
LEMMA CInvBack ==
    ASSUME CInv, TypeOK', Current', at > 0, at' > 0, UNCHANGED <<todo, recorded>>,
           \A need \in Needs : WiredTo(need) => WiredTo(need)',
           \A i \in DOMAIN Command : \A n \in DOMAIN Plan[Command[i]] : Done(i, n)' => Done(i, n)
    PROVE  CInv'
  <1>1. \A need \in Needs : Made(need)' => Made(need)
    BY MadeKept
  <1>2. QED BY <1>1, CInvStay
LEMMA CInvAbort == ASSUME CInv, TypeOK', running, Abort, UNCHANGED <<todo, at, recorded>>,
                          \A need \in Needs : WiredTo(need) => WiredTo(need)'
                   PROVE  CInv'
  <1>1. at > 0 /\ at' > 0
    BY DEF CInv, TypeOK, InPlace, OperatorTypes
  <1>2. Current'
    BY CurrentOff DEF Abort
  <1>3. \A i \in DOMAIN Command : \A n \in DOMAIN Plan[Command[i]] : Done(i, n)' => Done(i, n)
    BY DEF Done, Prefix, Abort
  <1>4. QED BY <1>1, <1>2, <1>3, CInvBack

LEMMA CInvLoad == ASSUME CInv, TypeOK', GetDeployData PROVE CInv'
  <1>1. InStep("load") /\ UNCHANGED <<todo, at, recorded, wire>> /\ running
    BY DEF GetDeployData, operator, disk, onChain, InStep
  <1>2. Current'
    BY CurrentLoad DEF CInv
  <1>3. CASE \A c \in Step.contracts : recorded[c] > 0
    <2>1. pc' = pc + 1 /\ UNCHANGED skipTo
      BY <1>3 DEF GetDeployData
    <2>2. QED BY <1>1, <1>2, <2>1, CInvPass
  <1>4. CASE ~\A c \in Step.contracts : recorded[c] > 0
    <2>1. Abort
      BY <1>4 DEF GetDeployData
    <2>2. QED BY <1>1, <2>1, UntouchedStaysConnected, CInvAbort
  <1>5. QED BY <1>3, <1>4

LEMMA CInvDeploy == ASSUME CInv, TypeOK', Deploy PROVE CInv'
  <1>1. InStep("deploy") /\ UNCHANGED <<todo, at, recorded, wire, skipTo>> /\ pc' = pc + 1
    BY DEF Deploy, operator, disk
  <1>2. Current'
    BY CurrentDeploy DEF CInv
  <1>3. QED BY <1>1, <1>2, CInvPass

LEMMA CInvTrack == ASSUME CInv, TypeOK', SaveMigrationData PROVE CInv'
  <1>1. /\ InStep("track") /\ UNCHANGED <<todo, at, recorded, wire, skipTo, mem>> /\ pc' = pc + 1
    BY DEF SaveMigrationData, Proceed, Goto, operator, onChain
  <1>2. Current'
    BY <1>1, CurrentStay DEF CInv
  <1>3. QED BY <1>1, <1>2, CInvPass

(* A record is saved before the connections that are about it are made.       *)
LEMMA SavedIsUnmade ==
    ASSUME TypeOK, InStep("save"), UNCHANGED <<todo, at>>, Prefix' = pc,
           NEW need \in Needs, Saves(Step, {need[1], need[3]})
    PROVE  ~Made(need)'
  <1> SUFFICES ASSUME Made(need)' PROVE FALSE
    OBVIOUS
  <1>1. /\ at > 0 /\ at \in DOMAIN Command /\ Script \in Scripts /\ pc \in DOMAIN Plan[Script]
        /\ Step = Plan[Script][pc] /\ Step.op = "save"
    BY StepInPlan, ScriptInPlan
  <1>2. PICK i \in DOMAIN Command : \E n \in DOMAIN Plan[Command[i]] : Makes(Command, i, n, need) /\ Done(i, n)'
    BY DEF Made, Command
  <1>3. PICK n \in DOMAIN Plan[Command[i]] : Makes(Command, i, n, need) /\ Done(i, n)'
    BY <1>2
  <1>4. Command \in Seq(Scripts) /\ Len(Command) \in Nat /\ DOMAIN Command = 1 .. Len(Command)
    BY <1>1, CommandScripts DEF TypeOK, InPlace
  <1>5. i <= at /\ (i = at => n <= pc)
    BY <1>1, <1>3, <1>4 DEF Done
  <1>6. at \in i .. Len(Command)
    BY <1>1, <1>4, <1>5
  <1>7. at = i => pc > n
    <2>1. ASSUME at = i, n = pc PROVE FALSE
      BY <1>1, <1>3, <2>1 DEF Makes, Writes, Script
    <2>2. ASSUME at = i PROVE n \in Nat /\ pc \in Nat
      BY <1>1, <2>2, PlanLength DEF Script
    <2>3. QED BY <1>5, <2>1, <2>2
  <1>8. ~Saves(Plan[Command[at]][pc], {need[1], need[3]})
    BY <1>1, <1>3, <1>6, <1>7 DEF Makes, Script
  <1>9. QED BY <1>1, <1>8 DEF Script

LEMMA CInvSave == ASSUME CInv, TypeOK', SaveDeploymentData PROVE CInv'
  <1>1. /\ TypeOK /\ InStep("save") /\ UNCHANGED <<todo, at, wire, mem, skipTo>> /\ pc' = pc + 1
        /\ recorded' = [c \in Contracts |-> IF c \in Step.contracts THEN mem[c] ELSE recorded[c]]
    BY DEF CInv, SaveDeploymentData, Proceed, Goto, operator, onChain
  <1>2. /\ at > 0 /\ at \in DOMAIN Command /\ Script \in Scripts /\ pc \in DOMAIN Plan[Script]
        /\ Step = Plan[Script][pc] /\ Step.op = "save" /\ pc \in Nat /\ skipTo \in Nat
    BY <1>1, StepInPlan, ScriptInPlan DEF TypeOK, ProcessTypes
  <1>3. skipTo = 0
    BY <1>1, <1>2, NeedsAreMet DEF TypeOK, InPlace, IsTarget
  <1>4. Prefix' = pc
    BY <1>1, <1>2, <1>3, PrefixNext
  <1>5. Current'
    BY CurrentSave DEF CInv
  <1>6. \A need \in Needs : need[1] \in Contracts /\ need[3] \in Contracts
    BY NeedsAreMet
  <1>7. ASSUME NEW need \in Needs, ~Saves(Step, {need[1], need[3]})
        PROVE  recorded'[need[1]] = recorded[need[1]] /\ recorded'[need[3]] = recorded[need[3]]
    BY <1>1, <1>2, <1>6, <1>7 DEF Saves
  <1>8. MadeHold'
    <2>1. ASSUME NEW need \in Needs, Made(need)' PROVE WiredTo(need)'
      <3>1. ~Saves(Step, {need[1], need[3]})
        BY <1>1, <1>4, <2>1, SavedIsUnmade
      <3>2. Made(need)
        BY <1>1, <1>4, <2>1, MadeNext
      <3>3. WiredTo(need)
        BY <1>2, <3>2 DEF CInv, MadeHold
      <3>4. QED BY <1>1, <1>7, <3>1, <3>3 DEF WiredTo
    <2>2. QED BY <2>1 DEF MadeHold
  <1>9. KeptWhole'
    <2>1. ASSUME Keeps(Command) PROVE Whole'
      <3>1. ~Saves(Step, Protocol)
        BY <1>2, <2>1 DEF Keeps, Script
      <3>2. Step.contracts \cap Protocol = {} /\ Protocol \subseteq Contracts
        BY <1>2, <1>6, <3>1 DEF Saves, Protocol
      <3>3. \A c \in Protocol : recorded'[c] = recorded[c]
        BY <1>1, <3>2
      <3>4. \A need \in Needs : need[1] \in Protocol /\ need[3] \in Protocol
        BY DEF Protocol
      <3>5. \A need \in Needs : WiredTo(need)' <=> WiredTo(need)
        BY <1>1, <3>3, <3>4 DEF WiredTo
      <3>6. Whole
        BY <1>2, <2>1 DEF CInv, KeptWhole
      <3>7. QED BY <3>3, <3>5, <3>6 DEF Whole
    <2>2. QED BY <1>1, <2>1 DEF KeptWhole, Command
  <1>10. Shaped' /\ ProtocolIsWired'
    BY <1>1, <1>2 DEF CInv, Shaped, ProtocolIsWired
  <1>11. QED BY <1>5, <1>8, <1>9, <1>10 DEF CInv
LEMMA CInvStart == ASSUME CInv, TypeOK', StartCommand PROVE CInv'
  <1>1. at = 0 /\ todo # <<>> /\ Enter(1, 0) /\ UNCHANGED <<todo, recorded, wire>>
    BY DEF StartCommand, disk, onChain
  <1>2. at' = 1 /\ Prefix' = 0 /\ Current'
    BY <1>1, CurrentEnter DEF Enter, Prefix
  <1>3. Command \in Seq(Scripts) /\ Len(Command) \in Nat
    BY <1>1, CommandScripts DEF CInv
  <1>4. MadeHold'
    <2>1. ASSUME NEW i \in DOMAIN Command, NEW n \in DOMAIN Plan[Command[i]], Done(i, n)' PROVE FALSE
      <3>1. i \in Nat \ {0} /\ Command[i] \in Scripts
        BY <1>3
      <3>2. n \in Nat \ {0}
        BY <3>1, PlanLength
      <3>3. QED BY <1>2, <2>1, <3>1, <3>2 DEF Done
    <2>2. \A need \in Needs : ~Made(need)'
      BY <1>1, <2>1 DEF Made, Command
    <2>3. QED BY <2>2 DEF MadeHold
  <1>5. Whole'
    BY <1>1, UntouchedStaysConnected DEF CInv, ProtocolIsWired
  <1>6. KeptWhole' /\ ProtocolIsWired' /\ Shaped'
    BY <1>1, <1>5 DEF KeptWhole, ProtocolIsWired, CInv, Shaped
  <1>7. QED BY <1>2, <1>4, <1>6 DEF CInv

(* At the end of a script all of it is done.                                  *)
LEMMA CInvNextScript == ASSUME CInv, TypeOK', NextScript PROVE CInv'
  <1>1. /\ TypeOK /\ at > 0 /\ at \in Nat /\ Len(Plan[Script]) \in Nat /\ Prefix = Len(Plan[Script])
    BY AtTheEnd DEF CInv, NextScript
  <1>2. Enter(at + 1, 0) /\ UNCHANGED <<todo, recorded, wire>>
    BY DEF NextScript, disk, onChain
  <1>3. at' = at + 1 /\ Prefix' = 0 /\ Current'
    BY <1>1, <1>2, CurrentEnter DEF Enter, Prefix
  <1>4. Command \in Seq(Scripts) /\ Len(Command) \in Nat
    BY <1>1, CommandScripts DEF TypeOK, InPlace
  <1>5. ASSUME NEW i \in DOMAIN Command, NEW n \in DOMAIN Plan[Command[i]], Done(i, n)' PROVE Done(i, n)
    <2>1. i \in Nat \ {0} /\ Command[i] \in Scripts
      BY <1>4
    <2>2. n \in Nat \ {0} /\ n <= Len(Plan[Command[i]])
      BY <2>1, PlanLength
    <2>3. i < at + 1
      BY <1>3, <1>5, <2>2 DEF Done
    <2>4. CASE i = at
      BY <1>1, <2>2, <2>4 DEF Done, Script
    <2>5. CASE i # at
      BY <1>1, <2>1, <2>3, <2>5 DEF Done
    <2>6. QED BY <2>4, <2>5
  <1>6. QED BY <1>1, <1>2, <1>3, <1>5, UntouchedStaysConnected, CInvBack

LEMMA CInvEnd == ASSUME CInv, TypeOK', EndCommand PROVE CInv'
  <1>1. /\ TypeOK /\ at > 0 /\ at \in Nat /\ Len(Plan[Script]) \in Nat /\ Prefix = Len(Plan[Script])
    BY AtTheEnd DEF CInv, EndCommand
  <1>2. at' = 0 /\ todo' = Tail(todo) /\ ~running' /\ UNCHANGED <<recorded, wire>> /\ at = Len(Command)
    BY DEF EndCommand, disk, onChain
  <1>3. todo # <<>> /\ todo \in Seq(Seq(Scripts) \ {<<>>}) /\ Command \in Seq(Scripts)
    BY <1>1, CommandScripts DEF TypeOK, InPlace, OperatorTypes
  <1>4. Whole
    <2>1. 1 \in DOMAIN todo /\ Command = todo[1]
      BY <1>3, HeadTailProperties, EmptySeq DEF Command
    <2>2. CASE Keeps(Command)
      BY <1>1, <2>2 DEF CInv, KeptWhole
    <2>3. CASE Connects(Command)
      <3>1. ASSUME NEW need \in Needs PROVE Made(need)
        <4>1. PICK i \in DOMAIN Command : \E n \in DOMAIN Plan[Command[i]] : Makes(Command, i, n, need)
          BY <2>3 DEF Connects
        <4>2. PICK n \in DOMAIN Plan[Command[i]] : Makes(Command, i, n, need)
          BY <4>1
        <4>3. i \in 1 .. at /\ Command[i] \in Scripts
          BY <1>2, <1>3
        <4>4. n <= Len(Plan[Command[i]])
          BY <4>3, PlanLength
        <4>5. Done(i, n)
          BY <1>1, <4>3, <4>4 DEF Done, Script
        <4>6. QED BY <4>2, <4>5 DEF Made
      <3>2. QED BY <1>1, <3>1 DEF CInv, MadeHold, Whole
    <2>4. QED BY <2>1, <2>2, <2>3 DEF CInv, Shaped
  <1>5. ProtocolIsWired'
    BY <1>2, <1>4, UntouchedStaysConnected DEF ProtocolIsWired
  <1>6. Shaped'
    <2>1. ASSUME NEW i \in DOMAIN todo' PROVE i + 1 \in DOMAIN todo /\ todo'[i] = todo[i + 1]
      BY <1>2, <1>3, HeadTailProperties
    <2>2. QED BY <2>1 DEF CInv, Shaped
  <1>7. Current' /\ KeptWhole' /\ MadeHold'
    BY <1>2, CurrentOff DEF KeptWhole, MadeHold
  <1>8. QED BY <1>5, <1>6, <1>7 DEF CInv

LEMMA CInvLose == ASSUME CInv, TypeOK', LoseReceipt PROVE CInv'
  <1>1. TypeOK /\ Current /\ InStep("tx") /\ Land /\ UNCHANGED <<todo, at, recorded>> /\ running
    BY DEF CInv, LoseReceipt, InStep, operator, disk
  <1>2. \A need \in Needs : WiredTo(need) => WiredTo(need)'
    BY <1>1, LandStaysConnected
  <1>3. CASE Step.retried
    <2>1. UNCHANGED <<pc, mem>> /\ skipTo' = 0 /\ (skipTo = 0 \/ skipTo = pc)
      BY <1>1, <1>3, DueEndsSkipping DEF LoseReceipt, IsSent, Goto
    <2>2. Current'
      BY <1>1, <2>1, CurrentStay
    <2>3. Prefix' = Prefix /\ at > 0 /\ at' > 0
      BY <1>1, <2>1, StepInPlan DEF Prefix
    <2>4. \A i \in DOMAIN Command : \A n \in DOMAIN Plan[Command[i]] : Done(i, n)' => Done(i, n)
      BY <1>1, <2>3 DEF Done
    <2>5. QED BY <1>1, <1>2, <2>2, <2>3, <2>4, CInvBack
  <1>4. CASE ~Step.retried
    <2>1. Abort
      BY <1>4 DEF LoseReceipt
    <2>2. QED BY <1>1, <1>2, <2>1, CInvAbort
  <1>5. QED BY <1>3, <1>4

(* Starting over goes back.                                                   *)
LEMMA CInvRestart == ASSUME CInv, TypeOK', Rerun \/ Resume PROVE CInv'
  <1>1. at > 0 /\ at \in Nat /\ UNCHANGED <<todo, recorded, wire>>
    BY DEF Rerun, Resume, CInv, TypeOK, OperatorTypes, disk, onChain
  <1>2. Current' /\ at' \in Nat
    BY CurrentEnter DEF Rerun, Resume, TypeOK, OperatorTypes
  <1>3. (at' \in 1 .. at - 1) \/ (at' = at /\ Prefix' \in 0 .. Prefix)
    BY GoesBack DEF CInv
  <1>4. Prefix \in Nat
    BY <1>1 DEF CInv, TypeOK, ProcessTypes, Prefix
  <1>5. Command \in Seq(Scripts)
    BY <1>1, CommandScripts DEF CInv, TypeOK, InPlace
  <1>6. ASSUME NEW i \in DOMAIN Command, NEW n \in DOMAIN Plan[Command[i]], Done(i, n)' PROVE Done(i, n)
    <2>1. i \in Nat /\ Command[i] \in Scripts
      BY <1>5
    <2>2. n \in Nat
      BY <2>1, PlanLength
    <2>3. QED BY <1>1, <1>3, <1>4, <1>6, <2>1, <2>2 DEF Done
  <1>7. at' > 0
    BY <1>1, <1>3
  <1>8. QED BY <1>1, <1>2, <1>6, <1>7, UntouchedStaysConnected, CInvBack

LEMMA CInvNext == ASSUME CInv, [Next]_vars PROVE CInv'
  <1>1. TypeOK /\ TypeOK'
    BY TypeNext DEF CInv
  <1>2. CASE UNCHANGED vars
    <2>1. UNCHANGED <<todo, at, running, pc, skipTo, mem, recorded, wire>>
      BY <1>2 DEF vars, operator, process, disk, onChain
    <2>2. UNCHANGED <<Script, Command, Prefix>>
      BY <2>1 DEF Script, Command, Prefix
    <2>3. Current' /\ Shaped' /\ MadeHold'
      BY <2>1, <2>2 DEF CInv, Current, Shaped, MadeHold, Made, Done, WiredTo
    <2>4. ProtocolIsWired' /\ KeptWhole'
      BY <2>1, <2>2, UntouchedStaysConnected DEF CInv, ProtocolIsWired, KeptWhole
    <2>5. QED BY <1>1, <2>3, <2>4 DEF CInv
  <1>3. CASE Throw \/ Crash
    <2>1. running /\ Abort /\ UNCHANGED <<todo, at, recorded, wire>>
      BY <1>3 DEF Throw, Refused, Crash, InStep, operator, disk, onChain
    <2>2. QED BY <1>1, <2>1, UntouchedStaysConnected, CInvAbort
  <1>4. CASE UserChange
    <2>1. UNCHANGED <<todo, at, running, pc, skipTo, mem, recorded>>
      BY <1>4 DEF UserChange, operator, process, disk
    <2>2. UNCHANGED <<Script, Command, Prefix>>
      BY <2>1 DEF Script, Command, Prefix
    <2>3. \A need \in Needs : WiredTo(need) => WiredTo(need)'
      BY <1>4, UsersStayConnected
    <2>4. Current' /\ Shaped' /\ MadeHold'
      BY <2>1, <2>2, <2>3 DEF CInv, Current, Shaped, MadeHold, Made, Done
    <2>5. ProtocolIsWired' /\ KeptWhole'
      BY <2>1, <2>2, <2>3 DEF CInv, ProtocolIsWired, KeptWhole, Whole
    <2>6. QED BY <1>1, <2>4, <2>5 DEF CInv
  <1>5. QED
    BY <1>1, <1>2, <1>3, <1>4, CInvStart, CInvNextScript, CInvEnd, CInvLoad, CInvDeploy, CInvSave,
       CInvExecute, CInvSkip, CInvLose, CInvTrack, CInvRestart
    DEF Next, Advance, RunStep

(* Whatever the scripts and the agenda are, if every script writes what the   *)
(* protocol needs and every command that records it anew makes all of its     *)
(* connections: between two commands the recorded contracts call each other   *)
(* and no instance that a failed run left behind.  (configProtocol.js)        *)
THEOREM ProtocolStaysWired == Spec => []ProtocolIsWired
  <1>1. CInv => ProtocolIsWired
    BY DEF CInv
  <1>2. QED BY <1>1, CInvInit, CInvNext, PTL DEF Spec

-------------------------------------------------------------------------------
(* Rewards.  A script that makes the escrow call a universe has set up both   *)
(* the universe and its program, which it has deployed itself: nothing else   *)
(* that runs, before or later, holds these instances.                         *)

Linked ==
    running /\ Script \notin Resumable =>
        \A holder \in Contracts, slot \in Slots, value \in Contracts \cup Words :
            Connected(Script, pc, holder, slot, value) => <<slot, mem[holder], ValueOf(value)>> \in wire
Uncalled ==
    running => \A universe \in DOMAIN Programs : \A e \in Instances :
        universe \in Renewed(Script, pc) /\ Calls(e, universe, mem[universe]) =>
            \E k \in DOMAIN Plan[Script] : k <= pc /\ GoesLive(Plan[Script][k], universe)
LInv == WInv /\ Linked /\ Uncalled /\ LiveProgramsAreComplete

LEMMA KeptNext ==
    ASSUME NEW s, NEW n \in Nat, NEW i \in 1 .. n - 1, NEW ops, NEW c, Kept(s, i, n + 1, ops, c)
    PROVE  Kept(s, i, n, ops, c) /\ (Plan[s][n].op \in ops => c \notin Plan[s][n].contracts)
  <1>1. n \in i + 1 .. (n + 1) - 1 /\ \A k \in i + 1 .. n - 1 : k \in i + 1 .. (n + 1) - 1
    OBVIOUS
  <1>2. QED BY <1>1 DEF Kept

LEMMA RenewedNext ==
    ASSUME NEW s \in Scripts, NEW n \in DOMAIN Plan[s], NEW c \in Renewed(s, n + 1)
    PROVE  \/ Deploys(Plan[s][n], c)
           \/ c \in Renewed(s, n) /\ (Plan[s][n].op \in {"load", "deploy"} => c \notin Plan[s][n].contracts)
  <1>1. n \in Nat \ {0}
    BY PlanLength
  <1>2. PICK i \in 1 .. (n + 1) - 1 : Deploys(Plan[s][i], c) /\ Kept(s, i, n + 1, {"load", "deploy"}, c)
    BY DEF Renewed
  <1>3. CASE i # n
    <2>1. i \in 1 .. n - 1
      BY <1>1, <1>3
    <2>2. QED BY <1>1, <1>2, <2>1, KeptNext DEF Renewed
  <1>4. QED BY <1>2, <1>3

LEMMA UnsavedNext ==
    ASSUME NEW s \in Scripts, NEW n \in DOMAIN Plan[s], NEW c \in Unsaved(s, n + 1)
    PROVE  \/ Deploys(Plan[s][n], c)
           \/ c \in Unsaved(s, n) /\ (Plan[s][n].op \in {"load", "save"} => c \notin Plan[s][n].contracts)
  <1>1. n \in Nat \ {0}
    BY PlanLength
  <1>2. PICK i \in 1 .. (n + 1) - 1 : Deploys(Plan[s][i], c) /\ Kept(s, i, n + 1, {"load", "save"}, c)
    BY DEF Unsaved
  <1>3. CASE i # n
    <2>1. i \in 1 .. n - 1
      BY <1>1, <1>3
    <2>2. QED BY <1>1, <1>2, <2>1, KeptNext DEF Unsaved
  <1>4. QED BY <1>2, <1>3

Links(step, holder, slot, value) ==
    step.op = "tx" /\ step.holder = holder /\ <<slot, value>> \in step.puts /\ step.record = NoRecord

LEMMA ConnectedNext ==
    ASSUME NEW s \in Scripts, NEW n \in DOMAIN Plan[s], NEW holder, NEW slot, NEW value,
           Connected(s, n + 1, holder, slot, value)
    PROVE  \/ Links(Plan[s][n], holder, slot, value)
           \/ /\ Connected(s, n, holder, slot, value)
              /\ Plan[s][n].op \in {"load", "deploy"} => {holder, value} \cap Plan[s][n].contracts = {}
  <1>1. n \in Nat \ {0}
    BY PlanLength
  <1>2. PICK i \in 1 .. (n + 1) - 1 :
            /\ Plan[s][i].op = "tx" /\ Plan[s][i].holder = holder /\ <<slot, value>> \in Plan[s][i].puts
            /\ Plan[s][i].record = NoRecord
            /\ \A k \in DOMAIN Plan[s] \ {i} : ~Writes(Plan[s][k], slot)
            /\ Kept(s, i, n + 1, {"load", "deploy"}, holder) /\ Kept(s, i, n + 1, {"load", "deploy"}, value)
    BY DEF Connected
  <1>3. CASE i = n
    BY <1>2, <1>3 DEF Links
  <1>4. CASE i # n
    <2>1. i \in 1 .. n - 1
      BY <1>1, <1>4
    <2>2. /\ Kept(s, i, n, {"load", "deploy"}, holder) /\ Kept(s, i, n, {"load", "deploy"}, value)
          /\ Plan[s][n].op \in {"load", "deploy"} => holder \notin Plan[s][n].contracts /\ value \notin Plan[s][n].contracts
      BY <1>1, <1>2, <2>1, KeptNext
    <2>3. Connected(s, n, holder, slot, value)
      BY <1>2, <2>1, <2>2 DEF Connected
    <2>4. QED BY <2>2, <2>3
  <1>5. QED BY <1>3, <1>4

LEMMA ConnectedElsewhere ==
    ASSUME NEW s \in Scripts, NEW n \in DOMAIN Plan[s], NEW holder, NEW slot, NEW value,
           Connected(s, n, holder, slot, value)
    PROVE  ~Writes(Plan[s][n], slot)
  <1>1. n \in Nat
    BY PlanLength
  <1>2. PICK i \in 1 .. n - 1 : \A k \in DOMAIN Plan[s] \ {i} : ~Writes(Plan[s][k], slot)
    BY DEF Connected
  <1>3. n # i
    BY <1>1
  <1>4. QED BY <1>2, <1>3

LEMMA NothingYet ==
    ASSUME NEW s
    PROVE  /\ Renewed(s, 1) = {} /\ Unsaved(s, 1) = {}
           /\ \A holder, slot, value : ~Connected(s, 1, holder, slot, value)
  BY DEF Renewed, Unsaved, Connected

LEMMA RenewedContracts == ASSUME NEW s, NEW n PROVE Renewed(s, n) \subseteq Contracts /\ Unsaved(s, n) \subseteq Contracts
  BY DEF Renewed, Unsaved

(* The users' slots are not among those that are connected.                   *)
LEMMA ConnectedIsNoUserSlot ==
    ASSUME NEW s \in Scripts, NEW n \in Nat, n <= Len(Plan[s]) + 1, NEW holder, NEW slot, NEW value,
           Connected(s, n, holder, slot, value), NEW r \in Records
    PROVE  slot # UserSlot[r]
  <1>1. PICK i \in 1 .. n - 1 : /\ Plan[s][i].op = "tx" /\ <<slot, value>> \in Plan[s][i].puts
                                /\ Plan[s][i].record = NoRecord
    BY DEF Connected
  <1>2. i \in DOMAIN Plan[s]
    BY PlanLength
  <1>3. QED BY <1>1, <1>2, TracksWhatItSent, PlanAssumption

LEMMA LinkedOff == ASSUME ~running' \/ (\E s, t : Enter(s, t)) PROVE Linked' /\ Uncalled'
  BY NothingYet DEF Linked, Uncalled, Enter

(* A step that loads and deploys nothing: what is connected stays connected,  *)
(* and a transaction that has landed connects what it puts.                   *)
LEMMA LinkedStay ==
    ASSUME TypeOK, Linked, NEW op, InStep(op), op \notin {"load", "deploy"},
           UNCHANGED <<todo, at, mem>>, pc' \in {pc, pc + 1},
           \A holder \in Contracts, slot \in Slots, value \in Contracts \cup Words :
               /\ Connected(Script, pc, holder, slot, value) /\ <<slot, mem[holder], ValueOf(value)>> \in wire
                    => <<slot, mem[holder], ValueOf(value)>> \in wire'
               /\ pc' = pc + 1 /\ Script \notin Resumable /\ Links(Step, holder, slot, value)
                    => <<slot, mem[holder], ValueOf(value)>> \in wire'
    PROVE  Linked'
  <1>1. Script \in Scripts /\ pc \in DOMAIN Plan[Script] /\ Step = Plan[Script][pc] /\ Step.op = op /\ running
    BY StepInPlan DEF InStep
  <1>2. Script' = Script /\ \A v : ValueOf(v)' = ValueOf(v)
    BY DEF Script, Command, ValueOf
  <1>3. ASSUME NEW holder \in Contracts, NEW slot \in Slots, NEW value \in Contracts \cup Words,
               Script \notin Resumable, Connected(Script, pc', holder, slot, value)
        PROVE  <<slot, mem[holder], ValueOf(value)>> \in wire'
    <2>1. CASE Connected(Script, pc, holder, slot, value)
      BY <1>1, <1>3, <2>1 DEF Linked
    <2>2. CASE ~Connected(Script, pc, holder, slot, value)
      <3>1. pc' = pc + 1 /\ Links(Step, holder, slot, value)
        BY <1>1, <1>3, <2>2, ConnectedNext
      <3>2. QED BY <1>3, <3>1
    <2>3. QED BY <2>1, <2>2
  <1>4. QED BY <1>2, <1>3 DEF Linked

LEMMA LinkedLand ==
    ASSUME TypeOK, Linked, InStep("tx"), Land, UNCHANGED <<todo, at, mem>>, pc' \in {pc, pc + 1}
    PROVE  Linked'
  <1>1. Script \in Scripts /\ pc \in DOMAIN Plan[Script] /\ Step = Plan[Script][pc] /\ Step.op = "tx"
    BY StepInPlan
  <1>2. ASSUME NEW holder, NEW slot, NEW value, Connected(Script, pc, holder, slot, value),
               <<slot, mem[holder], ValueOf(value)>> \in wire
        PROVE  <<slot, mem[holder], ValueOf(value)>> \in wire'
    <2>1. ~Writes(Step, slot)
      BY <1>1, <1>2, ConnectedElsewhere
    <2>2. <<slot, mem[holder], ValueOf(value)>> \notin Replaced
      BY <1>1, <2>1 DEF Replaced, Writes
    <2>3. QED BY <1>2, <2>2 DEF Land
  <1>3. ASSUME NEW holder, NEW slot, NEW value, Links(Step, holder, slot, value)
        PROVE  <<slot, mem[holder], ValueOf(value)>> \in wire'
    <2>1. Step.holder = holder /\ <<slot, value>> \in Step.puts
      BY <1>3 DEF Links
    <2>2. <<slot, mem[holder], ValueOf(value)>> \in Puts
      BY <2>1 DEF Puts, Target
    <2>3. QED BY <2>2 DEF Land
  <1>4. QED BY <1>2, <1>3, LinkedStay

LEMMA NothingIsSkipped ==
    ASSUME TypeOK, InStep("tx"), Script \notin Resumable
    PROVE  ~IsSkipped
  <1>1. at > 0 /\ pc \in Nat /\ skipTo \in Nat
    BY StepInPlan DEF TypeOK, ProcessTypes
  <1>2. skipTo = 0
    BY <1>1 DEF TypeOK, InPlace, IsTarget, OperatorTypes
  <1>3. QED BY <1>1, <1>2 DEF IsSkipped, TypeOK, ProcessTypes

LEMMA LinkedSkip == ASSUME TypeOK, Linked, SkipTx PROVE Linked'
  <1>1. InStep("tx") /\ UNCHANGED <<todo, at, mem, wire>> /\ pc' = pc + 1
    BY DEF SkipTx, Proceed, Goto, operator, onChain
  <1>2. ASSUME NEW holder, NEW slot, NEW value, Script \notin Resumable, Links(Step, holder, slot, value) PROVE FALSE
    <2>1. IsMigrated
      BY <1>1, <1>2, NothingIsSkipped DEF SkipTx, IsSent
    <2>2. QED BY <1>2, <2>1 DEF IsMigrated, Links
  <1>3. QED BY <1>1, <1>2, LinkedStay

LEMMA LinkedQuiet ==
    ASSUME TypeOK, Linked, NEW op, InStep(op), op \notin {"load", "deploy", "tx"},
           UNCHANGED <<todo, at, mem, wire>>, pc' = pc + 1
    PROVE  Linked'
  <1>1. Step.op = op
    BY StepInPlan
  <1>2. QED BY <1>1, LinkedStay DEF Links

LEMMA LinkedLoad == ASSUME TypeOK, Linked, GetDeployData PROVE Linked'
  <1>1. InStep("load") /\ UNCHANGED <<todo, at, wire>>
    BY DEF GetDeployData, operator, onChain
  <1>2. Script \in Scripts /\ pc \in DOMAIN Plan[Script] /\ Step = Plan[Script][pc] /\ Step.op = "load" /\ running
    BY <1>1, StepInPlan DEF InStep
  <1>3. Script' = Script
    BY <1>1 DEF Script, Command
  <1>4. CASE \A c \in Step.contracts : recorded[c] > 0
    <2>1. pc' = pc + 1 /\ mem' = [c \in Contracts |-> IF c \in Step.contracts THEN recorded[c] ELSE mem[c]]
      BY <1>4 DEF GetDeployData
    <2>2. ASSUME NEW holder \in Contracts, NEW slot \in Slots, NEW value \in Contracts \cup Words,
                 Script \notin Resumable, Connected(Script, pc + 1, holder, slot, value)
          PROVE  <<slot, mem'[holder], ValueOf(value)'>> \in wire
      <3>1. Connected(Script, pc, holder, slot, value) /\ {holder, value} \cap Step.contracts = {}
        BY <1>2, <2>2, ConnectedNext DEF Links
      <3>2. mem'[holder] = mem[holder] /\ ValueOf(value)' = ValueOf(value)
        BY <2>1, <3>1 DEF ValueOf
      <3>3. QED BY <1>2, <2>2, <3>1, <3>2 DEF Linked
    <2>3. QED BY <1>1, <1>3, <2>1, <2>2 DEF Linked
  <1>5. CASE ~\A c \in Step.contracts : recorded[c] > 0
    BY <1>5, LinkedOff DEF GetDeployData, Abort
  <1>6. QED BY <1>4, <1>5

LEMMA LinkedDeploy == ASSUME TypeOK, Linked, Deploy PROVE Linked'
  <1>1. InStep("deploy") /\ UNCHANGED <<todo, at, wire>> /\ pc' = pc + 1
    BY DEF Deploy, operator
  <1>2. Script \in Scripts /\ pc \in DOMAIN Plan[Script] /\ Step = Plan[Script][pc] /\ Step.op = "deploy" /\ running
    BY <1>1, StepInPlan DEF InStep
  <1>3. Script' = Script
    BY <1>1 DEF Script, Command
  <1>4. ASSUME NEW holder \in Contracts, NEW slot \in Slots, NEW value \in Contracts \cup Words,
               Script \notin Resumable, Connected(Script, pc + 1, holder, slot, value)
        PROVE  <<slot, mem'[holder], ValueOf(value)'>> \in wire
    <2>1. Connected(Script, pc, holder, slot, value) /\ {holder, value} \cap Step.contracts = {}
      BY <1>2, <1>4, ConnectedNext DEF Links
    <2>2. mem'[holder] = mem[holder] /\ ValueOf(value)' = ValueOf(value)
      BY <2>1 DEF ValueOf, Deploy
    <2>3. QED BY <1>2, <1>4, <2>1, <2>2 DEF Linked
  <1>5. QED BY <1>1, <1>3, <1>4 DEF Linked

LEMMA LinkedUser == ASSUME TypeOK, Linked, UserChange PROVE Linked'
  <1>1. UNCHANGED <<todo, at, mem, pc, running>>
    BY DEF UserChange, operator, process
  <1>2. PICK r \in Records, w \in wire : w[1] = UserSlot[r] /\ wire' = (wire \ {w}) \cup {<<w[1], w[2], UserMade>>}
    BY DEF UserChange
  <1>3. Script' = Script /\ \A v : ValueOf(v)' = ValueOf(v)
    BY <1>1 DEF Script, Command, ValueOf
  <1>4. ASSUME NEW holder \in Contracts, NEW slot \in Slots, NEW value \in Contracts \cup Words,
               running, Script \notin Resumable, Connected(Script, pc, holder, slot, value)
        PROVE  <<slot, mem[holder], ValueOf(value)>> \in wire'
    <2>1. at > 0 /\ Script \in Scripts /\ pc \in Nat /\ pc <= Len(Plan[Script]) + 1
      <3>1. at # 0 /\ at \in Nat
        BY <1>4 DEF TypeOK, InPlace, OperatorTypes
      <3>2. QED BY <3>1, ScriptInPlan DEF TypeOK, InPlace, ProcessTypes
    <2>2. slot # UserSlot[r]
      BY <1>4, <2>1, ConnectedIsNoUserSlot
    <2>3. <<slot, mem[holder], ValueOf(value)>> \in wire
      BY <1>4 DEF Linked
    <2>4. QED BY <1>2, <2>2, <2>3
  <1>5. QED BY <1>1, <1>3, <1>4 DEF Linked

LEMMA UncalledStay ==
    ASSUME TypeOK, Uncalled, NEW op, InStep(op), op \notin {"load", "deploy"},
           UNCHANGED <<todo, at, mem>>, pc' \in {pc, pc + 1},
           \A universe \in DOMAIN Programs, e \in Instances :
               Calls(e, universe, mem[universe])' => Calls(e, universe, mem[universe]) \/ GoesLive(Step, universe)
    PROVE  Uncalled'
  <1>1. Script \in Scripts /\ pc \in DOMAIN Plan[Script] /\ Step = Plan[Script][pc] /\ Step.op = op /\ running
    BY StepInPlan DEF InStep
  <1>2. Script' = Script /\ pc \in Nat /\ DOMAIN Plan[Script] \subseteq Nat
    BY <1>1, PlanLength DEF Script, Command
  <1>3. ASSUME NEW universe \in DOMAIN Programs, NEW e \in Instances,
               universe \in Renewed(Script, pc'), Calls(e, universe, mem[universe])'
        PROVE  \E k \in DOMAIN Plan[Script] : k <= pc' /\ GoesLive(Plan[Script][k], universe)
    <2>1. universe \in Renewed(Script, pc)
      BY <1>1, <1>3, RenewedNext DEF Deploys
    <2>2. \E k \in DOMAIN Plan[Script] : k <= pc /\ GoesLive(Plan[Script][k], universe)
      BY <1>1, <1>2, <1>3, <2>1 DEF Uncalled
    <2>3. QED BY <1>2, <2>2
  <1>4. QED BY <1>2, <1>3 DEF Uncalled

(* The escrow is made to call what the step that does it names.               *)
LEMMA LandCalls ==
    ASSUME TypeOK, InStep("tx"), Land, NEW universe \in DOMAIN Programs, NEW e, NEW n,
           Calls(e, universe, n)', ~Calls(e, universe, n)
    PROVE  GoesLive(Step, universe) /\ e = mem[Step.holder] /\ n = mem[universe]
  <1>1. <<UniverseSlot, e, <<universe, n>>>> \in Puts
    BY DEF Calls, Land
  <1>2. PICK p \in Step.puts : <<UniverseSlot, e, <<universe, n>>>> = <<p[1], Target, ValueOf(p[2])>>
    BY <1>1 DEF Puts
  <1>3. p[1] = UniverseSlot /\ e = Target /\ p[2] = universe /\ universe \in Contracts
    BY <1>2, ProgramsAreSetUp DEF ValueOf
  <1>4. n = mem[universe]
    BY <1>2, <1>3 DEF ValueOf
  <1>5. Step \in Steps /\ Step.op = "tx"
    BY StepInPlan
  <1>6. p \in Slots \X (Contracts \cup Words)
    BY <1>5, StepFields
  <1>7. <<UniverseSlot, universe>> \in Step.puts
    BY <1>3, <1>6
  <1>8. QED BY <1>3, <1>4, <1>5, <1>7 DEF GoesLive, Target

LEMMA UncalledLand ==
    ASSUME TypeOK, Uncalled, InStep("tx"), Land, UNCHANGED <<todo, at, mem>>, pc' \in {pc, pc + 1}
    PROVE  Uncalled'
  <1>1. ASSUME NEW universe \in DOMAIN Programs, NEW e \in Instances, Calls(e, universe, mem[universe])'
        PROVE  Calls(e, universe, mem[universe]) \/ GoesLive(Step, universe)
    <2>1. <<UniverseSlot, e, <<universe, mem[universe]>>>> \in wire'
      BY <1>1 DEF Calls
    <2>2. Calls(e, universe, mem[universe])' <=> <<UniverseSlot, e, <<universe, mem[universe]>>>> \in wire'
      BY DEF Calls
    <2>3. QED BY <2>1, LandCalls DEF Calls
  <1>2. QED BY <1>1, UncalledStay

LEMMA UncalledQuiet ==
    ASSUME TypeOK, Uncalled, NEW op, InStep(op), op \notin {"load", "deploy"},
           UNCHANGED <<todo, at, mem, wire>>, pc' \in {pc, pc + 1}
    PROVE  Uncalled'
  BY UncalledStay DEF Calls

LEMMA UncalledLoad == ASSUME TypeOK, Uncalled, GetDeployData PROVE Uncalled'
  <1>1. InStep("load") /\ UNCHANGED <<todo, at, wire>>
    BY DEF GetDeployData, operator, onChain
  <1>2. Script \in Scripts /\ pc \in DOMAIN Plan[Script] /\ Step = Plan[Script][pc] /\ Step.op = "load" /\ running
    BY <1>1, StepInPlan DEF InStep
  <1>3. Script' = Script /\ pc \in Nat /\ DOMAIN Plan[Script] \subseteq Nat
    BY <1>1, <1>2, PlanLength DEF Script, Command
  <1>4. CASE \A c \in Step.contracts : recorded[c] > 0
    <2>1. pc' = pc + 1 /\ mem' = [c \in Contracts |-> IF c \in Step.contracts THEN recorded[c] ELSE mem[c]]
      BY <1>4 DEF GetDeployData
    <2>2. ASSUME NEW universe \in DOMAIN Programs, NEW e \in Instances,
                 universe \in Renewed(Script, pc + 1), Calls(e, universe, mem'[universe])
          PROVE  \E k \in DOMAIN Plan[Script] : k <= pc + 1 /\ GoesLive(Plan[Script][k], universe)
      <3>1. universe \in Renewed(Script, pc) /\ universe \notin Step.contracts /\ universe \in Contracts
        BY <1>2, <2>2, RenewedNext, RenewedContracts DEF Deploys
      <3>2. mem'[universe] = mem[universe]
        BY <2>1, <3>1
      <3>3. \E k \in DOMAIN Plan[Script] : k <= pc /\ GoesLive(Plan[Script][k], universe)
        BY <1>2, <2>2, <3>1, <3>2 DEF Uncalled
      <3>4. QED BY <1>3, <3>3
    <2>3. QED BY <1>1, <1>3, <2>1, <2>2 DEF Uncalled, Calls
  <1>5. CASE ~\A c \in Step.contracts : recorded[c] > 0
    BY <1>5, LinkedOff DEF GetDeployData, Abort
  <1>6. QED BY <1>4, <1>5

(* What is deployed now is not called yet.                                    *)
LEMMA UncalledDeploy == ASSUME WInv, Uncalled, Deploy PROVE Uncalled'
  <1>1. InStep("deploy") /\ UNCHANGED <<todo, at, wire>> /\ pc' = pc + 1
    BY DEF Deploy, operator
  <1>2. Script \in Scripts /\ pc \in DOMAIN Plan[Script] /\ Step = Plan[Script][pc] /\ Step.op = "deploy" /\ running
    BY <1>1, StepInPlan DEF InStep, WInv
  <1>3. Script' = Script /\ pc \in Nat /\ DOMAIN Plan[Script] \subseteq Nat
    BY <1>1, <1>2, PlanLength DEF Script, Command
  <1>4. ASSUME NEW universe \in DOMAIN Programs, NEW e \in Instances,
               universe \in Renewed(Script, pc + 1), Calls(e, universe, mem'[universe])
        PROVE  \E k \in DOMAIN Plan[Script] : k <= pc + 1 /\ GoesLive(Plan[Script][k], universe)
    <2>1. universe \in Contracts
      BY <1>4, RenewedContracts
    <2>2. CASE universe \in Step.contracts
      <3>1. mem'[universe] = deployed[universe] + 1 /\ deployed[universe] \in Nat
        BY <2>1, <2>2 DEF Deploy, WInv, TypeOK, ChainTypes, Instances
      <3>2. WireIsDeployed(<<UniverseSlot, e, <<universe, mem'[universe]>>>>, deployed)
        BY <1>4 DEF Calls, WInv
      <3>3. QED BY <3>1, <3>2 DEF WireIsDeployed
    <2>3. CASE universe \notin Step.contracts
      <3>1. universe \in Renewed(Script, pc) /\ mem'[universe] = mem[universe]
        BY <1>2, <1>4, <2>1, <2>3, RenewedNext DEF Deploys, Deploy
      <3>2. \E k \in DOMAIN Plan[Script] : k <= pc /\ GoesLive(Plan[Script][k], universe)
        BY <1>2, <1>4, <3>1 DEF Uncalled
      <3>3. QED BY <1>3, <3>2
    <2>4. QED BY <2>2, <2>3
  <1>5. QED BY <1>1, <1>3, <1>4 DEF Uncalled, Calls

LEMMA UserCalls == ASSUME UserChange, NEW universe \in DOMAIN Programs, NEW e, NEW n, Calls(e, universe, n)'
                   PROVE  Calls(e, universe, n)
  <1>1. PICK w \in wire : wire' = (wire \ {w}) \cup {<<w[1], w[2], UserMade>>}
    BY DEF UserChange
  <1>2. <<universe, n>> # UserMade
    BY PlanAssumption, ProgramsAreSetUp DEF UserMade
  <1>3. QED BY <1>1, <1>2 DEF Calls

LEMMA UncalledUser == ASSUME Uncalled, UserChange PROVE Uncalled'
  <1>1. UNCHANGED <<todo, at, mem, pc, running>>
    BY DEF UserChange, operator, process
  <1>2. Script' = Script
    BY <1>1 DEF Script, Command
  <1>3. ASSUME NEW universe \in DOMAIN Programs, NEW e \in Instances, Calls(e, universe, mem[universe])'
        PROVE  Calls(e, universe, mem[universe])
    <2>1. <<UniverseSlot, e, <<universe, mem[universe]>>>> \in wire'
      BY <1>1, <1>3 DEF Calls
    <2>2. QED BY <2>1, UserCalls DEF Calls
  <1>4. QED BY <1>1, <1>2, <1>3 DEF Uncalled

(* What a live universe needs.                                                *)
Complete(universe, e, n) ==
    LET own == Programs[universe]
    IN  /\ <<own.escrow, n, <<Escrow, e>>>> \in wire
        /\ \E m \in 1 .. deployed[own.program] :
             /\ <<own.link, n, <<own.program, m>>>> \in wire
             /\ \A slot \in own.settings : \E w \in wire : w[1] = slot /\ w[2] = m

LEMMA LiveIsComplete ==
    LiveProgramsAreComplete <=>
        \A universe \in DOMAIN Programs, e, n \in Instances : Calls(e, universe, n) => Complete(universe, e, n)
  BY DEF LiveProgramsAreComplete, Complete

(* What is complete stays so if its two connections do, and if what is set    *)
(* stays set.                                                                 *)
LEMMA CompleteKept ==
    ASSUME TypeOK, TypeOK', NEW universe \in DOMAIN Programs, NEW e, NEW n, Complete(universe, e, n),
           deployed[Programs[universe].program] <= deployed'[Programs[universe].program],
           \A w \in wire : (\E v \in wire' : v[1] = w[1] /\ v[2] = w[2])
             /\ (w[1] \in {Programs[universe].escrow, Programs[universe].link} /\ w[2] = n => w \in wire')
    PROVE  Complete(universe, e, n)'
  <1> DEFINE own == Programs[universe]
  <1>1. own.program \in Contracts
    BY ProgramsAreSetUp
  <1>2. deployed[own.program] \in Nat /\ deployed'[own.program] \in Nat
    BY <1>1 DEF TypeOK, ChainTypes, Instances
  <1>3. <<own.escrow, n, <<Escrow, e>>>> \in wire'
    BY DEF Complete
  <1>4. PICK m \in 1 .. deployed[own.program] :
             /\ <<own.link, n, <<own.program, m>>>> \in wire
             /\ \A slot \in own.settings : \E w \in wire : w[1] = slot /\ w[2] = m
    BY DEF Complete
  <1>5. m \in 1 .. deployed'[own.program]
    BY <1>2
  <1>6. <<own.link, n, <<own.program, m>>>> \in wire'
    BY <1>4
  <1>7. \A slot \in own.settings : \E w \in wire' : w[1] = slot /\ w[2] = m
    BY <1>4
  <1>8. QED BY <1>3, <1>5, <1>6, <1>7 DEF Complete

(* A transaction leaves every slot set that was.                              *)
LEMMA LandKeepsSlots ==
    ASSUME Land, NEW w \in wire
    PROVE  /\ \E v \in wire' : v[1] = w[1] /\ v[2] = w[2]
           /\ w \in wire' \/ (w[2] = Target /\ \E p \in Step.puts : p[1] = w[1])
  <1>1. CASE w \notin Replaced
    BY <1>1 DEF Land
  <1>2. CASE w \in Replaced
    <2>1. PICK p \in Step.puts : w[2] = Target /\ p[1] = w[1]
      BY <1>2 DEF Replaced
    <2>2. <<p[1], Target, ValueOf(p[2])>> \in wire'
      BY DEF Land, Puts
    <2>3. QED BY <2>1, <2>2
  <1>3. QED BY <1>1, <1>2

(* No transaction changes the connections of a universe that is called.       *)
LEMMA LandKeepsLive ==
    ASSUME TypeOK, Uncalled, InStep("tx"), Land, NEW universe \in DOMAIN Programs, NEW e \in Instances,
           NEW n, Calls(e, universe, n),
           NEW w \in wire, w[1] \in {Programs[universe].escrow, Programs[universe].link}, w[2] = n
    PROVE  w \in wire'
  <1> SUFFICES ASSUME w \notin wire' PROVE FALSE
    OBVIOUS
  <1>1. Script \in Scripts /\ pc \in DOMAIN Plan[Script] /\ Step = Plan[Script][pc] /\ Step.op = "tx" /\ running
    BY StepInPlan DEF InStep
  <1>2. n = Target /\ (Writes(Step, Programs[universe].escrow) \/ Writes(Step, Programs[universe].link))
    BY <1>1, LandKeepsSlots DEF Writes
  <1>3. /\ Step.holder = universe /\ universe \in Renewed(Script, pc)
        /\ \A k \in 1 .. pc : ~GoesLive(Plan[Script][k], universe)
    BY <1>1, <1>2, ProgramsAreSetUp
  <1>4. n = mem[universe]
    BY <1>2, <1>3 DEF Target
  <1>5. PICK k \in DOMAIN Plan[Script] : k <= pc /\ GoesLive(Plan[Script][k], universe)
    BY <1>1, <1>3, <1>4 DEF Uncalled
  <1>6. k \in 1 .. pc
    BY <1>1, <1>5, PlanLength
  <1>7. QED BY <1>3, <1>5, <1>6

(* What a script has connected is connected after a transaction as well.      *)
LEMMA ConnectedIsWired ==
    ASSUME TypeOK, Linked, InStep("tx"), Land, Script \notin Resumable,
           NEW holder \in Contracts, NEW slot, NEW value, Connected(Script, pc, holder, slot, value)
    PROVE  <<slot, mem[holder], ValueOf(value)>> \in wire /\ <<slot, mem[holder], ValueOf(value)>> \in wire'
           /\ value \in Contracts \cup Words
  <1>1. Script \in Scripts /\ pc \in DOMAIN Plan[Script] /\ Step = Plan[Script][pc] /\ running
    BY StepInPlan DEF InStep
  <1>2. PICK i \in 1 .. pc - 1 : Plan[Script][i].op = "tx" /\ <<slot, value>> \in Plan[Script][i].puts
    BY DEF Connected
  <1>3. i \in DOMAIN Plan[Script]
    BY <1>1, PlanLength
  <1>4. <<slot, value>> \in Slots \X (Contracts \cup Words)
    BY <1>1, <1>2, <1>3, PlanSteps, StepFields
  <1>5. slot \in Slots /\ value \in Contracts \cup Words
    BY <1>4
  <1>6. <<slot, mem[holder], ValueOf(value)>> \in wire
    BY <1>1, <1>5 DEF Linked
  <1>7. ~\E p \in Step.puts : p[1] = slot
    BY <1>1, ConnectedElsewhere, StepInPlan DEF Writes
  <1>8. <<slot, mem[holder], ValueOf(value)>>[1] = slot
    OBVIOUS
  <1>9. QED BY <1>5, <1>6, <1>7, <1>8, LandKeepsSlots

(* What goes live is complete.                                                *)
LEMMA LandCompletes ==
    ASSUME WInv, Linked, InStep("tx"), Land, NEW universe \in DOMAIN Programs, GoesLive(Step, universe),
           NEW e, e = mem[Step.holder], NEW n, n = mem[universe]
    PROVE  Complete(universe, e, n)'
  <1> DEFINE own == Programs[universe]
  <1>1. Script \in Scripts /\ pc \in DOMAIN Plan[Script] /\ Step = Plan[Script][pc] /\ running /\ TypeOK
    BY StepInPlan DEF InStep, WInv
  <1>2. /\ Step.holder = Escrow /\ Script \notin Resumable
        /\ Connected(Script, pc, universe, own.escrow, Escrow)
        /\ Connected(Script, pc, universe, own.link, own.program)
        /\ \A slot \in own.settings :
             \E p \in UNION {Plan[Script][i].puts : i \in {k \in 1 .. pc - 1 : Plan[Script][k].op = "tx"}} :
               Connected(Script, pc, own.program, slot, p[2])
    BY <1>1, ProgramsAreSetUp
  <1>3. universe \in Contracts /\ own.program \in Contracts /\ Escrow \in Contracts
    BY ProgramsAreSetUp
  <1>4. ValueOf(Escrow) = <<Escrow, mem[Escrow]>> /\ ValueOf(own.program) = <<own.program, mem[own.program]>>
    BY <1>3 DEF ValueOf
  <1>5. <<own.escrow, mem[universe], <<Escrow, mem[Escrow]>>>> \in wire'
    BY <1>1, <1>2, <1>3, <1>4, ConnectedIsWired
  <1>6. /\ <<own.link, mem[universe], <<own.program, mem[own.program]>>>> \in wire
        /\ <<own.link, mem[universe], <<own.program, mem[own.program]>>>> \in wire'
    BY <1>1, <1>2, <1>3, <1>4, ConnectedIsWired
  <1>7. mem[own.program] \in 1 .. deployed'[own.program]
    <2>1. WireIsDeployed(<<own.link, mem[universe], <<own.program, mem[own.program]>>>>, deployed)
      BY <1>6 DEF WInv
    <2>2. own.program \notin Words /\ deployed' = deployed
      BY <1>3, PlanAssumption DEF Land
    <2>3. deployed[own.program] \in Nat
      BY <1>1, <1>3 DEF TypeOK, ChainTypes, Instances
    <2>4. mem[own.program] \in Nat \ {0} /\ mem[own.program] <= deployed[own.program]
      BY <2>1, <2>2 DEF WireIsDeployed
    <2>5. QED BY <2>2, <2>3, <2>4
  <1>8. ASSUME NEW slot \in own.settings PROVE \E w \in wire' : w[1] = slot /\ w[2] = mem[own.program]
    <2>1. PICK value : Connected(Script, pc, own.program, slot, value)
      BY <1>2
    <2>2. <<slot, mem[own.program], ValueOf(value)>> \in wire'
      BY <1>1, <1>2, <1>3, <2>1, ConnectedIsWired
    <2>3. QED BY <2>2
  <1>9. QED BY <1>2, <1>5, <1>6, <1>7, <1>8 DEF Complete

LEMMA CompleteLand == ASSUME LInv, TypeOK', InStep("tx"), Land PROVE LiveProgramsAreComplete'
  <1>1. TypeOK /\ WInv /\ Linked /\ Uncalled
    BY DEF LInv, WInv
  <1>2. ASSUME NEW universe \in DOMAIN Programs, NEW e \in Instances, NEW n \in Instances, Calls(e, universe, n)'
        PROVE  Complete(universe, e, n)'
    <2>1. CASE Calls(e, universe, n)
      <3>1. Complete(universe, e, n)
        BY <2>1, LiveIsComplete DEF LInv
      <3>2. deployed'[Programs[universe].program] = deployed[Programs[universe].program]
        BY DEF Land
      <3>3. deployed[Programs[universe].program] \in Nat
        BY <1>1, ProgramsAreSetUp DEF TypeOK, ChainTypes, Instances
      <3>4. ASSUME NEW w \in wire
            PROVE  /\ \E v \in wire' : v[1] = w[1] /\ v[2] = w[2]
                   /\ w[1] \in {Programs[universe].escrow, Programs[universe].link} /\ w[2] = n => w \in wire'
        BY <1>1, <2>1, LandKeepsSlots, LandKeepsLive
      <3>5. QED BY <1>1, <3>1, <3>2, <3>3, <3>4, CompleteKept
    <2>2. CASE ~Calls(e, universe, n)
      BY <1>1, <1>2, <2>2, LandCalls, LandCompletes
    <2>3. QED BY <2>1, <2>2
  <1>3. QED BY <1>2 DEF LiveProgramsAreComplete, Complete

LEMMA CompleteUser == ASSUME LInv, TypeOK', UserChange PROVE LiveProgramsAreComplete'
  <1>1. TypeOK /\ deployed' = deployed
    BY DEF LInv, WInv, UserChange
  <1>2. PICK r \in Records, w \in wire : w[1] = UserSlot[r] /\ wire' = (wire \ {w}) \cup {<<w[1], w[2], UserMade>>}
    BY DEF UserChange
  <1>3. ASSUME NEW universe \in DOMAIN Programs, NEW e \in Instances, NEW n \in Instances, Calls(e, universe, n)'
        PROVE  Complete(universe, e, n)'
    <2>1. Complete(universe, e, n)
      BY <1>3, UserCalls, LiveIsComplete DEF LInv
    <2>2. UserSlot[r] \notin {Programs[universe].escrow, Programs[universe].link}
      BY ProgramsAreSetUp
    <2>3. deployed[Programs[universe].program] \in Nat
      BY <1>1, ProgramsAreSetUp DEF TypeOK, ChainTypes, Instances
    <2>4. ASSUME NEW v \in wire
          PROVE  /\ \E x \in wire' : x[1] = v[1] /\ x[2] = v[2]
                 /\ v[1] \in {Programs[universe].escrow, Programs[universe].link} /\ v[2] = n => v \in wire'
      <3>1. CASE v = w
        <4>1. <<w[1], w[2], UserMade>> \in wire'
          BY <1>2
        <4>2. QED BY <1>2, <2>2, <3>1, <4>1
      <3>2. CASE v # w
        BY <1>2, <3>2
      <3>3. QED BY <3>1, <3>2
    <2>5. QED BY <1>1, <2>1, <2>3, <2>4, CompleteKept
  <1>4. QED BY <1>3 DEF LiveProgramsAreComplete, Complete

LEMMA CompleteQuiet ==
    ASSUME LInv, TypeOK', UNCHANGED wire, \A c \in Contracts : deployed[c] <= deployed'[c]
    PROVE  LiveProgramsAreComplete'
  <1>1. TypeOK
    BY DEF LInv, WInv
  <1>2. ASSUME NEW universe \in DOMAIN Programs, NEW e \in Instances, NEW n \in Instances, Calls(e, universe, n)'
        PROVE  Complete(universe, e, n)'
    <2>1. Complete(universe, e, n)
      BY <1>2, LiveIsComplete DEF LInv, Calls
    <2>2. deployed[Programs[universe].program] <= deployed'[Programs[universe].program]
      BY ProgramsAreSetUp
    <2>3. QED BY <1>1, <2>1, <2>2, CompleteKept
  <1>3. QED BY <1>2 DEF LiveProgramsAreComplete, Complete

LEMMA LInvInit == Init => LInv
  <1> SUFFICES ASSUME Init PROVE LInv
    OBVIOUS
  <1>1. ASSUME NEW universe, NEW e, NEW n PROVE ~Calls(e, universe, n)
    BY InitWires, ProgramsAreSetUp DEF Calls
  <1>2. LiveProgramsAreComplete
    BY <1>1 DEF LiveProgramsAreComplete
  <1>3. WInv /\ Linked /\ Uncalled
    BY WInvInit DEF Init, Linked, Uncalled
  <1>4. QED BY <1>2, <1>3 DEF LInv

(* A step that touches no connection and deploys nothing.                     *)
LEMMA LInvQuiet ==
    ASSUME LInv, WInv', UNCHANGED <<wire, deployed>>, Linked', Uncalled'
    PROVE  LInv'
  <1>1. \A c \in Contracts : deployed[c] <= deployed'[c]
    BY DEF LInv, WInv, TypeOK, ChainTypes, Instances
  <1>2. QED BY <1>1, CompleteQuiet DEF LInv, WInv

LEMMA LInvLand ==
    ASSUME LInv, WInv', ExecuteTx \/ LoseReceipt
    PROVE  LInv'
  <1>1. InStep("tx") /\ Land /\ TypeOK /\ TypeOK' /\ Linked /\ Uncalled
    BY DEF ExecuteTx, LoseReceipt, LInv, WInv
  <1>2. LiveProgramsAreComplete'
    BY <1>1, CompleteLand
  <1>3. Linked' /\ Uncalled'
    <2>1. CASE ~running'
      BY <2>1, LinkedOff
    <2>2. CASE running'
      <3>1. UNCHANGED <<todo, at, mem>> /\ pc' \in {pc, pc + 1}
        BY <2>2 DEF ExecuteTx, LoseReceipt, Goto, Abort, operator
      <3>2. QED BY <1>1, <3>1, LinkedLand, UncalledLand
    <2>3. QED BY <2>1, <2>2
  <1>4. QED BY <1>2, <1>3 DEF LInv

LEMMA LInvNext == ASSUME LInv, [Next]_vars PROVE LInv'
  <1>1. WInv /\ WInv' /\ TypeOK /\ TypeOK' /\ Linked /\ Uncalled
    BY WInvNext DEF LInv, WInv
  <1>2. CASE UNCHANGED vars
    <2>1. UNCHANGED <<todo, at, running, pc, mem, wire, deployed>>
      BY <1>2 DEF vars, operator, process, onChain
    <2>2. UNCHANGED Script /\ \A v : ValueOf(v)' = ValueOf(v)
      BY <2>1 DEF Script, Command, ValueOf
    <2>3. Linked' /\ Uncalled'
      BY <1>1, <2>1, <2>2 DEF Linked, Uncalled, Calls
    <2>4. QED BY <1>1, <2>1, <2>3, LInvQuiet
  <1>3. CASE StartCommand \/ NextScript \/ EndCommand \/ Throw \/ Crash \/ Rerun \/ Resume
    <2>1. UNCHANGED <<wire, deployed>>
      BY <1>3 DEF StartCommand, NextScript, EndCommand, Throw, Crash, Rerun, Resume, onChain
    <2>2. ~running' \/ \E s, t : Enter(s, t)
      BY <1>3 DEF StartCommand, NextScript, EndCommand, Throw, Crash, Rerun, Resume, Abort
    <2>3. QED BY <1>1, <2>1, <2>2, LinkedOff, LInvQuiet
  <1>4. CASE GetDeployData
    <2>1. UNCHANGED <<wire, deployed>>
      BY <1>4 DEF GetDeployData, onChain
    <2>2. QED BY <1>1, <1>4, <2>1, LinkedLoad, UncalledLoad, LInvQuiet
  <1>5. CASE Deploy
    <2>1. wire' = wire /\ \A c \in Contracts : deployed[c] <= deployed'[c]
      BY <1>1, <1>5 DEF Deploy, TypeOK, ChainTypes, Instances
    <2>2. QED BY <1>1, <1>5, <2>1, LinkedDeploy, UncalledDeploy, CompleteQuiet DEF LInv
  <1>6. CASE SaveDeploymentData \/ SaveMigrationData
    <2>1. PICK op \in {"save", "track"} : InStep(op)
      BY <1>6 DEF SaveDeploymentData, SaveMigrationData
    <2>2. UNCHANGED <<todo, at, mem, wire, deployed>> /\ pc' = pc + 1
      BY <1>6 DEF SaveDeploymentData, SaveMigrationData, Proceed, Goto, operator, onChain
    <2>3. QED BY <1>1, <2>1, <2>2, LinkedQuiet, UncalledQuiet, LInvQuiet
  <1>7. CASE SkipTx
    <2>1. InStep("tx") /\ UNCHANGED <<todo, at, mem, wire, deployed>> /\ pc' = pc + 1
      BY <1>7 DEF SkipTx, Proceed, Goto, operator, onChain
    <2>2. QED BY <1>1, <1>7, <2>1, LinkedSkip, UncalledQuiet, LInvQuiet
  <1>8. CASE UserChange
    BY <1>1, <1>8, LinkedUser, UncalledUser, CompleteUser DEF LInv
  <1>9. QED
    BY <1>1, <1>2, <1>3, <1>4, <1>5, <1>6, <1>7, <1>8, LInvLand DEF Next, Advance, RunStep

(* A reward universe that an escrow calls answers to that escrow, and the     *)
(* program behind it has all its settings, whichever scripts crashed or were  *)
(* run again: a script that makes the escrow call a universe has set it up    *)
(* before, and no later one holds it again.                                   *)
(* (L_deploy_reward_program.js:157-189, J_deploy_fake_reward_program.js:215)  *)
THEOREM RewardsStartComplete == Spec => []LiveProgramsAreComplete
  <1>1. LInv => LiveProgramsAreComplete
    BY DEF LInv
  <1>2. QED BY <1>1, LInvInit, LInvNext, PTL DEF Spec

-------------------------------------------------------------------------------
(* Funds.  An instance is at risk when it is funded and a rerun of the        *)
(* command would deploy and fund another one: when no record names it and no  *)
(* process holds it, or when its record was made in a run that has ended.     *)

RecordedOnes == {c \in Contracts : recorded[c] > 0}
Sound ==
    \A j \in DOMAIN todo :
        /\ RecordsFunds(todo[j])
        /\ \A l \in 1 .. j - 1 : Spends(todo[l]) \cap SavedBy(todo[j]) = {}
        /\ Remakes(todo[j]) # {} =>
             FindsRecords(todo[j], RecordedOnes \cup UNION {SavedBy(todo[l]) : l \in 1 .. j - 1})
SavedIsRecorded == at > 0 => SavedBefore(Command, at, pc) \subseteq RecordedOnes
Newest == running => \A c \in Unsaved(Script, pc) : mem[c] > recorded[c]
HInv == WInv /\ Current /\ Sound /\ SavedIsRecorded /\ Newest

Unpaid(c) == \A n \in Instances : ~IsFunded(c, n)
PaidIsHeld == \A c \in DOMAIN Purse, n \in Instances : IsFunded(c, n) => n > 0 /\ n <= deployed[c]
PaidIsRecorded ==
    running => \A c \in DOMAIN Purse :
        IsFunded(c, mem[c]) => mem[c] = recorded[c] \/ c \in Remakes(Command) \cap Unsaved(Script, pc)
LaterUnpaid ==
    /\ \A j \in DOMAIN todo : j > 1 \/ at = 0 => \A c \in DOMAIN Purse \cap SavedBy(todo[j]) : Unpaid(c)
    /\ at > 0 => \A c \in DOMAIN Purse \cap SavedBy(Command) : c \notin Spends(Command) => Unpaid(c)
PInv == HInv /\ PaidIsHeld /\ PaidIsRecorded /\ LaterUnpaid

Passed(c) == running /\ c \in SavedBefore(Command, at, pc)
IsAtRisk(c, n) ==
    /\ IsFunded(c, n)
    /\ IF n = recorded[c] THEN at > 0 /\ c \in Remakes(Command) /\ ~Passed(c)
                          ELSE ~(running /\ n = mem[c])
AtRisk == {i \in (DOMAIN Purse) \X (1 .. MaxInstances) : IsAtRisk(i[1], i[2])}
OInv == PInv /\ IsFiniteSet(AtRisk) /\ Cardinality(AtRisk) <= faults

LEMMA SavedContracts == ASSUME NEW command, NEW i, NEW n PROVE SavedBefore(command, i, n) \subseteq Contracts
  BY DEF SavedBefore

LEMMA SavedNothing ==
    ASSUME NEW command \in Seq(Scripts)
    PROVE  SavedBefore(command, 1, 1) = {}
  <1>1. ASSUME NEW j \in DOMAIN command, NEW k \in DOMAIN Plan[command[j]] PROVE j >= 1 /\ k >= 1 /\ j \in Nat /\ k \in Nat
    BY PlanLength
  <1>2. QED BY <1>1 DEF SavedBefore

LEMMA SavedLater ==
    ASSUME NEW command \in Seq(Scripts), NEW i \in Nat, NEW n \in Nat, NEW j \in Nat, NEW k \in Nat,
           i < j \/ (i = j /\ n <= k)
    PROVE  SavedBefore(command, i, n) \subseteq SavedBefore(command, j, k)
  <1>1. ASSUME NEW x \in DOMAIN command, NEW y \in DOMAIN Plan[command[x]], x < i \/ (x = i /\ y < n)
        PROVE  x < j \/ (x = j /\ y < k)
    <2>1. x \in Nat /\ y \in Nat
      BY PlanLength
    <2>2. QED BY <1>1, <2>1
  <1>2. QED BY <1>1 DEF SavedBefore

LEMMA SavedNext ==
    ASSUME NEW command \in Seq(Scripts), NEW i \in DOMAIN command, NEW n \in DOMAIN Plan[command[i]], NEW c \in Contracts
    PROVE  c \in SavedBefore(command, i, n + 1) <=>
             c \in SavedBefore(command, i, n) \/ Saves(Plan[command[i]][n], {c})
  <1>1. n \in Nat /\ i \in Nat
    BY PlanLength
  <1>2. SavedBefore(command, i, n) \subseteq SavedBefore(command, i, n + 1)
    BY <1>1, SavedLater
  <1>3. Saves(Plan[command[i]][n], {c}) => c \in SavedBefore(command, i, n + 1)
    BY <1>1 DEF SavedBefore
  <1>4. ASSUME c \in SavedBefore(command, i, n + 1), ~Saves(Plan[command[i]][n], {c})
        PROVE  c \in SavedBefore(command, i, n)
    <2>1. PICK x \in DOMAIN command : \E k \in DOMAIN Plan[command[x]] :
                (x < i \/ (x = i /\ k < n + 1)) /\ Saves(Plan[command[x]][k], {c})
      BY <1>4 DEF SavedBefore
    <2>2. PICK k \in DOMAIN Plan[command[x]] : (x < i \/ (x = i /\ k < n + 1)) /\ Saves(Plan[command[x]][k], {c})
      BY <2>1
    <2>3. x \in Nat /\ k \in Nat
      BY PlanLength
    <2>4. x < i \/ (x = i /\ k < n)
      BY <1>1, <1>4, <2>2, <2>3
    <2>5. QED BY <2>2, <2>4 DEF SavedBefore
  <1>5. QED BY <1>2, <1>3, <1>4

LEMMA SavedScript ==
    ASSUME NEW command \in Seq(Scripts), NEW i \in DOMAIN command
    PROVE  SavedBefore(command, i + 1, 1) = SavedBefore(command, i, Len(Plan[command[i]]) + 1)
  <1>1. ASSUME NEW x \in DOMAIN command, NEW y \in DOMAIN Plan[command[x]]
        PROVE  x < i + 1 \/ (x = i + 1 /\ y < 1) <=> x < i \/ (x = i /\ y < Len(Plan[command[i]]) + 1)
    <2>1. x \in Nat /\ i \in Nat /\ y \in Nat /\ y >= 1 /\ y <= Len(Plan[command[x]]) /\ Len(Plan[command[x]]) \in Nat
      BY PlanLength
    <2>2. QED BY <2>1
  <1>2. QED BY <1>1 DEF SavedBefore

LEMMA SavedCommand ==
    ASSUME NEW command \in Seq(Scripts), NEW i \in DOMAIN command, NEW n \in DOMAIN Plan[command[i]],
           NEW c \in Contracts, Saves(Plan[command[i]][n], {c})
    PROVE  c \in SavedBy(command)
  <1>1. n \in Nat /\ i \in Nat /\ Len(command) \in Nat /\ i < Len(command) + 1
    BY PlanLength
  <1>2. c \in SavedBefore(command, i, n + 1)
    BY SavedNext
  <1>3. QED BY <1>1, <1>2, SavedLater DEF SavedBy

LEMMA CurrentNext == ASSUME TypeOK, Current, [Next]_vars PROVE Current'
  <1>1. CASE UNCHANGED vars \/ UserChange
    <2>1. UNCHANGED <<todo, at, running, pc, mem, recorded>>
      BY <1>1 DEF vars, UserChange, operator, process, disk
    <2>2. UNCHANGED Script
      BY <2>1 DEF Script, Command
    <2>3. QED BY <2>1, <2>2 DEF Current
  <1>2. CASE StartCommand \/ NextScript \/ EndCommand \/ Throw \/ Crash \/ Rerun \/ Resume
    BY <1>2, CurrentEnter, CurrentOff DEF StartCommand, NextScript, EndCommand, Throw, Crash, Rerun, Resume, Abort
  <1>3. CASE ExecuteTx \/ LoseReceipt \/ SkipTx \/ SaveMigrationData
    <2>1. CASE ~running'
      BY <2>1, CurrentOff
    <2>2. CASE running'
      <3>1. PICK op \in {"tx", "track"} : InStep(op)
        BY <1>3 DEF ExecuteTx, LoseReceipt, SkipTx, SaveMigrationData
      <3>2. UNCHANGED <<todo, at, mem, recorded>> /\ pc' \in {pc, pc + 1}
        BY <1>3, <2>2 DEF ExecuteTx, LoseReceipt, SkipTx, SaveMigrationData, Proceed, Goto, Abort, operator, disk
      <3>3. QED BY <3>1, <3>2, CurrentStay
    <2>3. QED BY <2>1, <2>2
  <1>4. QED
    BY <1>1, <1>2, <1>3, CurrentLoad, CurrentDeploy, CurrentSave DEF Next, Advance, RunStep

(* What is deployed and not saved yet is newer than what is recorded.         *)
LEMMA NewestStep ==
    ASSUME TypeOK, Newest, NEW op, InStep(op), UNCHANGED <<todo, at>>,
           pc' = pc + 1 \/ (pc' = pc /\ op \notin {"load", "deploy", "save"}),
           \A c \in Contracts : Deploys(Step, c) => mem'[c] > recorded'[c],
           \A c \in Contracts : (op \in {"load", "deploy", "save"} /\ c \in Step.contracts)
                                  \/ (mem'[c] = mem[c] /\ recorded'[c] = recorded[c])
    PROVE  Newest'
  <1>1. Script \in Scripts /\ pc \in DOMAIN Plan[Script] /\ Step = Plan[Script][pc] /\ Step.op = op /\ running
    BY StepInPlan DEF InStep
  <1>2. Script' = Script
    BY DEF Script, Command
  <1>3. ASSUME NEW c \in Unsaved(Script, pc') PROVE mem'[c] > recorded'[c]
    <2>1. c \in Contracts
      BY <1>3, RenewedContracts
    <2>2. CASE Deploys(Step, c)
      BY <2>1, <2>2
    <2>3. CASE ~Deploys(Step, c)
      <3>1. c \in Unsaved(Script, pc) /\ (op \in {"load", "save"} => c \notin Step.contracts)
        BY <1>1, <1>3, <2>3, UnsavedNext
      <3>2. op = "deploy" => c \notin Step.contracts
        BY <1>1, <2>3 DEF Deploys
      <3>3. QED BY <1>1, <2>1, <3>1, <3>2 DEF Newest
    <2>4. QED BY <2>2, <2>3
  <1>4. QED BY <1>2, <1>3 DEF Newest

LEMMA NewestNext == ASSUME WInv, Newest, [Next]_vars PROVE Newest'
  <1>1. TypeOK
    BY DEF WInv
  <1>2. CASE UNCHANGED vars \/ UserChange
    <2>1. UNCHANGED <<todo, at, running, pc, mem, recorded>>
      BY <1>2 DEF vars, UserChange, operator, process, disk
    <2>2. UNCHANGED Script
      BY <2>1 DEF Script, Command
    <2>3. QED BY <2>1, <2>2 DEF Newest
  <1>3. CASE ~running' \/ \E s, t : Enter(s, t)
    BY <1>3, NothingYet DEF Newest, Enter
  <1>4. CASE running' /\ (ExecuteTx \/ LoseReceipt \/ SkipTx \/ SaveMigrationData)
    <2>1. PICK op \in {"tx", "track"} : InStep(op)
      BY <1>4 DEF ExecuteTx, LoseReceipt, SkipTx, SaveMigrationData
    <2>2. UNCHANGED <<todo, at, mem, recorded>> /\ pc' \in {pc, pc + 1}
      BY <1>4 DEF ExecuteTx, LoseReceipt, SkipTx, SaveMigrationData, Proceed, Goto, Abort, operator, disk
    <2>3. \A c : ~Deploys(Step, c)
      BY <2>1 DEF InStep, Deploys
    <2>4. QED BY <1>1, <2>1, <2>2, <2>3, NewestStep
  <1>5. CASE running' /\ GetDeployData
    <2>1. InStep("load") /\ UNCHANGED <<todo, at, recorded>> /\ \A c : ~Deploys(Step, c)
      BY <1>5 DEF GetDeployData, operator, disk, InStep, Deploys
    <2>2. pc' = pc + 1 /\ mem' = [c \in Contracts |-> IF c \in Step.contracts THEN recorded[c] ELSE mem[c]]
      BY <1>5 DEF GetDeployData, Abort
    <2>3. QED BY <1>1, <2>1, <2>2, NewestStep
  <1>6. CASE Deploy
    <2>1. InStep("deploy") /\ UNCHANGED <<todo, at, recorded>> /\ pc' = pc + 1
      BY <1>6 DEF Deploy, operator, disk
    <2>2. ASSUME NEW c \in Contracts, Deploys(Step, c) PROVE mem'[c] > recorded'[c]
      <3>1. mem'[c] = deployed[c] + 1
        BY <1>6, <2>2 DEF Deploy, Deploys
      <3>2. recorded[c] <= deployed[c] /\ recorded[c] \in Nat /\ deployed[c] \in Nat
        BY DEF WInv, Known, TypeOK, DiskTypes, ChainTypes, Instances
      <3>3. QED BY <2>1, <3>1, <3>2
    <2>3. \A c \in Contracts : c \in Step.contracts \/ mem'[c] = mem[c]
      BY <1>6 DEF Deploy
    <2>4. QED BY <1>1, <2>1, <2>2, <2>3, NewestStep
  <1>7. CASE SaveDeploymentData
    <2>1. InStep("save") /\ UNCHANGED <<todo, at, mem>> /\ pc' = pc + 1 /\ \A c : ~Deploys(Step, c)
      BY <1>7 DEF SaveDeploymentData, Proceed, Goto, operator, InStep, Deploys
    <2>2. \A c \in Contracts : c \in Step.contracts \/ recorded'[c] = recorded[c]
      BY <1>7 DEF SaveDeploymentData
    <2>3. QED BY <1>1, <2>1, <2>2, NewestStep
  <1>8. StartCommand \/ NextScript \/ EndCommand \/ Throw \/ Crash \/ Rerun \/ Resume
          => ~running' \/ \E s, t : Enter(s, t)
    BY DEF StartCommand, NextScript, EndCommand, Throw, Crash, Rerun, Resume, Abort
  <1>9. running' \in BOOLEAN
    BY <1>1, TypeNext DEF TypeOK, ProcessTypes
  <1>10. QED
    BY <1>2, <1>3, <1>4, <1>5, <1>6, <1>7, <1>8, <1>9 DEF Next, Advance, RunStep

(* A record that is there stays there.                                        *)
LEMMA SavesWhatIsThere ==
    ASSUME WInv, SaveDeploymentData, NEW c \in Contracts, c \in Step.contracts
    PROVE  mem[c] > 0 /\ recorded'[c] = mem[c]
  <1>1. Script \in Scripts /\ pc \in DOMAIN Plan[Script] /\ Step = Plan[Script][pc] /\ Step.op = "save" /\ at > 0
    BY StepInPlan DEF SaveDeploymentData, WInv
  <1>2. c \in Holds(Script, pc)
    BY <1>1, LoadsFirst DEF Uses
  <1>3. QED BY <1>1, <1>2 DEF SaveDeploymentData, WInv, Loaded

LEMMA RecordsStay == ASSUME WInv, [Next]_vars PROVE RecordedOnes \subseteq RecordedOnes'
  <1>1. CASE SaveDeploymentData
    <2>1. \A c \in Contracts : c \notin Step.contracts => recorded'[c] = recorded[c]
      BY <1>1 DEF SaveDeploymentData
    <2>2. QED BY <1>1, <2>1, SavesWhatIsThere DEF RecordedOnes
  <1>2. CASE ~SaveDeploymentData
    <2>1. recorded' = recorded
      BY <1>2 DEF Next, Advance, RunStep, StartCommand, NextScript, EndCommand, GetDeployData, Deploy, ExecuteTx,
                  SkipTx, SaveMigrationData, Throw, Rerun, Resume, LoseReceipt, Crash, UserChange, vars, disk
    <2>2. QED BY <2>1 DEF RecordedOnes
  <1>3. QED BY <1>1, <1>2

LEMMA SavedStep ==
    ASSUME WInv, SavedIsRecorded, RecordedOnes \subseteq RecordedOnes', NEW op, InStep(op), UNCHANGED <<todo, at>>,
           pc' \in {pc, pc + 1},
           pc' = pc + 1 => \A c \in Contracts : Saves(Step, {c}) => recorded'[c] > 0
    PROVE  SavedIsRecorded'
  <1>1. at > 0 /\ Script \in Scripts /\ pc \in DOMAIN Plan[Script] /\ Step = Plan[Script][pc] /\ TypeOK
    BY StepInPlan DEF WInv
  <1>2. Command \in Seq(Scripts) /\ at \in DOMAIN Command /\ Script = Command[at]
    BY <1>1, ScriptInPlan, CommandScripts DEF TypeOK, InPlace, Script
  <1>3. Command' = Command
    BY DEF Command
  <1>4. SavedBefore(Command, at, pc) \subseteq RecordedOnes'
    BY <1>1 DEF SavedIsRecorded
  <1>5. ASSUME NEW c \in SavedBefore(Command, at, pc'), pc' = pc + 1 PROVE c \in RecordedOnes'
    <2>1. c \in Contracts
      BY SavedContracts
    <2>2. c \in SavedBefore(Command, at, pc) \/ Saves(Step, {c})
      BY <1>1, <1>2, <1>5, <2>1, SavedNext
    <2>3. QED BY <1>4, <1>5, <2>1, <2>2 DEF RecordedOnes
  <1>6. SavedBefore(Command, at, pc') \subseteq RecordedOnes'
    BY <1>4, <1>5
  <1>7. QED BY <1>3, <1>6 DEF SavedIsRecorded

LEMMA SavedEnter ==
    ASSUME WInv, SavedIsRecorded, RecordedOnes \subseteq RecordedOnes', StartCommand \/ NextScript \/ Rerun \/ Resume
    PROVE  SavedIsRecorded'
  <1>1. TypeOK /\ todo # <<>> /\ todo' = todo /\ Command' = Command /\ Command \in Seq(Scripts) /\ at \in Nat /\ pc \in Nat \ {0}
    <2>1. TypeOK /\ at \in Nat /\ pc \in Nat \ {0} /\ todo' = todo
      BY DEF WInv, TypeOK, OperatorTypes, ProcessTypes, StartCommand, NextScript, Rerun, Resume
    <2>2. todo # <<>>
      BY DEF WInv, TypeOK, InPlace, StartCommand, NextScript, Rerun, Resume
    <2>3. QED BY <2>1, <2>2, CommandScripts DEF Command
  <1>2. CASE StartCommand
    <2>1. at' = 1 /\ pc' = 1
      BY <1>2 DEF StartCommand, Enter
    <2>2. QED BY <1>1, <2>1, SavedNothing DEF SavedIsRecorded
  <1>3. CASE NextScript
    <2>1. at' = at + 1 /\ pc' = 1 /\ at > 0 /\ pc > Len(Plan[Script])
      BY <1>1, <1>3 DEF NextScript, Enter, TypeOK, InPlace
    <2>2. at \in DOMAIN Command /\ Script = Command[at] /\ pc = Len(Plan[Script]) + 1
      BY <1>1, <2>1, ScriptInPlan DEF TypeOK, InPlace, Script
    <2>3. QED BY <1>1, <2>1, <2>2, SavedScript DEF SavedIsRecorded
  <1>4. CASE Rerun \/ Resume
    <2>1. PICK script \in Nat : script <= at /\ at > 0 /\ at' = script /\ pc' = 1
      BY <1>1, <1>4 DEF Rerun, Resume, Enter
    <2>2. SavedBefore(Command, script, 1) \subseteq SavedBefore(Command, at, pc)
      BY <1>1, <2>1, SavedLater
    <2>3. QED BY <1>1, <2>1, <2>2 DEF SavedIsRecorded
  <1>5. QED BY <1>2, <1>3, <1>4

LEMMA SavedNowNext == ASSUME WInv, SavedIsRecorded, [Next]_vars PROVE SavedIsRecorded'
  <1>1. TypeOK /\ RecordedOnes \subseteq RecordedOnes'
    BY RecordsStay DEF WInv
  <1>2. CASE UNCHANGED <<todo, at, pc>>
    BY <1>1, <1>2 DEF SavedIsRecorded, Command
  <1>3. CASE EndCommand
    BY <1>3 DEF EndCommand, SavedIsRecorded
  <1>4. CASE StartCommand \/ NextScript \/ Rerun \/ Resume
    BY <1>1, <1>4, SavedEnter
  <1>5. CASE SaveDeploymentData
    <2>1. InStep("save") /\ UNCHANGED <<todo, at>> /\ pc' = pc + 1
      BY <1>5 DEF SaveDeploymentData, Proceed, Goto, operator
    <2>2. \A c \in Contracts : Saves(Step, {c}) => recorded'[c] > 0
      BY <1>5, SavesWhatIsThere DEF Saves
    <2>3. QED BY <1>1, <2>1, <2>2, SavedStep
  <1>6. CASE pc' = pc + 1 /\ (GetDeployData \/ Deploy \/ ExecuteTx \/ LoseReceipt \/ SkipTx \/ SaveMigrationData)
    <2>1. PICK op \in {"load", "deploy", "tx", "track"} : InStep(op)
      BY <1>6 DEF GetDeployData, Deploy, ExecuteTx, LoseReceipt, SkipTx, SaveMigrationData
    <2>2. UNCHANGED <<todo, at>> /\ \A c : ~Saves(Step, {c})
      BY <1>6, <2>1 DEF GetDeployData, Deploy, ExecuteTx, LoseReceipt, SkipTx, SaveMigrationData, operator, InStep, Saves
    <2>3. QED BY <1>1, <1>6, <2>1, <2>2, SavedStep
  <1>7. UNCHANGED vars \/ Throw \/ Crash \/ UserChange => UNCHANGED <<todo, at, pc>>
    BY DEF vars, Throw, Crash, UserChange, Abort, operator, process
  <1>8. GetDeployData \/ Deploy \/ ExecuteTx \/ LoseReceipt \/ SkipTx \/ SaveMigrationData
          => UNCHANGED <<todo, at, pc>> \/ pc' = pc + 1
    BY DEF GetDeployData, Deploy, ExecuteTx, LoseReceipt, SkipTx, SaveMigrationData, Proceed, Goto, Abort, operator
  <1>9. QED
    BY <1>2, <1>3, <1>4, <1>5, <1>6, <1>7, <1>8 DEF Next, Advance, RunStep

LEMMA FindsMore ==
    ASSUME NEW command, NEW A, NEW B, A \subseteq B, FindsRecords(command, A)
    PROVE  FindsRecords(command, B)
  BY DEF FindsRecords

LEMMA SoundInit == Init => Sound
  <1> SUFFICES ASSUME Init PROVE Sound
    OBVIOUS
  <1>1. todo \in Agendas /\ Legacy[todo] \subseteq Contracts
    BY PlanAssumption DEF Init
  <1>2. Legacy[todo] \subseteq RecordedOnes
    BY <1>1 DEF Init, RecordedOnes
  <1>3. ASSUME NEW j \in DOMAIN todo, Remakes(todo[j]) # {}
        PROVE  FindsRecords(todo[j], RecordedOnes \cup UNION {SavedBy(todo[l]) : l \in 1 .. j - 1})
    <2>1. FindsRecords(todo[j], Legacy[todo] \cup UNION {SavedBy(todo[l]) : l \in 1 .. j - 1})
      BY <1>1, <1>3, FundsAreRecorded
    <2>2. QED BY <1>2, <2>1, FindsMore
  <1>4. \A j \in DOMAIN todo : RecordsFunds(todo[j]) /\ \A l \in 1 .. j - 1 : Spends(todo[l]) \cap SavedBy(todo[j]) = {}
    BY <1>1, FundsAreRecorded
  <1>5. QED BY <1>3, <1>4 DEF Sound

LEMMA SoundKept ==
    ASSUME Sound, UNCHANGED todo, RecordedOnes \subseteq RecordedOnes'
    PROVE  Sound'
  <1>1. ASSUME NEW j \in DOMAIN todo, Remakes(todo[j]) # {}
        PROVE  FindsRecords(todo[j], RecordedOnes' \cup UNION {SavedBy(todo[l]) : l \in 1 .. j - 1})
    <2>1. FindsRecords(todo[j], RecordedOnes \cup UNION {SavedBy(todo[l]) : l \in 1 .. j - 1})
      BY <1>1 DEF Sound
    <2>2. QED BY <2>1, FindsMore
  <1>2. QED BY <1>1 DEF Sound

LEMMA EndingCommand ==
    ASSUME TypeOK, EndCommand
    PROVE  /\ todo # <<>> /\ at > 0 /\ at \in DOMAIN Command /\ Command \in Seq(Scripts) /\ Command = todo[1]
           /\ pc = Len(Plan[Script]) + 1 /\ SavedBy(Command) = SavedBefore(Command, at, pc)
           /\ \A j \in DOMAIN todo' : /\ j \in Nat \ {0} /\ j + 1 \in DOMAIN todo /\ todo'[j] = todo[j + 1]
  <1>1. todo # <<>> /\ todo \in Seq(Seq(Scripts) \ {<<>>}) /\ at # 0 /\ pc \in Nat /\ at \in Nat
    BY DEF EndCommand, TypeOK, InPlace, OperatorTypes, ProcessTypes
  <1>2. Command \in Seq(Scripts) /\ at \in DOMAIN Command /\ Script \in Scripts /\ pc = Len(Plan[Script]) + 1
    BY <1>1, CommandScripts, ScriptInPlan DEF EndCommand, TypeOK, InPlace
  <1>3. SavedBy(Command) = SavedBefore(Command, at, pc)
    BY <1>2, SavedScript DEF SavedBy, EndCommand, Script
  <1>4. Command = todo[1]
    BY DEF Command
  <1>5. ASSUME NEW j \in DOMAIN todo' PROVE j \in Nat \ {0} /\ j + 1 \in DOMAIN todo /\ todo'[j] = todo[j + 1]
    BY <1>1, <1>5, HeadTailProperties DEF EndCommand
  <1>6. QED BY <1>1, <1>2, <1>3, <1>4, <1>5

LEMMA SoundEnd == ASSUME TypeOK, Sound, SavedIsRecorded, EndCommand PROVE Sound'
  <1>1. /\ todo # <<>> /\ at > 0 /\ Command = todo[1] /\ SavedBy(Command) = SavedBefore(Command, at, pc)
        /\ \A j \in DOMAIN todo' : /\ j \in Nat \ {0} /\ j + 1 \in DOMAIN todo /\ todo'[j] = todo[j + 1]
    BY EndingCommand
  <1>2. SavedBy(todo[1]) \subseteq RecordedOnes /\ RecordedOnes' = RecordedOnes
    BY <1>1 DEF SavedIsRecorded, EndCommand, disk, RecordedOnes
  <1>3. ASSUME NEW j \in DOMAIN todo' PROVE \A l \in 1 .. j - 1 : l + 1 \in 1 .. (j + 1) - 1 /\ todo'[l] = todo[l + 1]
    <2>1. j \in 1 .. Len(todo') /\ todo' \in Seq(Seq(Scripts) \ {<<>>})
      BY <1>1, CommandScripts DEF EndCommand
    <2>2. j \in Nat /\ \A l \in 1 .. j - 1 : l \in DOMAIN todo'
      BY <2>1
    <2>3. \A l \in 1 .. j - 1 : l + 1 \in 1 .. (j + 1) - 1
      BY <2>2
    <2>4. QED BY <1>1, <2>2, <2>3
  <1>4. ASSUME NEW j \in DOMAIN todo', Remakes(todo'[j]) # {}
        PROVE  FindsRecords(todo'[j], RecordedOnes \cup UNION {SavedBy(todo'[l]) : l \in 1 .. j - 1})
    <2>1. FindsRecords(todo[j + 1], RecordedOnes \cup UNION {SavedBy(todo[l]) : l \in 1 .. (j + 1) - 1})
      BY <1>1, <1>4 DEF Sound
    <2>2. ASSUME NEW l \in 1 .. (j + 1) - 1
          PROVE  SavedBy(todo[l]) \subseteq RecordedOnes \cup UNION {SavedBy(todo'[k]) : k \in 1 .. j - 1}
      <3>1. CASE l = 1
        BY <1>2, <3>1
      <3>2. CASE l # 1
        <4>1. l - 1 \in 1 .. j - 1 /\ (l - 1) + 1 = l
          BY <1>1, <3>2
        <4>2. todo'[l - 1] = todo[l]
          BY <1>3, <4>1
        <4>3. QED BY <4>1, <4>2
      <3>3. QED BY <3>1, <3>2
    <2>3. RecordedOnes \cup UNION {SavedBy(todo[l]) : l \in 1 .. (j + 1) - 1}
            \subseteq RecordedOnes \cup UNION {SavedBy(todo'[l]) : l \in 1 .. j - 1}
      BY <2>2
    <2>4. QED BY <1>1, <2>1, <2>3, FindsMore
  <1>5. ASSUME NEW j \in DOMAIN todo'
        PROVE  RecordsFunds(todo'[j]) /\ \A l \in 1 .. j - 1 : Spends(todo'[l]) \cap SavedBy(todo'[j]) = {}
    BY <1>1, <1>3 DEF Sound
  <1>6. QED BY <1>2, <1>4, <1>5 DEF Sound

LEMMA HInvInit == Init => HInv
  <1> SUFFICES ASSUME Init PROVE HInv
    OBVIOUS
  <1>1. Current /\ Newest /\ SavedIsRecorded
    BY DEF Init, Current, Newest, SavedIsRecorded
  <1>2. QED BY <1>1, WInvInit, SoundInit DEF HInv

LEMMA HInvNext == ASSUME HInv, [Next]_vars PROVE HInv'
  <1>1. WInv /\ TypeOK /\ WInv' /\ Current' /\ Newest' /\ SavedIsRecorded' /\ RecordedOnes \subseteq RecordedOnes'
    BY WInvNext, CurrentNext, NewestNext, SavedNowNext, RecordsStay DEF HInv, WInv
  <1>2. EndCommand \/ UNCHANGED todo
    BY DEF Next, Advance, RunStep, StartCommand, NextScript, GetDeployData, Deploy, SaveDeploymentData, ExecuteTx,
           SkipTx, SaveMigrationData, Throw, Rerun, Resume, LoseReceipt, Crash, UserChange, vars, operator
  <1>3. Sound'
    BY <1>1, <1>2, SoundEnd, SoundKept DEF HInv
  <1>4. QED BY <1>1, <1>3 DEF HInv

(* What the command in progress guarantees for its funds.                     *)
LEMMA CommandFunds ==
    ASSUME HInv, at > 0
    PROVE  /\ 1 \in DOMAIN todo /\ Command = todo[1] /\ RecordsFunds(Command)
           /\ Remakes(Command) # {} => FindsRecords(Command, RecordedOnes)
           /\ Command \in Seq(Scripts) /\ at \in DOMAIN Command /\ Script = Command[at] /\ Script \in Scripts
           /\ \A c, d \in Remakes(Command) : c = d
  <1>1. TypeOK /\ Sound
    BY DEF HInv, WInv
  <1>2. todo # <<>> /\ todo \in Seq(Seq(Scripts) \ {<<>>})
    BY <1>1 DEF TypeOK, OperatorTypes, InPlace
  <1>3. 1 \in DOMAIN todo /\ Command = todo[1]
    BY <1>2, EmptySeq DEF Command
  <1>4. Command \in Seq(Scripts) /\ at \in DOMAIN Command /\ Script = Command[at] /\ Script \in Scripts
    BY <1>1, <1>2, CommandScripts, ScriptInPlan DEF Script
  <1>5. RecordsFunds(Command)
    BY <1>1, <1>3 DEF Sound
  <1>6. Remakes(Command) # {} => FindsRecords(Command, RecordedOnes)
    <2>1. Remakes(todo[1]) # {} =>
            FindsRecords(todo[1], RecordedOnes \cup UNION {SavedBy(todo[l]) : l \in 1 .. 1 - 1})
      BY <1>1, <1>3 DEF Sound
    <2>2. RecordedOnes \cup UNION {SavedBy(todo[l]) : l \in 1 .. 1 - 1} = RecordedOnes
      OBVIOUS
    <2>3. QED BY <1>3, <2>1, <2>2
  <1>7. \A c, d \in Remakes(Command) : c = d
    BY <1>5 DEF RecordsFunds
  <1>8. QED BY <1>3, <1>4, <1>5, <1>6, <1>7

LEMMA StepFunds ==
    ASSUME HInv, NEW op, InStep(op)
    PROVE  /\ \A c \in Spends(Command) :
                /\ Deploys(Step, c) => c \in Remakes(Command)
                /\ Pays(Step, c) =>
                     /\ Step.holder = c
                     /\ \/ c \in Unsaved(Script, pc)
                        \/ c \in Settled(Script, pc) /\ (c \in Remakes(Command) => c \in SavedBefore(Command, at, pc))
           /\ \A c \in Remakes(Command) :
                /\ ~Fails(Step)
                /\ Saves(Step, {c}) => c \in Unsaved(Script, pc)
                /\ c \in Unsaved(Script, pc) =>
                     /\ c \notin SavedBefore(Command, at, pc)
                     /\ op \in {"load", "deploy"} => c \notin Step.contracts
  <1>1. at > 0 /\ pc \in DOMAIN Plan[Script] /\ Step = Plan[Script][pc] /\ Step.op = op
    BY StepInPlan DEF HInv, WInv
  <1>2. at \in DOMAIN Command /\ Script = Command[at] /\ RecordsFunds(Command)
    BY <1>1, CommandFunds
  <1>3. QED BY <1>1, <1>2 DEF RecordsFunds

(* At the end of a script nothing that is remade is unsaved.                  *)
LEMMA SavedAtTheEnd ==
    ASSUME HInv, at > 0, pc = Len(Plan[Script]) + 1, NEW c \in Remakes(Command)
    PROVE  c \notin Unsaved(Script, pc)
  <1>1. at \in DOMAIN Command /\ Script = Command[at] /\ Script \in Scripts /\ RecordsFunds(Command)
    BY CommandFunds
  <1>2. CASE pc = 1
    BY <1>2, NothingYet
  <1>3. CASE pc # 1
    <2>1. Len(Plan[Script]) \in DOMAIN Plan[Script]
      BY <1>1, <1>3, PlanLength
    <2>2. QED BY <1>1, <2>1 DEF RecordsFunds
  <1>4. QED BY <1>2, <1>3

LEMMA UnsavedIsRemade ==
    ASSUME HInv, NEW op, InStep(op), NEW c \in Spends(Command), c \in Unsaved(Script, pc)
    PROVE  c \in Remakes(Command)
  <1>1. at > 0 /\ Script \in Scripts /\ pc \in DOMAIN Plan[Script]
    BY StepInPlan DEF HInv, WInv
  <1>2. PICK i \in 1 .. pc - 1 : Deploys(Plan[Script][i], c)
    BY DEF Unsaved
  <1>3. i \in DOMAIN Plan[Script]
    BY <1>1, PlanLength
  <1>4. QED BY <1>1, <1>2, <1>3, CommandFunds DEF RecordsFunds

LEMMA UnsavedStays ==
    ASSUME NEW s \in Scripts, NEW n \in DOMAIN Plan[s], NEW c \in Unsaved(s, n),
           Plan[s][n].op \in {"load", "save"} => c \notin Plan[s][n].contracts
    PROVE  c \in Unsaved(s, n + 1)
  <1>1. n \in Nat
    BY PlanLength
  <1>2. PICK i \in 1 .. n - 1 : Deploys(Plan[s][i], c) /\ Kept(s, i, n, {"load", "save"}, c)
    BY DEF Unsaved
  <1>3. i \in 1 .. (n + 1) - 1 /\ \A k \in i + 1 .. (n + 1) - 1 : k = n \/ k \in i + 1 .. n - 1
    BY <1>1
  <1>4. Kept(s, i, n + 1, {"load", "save"}, c)
    BY <1>2, <1>3 DEF Kept
  <1>5. c \in Contracts
    BY RenewedContracts
  <1>6. QED BY <1>2, <1>3, <1>4, <1>5 DEF Unsaved

(* A transaction pays the instance that the script holds, and that is one it  *)
(* has deployed and not recorded yet, or the recorded one.                    *)
LEMMA LandPays ==
    ASSUME HInv, InStep("tx"), Land, NEW c \in DOMAIN Purse, NEW n \in Instances,
           IsFunded(c, n)', ~IsFunded(c, n)
    PROVE  /\ c \in Spends(Command) /\ n = mem[c] /\ n > 0 /\ n <= deployed[c]
           /\ \/ c \in Remakes(Command) \cap Unsaved(Script, pc)
              \/ n = recorded[c] /\ (c \in Remakes(Command) => c \in SavedBefore(Command, at, pc))
  <1>1. at > 0 /\ Script \in Scripts /\ pc \in DOMAIN Plan[Script] /\ Step = Plan[Script][pc] /\ Step.op = "tx"
        /\ Step \in Steps /\ running
    BY StepInPlan DEF HInv, WInv, InStep
  <1>2. Purse[c] \in Counters /\ c \in Contracts
    BY FundsAreRecorded
  <1>3. added[Purse[c]] \in [Instances -> Nat]
    BY <1>2 DEF HInv, WInv, TypeOK, ChainTypes
  <1>4. Purse[c] \in Step.adds /\ n = Target
    BY <1>2, <1>3 DEF Land, IsFunded
  <1>5. Pays(Step, c)
    BY <1>1, <1>4 DEF Pays
  <1>6. at \in DOMAIN Command /\ Script = Command[at]
    BY <1>1, CommandFunds
  <1>7. c \in Spends(Command)
    BY <1>1, <1>5, <1>6 DEF Spends
  <1>8. Step.holder = c /\ (c \in Unsaved(Script, pc)
          \/ (c \in Settled(Script, pc) /\ (c \in Remakes(Command) => c \in SavedBefore(Command, at, pc))))
    BY <1>5, <1>7, StepFunds
  <1>9. n = mem[c]
    BY <1>4, <1>8 DEF Target
  <1>10. n > 0 /\ n <= deployed[c]
    <2>1. c \in Holds(Script, pc)
      BY <1>1, <1>8, LoadsFirst DEF Uses
    <2>2. QED BY <1>1, <1>2, <1>9, <2>1 DEF HInv, WInv, Loaded, Known
  <1>11. c \in Settled(Script, pc) => n = recorded[c]
    BY <1>1, <1>9 DEF HInv, Current
  <1>12. QED BY <1>7, <1>8, <1>9, <1>10, <1>11, UnsavedIsRemade

LEMMA OnlyLandPays ==
    ASSUME [Next]_vars, ~(ExecuteTx \/ LoseReceipt)
    PROVE  added' = added /\ \A c, n : IsFunded(c, n)' <=> IsFunded(c, n)
  <1>1. added' = added
    BY DEF Next, Advance, RunStep, StartCommand, NextScript, EndCommand, GetDeployData, Deploy, SaveDeploymentData,
           SkipTx, SaveMigrationData, Throw, Rerun, Resume, Crash, UserChange, vars, onChain
  <1>2. QED BY <1>1 DEF IsFunded

LEMMA PaidIsHeldNext == ASSUME HInv, PaidIsHeld, [Next]_vars PROVE PaidIsHeld'
  <1>1. ASSUME NEW c \in Contracts PROVE deployed[c] \in Nat /\ deployed'[c] \in Nat /\ deployed[c] <= deployed'[c]
    <2>1. deployed[c] \in Nat /\ deployed'[c] \in Nat
      BY HInvNext DEF HInv, WInv, TypeOK, ChainTypes, Instances
    <2>2. Deploy \/ deployed' = deployed
      BY DEF Next, Advance, RunStep, StartCommand, NextScript, EndCommand, GetDeployData, SaveDeploymentData, ExecuteTx,
             SkipTx, SaveMigrationData, Throw, Rerun, Resume, LoseReceipt, Crash, UserChange, vars, onChain, Land
    <2>3. QED BY <2>1, <2>2 DEF Deploy
  <1>2. ASSUME NEW c \in DOMAIN Purse, NEW n \in Instances, IsFunded(c, n)' PROVE n > 0 /\ n <= deployed'[c]
    <2>1. c \in Contracts
      BY FundsAreRecorded
    <2>2. n > 0 /\ n <= deployed[c]
      <3>1. CASE IsFunded(c, n)
        BY <3>1 DEF PaidIsHeld
      <3>2. CASE ~IsFunded(c, n)
        BY <1>2, <3>2, LandPays, OnlyLandPays DEF ExecuteTx, LoseReceipt
      <3>3. QED BY <3>1, <3>2
    <2>3. QED BY <1>1, <2>1, <2>2 DEF Instances
  <1>3. QED BY <1>2 DEF PaidIsHeld

(* A command that is not started yet has paid nothing that it will record.    *)
LEMMA LaterUnpaidNext == ASSUME HInv, LaterUnpaid, [Next]_vars PROVE LaterUnpaid'
  <1>1. TypeOK
    BY DEF HInv, WInv
  <1>2. CASE EndCommand
    <2>1. \A j \in DOMAIN todo' : j \in Nat \ {0} /\ j + 1 \in DOMAIN todo /\ todo'[j] = todo[j + 1]
      BY <1>1, <1>2, EndingCommand
    <2>2. \A c : Unpaid(c)' <=> Unpaid(c)
      BY <1>2 DEF EndCommand, onChain, Unpaid, IsFunded
    <2>3. \A j \in DOMAIN todo' : \A c \in DOMAIN Purse \cap SavedBy(todo'[j]) : Unpaid(c)
      <3>1. \A j \in DOMAIN todo' : j + 1 > 1
        BY <2>1
      <3>2. QED BY <2>1, <3>1 DEF LaterUnpaid
    <2>4. QED BY <1>2, <2>2, <2>3 DEF LaterUnpaid, EndCommand
  <1>3. CASE StartCommand
    <2>1. UNCHANGED todo /\ at = 0 /\ at' = 1 /\ todo # <<>> /\ todo \in Seq(Seq(Scripts) \ {<<>>})
      BY <1>1, <1>3 DEF StartCommand, Enter, TypeOK, OperatorTypes
    <2>2. 1 \in DOMAIN todo /\ Command = todo[1] /\ Command' = Command
      BY <2>1, EmptySeq DEF Command
    <2>3. \A c : Unpaid(c)' <=> Unpaid(c)
      BY <1>3 DEF StartCommand, onChain, Unpaid, IsFunded
    <2>4. QED BY <2>1, <2>2, <2>3 DEF LaterUnpaid
  <1>4. CASE ExecuteTx \/ LoseReceipt
    <2>1. InStep("tx") /\ Land /\ UNCHANGED <<todo, at>>
      BY <1>4 DEF ExecuteTx, LoseReceipt, operator
    <2>2. at > 0 /\ Command' = Command
      BY <1>1, <2>1, StepInPlan DEF Command
    <2>3. 1 \in DOMAIN todo /\ Command = todo[1] /\ at \in Nat
      BY <1>1, <2>2, CommandFunds DEF TypeOK, OperatorTypes
    <2>4. ASSUME NEW c \in DOMAIN Purse, Unpaid(c), c \notin Spends(Command) PROVE Unpaid(c)'
      BY <2>1, <2>4, LandPays DEF Unpaid
    <2>5. ASSUME NEW j \in DOMAIN todo, j > 1, NEW c \in DOMAIN Purse \cap SavedBy(todo[j]) PROVE Unpaid(c)'
      <3>1. j \in Nat /\ 1 \in 1 .. j - 1
        BY <1>1, <2>5 DEF TypeOK, OperatorTypes
      <3>2. c \notin Spends(Command)
        BY <2>3, <2>5, <3>1 DEF HInv, Sound
      <3>3. QED BY <2>4, <2>5, <3>2 DEF LaterUnpaid
    <2>6. ASSUME NEW c \in DOMAIN Purse \cap SavedBy(Command), c \notin Spends(Command) PROVE Unpaid(c)'
      BY <2>2, <2>4, <2>6 DEF LaterUnpaid
    <2>7. QED BY <2>1, <2>2, <2>3, <2>5, <2>6 DEF LaterUnpaid
  <1>5. CASE ~(EndCommand \/ StartCommand \/ ExecuteTx \/ LoseReceipt)
    <2>1. UNCHANGED todo /\ (at' = at \/ at > 0)
      <3>1. CASE NextScript
        BY <1>1, <3>1 DEF NextScript, TypeOK, InPlace, OperatorTypes
      <3>2. CASE ~NextScript
        BY <1>5, <3>2 DEF Next, Advance, RunStep, GetDeployData, Deploy, SaveDeploymentData, SkipTx,
                  SaveMigrationData, Throw, Rerun, Resume, Crash, UserChange, vars, operator
      <3>3. QED BY <3>1, <3>2
    <2>2. \A c : Unpaid(c)' <=> Unpaid(c)
      BY <1>5, OnlyLandPays DEF Unpaid
    <2>3. Command' = Command
      BY <2>1 DEF Command
    <2>4. at' = 0 => at = 0
      BY <1>1, <1>5 DEF Next, Advance, RunStep, NextScript, GetDeployData, Deploy, SaveDeploymentData, SkipTx,
                  SaveMigrationData, Throw, Rerun, Resume, Crash, UserChange, vars, operator, Enter, TypeOK, OperatorTypes
    <2>5. at \in Nat /\ at' \in Nat
      BY <1>1, TypeNext DEF TypeOK, OperatorTypes
    <2>6. (at' > 0 => at > 0) /\ \A j \in DOMAIN todo : j > 1 \/ at' = 0 => j > 1 \/ at = 0
      BY <2>1, <2>4, <2>5
    <2>7. QED BY <2>1, <2>2, <2>3, <2>6 DEF LaterUnpaid
  <1>6. QED BY <1>2, <1>3, <1>4, <1>5

(* What a script holds and has paid is recorded, or is recorded later by it.  *)
LEMMA PaidStep ==
    ASSUME HInv, NEW op, InStep(op), UNCHANGED <<todo, at>>, pc' \in {pc, pc + 1}, mem' \in [Contracts -> Instances],
           \A c \in DOMAIN Purse, n \in Instances : IsFunded(c, n)' /\ n = mem'[c] =>
               \/ n = recorded'[c]
               \/ c \in Remakes(Command) \cap Unsaved(Script, pc) /\ (op \in {"load", "save"} => c \notin Step.contracts)
    PROVE  PaidIsRecorded'
  <1>1. Script \in Scripts /\ pc \in DOMAIN Plan[Script] /\ Step = Plan[Script][pc] /\ Step.op = op
    BY StepInPlan DEF HInv, WInv
  <1>2. Script' = Script /\ Command' = Command
    BY DEF Script, Command
  <1>3. ASSUME NEW c \in DOMAIN Purse, IsFunded(c, mem[c])'
        PROVE  mem'[c] = recorded'[c] \/ c \in Remakes(Command) \cap Unsaved(Script, pc')
    <2>1. PICK n \in Instances : n = mem'[c]
      BY FundsAreRecorded
    <2>2. IsFunded(c, n)'
      BY <1>3, <2>1 DEF IsFunded
    <2>3. CASE n = recorded'[c]
      BY <2>1, <2>3
    <2>4. CASE n # recorded'[c]
      <3>1. c \in Remakes(Command) \cap Unsaved(Script, pc) /\ (op \in {"load", "save"} => c \notin Step.contracts)
        BY <2>1, <2>2, <2>4
      <3>2. c \in Unsaved(Script, pc + 1)
        BY <1>1, <3>1, UnsavedStays
      <3>3. QED BY <3>1, <3>2
    <2>5. QED BY <2>3, <2>4
  <1>4. QED BY <1>2, <1>3 DEF PaidIsRecorded

LEMMA PaidNow ==
    ASSUME PaidIsRecorded, running, NEW c \in DOMAIN Purse, NEW n, n = mem[c], IsFunded(c, n)
    PROVE  n = recorded[c] \/ c \in Remakes(Command) \cap Unsaved(Script, pc)
  BY DEF PaidIsRecorded

LEMMA PaidIsRecordedNext == ASSUME HInv, PaidIsHeld, PaidIsHeld', PaidIsRecorded, [Next]_vars PROVE PaidIsRecorded'
  <1>1. TypeOK /\ mem' \in [Contracts -> Instances] /\ DOMAIN Purse \subseteq Contracts
    BY HInvNext, FundsAreRecorded DEF HInv, WInv, TypeOK, ProcessTypes
  <1>2. CASE UNCHANGED vars \/ UserChange
    <2>1. UNCHANGED <<todo, at, running, pc, mem, recorded, added>>
      BY <1>2 DEF vars, UserChange, operator, process, disk, onChain
    <2>2. UNCHANGED <<Script, Command>>
      BY <2>1 DEF Script, Command
    <2>3. QED BY <2>1, <2>2 DEF PaidIsRecorded, IsFunded
  <1>3. CASE \E s, t : Enter(s, t)
    <2>1. ASSUME NEW c \in DOMAIN Purse PROVE ~IsFunded(c, mem[c])'
      <3>1. mem'[c] = 0 /\ 0 \in Instances
        BY <1>1, <1>3, Bounds DEF Enter, Nowhere
      <3>2. ~IsFunded(c, 0)'
        BY <3>1 DEF PaidIsHeld
      <3>3. QED BY <3>1, <3>2 DEF IsFunded
    <2>2. QED BY <2>1 DEF PaidIsRecorded
  <1>4. CASE ~running'
    BY <1>4 DEF PaidIsRecorded
  <1>5. CASE running' /\ (ExecuteTx \/ LoseReceipt \/ SkipTx \/ SaveMigrationData)
    <2>1. PICK op \in {"tx", "track"} : InStep(op)
      BY <1>5 DEF ExecuteTx, LoseReceipt, SkipTx, SaveMigrationData
    <2>2. UNCHANGED <<todo, at, mem, recorded>> /\ pc' \in {pc, pc + 1}
      BY <1>5 DEF ExecuteTx, LoseReceipt, SkipTx, SaveMigrationData, Proceed, Goto, Abort, operator, disk
    <2>3. ASSUME NEW c \in DOMAIN Purse, NEW n \in Instances, IsFunded(c, n)', n = mem[c]
          PROVE  n = recorded[c] \/ c \in Remakes(Command) \cap Unsaved(Script, pc)
      <3>1. CASE IsFunded(c, n)
        BY <2>1, <2>3, <3>1, PaidNow DEF InStep
      <3>2. CASE ~IsFunded(c, n)
        BY <2>3, <3>2, LandPays, OnlyLandPays DEF ExecuteTx, LoseReceipt
      <3>3. QED BY <3>1, <3>2
    <2>4. QED BY <1>1, <2>1, <2>2, <2>3, PaidStep
  <1>6. CASE running' /\ GetDeployData
    <2>1. InStep("load") /\ UNCHANGED <<todo, at, recorded>> /\ running /\ \A c, n : IsFunded(c, n)' <=> IsFunded(c, n)
      BY <1>6 DEF GetDeployData, operator, disk, onChain, InStep, IsFunded
    <2>2. pc' = pc + 1 /\ mem' = [c \in Contracts |-> IF c \in Step.contracts THEN recorded[c] ELSE mem[c]]
      BY <1>6 DEF GetDeployData, Abort
    <2>3. ASSUME NEW c \in DOMAIN Purse, NEW n \in Instances, IsFunded(c, n)', n = mem'[c]
          PROVE  n = recorded[c] \/ (c \in Remakes(Command) \cap Unsaved(Script, pc) /\ c \notin Step.contracts)
      BY <1>1, <2>1, <2>2, <2>3, PaidNow
    <2>4. QED BY <1>1, <2>1, <2>2, <2>3, PaidStep
  <1>7. CASE Deploy
    <2>1. InStep("deploy") /\ UNCHANGED <<todo, at, recorded>> /\ pc' = pc + 1 /\ running
          /\ \A c, n : IsFunded(c, n)' <=> IsFunded(c, n)
      BY <1>7 DEF Deploy, operator, disk, InStep, IsFunded
    <2>2. ASSUME NEW c \in DOMAIN Purse, NEW n \in Instances, IsFunded(c, n)', n = mem'[c]
          PROVE  n = recorded[c] \/ c \in Remakes(Command) \cap Unsaved(Script, pc)
      <3>1. CASE c \in Step.contracts
        <4>1. n = deployed[c] + 1 /\ deployed[c] \in Nat
          BY <1>1, <1>7, <2>2, <3>1 DEF Deploy, TypeOK, ChainTypes, Instances
        <4>2. n <= deployed[c]
          BY <2>1, <2>2 DEF PaidIsHeld
        <4>3. QED BY <4>1, <4>2
      <3>2. CASE c \notin Step.contracts
        <4>1. n = mem[c]
          BY <1>1, <1>7, <2>2, <3>2 DEF Deploy
        <4>2. QED BY <2>1, <2>2, <4>1, PaidNow
      <3>3. QED BY <3>1, <3>2
    <2>3. QED BY <1>1, <2>1, <2>2, PaidStep
  <1>8. CASE SaveDeploymentData
    <2>1. InStep("save") /\ UNCHANGED <<todo, at, mem>> /\ pc' = pc + 1 /\ running
          /\ \A c, n : IsFunded(c, n)' <=> IsFunded(c, n)
      BY <1>8 DEF SaveDeploymentData, Proceed, Goto, operator, onChain, InStep, IsFunded
    <2>2. ASSUME NEW c \in DOMAIN Purse, NEW n \in Instances, IsFunded(c, n)', n = mem[c]
          PROVE  n = recorded'[c] \/ (c \in Remakes(Command) \cap Unsaved(Script, pc) /\ c \notin Step.contracts)
      <3>1. recorded'[c] = IF c \in Step.contracts THEN mem[c] ELSE recorded[c]
        BY <1>1, <1>8 DEF SaveDeploymentData
      <3>2. QED BY <2>1, <2>2, <3>1, PaidNow
    <2>3. QED BY <1>1, <2>1, <2>2, PaidStep
  <1>9. StartCommand \/ NextScript \/ EndCommand \/ Throw \/ Crash \/ Rerun \/ Resume
          => ~running' \/ \E s, t : Enter(s, t)
    BY DEF StartCommand, NextScript, EndCommand, Throw, Crash, Rerun, Resume, Abort
  <1>10. running' \in BOOLEAN
    BY <1>1, TypeNext DEF TypeOK, ProcessTypes
  <1>11. QED
    BY <1>2, <1>3, <1>4, <1>5, <1>6, <1>7, <1>8, <1>9, <1>10 DEF Next, Advance, RunStep

LEMMA PInvInit == Init => PInv
  <1> SUFFICES ASSUME Init PROVE PInv
    OBVIOUS
  <1>1. ASSUME NEW c \in DOMAIN Purse, NEW n \in Instances PROVE ~IsFunded(c, n)
    BY FundsAreRecorded DEF Init, IsFunded
  <1>2. PaidIsHeld /\ PaidIsRecorded /\ LaterUnpaid
    BY <1>1 DEF Init, PaidIsHeld, PaidIsRecorded, LaterUnpaid, Unpaid
  <1>3. QED BY <1>2, HInvInit DEF PInv

LEMMA PInvNext == ASSUME PInv, [Next]_vars PROVE PInv'
  BY HInvNext, PaidIsHeldNext, PaidIsRecordedNext, LaterUnpaidNext DEF PInv

(* While a script goes on nothing comes at risk.                              *)
LEMMA RiskStep ==
    ASSUME PInv, NEW op, InStep(op), UNCHANGED <<todo, at, recorded>>, running', pc' \in {pc, pc + 1},
           NEW c \in DOMAIN Purse, NEW n \in 1 .. MaxInstances, IsAtRisk(c, n)',
           (op \in {"load", "deploy"} /\ c \in Step.contracts) \/ mem'[c] = mem[c],
           IsFunded(c, n) \/ (op = "tx" /\ Land)
    PROVE  IsAtRisk(c, n)
  <1>1. HInv /\ TypeOK /\ running /\ at > 0 /\ at \in Nat /\ pc \in Nat /\ n \in Instances /\ c \in Contracts
    BY StepInPlan, Bounds, FundsAreRecorded DEF PInv, HInv, WInv, TypeOK, OperatorTypes, ProcessTypes, InStep, Instances
  <1>2. Command' = Command /\ Command \in Seq(Scripts)
    BY <1>1, CommandFunds DEF Command
  <1>3. SavedBefore(Command, at, pc) \subseteq SavedBefore(Command, at, pc')
    BY <1>1, <1>2, SavedLater
  <1>4. IsFunded(c, n)'
    BY DEF IsAtRisk
  <1>5. n = recorded[c] => c \in Remakes(Command) /\ c \notin SavedBefore(Command, at, pc)
    BY <1>2, <1>3 DEF IsAtRisk, Passed
  <1>6. n # recorded[c] => n # mem'[c]
    BY DEF IsAtRisk
  <1>7. CASE IsFunded(c, n)
    <2>1. CASE n = recorded[c]
      BY <1>1, <1>5, <1>7, <2>1 DEF IsAtRisk, Passed
    <2>2. CASE n # recorded[c]
      <3>1. ASSUME n = mem[c] PROVE FALSE
        <4>1. c \in Remakes(Command) \cap Unsaved(Script, pc)
          BY <1>1, <1>7, <2>2, <3>1, PaidNow DEF PInv
        <4>2. ~(op \in {"load", "deploy"} /\ c \in Step.contracts)
          BY <1>1, <4>1, StepFunds
        <4>3. QED BY <1>6, <2>2, <3>1, <4>2
      <3>2. QED BY <1>7, <2>2, <3>1 DEF IsAtRisk
    <2>3. QED BY <2>1, <2>2
  <1>8. CASE ~IsFunded(c, n)
    <2>1. op = "tx" /\ Land /\ mem'[c] = mem[c]
      BY <1>8
    <2>2. /\ n = mem[c]
          /\ \/ c \in Remakes(Command) \cap Unsaved(Script, pc)
             \/ n = recorded[c] /\ (c \in Remakes(Command) => c \in SavedBefore(Command, at, pc))
      BY <1>1, <1>4, <1>8, <2>1, LandPays
    <2>3. n = recorded[c]
      BY <1>6, <2>1, <2>2
    <2>4. c \in Unsaved(Script, pc)
      BY <1>5, <2>2, <2>3
    <2>5. mem[c] > recorded[c] /\ mem[c] \in Nat
      BY <1>1, <2>2, <2>4 DEF HInv, Newest
    <2>6. QED BY <2>2, <2>3, <2>5
  <1>9. QED BY <1>7, <1>8

(* What a save replaces in the record was at risk already.                    *)
LEMMA RiskSave ==
    ASSUME PInv, SaveDeploymentData, NEW c \in DOMAIN Purse, NEW n \in 1 .. MaxInstances, IsAtRisk(c, n)'
    PROVE  IsAtRisk(c, n)
  <1>1. InStep("save") /\ UNCHANGED <<todo, at, mem, running, added>> /\ pc' = pc + 1 /\ running
    BY DEF SaveDeploymentData, Proceed, Goto, operator, onChain, InStep
  <1>2. HInv /\ TypeOK /\ at > 0 /\ at \in Nat /\ pc \in Nat /\ n \in Instances /\ c \in Contracts
    BY <1>1, StepInPlan, Bounds, FundsAreRecorded DEF PInv, HInv, WInv, TypeOK, OperatorTypes, ProcessTypes, Instances
  <1>3. /\ Command' = Command /\ Command \in Seq(Scripts) /\ at \in DOMAIN Command /\ Script = Command[at]
        /\ pc \in DOMAIN Plan[Script] /\ Step = Plan[Script][pc] /\ Step.op = "save"
    BY <1>1, <1>2, CommandFunds, StepInPlan DEF Command
  <1>4. IsFunded(c, n)
    BY <1>1 DEF IsAtRisk, IsFunded
  <1>5. recorded'[c] = IF c \in Step.contracts THEN mem[c] ELSE recorded[c]
    BY <1>2 DEF SaveDeploymentData
  <1>6. CASE c \notin Step.contracts
    <2>1. c \in SavedBefore(Command, at, pc) => c \in SavedBefore(Command, at, pc + 1)
      BY <1>2, <1>3, SavedNext
    <2>2. QED BY <1>1, <1>3, <1>4, <1>5, <1>6, <2>1 DEF IsAtRisk, Passed
  <1>7. CASE c \in Step.contracts
    <2>1. Saves(Step, {c})
      BY <1>3, <1>7 DEF Saves
    <2>2. c \in SavedBefore(Command, at, pc + 1) /\ c \in SavedBy(Command)
      BY <1>2, <1>3, <2>1, SavedNext, SavedCommand
    <2>3. n # mem[c]
      BY <1>1, <1>3, <1>5, <1>7, <2>2 DEF IsAtRisk, Passed
    <2>4. c \in Spends(Command)
      BY <1>2, <1>4, <2>2 DEF PInv, LaterUnpaid, Unpaid
    <2>5. c \in Remakes(Command)
      BY <2>2, <2>4 DEF Remakes
    <2>6. c \notin SavedBefore(Command, at, pc)
      BY <1>1, <1>2, <2>1, <2>5, StepFunds
    <2>7. QED BY <1>2, <1>4, <2>3, <2>5, <2>6 DEF IsAtRisk, Passed
  <1>8. QED BY <1>6, <1>7

(* A script that starts holds nothing, as did the one before at its end.      *)
LEMMA RiskEnter ==
    ASSUME PInv, StartCommand \/ NextScript \/ EndCommand \/ Rerun \/ Resume,
           NEW c \in DOMAIN Purse, NEW n \in 1 .. MaxInstances, IsAtRisk(c, n)'
    PROVE  IsAtRisk(c, n)
  <1>1. UNCHANGED <<recorded, added>> /\ (EndCommand \/ UNCHANGED todo)
    BY DEF StartCommand, NextScript, EndCommand, Rerun, Resume, disk, onChain
  <1>2. HInv /\ TypeOK /\ at \in Nat /\ pc \in Nat /\ n \in Instances /\ IsFunded(c, n) /\ c \in Contracts
    BY <1>1, Bounds, FundsAreRecorded DEF PInv, HInv, WInv, TypeOK, OperatorTypes, ProcessTypes, Instances, IsAtRisk, IsFunded
  <1>3. Command' = Command \/ EndCommand
    BY <1>1 DEF Command
  <1>4. CASE StartCommand
    <2>1. at = 0 /\ ~running /\ todo # <<>> /\ todo \in Seq(Seq(Scripts) \ {<<>>})
      BY <1>2, <1>4 DEF StartCommand, TypeOK, InPlace, OperatorTypes
    <2>2. 1 \in DOMAIN todo /\ Command = todo[1] /\ Command' = Command
      BY <1>4, <2>1, EmptySeq DEF Command, StartCommand
    <2>3. c \notin SavedBy(Command)
      BY <1>2, <2>1, <2>2 DEF PInv, LaterUnpaid, Unpaid
    <2>4. n # recorded[c]
      BY <1>1, <2>2, <2>3 DEF IsAtRisk, Remakes
    <2>5. QED BY <1>2, <2>1, <2>4 DEF IsAtRisk
  <1>5. CASE NextScript \/ EndCommand
    <2>1. running /\ at # 0 /\ at > 0 /\ pc = Len(Plan[Script]) + 1
      <3>1. running /\ at # 0 /\ pc > Len(Plan[Script]) /\ pc <= Len(Plan[Script]) + 1
        BY <1>2, <1>5 DEF NextScript, EndCommand, TypeOK, InPlace
      <3>2. Len(Plan[Script]) \in Nat
        BY <1>2, <3>1, ScriptInPlan
      <3>3. QED BY <1>2, <3>1, <3>2
    <2>2. n = mem[c] => n = recorded[c]
      BY <1>2, <2>1, PaidNow, SavedAtTheEnd DEF PInv
    <2>3. CASE n # recorded[c]
      BY <1>2, <2>2, <2>3 DEF IsAtRisk
    <2>4. CASE n = recorded[c]
      <3>1. at' > 0 /\ NextScript
        BY <1>1, <1>5, <2>4 DEF IsAtRisk, EndCommand
      <3>2. at' = at + 1 /\ pc' = 1 /\ running' /\ Command' = Command
        BY <1>1, <3>1 DEF NextScript, Enter, Command
      <3>3. Command \in Seq(Scripts) /\ at \in DOMAIN Command /\ Script = Command[at]
        BY <1>2, <2>1, CommandFunds
      <3>4. SavedBefore(Command, at, pc) = SavedBefore(Command, at + 1, 1)
        BY <2>1, <3>3, SavedScript
      <3>5. QED BY <1>1, <1>2, <2>1, <2>4, <3>2, <3>4 DEF IsAtRisk, Passed
    <2>5. QED BY <2>3, <2>4
  <1>6. CASE Rerun \/ Resume
    <2>1. at > 0 /\ ~running /\ Command' = Command
      BY <1>6 DEF Rerun, Resume, Command
    <2>2. QED BY <1>1, <1>2, <2>1 DEF IsAtRisk, Passed
  <1>7. QED BY <1>4, <1>5, <1>6

(* When a process ends before its script does, the one contract that the      *)
(* command remakes may come at risk, in one instance.                         *)
AtStake(c, n) == c \in Remakes(Command) /\ n = IF c \in Unsaved(Script, pc) THEN mem[c] ELSE recorded[c]

LEMMA RiskAbort ==
    ASSUME PInv, running, Abort, UNCHANGED <<todo, at, recorded>>,
           NEW c \in DOMAIN Purse, NEW n \in 1 .. MaxInstances, IsAtRisk(c, n)', ~IsAtRisk(c, n),
           IsFunded(c, n) \/ (InStep("tx") /\ Land)
    PROVE  AtStake(c, n)
  <1>1. HInv /\ TypeOK /\ at \in Nat /\ at # 0 /\ pc \in Nat /\ pc <= Len(Plan[Script]) + 1 /\ n \in Instances
    BY Bounds DEF PInv, HInv, WInv, TypeOK, OperatorTypes, ProcessTypes, InPlace, Instances
  <1>2. IsFunded(c, n)' /\ (n = recorded[c] => c \in Remakes(Command))
    BY DEF IsAtRisk, Command
  <1>3. c \in Remakes(Command) /\ c \in Unsaved(Script, pc) => c \notin SavedBefore(Command, at, pc)
    <2>1. CASE pc = Len(Plan[Script]) + 1
      BY <1>1, <2>1, SavedAtTheEnd
    <2>2. CASE pc # Len(Plan[Script]) + 1
      <3>1. InStep(Step.op)
        BY <1>1, <2>2, ScriptInPlan DEF InStep
      <3>2. QED BY <1>1, <3>1, StepFunds
    <2>3. QED BY <2>1, <2>2
  <1>4. CASE IsFunded(c, n)
    <2>1. CASE n = recorded[c]
      <3>1. c \in SavedBefore(Command, at, pc)
        BY <1>1, <1>2, <1>4, <2>1 DEF IsAtRisk, Passed
      <3>2. QED BY <1>2, <1>3, <2>1, <3>1 DEF AtStake
    <2>2. CASE n # recorded[c]
      <3>1. n = mem[c]
        BY <1>4, <2>2 DEF IsAtRisk
      <3>2. QED BY <1>4, <2>2, <3>1, PaidNow DEF PInv, AtStake
    <2>3. QED BY <2>1, <2>2
  <1>5. CASE ~IsFunded(c, n)
    <2>1. /\ n = mem[c]
          /\ \/ c \in Remakes(Command) \cap Unsaved(Script, pc)
             \/ n = recorded[c] /\ (c \in Remakes(Command) => c \in SavedBefore(Command, at, pc))
      BY <1>1, <1>2, <1>5, LandPays
    <2>2. QED BY <1>2, <1>3, <2>1 DEF AtStake
  <1>6. QED BY <1>4, <1>5

(* A command that remakes a contract does not end before its time by itself.  *)
LEMMA RemakesRun ==
    ASSUME PInv, Throw \/ (GetDeployData /\ ~running'), NEW c
    PROVE  c \notin Remakes(Command)
  <1>1. HInv
    BY DEF PInv
  <1>2. CASE Throw
    <2>1. PICK op \in {"throw", "tx"} : InStep(op) /\ (op = "throw" \/ Refused)
      BY <1>2 DEF Throw, Refused
    <2>2. Fails(Step)
      BY <2>1 DEF Refused, Reverts, Fails, InStep
    <2>3. QED BY <1>1, <2>1, <2>2, StepFunds
  <1>3. CASE GetDeployData /\ ~running'
    <2>1. InStep("load") /\ running /\ ~\A d \in Step.contracts : recorded[d] > 0
      BY <1>3 DEF GetDeployData, InStep
    <2>2. at > 0 /\ pc \in DOMAIN Plan[Script] /\ Step = Plan[Script][pc] /\ Step.op = "load"
      BY <1>1, <2>1, StepInPlan DEF HInv, WInv
    <2>3. /\ Remakes(Command) # {} => FindsRecords(Command, RecordedOnes)
          /\ at \in DOMAIN Command /\ Script = Command[at]
      BY <1>1, <2>2, CommandFunds
    <2>4. Remakes(Command) # {} => Step.contracts \subseteq RecordedOnes \cup SavedBefore(Command, at, pc)
      BY <2>2, <2>3 DEF FindsRecords
    <2>5. SavedBefore(Command, at, pc) \subseteq RecordedOnes
      BY <1>1, <2>2 DEF HInv, SavedIsRecorded
    <2>6. QED BY <2>1, <2>4, <2>5 DEF RecordedOnes
  <1>4. QED BY <1>2, <1>3

LEMMA RiskKept ==
    ASSUME PInv, [Next]_vars, ~Crash, ~(LoseReceipt /\ ~running'),
           NEW c \in DOMAIN Purse, NEW n \in 1 .. MaxInstances, IsAtRisk(c, n)'
    PROVE  IsAtRisk(c, n)
  <1>1. TypeOK /\ running \in BOOLEAN /\ running' \in BOOLEAN /\ c \in Contracts
    BY TypeNext, FundsAreRecorded DEF PInv, HInv, WInv, TypeOK, ProcessTypes
  <1>2. CASE UNCHANGED vars \/ UserChange
    <2>1. UNCHANGED <<todo, at, running, pc, mem, recorded, added>>
      BY <1>2 DEF vars, UserChange, operator, process, disk, onChain
    <2>2. QED BY <2>1 DEF IsAtRisk, IsFunded, Passed, Command
  <1>3. CASE SaveDeploymentData
    BY <1>3, RiskSave
  <1>4. CASE running' /\ (ExecuteTx \/ LoseReceipt \/ SkipTx \/ SaveMigrationData)
    <2>1. PICK op \in {"tx", "track"} : InStep(op) /\ (ExecuteTx \/ LoseReceipt => op = "tx" /\ Land)
      BY <1>4 DEF ExecuteTx, LoseReceipt, SkipTx, SaveMigrationData
    <2>2. UNCHANGED <<todo, at, mem, recorded>> /\ pc' \in {pc, pc + 1}
      BY <1>4 DEF ExecuteTx, LoseReceipt, SkipTx, SaveMigrationData, Proceed, Goto, Abort, operator, disk
    <2>3. IsFunded(c, n) \/ (op = "tx" /\ Land)
      BY <2>1, OnlyLandPays DEF IsAtRisk
    <2>4. QED BY <1>4, <2>1, <2>2, <2>3, RiskStep
  <1>5. CASE running' /\ (GetDeployData \/ Deploy)
    <2>1. PICK op \in {"load", "deploy"} : InStep(op)
      BY <1>5 DEF GetDeployData, Deploy
    <2>2. UNCHANGED <<todo, at, recorded>> /\ pc' \in {pc, pc + 1} /\ IsFunded(c, n)
      BY <1>5 DEF GetDeployData, Deploy, Abort, operator, disk, onChain, IsAtRisk, IsFunded
    <2>3. c \in Step.contracts \/ mem'[c] = mem[c]
      BY <1>1, <1>5 DEF GetDeployData, Deploy, Abort
    <2>4. QED BY <1>5, <2>1, <2>2, <2>3, RiskStep
  <1>6. CASE Throw \/ (GetDeployData /\ ~running')
    <2>1. running /\ Abort /\ UNCHANGED <<todo, at, recorded>> /\ IsFunded(c, n)
      BY <1>6 DEF Throw, Refused, GetDeployData, InStep, operator, disk, onChain, IsAtRisk, IsFunded
    <2>2. QED BY <1>6, <2>1, RiskAbort, RemakesRun DEF AtStake
  <1>7. ~running' /\ (ExecuteTx \/ SkipTx \/ SaveMigrationData \/ Deploy) => FALSE
    BY DEF ExecuteTx, SkipTx, SaveMigrationData, Deploy, Proceed, Goto, InStep
  <1>8. QED
    BY <1>1, <1>2, <1>3, <1>4, <1>5, <1>6, <1>7, RiskEnter DEF Next, Advance, RunStep

LEMMA RiskFault ==
    ASSUME PInv, Crash \/ (LoseReceipt /\ ~running'),
           NEW c \in DOMAIN Purse, NEW n \in 1 .. MaxInstances, IsAtRisk(c, n)', ~IsAtRisk(c, n)
    PROVE  AtStake(c, n)
  <1>1. running /\ Abort /\ UNCHANGED <<todo, at, recorded>>
    BY DEF Crash, LoseReceipt, InStep, Goto, operator, disk
  <1>2. IsFunded(c, n) \/ (InStep("tx") /\ Land)
    BY DEF Crash, LoseReceipt, onChain, IsAtRisk, IsFunded
  <1>3. QED BY <1>1, <1>2, RiskAbort

LEMMA OneAtStake ==
    ASSUME PInv, at > 0, NEW c, NEW n, NEW d, NEW m, AtStake(c, n), AtStake(d, m)
    PROVE  c = d /\ n = m
  <1>1. c = d
    BY CommandFunds DEF PInv, AtStake
  <1>2. QED BY <1>1 DEF AtStake

LEMMA CountRisk ==
    ASSUME IsFiniteSet(AtRisk), Cardinality(AtRisk) <= faults, faults \in Nat, faults' \in Nat,
           NEW x, \/ AtRisk' \subseteq AtRisk /\ faults' >= faults
                  \/ AtRisk' \subseteq AtRisk \cup {x} /\ faults' = faults + 1
    PROVE  IsFiniteSet(AtRisk)' /\ (Cardinality(AtRisk) <= faults)'
  <1>1. Cardinality(AtRisk) \in Nat
    BY FS_CardinalityType
  <1>2. IsFiniteSet(AtRisk \cup {x}) /\ Cardinality(AtRisk \cup {x}) \in Nat
        /\ Cardinality(AtRisk \cup {x}) <= Cardinality(AtRisk) + 1
    BY <1>1, FS_AddElement
  <1>3. CASE AtRisk' \subseteq AtRisk /\ faults' >= faults
    <2>1. IsFiniteSet(AtRisk') /\ Cardinality(AtRisk') <= Cardinality(AtRisk) /\ Cardinality(AtRisk') \in Nat
      BY <1>3, FS_Subset, FS_CardinalityType
    <2>2. QED BY <1>1, <1>3, <2>1
  <1>4. CASE AtRisk' \subseteq AtRisk \cup {x} /\ faults' = faults + 1
    <2>1. IsFiniteSet(AtRisk') /\ Cardinality(AtRisk') <= Cardinality(AtRisk \cup {x}) /\ Cardinality(AtRisk') \in Nat
      BY <1>2, <1>4, FS_Subset, FS_CardinalityType
    <2>2. QED BY <1>1, <1>2, <1>4, <2>1
  <1>5. QED BY <1>3, <1>4

LEMMA OInvInit == Init => OInv
  <1> SUFFICES ASSUME Init PROVE OInv
    OBVIOUS
  <1>1. ASSUME NEW c \in DOMAIN Purse, NEW n \in 1 .. MaxInstances PROVE ~IsFunded(c, n)
    BY FundsAreRecorded, Bounds DEF Init, IsFunded, Instances
  <1>2. AtRisk = {}
    BY <1>1 DEF AtRisk, IsAtRisk
  <1>3. IsFiniteSet(AtRisk) /\ Cardinality(AtRisk) = 0 /\ faults = 0
    BY <1>2, FS_EmptySet DEF Init
  <1>4. QED BY <1>3, PInvInit DEF OInv

LEMMA OInvNext == ASSUME OInv, [Next]_vars PROVE OInv'
  <1>1. PInv /\ PInv' /\ faults \in Nat /\ faults' \in Nat
    BY PInvNext, Bounds DEF OInv, PInv, HInv, WInv, TypeOK, BoundTypes
  <1>2. CASE ~Crash /\ ~(LoseReceipt /\ ~running')
    <2>1. AtRisk' \subseteq AtRisk
      BY <1>1, <1>2, RiskKept DEF AtRisk
    <2>2. faults' >= faults
      BY <1>1 DEF Next, Advance, RunStep, StartCommand, NextScript, EndCommand, GetDeployData, Deploy, SaveDeploymentData,
              ExecuteTx, SkipTx, SaveMigrationData, Throw, Rerun, Resume, LoseReceipt, Crash, UserChange, vars
    <2>3. QED BY <1>1, <2>1, <2>2, CountRisk DEF OInv
  <1>3. CASE Crash \/ (LoseReceipt /\ ~running')
    <2>1. faults' = faults + 1 /\ running /\ at > 0
      <3>1. faults' = faults + 1 /\ running
        BY <1>3 DEF Crash, LoseReceipt, InStep
      <3>2. QED BY <1>1, <3>1 DEF PInv, HInv, WInv, TypeOK, InPlace, OperatorTypes
    <2>2. CASE AtRisk' \subseteq AtRisk
      BY <1>1, <2>1, <2>2, CountRisk DEF OInv
    <2>3. CASE ~(AtRisk' \subseteq AtRisk)
      <3>1. PICK x \in AtRisk' : x \notin AtRisk
        BY <2>3
      <3>2. x \in (DOMAIN Purse) \X (1 .. MaxInstances) /\ AtStake(x[1], x[2])
        BY <1>1, <1>3, <3>1, RiskFault DEF AtRisk
      <3>3. ASSUME NEW y \in AtRisk', y \notin AtRisk PROVE y = x
        <4>1. y \in (DOMAIN Purse) \X (1 .. MaxInstances) /\ AtStake(y[1], y[2])
          BY <1>1, <1>3, <3>3, RiskFault DEF AtRisk
        <4>2. y[1] = x[1] /\ y[2] = x[2]
          BY <1>1, <2>1, <3>2, <4>1, OneAtStake
        <4>3. QED BY <3>2, <4>1, <4>2
      <3>4. AtRisk' \subseteq AtRisk \cup {x}
        BY <3>3
      <3>5. QED BY <1>1, <2>1, <3>4, CountRisk DEF OInv
    <2>4. QED BY <2>2, <2>3
  <1>4. QED BY <1>2, <1>3

(* However often commands are interrupted and run again, no more contracts    *)
(* are left with funds and without a record than there were crashes and lost  *)
(* receipts: a rerun loses one funded instance at most, and only the one      *)
(* contract that the command deploys, funds and records.                      *)
(* (S_vesting.js:69-84, Q_community_incentives.js:146-171: saved at the end)  *)
THEOREM OrphansCostFaults == Spec => []OrphansAreFaults
  <1>1. OInv => OrphansAreFaults
    <2> SUFFICES ASSUME OInv PROVE OrphansAreFaults
      OBVIOUS
    <2>1. Orphans \subseteq AtRisk
      BY DEF Orphans, AtRisk, IsAtRisk
    <2>2. IsFiniteSet(AtRisk) /\ Cardinality(AtRisk) <= faults /\ faults \in Nat
      BY Bounds DEF OInv, PInv, HInv, WInv, TypeOK, BoundTypes
    <2>3. Cardinality(Orphans) <= Cardinality(AtRisk) /\ Cardinality(Orphans) \in Nat /\ Cardinality(AtRisk) \in Nat
      BY <2>1, <2>2, FS_Subset, FS_CardinalityType
    <2>4. QED BY <2>2, <2>3 DEF OrphansAreFaults
  <1>2. QED BY <1>1, OInvInit, OInvNext, PTL DEF Spec
===============================================================================
