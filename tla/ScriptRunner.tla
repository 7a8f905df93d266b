----------------------------- MODULE ScriptRunner -----------------------------
(* How deploy/*.js and js-helpers run: hardhat executes the scripts of a      *)
(* command in order, each a sequence of steps that read and write the         *)
(* deployment records, deploy contracts and send transactions.  Between any   *)
(* two steps the process may die, and a transaction may take effect while its *)
(* receipt is lost; the operator then runs the command again.                 *)
(*                                                                            *)
(* The scripts themselves are data: Plan, see ScriptPlans and ProtocolScripts. *)
EXTENDS ScriptPlans

VARIABLES
    \* the operator
    todo,       \* commands that are not complete; the first one is in progress
    at,         \* the script of the first command that is in progress, 0: none
    reruns,     \* how often a command was started again
    \* the process
    running,    \* FALSE while no process runs
    pc,         \* the step of the script
    skipTo,     \* __skipTo: the step at which transactions are sent again, 0: none
    mem,        \* the contracts the script holds in its variables
    \* the disk
    recorded,   \* deployments/<network>/*.json
    tracked,    \* migration_data/<network>/*.json
    \* the chain
    deployed,   \* instances of every contract
    wire,       \* what slots of instances are set to: <<slot, instance, value>>
    added,      \* how often a transaction that adds has landed
    \* the environment
    faults, userChanges, overwritten

operator == <<todo, at, reruns>>
process == <<running, pc, skipTo, mem>>
disk == <<recorded, tracked>>
onChain == <<deployed, wire, added>>
users == <<userChanges, overwritten>>
vars == <<operator, process, disk, onChain, faults, users>>

Nowhere == [c \in Contracts |-> 0]
Command == Head(todo)
Script == Command[at]
Step == Plan[Script][pc]
InStep(op) == running /\ pc <= Len(Plan[Script]) /\ Step.op = op

Init ==
    /\ todo \in Agendas /\ at = 0 /\ reruns = 0
    /\ running = FALSE /\ pc = 1 /\ skipTo = 0 /\ mem = Nowhere
    /\ deployed = [c \in Contracts |-> IF c \in Legacy[todo] THEN 1 ELSE 0]
    /\ recorded = deployed /\ tracked = {}
    /\ wire = {<<need[2], 1, <<need[3], 1>>>> : need \in {x \in Needs : {x[1], x[3]} \subseteq Legacy[todo]}}
    /\ added = [s \in Counters |-> [n \in Instances |-> 0]]
    /\ faults = 0 /\ userChanges = 0 /\ overwritten = 0

-------------------------------------------------------------------------------
(* Scripts start and end.                                                     *)

\* mutant of Enter: the script goes on in the middle, without loading anything
EnterAt(script, target) ==
    /\ at' = script /\ running' = TRUE
    /\ pc' = (IF target > 0 THEN target ELSE 1) /\ skipTo' = 0 /\ mem' = Nowhere
Enter(script, target) ==
    /\ at' = script /\ running' = TRUE
    /\ pc' = 1 /\ skipTo' = target /\ mem' = Nowhere

StartCommand ==
    /\ at = 0 /\ todo # <<>>
    /\ Enter(1, 0)
    /\ UNCHANGED <<todo, reruns, disk, onChain, faults, users>>

NextScript ==
    /\ running /\ pc > Len(Plan[Script]) /\ at < Len(Command)
    /\ Enter(at + 1, 0)
    /\ UNCHANGED <<todo, reruns, disk, onChain, faults, users>>

\* mutant of EndCommand: the process goes on after the last script
EndCommandRunning ==
    /\ running /\ pc > Len(Plan[Script]) /\ at = Len(Command)
    /\ todo' = Tail(todo) /\ at' = 0 /\ pc' = 1
    /\ UNCHANGED <<running, skipTo, mem, reruns, disk, onChain, faults, users>>
EndCommand ==
    /\ running /\ pc > Len(Plan[Script]) /\ at = Len(Command)
    /\ todo' = Tail(todo) /\ at' = 0
    /\ running' = FALSE /\ pc' = 1 /\ skipTo' = 0 /\ mem' = Nowhere
    /\ UNCHANGED <<reruns, disk, onChain, faults, users>>

(* The process ends before the script does; what it knew is lost.             *)
Abort == running' = FALSE /\ UNCHANGED <<pc, skipTo, mem>>

Goto(n) == pc' = n /\ UNCHANGED <<running, mem>>
Proceed == Goto(pc + 1) /\ UNCHANGED skipTo

-------------------------------------------------------------------------------
(* Records and deployments.                                                   *)

(* getDeployData: a record that is not there throws.                          *)
GetDeployData ==
    /\ InStep("load")
    /\ IF \A c \in Step.contracts : recorded[c] > 0
         THEN /\ mem' = [c \in Contracts |-> IF c \in Step.contracts THEN recorded[c] ELSE mem[c]]
              /\ pc' = pc + 1 /\ UNCHANGED <<running, skipTo>>
         ELSE Abort
    /\ UNCHANGED <<operator, disk, onChain, faults, users>>

Deploy ==
    /\ InStep("deploy")
    /\ \A c \in Step.contracts : deployed[c] < MaxInstances
    /\ deployed' = [c \in Contracts |-> deployed[c] + IF c \in Step.contracts THEN 1 ELSE 0]
    /\ mem' = [c \in Contracts |-> IF c \in Step.contracts THEN deployed[c] + 1 ELSE mem[c]]
    /\ pc' = pc + 1
    /\ UNCHANGED <<operator, running, skipTo, disk, wire, added, faults, users>>

(* saveDeploymentData: whether it merges or overwrites, the address in the    *)
(* record is the new one.                                                     *)
SaveDeploymentData ==
    /\ InStep("save")
    /\ recorded' = [c \in Contracts |-> IF c \in Step.contracts THEN mem[c] ELSE recorded[c]]
    /\ Proceed
    /\ UNCHANGED <<operator, tracked, onChain, faults, users>>

-------------------------------------------------------------------------------
(* Transactions.                                                              *)

\* mutant of IsMigrated: the tracking file is written and never read
NeverMigrated == FALSE
IsSkipped == Step.retried /\ pc < skipTo
IsMigrated == Step.record # NoRecord /\ Step.record \in tracked

Target == mem[Step.holder]
ValueOf(v) == <<v, IF v \in Contracts THEN mem[v] ELSE 0>>
Puts == {<<p[1], Target, ValueOf(p[2])>> : p \in Step.puts}
Replaced == {w \in wire : w[2] = Target /\ \E p \in Step.puts : p[1] = w[1]}

(* The transaction lands: it sets slots of the instance it is sent to, adds   *)
(* to others, and runs over what a user has set there since.                  *)
Land ==
    /\ wire' = (wire \ Replaced) \cup Puts
    /\ added' = [s \in Counters |-> IF s \in Step.adds THEN [added[s] EXCEPT ![Target] = @ + 1] ELSE added[s]]
    /\ overwritten' = overwritten +
         IF Step.record # NoRecord /\ <<UserSlot[Step.record], Target, UserMade>> \in wire THEN 1 ELSE 0
    /\ UNCHANGED <<deployed, userChanges>>

(* A transaction that lands once, or draws on what others have added, reverts *)
(* when it is sent again after it has landed, or after all that is used up.   *)
Reverts ==
    \E s \in Step.adds :
        \/ Step.once /\ added[s][Target] > 0
        \/ \E d \in Step.draws : added[s][Target] >= added[d[2]][mem[d[1]]]
IsSent == ~IsSkipped /\ ~IsMigrated

(* executeTx until wait() returns; a script that calls a contract directly    *)
(* goes on in the same way.  The step it skips to ends the skipping.          *)
ExecuteTx ==
    /\ InStep("tx") /\ IsSent /\ ~Reverts
    /\ Land
    /\ Goto(pc + 1)
    /\ skipTo' = IF Step.retried THEN 0 ELSE skipTo
    /\ UNCHANGED <<operator, disk, faults>>

\* mutant of SkipTx: the migration stops at a record that is tracked
ThrowTracked ==
    /\ InStep("tx") /\ ~IsSent
    /\ IF IsMigrated THEN Abort ELSE Proceed
    /\ UNCHANGED <<operator, disk, onChain, faults, users>>
SkipTx ==
    /\ InStep("tx") /\ ~IsSent
    /\ Proceed
    /\ UNCHANGED <<operator, disk, onChain, faults, users>>

(* The transaction lands and its receipt does not arrive: executeTx sends it  *)
(* again, a direct call throws.                                               *)
\* mutant of LoseReceipt: executeTx logs the error and goes on, nothing has landed
GiveUp ==
    /\ InStep("tx") /\ IsSent /\ faults < MaxFaults
    /\ IF Step.retried THEN Goto(pc + 1) /\ skipTo' = 0 ELSE Abort
    /\ faults' = faults + 1
    /\ UNCHANGED <<operator, disk, onChain, users>>
LoseReceipt ==
    /\ InStep("tx") /\ IsSent /\ ~Reverts /\ faults < MaxFaults
    /\ Land
    /\ IF Step.retried THEN Goto(pc) /\ skipTo' = 0 ELSE Abort
    /\ faults' = faults + 1
    /\ UNCHANGED <<operator, disk>>

(* saveMigrationData *)
SaveMigrationData ==
    /\ InStep("track")
    /\ tracked' = tracked \cup {Step.record}
    /\ Proceed
    /\ UNCHANGED <<operator, recorded, onChain, faults, users>>

-------------------------------------------------------------------------------
(* Faults and the operator.                                                   *)

(* A transaction that reverts: a direct call throws; executeTx sends it again *)
(* and again, and hangs.                                                      *)
Refused == InStep("tx") /\ IsSent /\ Reverts /\ ~Step.retried
Hangs == InStep("tx") /\ IsSent /\ Reverts /\ Step.retried

Throw == /\ InStep("throw") \/ Refused
         /\ Abort
         /\ UNCHANGED <<operator, disk, onChain, faults, users>>

Crash == /\ running /\ faults < MaxFaults
         /\ Abort
         /\ faults' = faults + 1
         /\ UNCHANGED <<operator, disk, onChain, users>>

(* The command is run again, from the script that failed or from an earlier   *)
(* one.                                                                       *)
\* mutant of Rerun: the operator does not wait for the process to end
RerunWhileRunning ==
    /\ at > 0 /\ reruns < MaxFaults
    /\ \E script \in 1 .. at : Enter(script, 0)
    /\ reruns' = reruns + 1
    /\ UNCHANGED <<todo, disk, onChain, faults, users>>
Rerun ==
    /\ at > 0 /\ ~running /\ reruns < MaxFaults
    /\ \E script \in 1 .. at : Enter(script, 0)
    /\ reruns' = reruns + 1
    /\ UNCHANGED <<todo, disk, onChain, faults, users>>

(* skipToTxId with the id of the transaction that failed: the first step that *)
(* has this id is the one that ends the skipping.                             *)
FailedAt == IF skipTo > 0 THEN skipTo ELSE pc
IsTarget(n) == Script \in Resumable /\ Plan[Script][n].op = "tx" /\ Plan[Script][n].retried
HasId(n, id) == IsTarget(n) /\ Plan[Script][n].id = id
\* mutant of FirstWith: of two transactions with one id, the last ends the skipping
LastWith(n, id) == HasId(n, id) /\ \A k \in n + 1 .. Len(Plan[Script]) : ~HasId(k, id)
FirstWith(n, id) == HasId(n, id) /\ \A k \in 1 .. n - 1 : ~HasId(k, id)
\* mutant of Resume: the operator names the transaction after the one that failed
ResumeBehind ==
    /\ at > 0 /\ ~running /\ reruns < MaxFaults
    /\ FailedAt \in DOMAIN Plan[Script] /\ IsTarget(FailedAt)
    /\ \E n \in DOMAIN Plan[Script] : n > 1 /\ HasId(n - 1, Plan[Script][FailedAt].id) /\ Enter(at, n)
    /\ reruns' = reruns + 1
    /\ UNCHANGED <<todo, disk, onChain, faults, users>>
Resume ==
    /\ at > 0 /\ ~running /\ reruns < MaxFaults
    /\ FailedAt \in DOMAIN Plan[Script] /\ IsTarget(FailedAt)
    /\ \E n \in DOMAIN Plan[Script] : FirstWith(n, Plan[Script][FailedAt].id) /\ Enter(at, n)
    /\ reruns' = reruns + 1
    /\ UNCHANGED <<todo, disk, onChain, faults, users>>

(* The contracts are in use: the owner of a migrated token changes what the   *)
(* migration has set.                                                         *)
UserChange ==
    /\ userChanges < MaxUserChanges
    /\ \E r \in Records : \E w \in wire :
         /\ w[1] = UserSlot[r] /\ w[3] # UserMade
         /\ wire' = (wire \ {w}) \cup {<<w[1], w[2], UserMade>>}
    /\ userChanges' = userChanges + 1
    /\ UNCHANGED <<operator, process, disk, deployed, added, faults, overwritten>>

-------------------------------------------------------------------------------
RunStep == \/ NextScript \/ EndCommand
           \/ GetDeployData \/ Deploy \/ SaveDeploymentData
           \/ ExecuteTx \/ SkipTx \/ SaveMigrationData \/ Throw
Advance == StartCommand \/ RunStep \/ Rerun \/ Resume
Next == Advance \/ LoseReceipt \/ Crash \/ UserChange

(* A running script goes on, executeTx tries again until a transaction is     *)
(* confirmed, and the operator starts what is left to do.  Nobody is bound to *)
(* notice that a process hangs and to end it, though a Crash may.             *)
Fairness == WF_vars(Advance)
Spec == Init /\ [][Next]_vars /\ Fairness

-------------------------------------------------------------------------------
(* The variables have their types, and the process is in the script that the  *)
(* operator has in progress, before the transaction it skips to.              *)
(* (executeTx.js:37, the module variable __skipTo)                            *)
InPlace ==
    IF at = 0 THEN ~running /\ pc = 1 /\ skipTo = 0
    ELSE /\ todo # <<>> /\ at <= Len(Command) /\ pc <= Len(Plan[Script]) + 1
         /\ skipTo > 0 => pc <= skipTo /\ skipTo <= Len(Plan[Script]) /\ IsTarget(skipTo)
OperatorTypes == todo \in Seq(Seq(Scripts) \ {<<>>}) /\ at \in Nat /\ reruns \in 0 .. MaxFaults
ProcessTypes == /\ running \in BOOLEAN /\ pc \in Nat \ {0} /\ skipTo \in Nat
                /\ mem \in [Contracts -> Instances]
DiskTypes == recorded \in [Contracts -> Instances] /\ tracked \subseteq Records
ChainTypes == /\ deployed \in [Contracts -> Instances]
              /\ wire \subseteq Slots \X Instances \X Values
              /\ added \in [Counters -> [Instances -> Nat]]
BoundTypes == faults \in 0 .. MaxFaults /\ userChanges \in Nat /\ overwritten \in Nat
TypeOK == OperatorTypes /\ ProcessTypes /\ DiskTypes /\ ChainTypes /\ BoundTypes /\ InPlace

(* Whatever crashes, is run again or is resumed in the middle of a script, a  *)
(* transaction is only sent to a contract that is there, never names one that *)
(* is not, and no record points at a contract that was not deployed.          *)
(* (deploy.js:317 saveDeploymentData, deploy.js:342 getDeployData)            *)
WiresAreDeployed ==
    /\ \A w \in wire : w[2] > 0 /\ IF w[3][2] = 0 THEN w[3][1] \in Words
                                     ELSE w[3][2] <= deployed[w[3][1]]
    /\ \A c \in Contracts : recorded[c] <= deployed[c]

Migrated(r) == \E w \in wire : w[1] = UserSlot[r]

(* What the tracking file names has been migrated, so that a rerun may leave  *)
(* it out.  (M_upgrade_migration.js:94, 164)                                  *)
TrackedIsMigrated == \A r \in tracked : Migrated(r)

(* A record is migrated a second time, over what its owner has changed since, *)
(* only when a fault fell between the transaction and the tracking file.      *)
(* (M_upgrade_migration.js:85-95, 153-165)                                    *)
ChangesAreKept == overwritten <= faults

WiredTo(need) == <<need[2], recorded[need[1]], <<need[3], recorded[need[3]]>>>> \in wire
Whole == (\E c \in Protocol : recorded[c] > 0) => \A need \in Needs : WiredTo(need)

(* Between two commands the recorded contracts that the protocol consists of  *)
(* are wired to each other, whatever crashed and was run again before: none   *)
(* calls an instance that a failed run left behind.  (configProtocol.js)      *)
ProtocolIsWired == at = 0 => Whole

(* The escrow e calls the n-th instance of a reward universe.                 *)
Calls(e, universe, n) == <<UniverseSlot, e, <<universe, n>>>> \in wire

(* A reward universe that an escrow calls answers to that escrow, and the     *)
(* program behind it can already reckon and pay: rewards never go live half   *)
(* configured, in no order of failures and reruns.                            *)
(* (L_deploy_reward_program.js:157-189, J_deploy_fake_reward_program.js:215)  *)
LiveProgramsAreComplete ==
    \A universe \in DOMAIN Programs, e, n \in Instances :
        Calls(e, universe, n) =>
            LET own == Programs[universe]
            IN  /\ <<own.escrow, n, <<Escrow, e>>>> \in wire
                /\ \E m \in 1 .. deployed[own.program] :
                     /\ <<own.link, n, <<own.program, m>>>> \in wire
                     /\ \A slot \in own.settings : \E w \in wire : w[1] = slot /\ w[2] = m

(* Contracts that hold funds although no record names them: one for every     *)
(* fault at most, as a rerun deploys and funds another one.  (The airdrop on  *)
(* a test network leaves one behind whenever it is run: AirdropPlan.)         *)
(* (S_vesting.js:69-84, Q_community_incentives.js:146-171: saved at the end)  *)
IsFunded(c, n) == added[Purse[c]][n] > 0
Orphans == {i \in (DOMAIN Purse) \X (1 .. MaxInstances) :
              IsFunded(i[1], i[2]) /\ i[2] # recorded[i[1]] /\ ~(running /\ i[2] = mem[i[1]])}
OrphansAreFaults == Cardinality(Orphans) <= faults

-------------------------------------------------------------------------------
(* The runner carries out the agenda in order, leaving nothing out.           *)
Prefix == IF at = 0 THEN 0 ELSE IF skipTo > 0 THEN skipTo - 1 ELSE pc - 1
Ordered == INSTANCE OrderedSteps WITH prefix <- Prefix, restarts <- reruns, MaxRestarts <- MaxFaults

(* Every command of the agenda is completed, every script and every step of   *)
(* it in order; a step may be done again, none is skipped by the operator's   *)
(* skipToTxId, by a restart or by a lost receipt.  (executeTx.js:41, the      *)
(* recursion in its catch block)                                              *)
ImplementsOrderedSteps == Ordered!SafeSpec

(* The agenda is completed in the end, however often the operator has to run  *)
(* a command again, unless executeTx hangs: a lost receipt makes it send a    *)
(* transaction again that can land only once, for ever.                       *)
(* (executeTx.js:59-62, Ionx.sol:72)                                          *)
AgendaCompletes == <>(todo = <<>>) \/ <>[]Hangs
===============================================================================
