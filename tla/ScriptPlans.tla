------------------------------ MODULE ScriptPlans ------------------------------
(* What a script is to ScriptRunner: a sequence of steps.  And what its       *)
(* properties take of the scripts: each assumption is a condition on plans    *)
(* that can be read off the text of the scripts, and that TLC evaluates for   *)
(* the ones of the repository.                                                *)
EXTENDS Integers, Sequences, FiniteSets

CONSTANTS
    Scripts, Plan,      \* [Scripts -> sequence of Steps]
    Agendas,            \* sequences of commands; a command is a sequence of scripts
    Legacy,             \* [Agendas -> contracts that are there from before]
    Resumable,          \* scripts in which the operator may set skipToTxId
    Contracts,          \* names of deployment records
    Words,              \* values of transactions that are not contracts
    Slots,              \* what transactions set in a contract
    Counters,           \* what transactions add to in a contract
    Records,            \* what the migration works through
    NoRecord,
    UserSlot,           \* the slot a record is migrated to
    Needs,              \* whom the protocol's contracts call: <<contract, slot, contract>>
    Escrow,             \* the contract that calls a reward universe
    UniverseSlot,       \* the slot of the escrow that names it
    Programs,           \* [reward universes -> what has to be set before]
    Purse,              \* [contracts that are funded -> counter of their funds]
    MaxInstances,       \* bound on deployments of one contract
    MaxFaults,          \* bound on crashes and lost receipts
    MaxUserChanges      \* bound on changes users make to migrated records

Instances == 0 .. MaxInstances          \* 0: not deployed, not recorded, not loaded
Values == (Contracts \cup Words) \X Instances
UserMade == <<"user", 0>>

Steps ==
    [op : {"load", "deploy", "save"}, contracts : SUBSET Contracts]
      \cup [op : {"tx"}, id : STRING, retried : BOOLEAN, holder : Contracts,
            puts : SUBSET (Slots \X (Contracts \cup Words)), adds : SUBSET Counters,
            once : BOOLEAN, draws : SUBSET (Contracts \X Counters),
            record : Records \cup {NoRecord}]
      \cup [op : {"track"}, record : Records]
      \cup [op : {"throw"}]

ASSUME PlanAssumption ==
    /\ Plan \in [Scripts -> Seq(Steps)]
    /\ \A agenda \in Agendas : agenda \in Seq(Seq(Scripts) \ {<<>>})
    /\ Legacy \in [Agendas -> SUBSET Contracts]
    /\ Resumable \subseteq Scripts
    /\ \A s \in Resumable : \A i \in DOMAIN Plan[s] : Plan[s][i].op = "tx" => Plan[s][i].record = NoRecord
    /\ "user" \in Words /\ Words \cap Contracts = {}
    /\ NoRecord \notin Records
    /\ UserSlot \in [Records -> Slots]
    /\ MaxInstances \in Nat \ {0} /\ MaxFaults \in Nat /\ MaxUserChanges \in Nat

(* A script uses what it has loaded or deployed, in the order of its text.    *)
Holds(s, n) ==
    UNION {Plan[s][i].contracts : i \in {k \in 1 .. n - 1 : Plan[s][k].op \in {"load", "deploy"}}}
Uses(step) ==
    IF step.op = "tx"
      THEN {step.holder} \cup {c \in Contracts : \E p \in step.puts : p[2] = c}
             \cup {d[1] : d \in step.draws}
    ELSE IF step.op = "save" THEN step.contracts
    ELSE {}
ASSUME LoadsFirst ==
    \A s \in Scripts : \A n \in DOMAIN Plan[s] : Uses(Plan[s][n]) \subseteq Holds(s, n)

(* What is migrated is tracked by the next step, what is tracked was migrated *)
(* by the step before, and no other transaction writes where it goes to.      *)
ASSUME TracksWhatItSent ==
    \A s \in Scripts : \A n \in DOMAIN Plan[s] :
        LET step == Plan[s][n]
        IN  /\ step.op = "track" =>
                 /\ n > 1 /\ Plan[s][n - 1].op = "tx" /\ Plan[s][n - 1].record = step.record
                 /\ \E p \in Plan[s][n - 1].puts : p[1] = UserSlot[step.record]
            /\ step.op = "tx" /\ step.record # NoRecord =>
                 /\ n < Len(Plan[s]) /\ Plan[s][n + 1].op = "track" /\ Plan[s][n + 1].record = step.record
            /\ step.op = "tx" => \A p \in step.puts : \A r \in Records : p[1] = UserSlot[r] => step.record = r

(* A script that writes a slot the protocol needs writes what the protocol    *)
(* needs there: the recorded contract, into the recorded contract.            *)
Writes(step, slot) == step.op = "tx" /\ \E p \in step.puts : p[1] = slot
Settled(s, n) ==
    {c \in Contracts : \E i \in 1 .. n - 1 :
        /\ Plan[s][i].op \in {"load", "save"} /\ c \in Plan[s][i].contracts
        /\ \A k \in i + 1 .. n - 1 : Plan[s][k].op = "deploy" => c \notin Plan[s][k].contracts}
ASSUME NeedsAreMet ==
    /\ Needs \subseteq Contracts \X Slots \X Contracts
    /\ \A need \in Needs : \A r \in Records : UserSlot[r] # need[2]
    /\ \A s \in Scripts : \A n \in DOMAIN Plan[s] : \A need \in Needs :
         LET step == Plan[s][n]
         IN  Writes(step, need[2]) =>
               /\ step.record = NoRecord /\ step.holder = need[1]
               /\ \A p \in step.puts : p[1] = need[2] => p[2] = need[3]
               /\ need[1] \in Settled(s, n) /\ need[3] \in Settled(s, n)
    /\ \A s \in Resumable : \A n \in DOMAIN Plan[s] : Plan[s][n].op # "save"

(* A command leaves the records of the protocol as they are, or it makes all  *)
(* connections, each after the last record that it is about.                  *)
Protocol == {need[1] : need \in Needs} \cup {need[3] : need \in Needs}
Saves(step, C) == step.op = "save" /\ step.contracts \cap C # {}
Keeps(command) ==
    \A i \in DOMAIN command : \A n \in DOMAIN Plan[command[i]] : ~Saves(Plan[command[i]][n], Protocol)
Makes(command, i, n, need) ==
    /\ Writes(Plan[command[i]][n], need[2])
    /\ \A j \in i .. Len(command) : \A k \in DOMAIN Plan[command[j]] :
         (j = i => k > n) => ~Saves(Plan[command[j]][k], {need[1], need[3]})
Connects(command) ==
    \A need \in Needs : \E i \in DOMAIN command : \E n \in DOMAIN Plan[command[i]] : Makes(command, i, n, need)
ASSUME CommandsConnect ==
    \A agenda \in Agendas :
        /\ \A i \in DOMAIN agenda : Keeps(agenda[i]) \/ Connects(agenda[i])
        /\ Protocol \subseteq Legacy[agenda] \/ Protocol \cap Legacy[agenda] = {}

-------------------------------------------------------------------------------
(* What a script holds that it has deployed itself, and that part of it which *)
(* no record names.                                                           *)
Deploys(step, c) == step.op = "deploy" /\ c \in step.contracts
Kept(s, i, n, ops, c) == \A k \in i + 1 .. n - 1 : Plan[s][k].op \in ops => c \notin Plan[s][k].contracts
Renewed(s, n) ==
    {c \in Contracts : \E i \in 1 .. n - 1 : Deploys(Plan[s][i], c) /\ Kept(s, i, n, {"load", "deploy"}, c)}
Unsaved(s, n) ==
    {c \in Contracts : \E i \in 1 .. n - 1 : Deploys(Plan[s][i], c) /\ Kept(s, i, n, {"load", "save"}, c)}

(* The script has connected what it holds, in a slot it writes nowhere else.  *)
Connected(s, n, holder, slot, value) ==
    \E i \in 1 .. n - 1 :
        /\ Plan[s][i].op = "tx" /\ Plan[s][i].holder = holder /\ <<slot, value>> \in Plan[s][i].puts
        /\ Plan[s][i].record = NoRecord
        /\ \A k \in DOMAIN Plan[s] \ {i} : ~Writes(Plan[s][k], slot)
        /\ Kept(s, i, n, {"load", "deploy"}, holder) /\ Kept(s, i, n, {"load", "deploy"}, value)

(* A script sets up the universe and the program it has deployed before it    *)
(* makes the escrow call them.                                                *)
GoesLive(step, universe) == step.op = "tx" /\ <<UniverseSlot, universe>> \in step.puts
ASSUME ProgramsAreSetUp ==
    /\ Escrow \in Contracts /\ DOMAIN Programs \subseteq Contracts
    /\ \A universe \in DOMAIN Programs :
         /\ Programs[universe].program \in Contracts
         /\ \A r \in Records : UserSlot[r] \notin {Programs[universe].escrow, Programs[universe].link}
    /\ \A need \in Needs : need[2] # UniverseSlot
    /\ \A s \in Scripts : \A n \in DOMAIN Plan[s] : \A universe \in DOMAIN Programs :
         LET step == Plan[s][n]
             own == Programs[universe]
         IN  /\ GoesLive(step, universe) =>
                  /\ step.holder = Escrow /\ s \notin Resumable
                  /\ Connected(s, n, universe, own.escrow, Escrow)
                  /\ Connected(s, n, universe, own.link, own.program)
                  /\ \A slot \in own.settings : \E p \in UNION {Plan[s][i].puts : i \in {k \in 1 .. n - 1 : Plan[s][k].op = "tx"}} :
                       Connected(s, n, own.program, slot, p[2])
             /\ Writes(step, own.escrow) \/ Writes(step, own.link) =>
                  /\ step.holder = universe /\ universe \in Renewed(s, n)
                  /\ \A k \in 1 .. n : ~GoesLive(Plan[s][k], universe)

(* A command that deploys what it funds deploys one contract, records it in   *)
(* the script that deploys it, and does not fail by itself.                   *)
Fails(step) ==
    \/ step.op = "throw"
    \/ step.op = "tx" /\ ~step.retried /\ (step.once \/ step.draws # {})
Pays(step, c) == step.op = "tx" /\ Purse[c] \in step.adds
Spends(command) ==
    {c \in DOMAIN Purse : \E i \in DOMAIN command : \E n \in DOMAIN Plan[command[i]] : Pays(Plan[command[i]][n], c)}
SavedBefore(command, i, n) ==
    {c \in Contracts : \E j \in DOMAIN command : \E k \in DOMAIN Plan[command[j]] :
        (j < i \/ (j = i /\ k < n)) /\ Saves(Plan[command[j]][k], {c})}
SavedBy(command) == SavedBefore(command, Len(command) + 1, 1)
Remakes(command) == Spends(command) \cap SavedBy(command)
RecordsFunds(command) ==
    /\ \A c, d \in Remakes(command) : c = d
    /\ \A i \in DOMAIN command : \A n \in DOMAIN Plan[command[i]] :
         LET s == command[i]
             step == Plan[s][n]
         IN  /\ \A c \in Spends(command) :
                  /\ Deploys(step, c) => c \in Remakes(command)
                  /\ Pays(step, c) =>
                       /\ step.holder = c
                       /\ \/ c \in Unsaved(s, n)
                          \/ c \in Settled(s, n) /\ (c \in Remakes(command) => c \in SavedBefore(command, i, n))
             /\ \A c \in Remakes(command) :
                  /\ ~Fails(step) /\ c \notin Unsaved(s, Len(Plan[s]) + 1)
                  /\ Saves(step, {c}) => c \in Unsaved(s, n)
                  /\ c \in Unsaved(s, n) =>
                       /\ c \notin SavedBefore(command, i, n)
                       /\ step.op \in {"load", "deploy"} => c \notin step.contracts
FindsRecords(command, before) ==
    \A i \in DOMAIN command : \A n \in DOMAIN Plan[command[i]] :
        LET step == Plan[command[i]][n]
        IN  step.op = "load" => step.contracts \subseteq before \cup SavedBefore(command, i, n)
ASSUME FundsAreRecorded ==
    /\ Purse \in [DOMAIN Purse -> Counters] /\ DOMAIN Purse \subseteq Contracts
    /\ \A agenda \in Agendas : \A m \in DOMAIN agenda :
         /\ RecordsFunds(agenda[m])
         /\ \A l \in 1 .. m - 1 : Spends(agenda[l]) \cap SavedBy(agenda[m]) = {}
         /\ Remakes(agenda[m]) # {} =>
              FindsRecords(agenda[m], Legacy[agenda] \cup UNION {SavedBy(agenda[l]) : l \in 1 .. m - 1})
===============================================================================
