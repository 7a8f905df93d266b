----------------------------- MODULE OrderedSteps -----------------------------
(* What the deployment scripts promise to whoever watches the chain: the      *)
(* commands of an agenda are carried out one after the other, the scripts of  *)
(* a command one after the other, the steps of a script one after the other.  *)
(* A step may be done again, because the operator starts over or because the  *)
(* receipt of a transaction was lost, but none is ever left out.              *)
EXTENDS Naturals, Sequences

CONSTANTS Agendas,      \* the sequences of commands an operator may carry out
          Plan,         \* [script -> sequence of its steps]
          MaxRestarts   \* how often the operator starts over

VARIABLES todo,         \* the commands that are not complete, the first one first
          at,           \* the script of the first command in progress, 0: none
          prefix,       \* how many steps of that script have been done, in order
          restarts

vars == <<todo, at, prefix, restarts>>

Command == Head(todo)
Length == Len(Plan[Command[at]])

Init == /\ todo \in Agendas
        /\ at = 0 /\ prefix = 0 /\ restarts = 0

Begin == /\ at = 0 /\ todo # <<>>
         /\ at' = 1 /\ prefix' = 0
         /\ UNCHANGED <<todo, restarts>>

DoNext == /\ at > 0 /\ prefix < Length
          /\ prefix' = prefix + 1
          /\ UNCHANGED <<todo, at, restarts>>

NextScript == /\ at > 0 /\ prefix = Length /\ at < Len(Command)
              /\ at' = at + 1 /\ prefix' = 0
              /\ UNCHANGED <<todo, restarts>>

Complete == /\ at > 0 /\ prefix = Length /\ at = Len(Command)
            /\ todo' = Tail(todo)
            /\ at' = 0 /\ prefix' = 0
            /\ UNCHANGED restarts

(* Starting over goes back, to an earlier script or to an earlier step, never *)
(* ahead.                                                                     *)
StartOver == /\ at > 0 /\ restarts < MaxRestarts
             /\ restarts' = restarts + 1
             /\ \/ at' \in 1 .. at - 1 /\ prefix' = 0
                \/ at' = at /\ prefix' \in 0 .. prefix
             /\ UNCHANGED todo

Advance == Begin \/ DoNext \/ NextScript \/ Complete
Next == Advance \/ StartOver

SafeSpec == Init /\ [][Next]_vars
===============================================================================
