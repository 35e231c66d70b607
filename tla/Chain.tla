------------------------------- MODULE Chain -------------------------------
(***************************************************************************)
(* What the nodes promise together: one list of blocks that only grows.    *)
(* Each node has a prefix of it, and the state that the blocks of the      *)
(* prefix lead to. How a node gets to know a block is its own affair. Part *)
(* of a state, its accounts, is what the blocks say; the rest, the keys,   *)
(* a node makes anew from files of its own whenever it starts.             *)
(***************************************************************************)
EXTENDS Naturals, Sequences

CONSTANTS
    Nodes,
    InitialState,
    Valid(_, _),      \* a block in a state
    After(_, _),      \* the state after a block that is valid in a state
    Accounts(_)       \* the part of a state that is in the database

VARIABLES
    log,              \* the blocks, height 1 first
    height,           \* node -> how many of them it has
    ledger            \* node -> the state after those

vars == <<log, height, ledger>>

Init ==
    /\ log = <<>>
    /\ height = [n \in Nodes |-> 0]
    /\ ledger = [n \in Nodes |-> InitialState]

(* AppendBlock at n: one block more. *)
Extend(n, b) ==
    /\ Valid(b, ledger[n])
    /\ height' = [height EXCEPT ![n] = @ + 1]
    /\ ledger' = [ledger EXCEPT ![n] = After(b, @)]

(* Only a node that has every block makes the next one.                    *)
Mint(n) ==
    /\ height[n] = Len(log)
    /\ Len(log') = Len(log) + 1
    /\ log' = Append(log, log'[Len(log')])
    /\ Extend(n, log'[Len(log')])

(* Any other takes the next block that it does not have.                   *)
Copy(n) ==
    /\ height[n] < Len(log)
    /\ Extend(n, log[height[n] + 1])
    /\ UNCHANGED log

(* A start changes no account.                                             *)
Reload(n) ==
    /\ ledger' = [ledger EXCEPT ![n] = ledger'[n]]
    /\ Accounts(ledger'[n]) = Accounts(ledger[n])
    /\ UNCHANGED <<log, height>>

Next == \E n \in Nodes : Mint(n) \/ Copy(n) \/ Reload(n)

Spec == Init /\ [][Next]_vars

(* Nodes at the same height have the same accounts.                        *)
SameHeightSameAccounts ==
    \A n, m \in Nodes : height[n] = height[m] => Accounts(ledger[n]) = Accounts(ledger[m])
=============================================================================
