--------------------------- MODULE ProposalEscrow ---------------------------
(***************************************************************************)
(* What governance promises to depositors, without queues, votes, counters, *)
(* blocks or DAOs.  Proposals open in order, are live for a while (first    *)
(* collecting deposits, then voting) and close once.  Coins can be put on a *)
(* proposal only while it is live and stay there until it closes; in that   *)
(* very step each depositor gets all of them back, or all of them are lost. *)
(***************************************************************************)
EXTENDS Integers

CONSTANTS Proposals,  \* proposal ids, a set of integers
          Depositors  \* accounts

VARIABLES stage,  \* stage[p]: "unborn", "deposit", "voting" or "closed"
          held,   \* held[p][a]: coins of a held on p
          free,   \* free[a]: coins a can spend
          lost    \* lost[a]: coins of a that were burned

vars == <<stage, held, free, lost>>

Stages == {"unborn", "deposit", "voting", "closed"}

Init ==
    /\ stage = [p \in Proposals |-> "unborn"]
    /\ held = [p \in Proposals |-> [a \in Depositors |-> 0]]
    /\ free \in [Depositors -> Nat]
    /\ lost = [a \in Depositors |-> 0]

\* Depositor a puts amount on p, which may start its voting period.
Pledge(p, a, amount, next) ==
    /\ amount <= free[a]
    /\ free' = [free EXCEPT ![a] = @ - amount]
    /\ held' = [held EXCEPT ![p][a] = @ + amount]
    /\ stage' = [stage EXCEPT ![p] = next]
    /\ UNCHANGED lost

Open(p, a, amount) ==
    /\ stage[p] = "unborn"
    /\ \A q \in Proposals : q < p => stage[q] # "unborn"
    /\ \E next \in {"deposit", "voting"} : Pledge(p, a, amount, next)

Fund(p, a, amount) ==
    \/ stage[p] = "deposit" /\ \E next \in {"deposit", "voting"} : Pledge(p, a, amount, next)
    \/ stage[p] = "voting" /\ Pledge(p, a, amount, "voting")

\* Voting starts without a new deposit.
Activate(p) ==
    /\ stage[p] = "deposit"
    /\ stage' = [stage EXCEPT ![p] = "voting"]
    /\ UNCHANGED <<held, free, lost>>

Close(p) ==
    /\ stage[p] \in {"deposit", "voting"}
    /\ stage' = [stage EXCEPT ![p] = "closed"]
    /\ held' = [held EXCEPT ![p] = [a \in Depositors |-> 0]]
    /\ \/ /\ free' = [a \in Depositors |-> free[a] + held[p][a]]
          /\ UNCHANGED lost
       \/ /\ lost' = [a \in Depositors |-> lost[a] + held[p][a]]
          /\ UNCHANGED free

Next ==
    \E p \in Proposals :
       \/ \E a \in Depositors : \E amount \in 1 .. free[a] :
             Open(p, a, amount) \/ Fund(p, a, amount)
       \/ Activate(p)
       \/ Close(p)

Spec == Init /\ [][Next]_vars
=============================================================================
