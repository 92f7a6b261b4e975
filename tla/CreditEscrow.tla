---------------------------- MODULE CreditEscrow ----------------------------
(***************************************************************************)
(* What the AI credit and run store promises about money, without runs'    *)
(* attempts, leases, uploads or artifacts: an escrow.                      *)
(*                                                                         *)
(* A job's price is taken from its payer's balance when the job is opened, *)
(* and held; later it is either kept (the result was delivered) or given   *)
(* back, once, and never changed again.                                    *)
(***************************************************************************)
EXTENDS Integers

CONSTANTS Payers, Jobs, Prices, Deposits

VARIABLES
    balance,  \* credits a payer may spend
    escrow    \* of each job: what happened to its price

escrowVars == <<balance, escrow>>

Nothing == [status |-> "none"]
Holding(p, c) == [status |-> "held", payer |-> p, price |-> c]

Escrow == {Nothing}
            \cup [status : {"held", "kept", "returned"},
                  payer : Payers, price : Prices]

EscrowTypeOK == /\ balance \in [Payers -> Nat]
                /\ escrow \in [Jobs -> Escrow]

EscrowInit == /\ balance = [p \in Payers |-> 0]
              /\ escrow = [j \in Jobs |-> Nothing]

Deposit(p, c) ==
    /\ balance' = [balance EXCEPT ![p] = @ + c]
    /\ UNCHANGED escrow

Hold(p, j, c) ==
    /\ escrow[j] = Nothing
    /\ balance[p] >= c
    /\ balance' = [balance EXCEPT ![p] = @ - c]
    /\ escrow' = [escrow EXCEPT ![j] = Holding(p, c)]

Keep(j) ==
    /\ escrow[j].status = "held"
    /\ escrow' = [escrow EXCEPT ![j].status = "kept"]
    /\ UNCHANGED balance

Return(j) ==
    /\ escrow[j].status = "held"
    /\ balance' = [balance EXCEPT ![escrow[j].payer] = @ + escrow[j].price]
    /\ escrow' = [escrow EXCEPT ![j].status = "returned"]

EscrowNext ==
    \/ \E p \in Payers, c \in Deposits : Deposit(p, c)
    \/ \E p \in Payers, j \in Jobs, c \in Prices : Hold(p, j, c)
    \/ \E j \in Jobs : Keep(j)
    \/ \E j \in Jobs : Return(j)

EscrowSpec == EscrowInit /\ [][EscrowNext]_escrowVars
=============================================================================
