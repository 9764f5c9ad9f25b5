------------------------------- MODULE Ledger -------------------------------
(***************************************************************************)
(* What the order service promises its clients, without statements, locks  *)
(* or transactions: placing an order and cancelling it are single steps on *)
(* a ledger.  An order moves its amount from available to locked, a        *)
(* cancellation moves the same amount back, once, and an idempotency key   *)
(* is good for one order.                                                  *)
(***************************************************************************)
EXTENDS Integers

CONSTANTS Orders, Accounts, InitialFunds, Keys, NoKey, Absent

VARIABLES
    funds,    \* account -> [available, locked]
    book,     \* order -> [account, amount, open], or Absent
    used      \* key -> the order it stands for, or Absent

ledger == <<funds, book, used>>

LedgerInit ==
    /\ funds = [a \in Accounts |-> [available |-> InitialFunds[a], locked |-> 0]]
    /\ book = [o \in Orders |-> Absent]
    /\ used = [k \in Keys |-> Absent]

Move(a, amount) ==
    funds' = [funds EXCEPT ![a].available = @ - amount, ![a].locked = @ + amount]

PlaceOrder(o, a, amount, k) ==
    /\ book[o] = Absent
    /\ k # NoKey => used[k] = Absent
    /\ Move(a, amount)
    /\ book' = [book EXCEPT ![o] = [account |-> a, amount |-> amount, open |-> TRUE]]
    /\ used' = IF k = NoKey THEN used ELSE [used EXCEPT ![k] = o]

CancelOrder(o) ==
    /\ book[o] # Absent
    /\ book[o].open
    /\ Move(book[o].account, -book[o].amount)
    /\ book' = [book EXCEPT ![o].open = FALSE]
    /\ UNCHANGED used

LedgerNext ==
    \E o \in Orders :
        \/ \E a \in Accounts : \E amount \in 1..funds[a].available :
              \E k \in Keys \cup {NoKey} : PlaceOrder(o, a, amount, k)
        \/ CancelOrder(o)

LedgerSpec == LedgerInit /\ [][LedgerNext]_ledger
=============================================================================
