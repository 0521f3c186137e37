---------------------------- MODULE SimplePayment ----------------------------
(***************************************************************************)
(* The payment sample of src/src/sample/simplePayment.js.  Each account's  *)
(* balance is stored as String(n) under the account name; pay reads both   *)
(* balances with Number(storageLoad(...)), so an absent account reads as   *)
(* Number(false) = 0.  The NaN test of pay compares with !== Number.NaN,  *)
(* which is always true, so its error branch never runs.  amount is any   *)
(* JSON number: main checks only its type.  Each call of main is one       *)
(* atomic action; pay's error result stores nothing.                       *)
(***************************************************************************)
EXTENDS Integers, FiniteSetsExt

CONSTANTS
    Accounts,    \* the account names a caller may pass
    PayAmounts,  \* the numbers a caller may pass, negatives and 0 included
    MaxBalance,  \* bound on the magnitude of a stored balance
    None         \* an absent store record

VARIABLES
    acct   \* acct[a]: the number stored under a, or None

Balances == -MaxBalance..MaxBalance

PaymentTypeOK == acct \in [Accounts -> Balances \cup {None}]

\* init only returns true: no account exists.
PaymentInit == acct = [a \in Accounts |-> None]

\* Number(storageLoad(a)) of a String(n) record, or of false.
Num(rec) == IF rec = None THEN 0 ELSE rec

\* pay(account_a, account_b, amount): both balances are read first; the
\* payer's must cover amount; then a's new balance and b's new balance are
\* stored, in that order, so for a = b the second store wins.
Pay(a, b, x) ==
    LET na == Num(acct[a]) - x
        nb == Num(acct[b]) + x
    IN /\ na >= 0
       /\ na \in Balances /\ nb \in Balances
       /\ acct' = [[acct EXCEPT ![a] = na] EXCEPT ![b] = nb]

\* createAccount(account, amount): the account must not exist.
CreateAccount(a, x) ==
    /\ acct[a] = None
    /\ x \in Balances
    /\ acct' = [acct EXCEPT ![a] = x]

\* main 'delete': storageDel(account), whatever its balance.
DeleteAccount(a) ==
    acct' = [acct EXCEPT ![a] = None]

\* main(input_str): dispatch on input.method.
PaymentNext ==
    \E a \in Accounts :
        \/ \E b \in Accounts, x \in PayAmounts : Pay(a, b, x)
        \/ \E x \in PayAmounts : CreateAccount(a, x)
        \/ DeleteAccount(a)

PaymentSpec == PaymentInit /\ [][PaymentNext]_acct

-----------------------------------------------------------------------------
Total == MapThenSumSet(LAMBDA a : Num(acct[a]), Accounts)

\* pay moves money and never makes it: the stored balances sum to the same
\* total before and after every pay.  Paying oneself stores a - x and then
\* the stale a + x over it, which makes x.
PayConserves ==
    [][\A a, b \in Accounts, x \in PayAmounts : Pay(a, b, x) => Total' = Total]_acct

\* A balance falls only in a pay by its own account (or when the account
\* is deleted).  A pay of a negative amount passes the payer's check and
\* debits the payee.
OnlyPayerDebited ==
    [][\A b \in Accounts :
          acct'[b] # None /\ Num(acct'[b]) < Num(acct[b]) =>
              \E x \in PayAmounts : Pay(b, b, x) \/ \E c \in Accounts \ {b} : Pay(b, c, x)]_acct
=============================================================================
