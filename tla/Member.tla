------------------------------ MODULE Member ------------------------------
(***************************************************************************)
(* src/member: stored-value accounts, their ledger, and the transactions   *)
(* that recharge and deduct.  ensureAccount's read is one step; the        *)
(* statements after it are another, because the UPDATE locks the row (or   *)
(* the INSERT its unique key) until the commit.                            *)
(***************************************************************************)
EXTENDS Marketing, Paging

CONSTANTS
    Amounts,            \* amounts asked for, in cents
    RechargeRef,        \* RefTypeRecharge
    MaxRechargeAmount,
    MaxLedger           \* bound: rows of member_transactions

ASSUME AmountsAssumption == Amounts \subseteq Int /\ MaxRechargeAmount \in Nat
ASSUME LedgerAssumption == MaxLedger \in Nat /\ RechargeRef \notin Refs

VARIABLES
    account,    \* account[h]: the row of a holder, or NoAccount
    ledger,     \* the rows of member_transactions, in the order of their ids
    saving      \* saving[c]: the transaction a caller has begun

memberVars == <<account, ledger, saving>>

NoAccount == [balance |-> 0, recharged |-> 0, spent |-> 0, open |-> FALSE]

\* The columns of MemberAccount; uk_member_accounts makes it one per holder.
MemberAccount == [balance : Int, recharged : Int, spent : Int, open : BOOLEAN]

MemberTransaction ==
    [holder : Holders, type : {"recharge", "spend"}, amount : Int, after : Int,
     ref : Refs \cup {RechargeRef}]

NoSaving == [op |-> "none"]

Saving ==
    [op : {"recharge", "spend"}, holder : Holders, amount : Int, seen : MemberAccount,
     ref : Refs \cup {RechargeRef}]

MemberTypeOK ==
    /\ account \in [Holders -> MemberAccount]
    /\ ledger \in Seq(MemberTransaction)
    /\ saving \in [Callers -> Saving \cup {NoSaving}]

MemberInit ==
    /\ account = [h \in Holders |-> NoAccount]
    /\ ledger = <<>>
    /\ saving = [c \in Callers |-> NoSaving]

\* The engine's check of a recharge.
RechargeAllowed(amount) == amount > 0 /\ amount <= MaxRechargeAmount

\* ensureAccount, as far as it reads: the transaction's snapshot of the row.
Read(c, type, h, amount, r) ==
    /\ saving[c] = NoSaving
    /\ saving' = [saving EXCEPT ![c] =
          [op |-> type, holder |-> h, amount |-> amount, seen |-> account[h], ref |-> r]]
    /\ UNCHANGED <<account, ledger>>

RechargeRead(c, h, amount) ==
    RechargeAllowed(amount) /\ Read(c, "recharge", h, amount, RechargeRef)

\* The engine answers 0 to an amount that is not positive and begins nothing.
DeductRead(c, h, amount, r) == amount > 0 /\ Read(c, "spend", h, amount, r)

EndSaving(c) == saving' = [saving EXCEPT ![c] = NoSaving]

\* Who saw no account inserts one, and the unique key lets one of them.
OpensAccount(c) == saving[c].seen.open \/ ~account[saving[c].holder].open

\* Mutant: the document is lost.
RowWithoutRef(c, amount, after) ==
    [holder |-> saving[c].holder, type |-> saving[c].op, amount |-> amount,
     after |-> after, ref |-> NoSaving]

Row(c, amount, after) ==
    [holder |-> saving[c].holder, type |-> saving[c].op, amount |-> amount,
     after |-> after, ref |-> saving[c].ref]

\* Mutant: what is written back is computed from the snapshot.
BalanceAsRead(c) == saving[c].seen.balance

\* balance + ?, by the database.
BalanceNow(c) == account[saving[c].holder].balance

RechargeCommit(c) ==
    LET call == saving[c]  h == call.holder  after == BalanceNow(c) + call.amount IN
    /\ call.op = "recharge"
    /\ OpensAccount(c)
    /\ Len(ledger) < MaxLedger
    /\ account' = [account EXCEPT ![h].open = TRUE, ![h].balance = after,
                                  ![h].recharged = @ + call.amount]
    /\ ledger' = Append(ledger, Row(c, call.amount, after))
    /\ EndSaving(c)

\* At most the balance that was read.
Deducted(c) ==
    IF saving[c].seen.balance > saving[c].amount THEN saving[c].amount
                                                 ELSE saving[c].seen.balance

\* WHERE balance >= deducted
StillCovered(c) == account[saving[c].holder].balance >= Deducted(c)

DeductCommit(c) ==
    LET h == saving[c].holder IN
    /\ saving[c].op = "spend"
    /\ Deducted(c) > 0
    /\ StillCovered(c)
    /\ Len(ledger) < MaxLedger
    /\ account' = [account EXCEPT ![h].balance = @ - Deducted(c),
                                  ![h].spent = @ + Deducted(c)]
    /\ ledger' = Append(ledger, Row(c, Deducted(c), account[h].balance - Deducted(c)))
    /\ EndSaving(c)

\* Nothing to deduct: only the account that was opened is committed.
DeductNothing(c) ==
    /\ saving[c].op = "spend"
    /\ Deducted(c) <= 0
    /\ OpensAccount(c)
    /\ account' = [account EXCEPT ![saving[c].holder].open = TRUE]
    /\ EndSaving(c)
    /\ UNCHANGED ledger

\* ErrInsufficientBalance, a duplicate account, a failed statement: rolled back.
SavingFails(c) ==
    /\ saving[c] # NoSaving
    /\ EndSaving(c)
    /\ UNCHANGED <<account, ledger>>

\* AccountBalance: 0 before the account is opened.
AccountBalance(h) == IF account[h].open THEN account[h].balance ELSE 0

\* The rows of a holder, by type when one is asked for.
TransactionsListed(h, type) ==
    {k \in DOMAIN ledger : ledger[k].holder = h /\ (type # "" => ledger[k].type = type)}

MemberNext ==
    \E c \in Callers :
        \/ \E h \in Holders, a \in Amounts :
              RechargeRead(c, h, a) \/ \E r \in Refs : DeductRead(c, h, a, r)
        \/ RechargeCommit(c) \/ DeductCommit(c) \/ DeductNothing(c) \/ SavingFails(c)

MemberSpec == MemberInit /\ [][MemberNext]_memberVars

-----------------------------------------------------------------------------
(* Properties *)

RowsOf(h) == {k \in DOMAIN ledger : ledger[k].holder = h}

Change(row) == IF row.type = "recharge" THEN row.amount ELSE 0 - row.amount

\* The ledger of an account is a chain: each row's balance_after is the one
\* before it changed by the row's amount, although it is read back after a
\* relative UPDATE among concurrent ones (store.go:86, 139).
LedgerIsChained ==
    \A h \in Holders : \A k \in RowsOf(h) :
        LET before == {j \in RowsOf(h) : j < k} IN
        IF before = {} THEN ledger[k].after = Change(ledger[k])
        ELSE \E j \in before :
                /\ \A i \in before : i <= j
                /\ ledger[k].after = ledger[j].after + Change(ledger[k])

\* The balance is what the last row of the ledger says, and the totals of the
\* account explain it (store.go:75, 124).
BalanceIsLedger ==
    \A h \in Holders :
        /\ account[h].balance = account[h].recharged - account[h].spent
        /\ IF RowsOf(h) = {} THEN account[h].balance = 0
           ELSE \E j \in RowsOf(h) : (\A i \in RowsOf(h) : i <= j)
                                     /\ account[h].balance = ledger[j].after

\* Concurrent deductions never overdraw an account (store.go:122).
NeverOverdrawn ==
    /\ \A h \in Holders : account[h].balance >= 0 /\ account[h].spent <= account[h].recharged
    /\ \A k \in DOMAIN ledger : ledger[k].amount > 0 /\ ledger[k].after >= 0

\* Every account is explained by its ledger, row by row, and never overdrawn.
LedgerExplainsBalance == MemberTypeOK /\ LedgerIsChained /\ BalanceIsLedger /\ NeverOverdrawn
=============================================================================
