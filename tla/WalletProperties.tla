-------------------------- MODULE WalletProperties --------------------------
(* What must be true of a user's balances, the codes and the check-in. *)
EXTENDS Wallet, Sums

\* Numbers are negative only where one that is was configured or entered.
Amounts == IF negative THEN Int ELSE Nat
UserRows == [quota : Amounts, aff : Amounts]
CodeRows == [status : {"none", "enabled", "disabled", "used", "deleted"}, live : BOOLEAN, quota : Amounts]

\* The state is well typed (users, redemptions and checkins). Balances, in the
\* table and in what a request is about to write back, are natural numbers
\* until an administrator enters a number below zero.
TypeOK ==
  /\ negative \in BOOLEAN
  /\ row \in UserRows /\ snap \in [Handlers -> UserRows]
  /\ codes \in [Codes -> CodeRows] /\ form \in [Handlers -> CodeRows]
  /\ day \in Days /\ record \subseteq Days /\ cutShort \subseteq Days
  /\ pc \in [Handlers -> {"idle", "update", "edit", "editQuota", "invite", "redeem", "code",
                          "checkin", "award", "takeBack"}]
  /\ sqlite \in BOOLEAN /\ begun \in Nat
  /\ code \in [Handlers -> Codes] /\ date \in [Handlers -> Days]
  /\ overwritten \in BOOLEAN /\ external \in Int /\ invited \in Nat
  /\ paidOut \in Int /\ credits \in [Codes -> Nat] /\ reopened \in [Codes -> Nat] /\ awards \in [Days -> Nat]

\* No balance goes below zero, whatever old rows the saves write back between
\* the debits and the transfers (user.go:755: the database itself rules out
\* that a balance is debited below zero), unless somebody entered or configured
\* a number below zero: the quota in UpdateUser and the worth of a code are
\* written as they come (controller user.go:532, redemption.go:203).
NeverNegative == ~negative => row.quota >= 0 /\ row.aff >= 0

\* A code is paid once, and once more for each time a save took it out of
\* "used": two requests for one code, an edit of it, its expiry or its
\* deletion in between never pay it twice (redemption.go:136).
PaidOncePerOpening == \A c \in Codes : credits[c] <= 1 + reopened[c]

\* A day's check-in pays at most once, and a day on record has been paid when
\* nobody is about to, unless a crash or a second fault cut the request
\* short: the record and the award are one transaction in effect, on SQLite
\* by taking the record back (checkin.go:119).
AwardFollowsRecord ==
  \A d \in Days :
    /\ awards[d] <= 1 /\ (awards[d] = 1 => d \in record)
    /\ d \in record \ cutShort /\ (\A h \in Paying : date[h] # d) => awards[d] = 1

\* Every unit in the two balances came in by a credit, a code, a check-in, an
\* invitation or an administrator's word and left by a debit: nothing is lost,
\* paid twice or minted by a transfer, as long as no save has overwritten a
\* movement.
BalancesAddUp ==
  ~overwritten =>
    row.quota + row.aff =
      InitQuota + InitAff + external + Bonus * invited
        + paidOut + Award * SumOver(awards, Days)
=============================================================================
