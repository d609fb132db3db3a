------------------------------- MODULE Wallet -------------------------------
(***************************************************************************)
(* The row of one user, users.quota and users.aff_quota, and everything    *)
(* that moves or overwrites them besides the relay: administrators,        *)
(* redemption codes, the daily check-in, invitations and the saves of a    *)
(* profile (internal/store/user, redemption, checkin and their handlers).  *)
(*                                                                         *)
(* The movements are single UPDATEs relative to the stored value. The      *)
(* saves are not: they read the row, and write columns of what they read.  *)
(* User.Update skips columns that were read as zero, Edit writes the quota *)
(* and nothing else of the two, inviteUser writes the whole row.           *)
(*                                                                         *)
(* What an administrator enters as a user's quota or a code's worth, and   *)
(* the options for awards and invitations, are integers nobody validates.  *)
(***************************************************************************)
EXTENDS Integers

CONSTANTS
  Handlers,     \* places for requests that take several statements
  Codes,        \* redemption codes
  InitQuota, InitAff,
  Award, Bonus, \* what a check-in and an invitation are worth
  CodeQuotas,   \* what an administrator enters as the worth of a code
  Edits,        \* what he enters as the quota of a user, among the other columns
  Moves,        \* amounts of debits, credits and transfers
  Overrides,    \* balances he sets in so many words: ManageUser refuses negative ones
  MaxQuota,     \* bound on the balance, for the credits
  MaxDay,       \* bound on the calendar
  MaxRequests,  \* bound on the requests that begin
  DbFaults, Crashes

ASSUME WalletAssumption ==
  /\ InitQuota \in Int /\ InitAff \in Int /\ Award \in Int /\ Bonus \in Int
  /\ CodeQuotas \subseteq Int /\ Edits \subseteq Int
  /\ Moves \subseteq Nat /\ Overrides \subseteq Nat
  /\ MaxQuota \in Nat /\ MaxDay \in Nat /\ MaxRequests \in Nat
  /\ DbFaults \in BOOLEAN /\ Crashes \in BOOLEAN

VARIABLES
  sqlite,      \* the check-in runs without a transaction
  begun,       \* how many requests have begun
  row,         \* the columns of the user
  codes,       \* the rows of the redemption codes
  record,      \* days with a row in checkins, unique per user and day
  day,         \* the calendar
  pc,          \* where the request of each place is
  snap,        \* the user's row as the request read it, or changed it
  code,        \* the code it works on
  form,        \* the code's row as a request read it, or will write it
  date,        \* the day it checks in for
  negative,    \* history: a number below zero was configured or entered
  external,    \* history: what credits, debits and entered balances came to
  invited,     \* history: invitations that were counted
  overwritten, \* history: a save has written something else than it found
  credits,     \* history: how often a code was paid out
  paidOut,     \* history: what the codes have paid out
  reopened,    \* history: how often a save took a code out of "used"
  awards,      \* history: awards paid for a day
  cutShort     \* history: days whose check-in a crash or a second fault stopped

request == <<begun, pc, snap, code, form, date>>
userHistory == <<external, invited, overwritten>>
codeHistory == <<credits, paidOut, reopened>>
checkinHistory == <<awards, cutShort>>
vars == <<sqlite, row, codes, record, day, request, negative, userHistory, codeHistory, checkinHistory>>

Days == 0..MaxDay
NoRow == [quota |-> 0, aff |-> 0]
NoCode == [status |-> "none", live |-> FALSE, quota |-> 0]
NewCode(q) == [status |-> "enabled", live |-> TRUE, quota |-> q]

\* A request begins, keeping nothing yet; it goes on; it ends.
Begin(h, l) ==
  /\ pc[h] = "idle" /\ begun < MaxRequests
  /\ begun' = begun + 1 /\ pc' = [pc EXCEPT ![h] = l]
  /\ UNCHANGED sqlite
Goto(h, l) == pc' = [pc EXCEPT ![h] = l] /\ UNCHANGED <<sqlite, begun, snap, code, form, date>>
End(h) ==
  /\ pc' = [pc EXCEPT ![h] = "idle"]
  /\ snap' = [snap EXCEPT ![h] = NoRow] /\ form' = [form EXCEPT ![h] = NoCode]
  /\ date' = [date EXCEPT ![h] = 0]
  /\ UNCHANGED <<sqlite, begun, code>>

-----------------------------------------------------------------------------

Init ==
  /\ sqlite \in BOOLEAN /\ begun = 0
  /\ row = [quota |-> InitQuota, aff |-> InitAff]
  /\ codes \in [Codes -> {NewCode(q) : q \in CodeQuotas}]
  /\ record = {} /\ day = 0
  /\ pc = [h \in Handlers |-> "idle"]
  /\ snap = [h \in Handlers |-> NoRow]
  /\ code \in [Handlers -> Codes]
  /\ form = [h \in Handlers |-> NoCode]
  /\ date = [h \in Handlers |-> 0]
  /\ negative = (\E n \in {InitQuota, InitAff, Award, Bonus} \cup {codes[c].quota : c \in Codes} : n < 0)
  /\ external = 0 /\ invited = 0 /\ overwritten = FALSE
  /\ credits = [c \in Codes |-> 0] /\ paidOut = 0 /\ reopened = [c \in Codes |-> 0]
  /\ awards = [d \in Days |-> 0] /\ cutShort = {}

-----------------------------------------------------------------------------
\* The single statements: the relay's debits and credits, the administrator's
\* adjustment, the transfer of the invitation quota (one transaction that
\* holds the row from its read on).

\* Mutant: the debit is not conditional on the balance.
DebitAllowed_Unguarded(q) == TRUE

DebitAllowed(q) == row.quota >= q

Debit(q) ==
  /\ DebitAllowed(q)
  /\ row' = [row EXCEPT !.quota = @ - q] /\ external' = external - q

Credit(q) ==
  /\ row.quota + q <= MaxQuota
  /\ row' = [row EXCEPT !.quota = @ + q] /\ external' = external + q

\* Mutant: what is transferred is not taken off the invitation quota.
TransferAffQuotaToQuota_Kept(q) ==
  /\ row.aff >= q /\ row.quota + q <= MaxQuota
  /\ row' = [row EXCEPT !.quota = @ + q]
  /\ UNCHANGED external

TransferAffQuotaToQuota(q) ==
  /\ row.aff >= q /\ row.quota + q <= MaxQuota
  /\ row' = [quota |-> row.quota + q, aff |-> row.aff - q]
  /\ UNCHANGED external

\* ManageUser in the mode "override": the quota is what he says.
Override(q) ==
  /\ row' = [row EXCEPT !.quota = q] /\ external' = external + q - row.quota

AdjustQuota ==
  /\ \/ \E q \in Moves : Debit(q) \/ Credit(q) \/ TransferAffQuotaToQuota(q)
     \/ \E q \in Overrides : Override(q)
  /\ UNCHANGED <<sqlite, codes, record, day, request, negative, invited, overwritten, codeHistory, checkinHistory>>

-----------------------------------------------------------------------------
\* The saves.

\* UpdateUser keeps the quota it has read, unless its request brings one.
ReadUser(h) ==
  /\ \/ /\ \E l \in {"update", "edit", "invite"} : Begin(h, l)
        /\ snap' = [snap EXCEPT ![h] = row]
        /\ UNCHANGED negative
     \/ \E q \in Edits :
          /\ Begin(h, "editQuota")
          /\ snap' = [snap EXCEPT ![h] = [row EXCEPT !.quota = q]]
          /\ negative' = (negative \/ q < 0)
  /\ UNCHANGED <<row, codes, record, day, code, form, date, userHistory, codeHistory, checkinHistory>>

\* gorm's Updates of a struct leaves out the fields that are zero.
NonZero(new, old) == IF new = 0 THEN old ELSE new

\* The row each kind of save leaves behind.
Saved(h) ==
  CASE pc[h] = "update" -> [quota |-> NonZero(snap[h].quota, row.quota),
                            aff |-> NonZero(snap[h].aff, row.aff)]
    [] pc[h] \in {"edit", "editQuota"} -> [row EXCEPT !.quota = snap[h].quota]
    [] OTHER -> [snap[h] EXCEPT !.aff = @ + Bonus]

\* What the save is meant to do to the balances.
Intended(h) ==
  CASE pc[h] = "invite" -> [row EXCEPT !.aff = @ + Bonus]
    [] pc[h] = "editQuota" -> [row EXCEPT !.quota = snap[h].quota]
    [] OTHER -> row

WriteUser(h) ==
  /\ pc[h] \in {"update", "edit", "editQuota", "invite"}
  /\ \/ /\ row' = Saved(h)
        /\ invited' = IF pc[h] = "invite" THEN invited + 1 ELSE invited
        /\ external' = external + (Intended(h).quota - row.quota)
        /\ overwritten' = (overwritten \/ Saved(h) # Intended(h))
     \/ DbFaults /\ UNCHANGED <<row, userHistory>>
  /\ End(h)
  /\ UNCHANGED <<codes, record, day, negative, codeHistory, checkinHistory>>

-----------------------------------------------------------------------------
\* Redemption codes. Redeem reads the code in its transaction, and pays and
\* marks it in one commit; the row lock, which SQLite does not have, only
\* takes interleavings away.

RedeemRead(h) ==
  /\ \E c \in Codes :
       /\ codes[c].status = "enabled" /\ codes[c].live
       /\ code' = [code EXCEPT ![h] = c]
       /\ form' = [form EXCEPT ![h] = codes[c]]
  /\ Begin(h, "redeem")
  /\ UNCHANGED <<row, codes, record, day, snap, date, negative, userHistory, codeHistory, checkinHistory>>

\* Mutant: the UPDATE of the code is not conditional on its status.
StillEnabled_Unchecked(c) == codes[c].status # "deleted"

StillEnabled(c) == codes[c].status = "enabled"

RedeemCommit(h) ==
  LET c == code[h]
      q == form[h].quota IN
  /\ pc[h] = "redeem"
  /\ \/ /\ StillEnabled(c)
        /\ row' = [row EXCEPT !.quota = @ + q] /\ paidOut' = paidOut + q
        /\ codes' = [codes EXCEPT ![c].status = "used"]
        /\ credits' = [credits EXCEPT ![c] = @ + 1]
     \/ (~StillEnabled(c) \/ DbFaults) /\ UNCHANGED <<row, codes, credits, paidOut>>
  /\ End(h)
  /\ UNCHANGED <<record, day, negative, userHistory, reopened, checkinHistory>>

\* UpdateRedemption reads the code and enters a status, any, or a quota, any,
\* and an expiry, which must lie ahead; the rest stays as it was read. A status
\* the program does not know is like "disabled".
ReadCode(h) ==
  /\ \E c \in Codes :
       /\ codes[c].status # "deleted"
       /\ code' = [code EXCEPT ![h] = c]
       /\ \/ \E q \in CodeQuotas :
               /\ form' = [form EXCEPT ![h] = [codes[c] EXCEPT !.live = TRUE, !.quota = q]]
               /\ negative' = (negative \/ q < 0)
          \/ \E s \in {"enabled", "disabled", "used"} :
               /\ form' = [form EXCEPT ![h] = [codes[c] EXCEPT !.status = s]]
               /\ UNCHANGED negative
  /\ Begin(h, "code")
  /\ UNCHANGED <<row, codes, record, day, snap, date, userHistory, codeHistory, checkinHistory>>

\* Redemption.Update writes status, quota and expiry; a deleted row is not found.
WriteCode(h) ==
  LET c == code[h] IN
  /\ pc[h] = "code"
  /\ IF codes[c].status = "deleted" THEN UNCHANGED <<codes, reopened>>
     ELSE /\ codes' = [codes EXCEPT ![c] = form[h]]
          /\ reopened' = [reopened EXCEPT ![c] =
                            IF codes[c].status = "used" /\ form[h].status # "used" THEN @ + 1 ELSE @]
  /\ End(h)
  /\ UNCHANGED <<row, record, day, negative, userHistory, credits, paidOut, checkinHistory>>

\* A code passes its expiry; the administrator deletes one, or all invalid ones.
CodeEnds(c) ==
  /\ codes[c].status # "deleted"
  /\ \/ codes[c].live /\ codes' = [codes EXCEPT ![c].live = FALSE]
     \/ codes' = [codes EXCEPT ![c].status = "deleted"]
  /\ UNCHANGED <<sqlite, row, record, day, request, negative, userHistory, codeHistory, checkinHistory>>

-----------------------------------------------------------------------------
\* The daily check-in.

\* HasCheckedInToday.
CheckinRead(h) ==
  /\ day \notin record
  /\ date' = [date EXCEPT ![h] = day]
  /\ Begin(h, "checkin")
  /\ UNCHANGED <<row, codes, record, day, snap, code, form, negative, userHistory, codeHistory, checkinHistory>>

PayAward(h) ==
  /\ row' = [row EXCEPT !.quota = @ + Award]
  /\ awards' = [awards EXCEPT ![date[h]] = @ + 1]

Inserts(d) == d \notin record

\* Insert the record: with the award in one transaction, or on its own.
CheckinCreate(h) ==
  /\ pc[h] = "checkin"
  /\ \/ /\ Inserts(date[h])
        /\ record' = record \cup {date[h]}
        /\ IF sqlite THEN Goto(h, "award") /\ UNCHANGED <<row, awards>>
           ELSE End(h) /\ PayAward(h)
     \/ /\ ~Inserts(date[h]) \/ DbFaults
        /\ End(h) /\ UNCHANGED <<row, awards, record>>
  /\ UNCHANGED <<codes, day, negative, userHistory, codeHistory, cutShort>>

\* IncreaseUserQuota, which refuses a negative award.
CheckinAward(h) ==
  /\ pc[h] = "award"
  /\ \/ Award >= 0 /\ PayAward(h) /\ End(h)
     \/ (Award < 0 \/ DbFaults) /\ Goto(h, "takeBack") /\ UNCHANGED <<row, awards>>
  /\ UNCHANGED <<codes, record, day, negative, userHistory, codeHistory, cutShort>>

\* Mutant: the record stays when the award has failed.
CheckinTakeBack_Dropped(h) ==
  /\ pc[h] = "takeBack"
  /\ End(h)
  /\ UNCHANGED <<row, codes, record, day, negative, userHistory, codeHistory, checkinHistory>>

\* The record is deleted when the award has failed; nobody looks at the error.
CheckinTakeBack(h) ==
  /\ pc[h] = "takeBack"
  /\ \/ record' = record \ {date[h]} /\ UNCHANGED cutShort
     \/ DbFaults /\ cutShort' = cutShort \cup {date[h]} /\ UNCHANGED record
  /\ End(h)
  /\ UNCHANGED <<row, codes, day, negative, userHistory, codeHistory, awards>>

NextDay ==
  /\ day < MaxDay /\ day' = day + 1
  /\ UNCHANGED <<sqlite, row, codes, record, request, negative, userHistory, codeHistory, checkinHistory>>

-----------------------------------------------------------------------------

Paying == {h \in Handlers : pc[h] \in {"award", "takeBack"}}

\* The process stops: the requests under way are gone.
Crash ==
  /\ Crashes /\ \E h \in Handlers : pc[h] # "idle"
  /\ pc' = [h \in Handlers |-> "idle"] /\ snap' = [h \in Handlers |-> NoRow]
  /\ form' = [h \in Handlers |-> NoCode] /\ date' = [h \in Handlers |-> 0]
  /\ cutShort' = cutShort \cup {date[h] : h \in Paying}
  /\ UNCHANGED <<sqlite, row, codes, record, day, begun, code, negative, userHistory, codeHistory, awards>>

SaveUser(h) == ReadUser(h) \/ WriteUser(h)
Redeem(h) == RedeemRead(h) \/ RedeemCommit(h)
UpdateRedemption(h) == ReadCode(h) \/ WriteCode(h)
UserCheckin(h) == CheckinRead(h) \/ CheckinCreate(h) \/ CheckinAward(h) \/ CheckinTakeBack(h)

Next ==
  \/ AdjustQuota \/ NextDay \/ Crash
  \/ \E c \in Codes : CodeEnds(c)
  \/ \E h \in Handlers : SaveUser(h) \/ Redeem(h) \/ UpdateRedemption(h) \/ UserCheckin(h)

Spec == Init /\ [][Next]_vars
=============================================================================
