---------------------------- MODULE WalletProofs ----------------------------
(***************************************************************************)
(* A user's balances stay non-negative until somebody enters a number that *)
(* is not, a code is paid once per opening and a check-in once per day,    *)
(* for any number of requests, codes, days and amounts, with faults and    *)
(* crashes and on every database; but for saves that overwrite a movement, *)
(* what came in and what went out add up.                                  *)
(***************************************************************************)
EXTENDS WalletProperties, SumTheorems

Busy == {"update", "edit", "editQuota", "invite", "redeem", "code", "checkin", "award", "takeBack"}

\* What PaidOncePerOpening needs: a code that can still be redeemed has been paid
\* no more often than it was reopened.
CodeShape ==
  \A c \in Codes :
    credits[c] <= reopened[c] + (IF codes[c].status \in {"used", "deleted"} THEN 1 ELSE 0)

\* What AwardFollowsRecord needs: the record that a request is about to pay or
\* take back is there, unpaid, and no other request's.
AwardShape ==
  /\ \A h \in Paying : date[h] \in record /\ awards[date[h]] = 0
  /\ \A h, g \in Paying : date[h] = date[g] => h = g

\* What the balances can be paid is an amount.
Configured == Award \in Amounts /\ Bonus \in Amounts

WalletInv == TypeOK /\ Configured /\ CodeShape /\ AwardShape /\ AwardFollowsRecord

-----------------------------------------------------------------------------

\* What a request reads, writes or ends with is a row.
LEMMA Rows ==
  /\ NoRow \in UserRows /\ NoCode \in CodeRows /\ 0 \in Days
  /\ \A r \in CodeRows :
       /\ \A b \in BOOLEAN : [r EXCEPT !.live = b] \in CodeRows
       /\ \A s \in {"enabled", "disabled", "used", "deleted"} : [r EXCEPT !.status = s] \in CodeRows
       /\ r.quota \in Amounts
<1>1. NoRow \in UserRows /\ NoCode \in CodeRows /\ 0 \in Days
  <2>1. 0 \in Amounts
    BY DEF Amounts
  <2>. QED BY <2>1, WalletAssumption DEF NoRow, NoCode, UserRows, CodeRows, Days
<1>2. ASSUME NEW r \in CodeRows, NEW b \in BOOLEAN PROVE [r EXCEPT !.live = b] \in CodeRows
  BY DEF CodeRows
<1>3. ASSUME NEW r \in CodeRows, NEW s \in {"enabled", "disabled", "used", "deleted"}
      PROVE  [r EXCEPT !.status = s] \in CodeRows
  BY DEF CodeRows
<1>4. ASSUME NEW r \in CodeRows PROVE r.quota \in Amounts
  BY DEF CodeRows
<1>. QED BY <1>1, <1>2, <1>3, <1>4

\* Amounts are closed under what the steps do to balances.
LEMMA AmountFacts ==
  /\ Amounts \subseteq Int /\ Nat \subseteq Amounts
  /\ \A x, y \in Amounts : x + y \in Amounts
BY DEF Amounts

\* The numbers never become natural again.
LEMMA Growth ==
  ASSUME negative \in BOOLEAN, negative' \in BOOLEAN, negative => negative'
  PROVE  Amounts \subseteq Amounts' /\ UserRows \subseteq UserRows' /\ CodeRows \subseteq CodeRows'
<1>1. Amounts \subseteq Amounts'
  BY DEF Amounts
<1>2. UserRows \subseteq UserRows'
  BY <1>1 DEF UserRows
<1>3. CodeRows \subseteq CodeRows'
  BY <1>1 DEF CodeRows
<1>. QED BY <1>1, <1>2, <1>3

LEMMA InitWallet == Init => WalletInv
<1>. SUFFICES ASSUME Init PROVE WalletInv
  OBVIOUS
<1>0. /\ negative = (\E n \in {InitQuota, InitAff, Award, Bonus} \cup {codes[c].quota : c \in Codes} : n < 0)
      /\ codes \in [Codes -> {NewCode(q) : q \in CodeQuotas}]
  BY DEF Init
<1>1. negative \in BOOLEAN
  BY <1>0, Zenon
<1>2. /\ InitQuota \in Amounts /\ InitAff \in Amounts /\ Award \in Amounts /\ Bonus \in Amounts
      /\ \A c \in Codes : codes[c].quota \in Amounts
  <2>1. \A c \in Codes : codes[c].quota \in Int
    BY <1>0, WalletAssumption DEF NewCode
  <2>2. CASE negative
    BY <2>1, <2>2, WalletAssumption DEF Amounts
  <2>3. CASE ~negative
    <3>1. \A n \in {InitQuota, InitAff, Award, Bonus} \cup {codes[c].quota : c \in Codes} : ~(n < 0)
      BY <1>0, <2>3
    <3>2. /\ ~(InitQuota < 0) /\ ~(InitAff < 0) /\ ~(Award < 0) /\ ~(Bonus < 0)
          /\ \A c \in Codes : ~(codes[c].quota < 0)
      BY <3>1
    <3>. QED BY <2>1, <2>3, <3>2, WalletAssumption DEF Amounts
  <2>. QED BY <1>1, <2>2, <2>3
<1>3. TypeOK
  <2>1. row \in UserRows
    BY <1>2 DEF Init, UserRows
  <2>2. /\ snap \in [Handlers -> UserRows] /\ form \in [Handlers -> CodeRows]
        /\ date \in [Handlers -> Days] /\ day \in Days
    BY Rows DEF Init
  <2>3. sqlite \in BOOLEAN /\ overwritten \in BOOLEAN
    BY Zenon DEF Init
  <2>4. /\ code \in [Handlers -> Codes] /\ awards \in [Days -> Nat] /\ paidOut \in Int
        /\ credits \in [Codes -> Nat] /\ reopened \in [Codes -> Nat]
    BY DEF Init
  <2>5. record \subseteq Days /\ cutShort \subseteq Days /\ begun \in Nat /\ external \in Int
        /\ invited \in Nat
    BY DEF Init
  <2>6. pc \in [Handlers -> {"idle", "update", "edit", "editQuota", "invite", "redeem", "code",
                           "checkin", "award", "takeBack"}]
    BY DEF Init
  <2>7. codes \in [Codes -> CodeRows]
    <3>1. ASSUME NEW c \in Codes PROVE codes[c] \in CodeRows
      <4>1. PICK q \in CodeQuotas : codes[c] = NewCode(q)
        BY <1>0
      <4>2. q \in Amounts
        BY <1>2, <4>1 DEF NewCode
      <4>. QED BY <4>1, <4>2 DEF NewCode, CodeRows
    <3>. QED BY <1>0, <3>1
  <2>. QED BY <1>1, <2>1, <2>2, <2>3, <2>4, <2>5, <2>6, <2>7 DEF TypeOK
<1>4. Paying = {}
  BY DEF Init, Paying
<1>5. CodeShape
  BY DEF Init, CodeShape
<1>6. AwardShape /\ AwardFollowsRecord
  BY <1>4 DEF Init, AwardShape, AwardFollowsRecord
<1>. QED BY <1>2, <1>3, <1>5, <1>6 DEF WalletInv, Configured

\* How the place of a request changes.
LEMMA PlaceMoves ==
  ASSUME TypeOK, NEW h \in Handlers, NEW l \in Busy, Goto(h, l) \/ Begin(h, l)
  PROVE  pc'[h] = l /\ \A g \in Handlers \ {h} : pc'[g] = pc[g]
BY DEF TypeOK, Goto, Begin

LEMMA PlaceEnds ==
  ASSUME TypeOK, NEW h \in Handlers, End(h)
  PROVE  /\ pc'[h] = "idle" /\ date'[h] = 0
         /\ \A g \in Handlers \ {h} : pc'[g] = pc[g] /\ date'[g] = date[g]
BY DEF TypeOK, End

\* The type of a request's own variables.
LEMMA RequestType ==
  ASSUME TypeOK, NEW h \in Handlers, End(h) \/ (\E l \in Busy : Goto(h, l))
  PROVE  /\ pc' \in [Handlers -> {"idle"} \cup Busy] /\ begun' \in Nat /\ sqlite' \in BOOLEAN
         /\ snap' \in [Handlers -> UserRows] /\ code' \in [Handlers -> Codes]
         /\ form' \in [Handlers -> CodeRows] /\ date' \in [Handlers -> Days]
<1>2. CASE End(h)
  BY <1>2, Rows DEF End, TypeOK, Busy
<1>3. CASE \E l \in Busy : Goto(h, l)
  BY <1>3 DEF Goto, TypeOK, Busy
<1>. QED BY <1>2, <1>3

-----------------------------------------------------------------------------
\* The codes.

LEMMA NextCodeShape == TypeOK /\ CodeShape /\ [Next]_vars => CodeShape'
<1>. SUFFICES ASSUME TypeOK, CodeShape, [Next]_vars PROVE CodeShape'
  OBVIOUS
<1>0. credits \in [Codes -> Nat] /\ reopened \in [Codes -> Nat] /\ codes \in [Codes -> CodeRows]
  BY DEF TypeOK
<1>1. CASE UNCHANGED <<codes, credits, reopened>>
  BY <1>1 DEF CodeShape
<1>2. ASSUME NEW h \in Handlers, RedeemCommit(h) PROVE CodeShape'
  <2>. DEFINE c == code[h]
  <2>1. c \in Codes /\ reopened' = reopened
    BY <1>2 DEF RedeemCommit, TypeOK
  <2>2. CASE /\ StillEnabled(c) /\ codes' = [codes EXCEPT ![c].status = "used"]
             /\ credits' = [credits EXCEPT ![c] = @ + 1]
    <3>1. /\ codes[c].status = "enabled" /\ codes'[c].status = "used"
          /\ credits'[c] = credits[c] + 1
          /\ \A d \in Codes \ {c} : codes'[d] = codes[d] /\ credits'[d] = credits[d]
      BY <1>0, <2>1, <2>2 DEF StillEnabled, CodeRows
    <3>2. credits[c] <= reopened[c]
      BY <1>0, <2>1, <3>1 DEF CodeShape
    <3>. QED BY <1>0, <2>1, <3>1, <3>2 DEF CodeShape
  <2>. QED BY <1>1, <1>2, <2>1, <2>2 DEF RedeemCommit
<1>3. ASSUME NEW h \in Handlers, WriteCode(h) PROVE CodeShape'
  <2>. DEFINE c == code[h]
  <2>1. c \in Codes /\ credits' = credits /\ form[h] \in CodeRows
    BY <1>3 DEF WriteCode, TypeOK
  <2>2. CASE codes[c].status # "deleted"
    <3>1. /\ codes'[c] = form[h]
          /\ reopened'[c] = IF codes[c].status = "used" /\ form[h].status # "used"
                            THEN reopened[c] + 1 ELSE reopened[c]
          /\ \A d \in Codes \ {c} : codes'[d] = codes[d] /\ reopened'[d] = reopened[d]
      BY <1>0, <1>3, <2>1, <2>2 DEF WriteCode
    <3>2. credits[c] <= reopened'[c] + (IF form[h].status \in {"used", "deleted"} THEN 1 ELSE 0)
      <4>1. /\ credits[c] \in Nat /\ reopened[c] \in Nat
            /\ credits[c] <= reopened[c] + (IF codes[c].status \in {"used", "deleted"} THEN 1 ELSE 0)
        BY <1>0, <2>1 DEF CodeShape
      <4>2. CASE codes[c].status = "used"
        <5>1. credits[c] <= reopened[c] + 1
          BY <4>1, <4>2
        <5>2. CASE form[h].status = "used"
          <6>1. reopened'[c] = reopened[c]
            BY <3>1, <5>2
          <6>. QED BY <5>1, <5>2, <6>1
        <5>3. CASE form[h].status # "used"
          <6>1. reopened'[c] = reopened[c] + 1
            BY <3>1, <4>2, <5>3
          <6>. QED BY <4>1, <5>1, <6>1
        <5>. QED BY <5>2, <5>3
      <4>3. CASE codes[c].status # "used"
        <5>1. reopened'[c] = reopened[c] /\ credits[c] <= reopened[c]
          BY <2>2, <3>1, <4>1, <4>3
        <5>. QED BY <4>1, <5>1
      <4>. QED BY <4>2, <4>3
    <3>3. ASSUME NEW d \in Codes
          PROVE  credits'[d] <= reopened'[d]
                   + (IF codes'[d].status \in {"used", "deleted"} THEN 1 ELSE 0)
      <4>1. CASE d = c
        BY <2>1, <3>1, <3>2, <4>1
      <4>2. CASE d # c
        BY <2>1, <3>1, <4>2 DEF CodeShape
      <4>. QED BY <4>1, <4>2
    <3>. QED BY <3>3 DEF CodeShape
  <2>. QED BY <1>1, <1>3, <2>1, <2>2 DEF WriteCode
<1>4. ASSUME NEW c \in Codes, CodeEnds(c) PROVE CodeShape'
  <2>1. credits' = credits /\ reopened' = reopened
    BY <1>4 DEF CodeEnds, codeHistory
  <2>2. CASE codes' = [codes EXCEPT ![c].live = FALSE]
    <3>1. \A d \in Codes : codes'[d].status = codes[d].status
      BY <1>0, <2>2 DEF CodeRows
    <3>. QED BY <2>1, <3>1 DEF CodeShape
  <2>3. CASE codes' = [codes EXCEPT ![c].status = "deleted"]
    <3>1. codes'[c].status = "deleted" /\ \A d \in Codes \ {c} : codes'[d] = codes[d]
      BY <1>0, <2>3 DEF CodeRows
    <3>. QED BY <1>0, <2>1, <3>1 DEF CodeShape
  <2>. QED BY <1>4, <2>2, <2>3 DEF CodeEnds
<1>. QED BY <1>1, <1>2, <1>3, <1>4 DEF Next, AdjustQuota, NextDay, Crash, SaveUser, ReadUser,
           WriteUser, Redeem, RedeemRead, UpdateRedemption, ReadCode, UserCheckin, CheckinRead,
           CheckinCreate, CheckinAward, CheckinTakeBack, userHistory, codeHistory, checkinHistory, vars

-----------------------------------------------------------------------------
\* The check-in.

LEMMA AwardFrame ==
  ASSUME AwardShape, AwardFollowsRecord, UNCHANGED <<record, awards, cutShort>>,
         Paying' = Paying, \A h \in Paying : date'[h] = date[h]
  PROVE  AwardShape' /\ AwardFollowsRecord'
BY DEF AwardShape, AwardFollowsRecord

\* A request that was not paying and is not paying now.
LEMMA OtherRequest ==
  ASSUME TypeOK, AwardShape, AwardFollowsRecord, UNCHANGED <<record, awards, cutShort>>,
         NEW h \in Handlers, h \notin Paying,
         \/ End(h)
         \/ \E l \in {"update", "edit", "editQuota", "invite", "redeem", "code", "checkin"} : Begin(h, l),
         \A g \in Handlers \ {h} : date'[g] = date[g]
  PROVE  AwardShape' /\ AwardFollowsRecord'
<1>1. /\ pc'[h] \notin {"award", "takeBack"}
      /\ \A g \in Handlers \ {h} : pc'[g] = pc[g]
  BY PlaceMoves, PlaceEnds DEF Busy
<1>2. Paying' = Paying
  BY <1>1 DEF Paying
<1>. QED BY <1>2, AwardFrame DEF Paying

LEMMA NextAwards ==
  TypeOK /\ AwardShape /\ AwardFollowsRecord /\ [Next]_vars => AwardShape' /\ AwardFollowsRecord'
<1>. SUFFICES ASSUME TypeOK, AwardShape, AwardFollowsRecord, [Next]_vars
              PROVE  AwardShape' /\ AwardFollowsRecord'
  OBVIOUS
<1>0. /\ awards \in [Days -> Nat] /\ date \in [Handlers -> Days] /\ record \subseteq Days
      /\ cutShort \subseteq Days
  BY DEF TypeOK
<1>1. CASE UNCHANGED <<pc, date, record, awards, cutShort>>
  <2>1. Paying' = Paying
    BY <1>1 DEF Paying
  <2>. QED BY <1>1, <2>1, AwardFrame
<1>2. ASSUME NEW h \in Handlers, SaveUser(h) \/ Redeem(h) \/ UpdateRedemption(h) \/ CheckinRead(h)
      PROVE  AwardShape' /\ AwardFollowsRecord'
  <2>1. h \notin Paying
    BY <1>2 DEF SaveUser, ReadUser, WriteUser, Redeem, RedeemRead, RedeemCommit, UpdateRedemption,
                ReadCode, WriteCode, CheckinRead, Begin, Paying
  <2>2. UNCHANGED <<record, awards, cutShort>>
    BY <1>2 DEF SaveUser, ReadUser, WriteUser, Redeem, RedeemRead, RedeemCommit, UpdateRedemption,
                ReadCode, WriteCode, CheckinRead, checkinHistory
  <2>3. \/ End(h)
        \/ \E l \in {"update", "edit", "editQuota", "invite", "redeem", "code", "checkin"} : Begin(h, l)
    BY <1>2 DEF SaveUser, ReadUser, WriteUser, Redeem, RedeemRead, RedeemCommit, UpdateRedemption,
                ReadCode, WriteCode, CheckinRead
  <2>4. \A g \in Handlers \ {h} : date'[g] = date[g]
    BY <1>0, <1>2 DEF SaveUser, ReadUser, WriteUser, Redeem, RedeemRead, RedeemCommit, End,
                UpdateRedemption, ReadCode, WriteCode, CheckinRead
  <2>. QED BY <2>1, <2>2, <2>3, <2>4, OtherRequest
<1>3. ASSUME NEW h \in Handlers, CheckinCreate(h) PROVE AwardShape' /\ AwardFollowsRecord'
  <2>. DEFINE d == date[h]
  <2>1. h \notin Paying /\ d \in Days /\ cutShort' = cutShort
    BY <1>0, <1>3 DEF CheckinCreate, Paying
  <2>2. CASE Inserts(d) /\ record' = record \cup {d} /\ Goto(h, "award") /\ UNCHANGED awards
    <3>1. pc'[h] = "award" /\ (\A g \in Handlers \ {h} : pc'[g] = pc[g]) /\ date' = date
      BY <2>2, PlaceMoves DEF Busy, Goto
    <3>2. Paying' = Paying \cup {h}
      BY <3>1 DEF Paying
    <3>3. d \notin record /\ awards[d] = 0 /\ \A g \in Paying : date[g] # d
      BY <1>0, <2>1, <2>2 DEF Inserts, AwardShape, AwardFollowsRecord
    <3>4. AwardShape'
      BY <2>2, <3>1, <3>2, <3>3 DEF AwardShape
    <3>5. AwardFollowsRecord'
      BY <2>1, <2>2, <3>1, <3>2, <3>3 DEF AwardFollowsRecord
    <3>. QED BY <3>4, <3>5
  <2>3. CASE Inserts(d) /\ record' = record \cup {d} /\ End(h) /\ PayAward(h)
    <3>1. /\ pc'[h] = "idle" /\ \A g \in Handlers \ {h} : pc'[g] = pc[g] /\ date'[g] = date[g]
      BY <2>3, PlaceEnds
    <3>2. Paying' = Paying
      BY <2>1, <3>1 DEF Paying
    <3>3. d \notin record /\ awards[d] = 0 /\ \A g \in Paying : date[g] # d
      BY <1>0, <2>1, <2>3 DEF Inserts, AwardShape, AwardFollowsRecord
    <3>4. awards'[d] = 1 /\ \A e \in Days \ {d} : awards'[e] = awards[e]
      BY <1>0, <2>1, <2>3, <3>3 DEF PayAward
    <3>5. \A g \in Paying : g # h /\ date'[g] = date[g] /\ date[g] \in Days \ {d}
      BY <1>0, <2>1, <3>1, <3>3 DEF Paying
    <3>6. AwardShape'
      BY <2>3, <3>2, <3>4, <3>5 DEF AwardShape
    <3>7. AwardFollowsRecord'
      BY <2>1, <2>3, <3>2, <3>4, <3>5 DEF AwardFollowsRecord
    <3>. QED BY <3>6, <3>7
  <2>4. CASE End(h) /\ UNCHANGED <<awards, record>>
    <3>1. \A g \in Handlers \ {h} : date'[g] = date[g]
      BY <2>4, PlaceEnds
    <3>. QED BY <2>1, <2>4, <3>1, OtherRequest
  <2>. QED BY <1>3, <2>2, <2>3, <2>4 DEF CheckinCreate
<1>4. ASSUME NEW h \in Handlers, CheckinAward(h) PROVE AwardShape' /\ AwardFollowsRecord'
  <2>. DEFINE d == date[h]
  <2>1. h \in Paying /\ d \in record /\ awards[d] = 0 /\ d \in Days
        /\ UNCHANGED <<cutShort, record>>
    BY <1>0, <1>4 DEF CheckinAward, Paying, AwardShape
  <2>2. CASE PayAward(h) /\ End(h)
    <3>1. /\ pc'[h] = "idle" /\ \A g \in Handlers \ {h} : pc'[g] = pc[g] /\ date'[g] = date[g]
      BY <2>2, PlaceEnds
    <3>2. Paying' = Paying \ {h}
      BY <3>1 DEF Paying
    <3>3. awards'[d] = 1 /\ \A e \in Days \ {d} : awards'[e] = awards[e]
      BY <1>0, <2>1, <2>2 DEF PayAward
    <3>4. \A g \in Paying' : g \in Paying /\ date'[g] = date[g] /\ date[g] \in Days \ {d}
      BY <1>0, <2>1, <3>1, <3>2 DEF Paying, AwardShape
    <3>5. AwardShape'
      BY <2>1, <3>2, <3>3, <3>4 DEF AwardShape
    <3>6. AwardFollowsRecord'
      <4>1. SUFFICES ASSUME NEW e \in Days
                     PROVE /\ awards'[e] <= 1 /\ (awards'[e] = 1 => e \in record')
                           /\ e \in record' \ cutShort' /\ (\A g \in Paying' : date'[g] # e)
                                => awards'[e] = 1
        BY DEF AwardFollowsRecord
      <4>2. CASE e = d
        BY <2>1, <3>3, <4>2
      <4>3. CASE e # d
        BY <2>1, <3>2, <3>3, <3>4, <4>3 DEF AwardFollowsRecord
      <4>. QED BY <4>2, <4>3
    <3>. QED BY <3>5, <3>6
  <2>3. CASE Goto(h, "takeBack") /\ UNCHANGED awards
    <3>1. pc'[h] = "takeBack" /\ (\A g \in Handlers \ {h} : pc'[g] = pc[g]) /\ date' = date
      BY <2>3, PlaceMoves DEF Busy, Goto
    <3>2. Paying' = Paying
      BY <2>1, <3>1 DEF Paying
    <3>. QED BY <2>1, <2>3, <3>1, <3>2, AwardFrame
  <2>. QED BY <1>4, <2>2, <2>3 DEF CheckinAward
<1>5. ASSUME NEW h \in Handlers, CheckinTakeBack(h) PROVE AwardShape' /\ AwardFollowsRecord'
  <2>. DEFINE d == date[h]
  <2>1. h \in Paying /\ d \in record /\ awards[d] = 0 /\ d \in Days /\ awards' = awards /\ End(h)
    BY <1>0, <1>5 DEF CheckinTakeBack, Paying, AwardShape
  <2>2. /\ pc'[h] = "idle" /\ \A g \in Handlers \ {h} : pc'[g] = pc[g] /\ date'[g] = date[g]
    BY <2>1, PlaceEnds
  <2>3. Paying' = Paying \ {h}
    BY <2>2 DEF Paying
  <2>4. \A g \in Paying' : g \in Paying /\ date'[g] = date[g] /\ date[g] # d
    BY <2>1, <2>2, <2>3 DEF Paying, AwardShape
  <2>5. \/ record' = record \ {d} /\ cutShort' = cutShort
        \/ record' = record /\ cutShort' = cutShort \cup {d}
    BY <1>5 DEF CheckinTakeBack
  <2>6. AwardShape'
    BY <2>1, <2>3, <2>4, <2>5 DEF AwardShape
  <2>7. AwardFollowsRecord'
    <3>1. SUFFICES ASSUME NEW e \in Days
                   PROVE /\ awards'[e] <= 1 /\ (awards'[e] = 1 => e \in record')
                         /\ e \in record' \ cutShort' /\ (\A g \in Paying' : date'[g] # e)
                              => awards'[e] = 1
      BY DEF AwardFollowsRecord
    <3>2. CASE e = d
      BY <2>1, <2>5, <3>2
    <3>3. CASE e # d
      BY <2>1, <2>3, <2>4, <2>5, <3>3 DEF AwardFollowsRecord
    <3>. QED BY <3>2, <3>3
  <2>. QED BY <2>6, <2>7
<1>6. CASE Crash
  <2>1. Paying' = {} /\ record' = record /\ awards' = awards
        /\ cutShort' = cutShort \cup {date[h] : h \in Paying}
    BY <1>6 DEF Crash, Paying
  <2>. QED BY <2>1 DEF AwardShape, AwardFollowsRecord
<1>. QED BY <1>1, <1>2, <1>3, <1>4, <1>5, <1>6 DEF Next, UserCheckin, AdjustQuota, NextDay, CodeEnds,
           request, checkinHistory, vars

-----------------------------------------------------------------------------
\* The types and the balances.

LEMMA NextTypes ==
  TypeOK /\ Configured /\ [Next]_vars => TypeOK' /\ Configured'
<1>. SUFFICES ASSUME TypeOK, Configured, [Next]_vars PROVE TypeOK' /\ Configured'
  OBVIOUS
<1>0. /\ row = [quota |-> row.quota, aff |-> row.aff] /\ row.quota \in Amounts /\ row.aff \in Amounts
      /\ row \in UserRows /\ negative \in BOOLEAN /\ day \in Nat /\ day <= MaxDay
      /\ row.quota \in Int /\ row.aff \in Int
  <2>1. row \in UserRows /\ day \in Days
    BY DEF TypeOK
  <2>2. negative \in BOOLEAN
    BY Zenon DEF TypeOK
  <2>3. row = [quota |-> row.quota, aff |-> row.aff] /\ row.quota \in Amounts /\ row.aff \in Amounts
    BY <2>1 DEF UserRows
  <2>. QED BY <2>1, <2>2, <2>3, WalletAssumption, AmountFacts DEF Days
<1>a. ASSUME NEW x \in Amounts, NEW y \in Amounts PROVE [quota |-> x, aff |-> y] \in UserRows
  BY <1>a DEF UserRows
<1>b. ASSUME UNCHANGED negative
      PROVE  Configured' /\ UserRows' = UserRows /\ CodeRows' = CodeRows
  BY <1>b DEF Configured, Amounts, UserRows, CodeRows
<1>1. ASSUME UNCHANGED negative, row' \in UserRows,
             UNCHANGED <<codes, form, day, record, cutShort, pc, sqlite, begun, snap, code, date,
                         codeHistory, awards>>,
             overwritten' \in BOOLEAN, external' \in Int, invited' \in Nat
      PROVE  TypeOK' /\ Configured'
  BY <1>1, <1>b DEF TypeOK, codeHistory
<1>2. CASE AdjustQuota
  <2>1. row' \in UserRows /\ external' \in Int
    <3>1. ASSUME NEW q \in Moves, Debit(q) PROVE row' \in UserRows /\ external' \in Int
      <4>1. /\ row' = [quota |-> row.quota - q, aff |-> row.aff]
            /\ row.quota >= q /\ external' = external - q /\ q \in Nat
        BY <1>0, <3>1, WalletAssumption DEF Debit, DebitAllowed
      <4>2. row.quota - q \in Amounts
        BY <1>0, <4>1, AmountFacts
      <4>. QED BY <1>0, <1>a, <4>1, <4>2 DEF TypeOK
    <3>2. ASSUME NEW q \in Moves, Credit(q) PROVE row' \in UserRows /\ external' \in Int
      <4>1. /\ row' = [quota |-> row.quota + q, aff |-> row.aff]
            /\ external' = external + q /\ q \in Nat
        BY <1>0, <3>2, WalletAssumption DEF Credit
      <4>2. row.quota + q \in Amounts
        BY <1>0, <4>1, AmountFacts
      <4>. QED BY <1>0, <1>a, <4>1, <4>2 DEF TypeOK
    <3>3. ASSUME NEW q \in Moves, TransferAffQuotaToQuota(q)
          PROVE  row' \in UserRows /\ external' \in Int
      <4>1. /\ row' = [quota |-> row.quota + q, aff |-> row.aff - q]
            /\ row.aff >= q /\ external' = external /\ q \in Nat
        BY <1>0, <3>3, WalletAssumption DEF TransferAffQuotaToQuota
      <4>2. row.quota + q \in Amounts /\ row.aff - q \in Amounts
        BY <1>0, <4>1, AmountFacts
      <4>. QED BY <1>a, <4>1, <4>2 DEF TypeOK
    <3>4. ASSUME NEW q \in Overrides, Override(q) PROVE row' \in UserRows /\ external' \in Int
      <4>1. row' = [quota |-> q, aff |-> row.aff] /\ external' = external + q - row.quota /\ q \in Nat
        BY <1>0, <3>4, WalletAssumption DEF Override
      <4>. QED BY <1>0, <1>a, <4>1, AmountFacts DEF TypeOK
    <3>. QED BY <1>2, <3>1, <3>2, <3>3, <3>4 DEF AdjustQuota
  <2>. QED BY <1>1, <1>2, <2>1 DEF AdjustQuota, request, checkinHistory, TypeOK
<1>3. ASSUME NEW h \in Handlers, End(h) \/ (\E l \in Busy : Goto(h, l)), UNCHANGED negative,
             row' \in UserRows, overwritten' \in BOOLEAN, external' \in Int,
             invited' \in Nat, codes' \in [Codes -> CodeRows], day' = day, record' \subseteq Days,
             cutShort' \subseteq Days, credits' \in [Codes -> Nat], reopened' \in [Codes -> Nat],
             paidOut' \in Int, awards' \in [Days -> Nat]
      PROVE  TypeOK' /\ Configured'
  <2>1. /\ pc' \in [Handlers -> {"idle"} \cup Busy] /\ begun' \in Nat /\ sqlite' \in BOOLEAN
        /\ snap' \in [Handlers -> UserRows] /\ code' \in [Handlers -> Codes]
        /\ form' \in [Handlers -> CodeRows] /\ date' \in [Handlers -> Days]
    BY <1>3, RequestType
  <2>. QED BY <1>3, <1>b, <2>1 DEF TypeOK, Busy
<1>4. ASSUME NEW h \in Handlers, NEW l \in Busy, Begin(h, l),
             negative' \in BOOLEAN, negative => negative',
             snap' \in [Handlers -> UserRows'], code' \in [Handlers -> Codes],
             form' \in [Handlers -> CodeRows'], date' \in [Handlers -> Days],
             UNCHANGED <<row, codes, record, day, userHistory, codeHistory, checkinHistory>>
      PROVE  TypeOK' /\ Configured'
  <2>1. begun' \in Nat /\ sqlite' \in BOOLEAN /\ pc' \in [Handlers -> {"idle"} \cup Busy]
    BY <1>4 DEF Begin, TypeOK, Busy
  <2>2. Amounts \subseteq Amounts' /\ UserRows \subseteq UserRows' /\ CodeRows \subseteq CodeRows'
    BY <1>0, <1>4, Growth
  <2>3. row' \in UserRows' /\ codes' \in [Codes -> CodeRows']
    BY <1>4, <2>2 DEF TypeOK
  <2>4. Configured'
    BY <2>2 DEF Configured
  <2>. QED BY <1>4, <2>1, <2>3, <2>4 DEF TypeOK, Busy, userHistory, codeHistory, checkinHistory
<1>5. ASSUME NEW h \in Handlers, ReadUser(h) PROVE TypeOK' /\ Configured'
  <2>0. snap \in [Handlers -> UserRows] /\ form \in [Handlers -> CodeRows]
    BY DEF TypeOK
  <2>1. CASE /\ \E l \in {"update", "edit", "invite"} : Begin(h, l)
             /\ snap' = [snap EXCEPT ![h] = row] /\ UNCHANGED negative
    <3>1. snap' \in [Handlers -> UserRows'] /\ form' \in [Handlers -> CodeRows']
      BY <1>0, <1>5, <1>b, <2>0, <2>1 DEF ReadUser
    <3>. QED BY <1>0, <1>4, <1>5, <2>1, <3>1 DEF ReadUser, TypeOK, Busy
  <2>2. ASSUME NEW q \in Edits, Begin(h, "editQuota"),
               snap' = [snap EXCEPT ![h] = [row EXCEPT !.quota = q]],
               negative' = (negative \/ q < 0)
        PROVE  TypeOK' /\ Configured'
    <3>1. negative' \in BOOLEAN /\ (negative => negative') /\ (q < 0 => negative')
      BY <2>2, Zenon
    <3>2. UserRows \subseteq UserRows' /\ CodeRows \subseteq CodeRows' /\ Amounts \subseteq Amounts'
      BY <1>0, <3>1, Growth
    <3>3. q \in Amounts'
      <4>1. q \in Int
        BY WalletAssumption
      <4>. QED BY <3>1, <4>1 DEF Amounts
    <3>4. [quota |-> q, aff |-> row.aff] \in UserRows'
      BY <1>0, <3>2, <3>3 DEF UserRows
    <3>5. snap' = [snap EXCEPT ![h] = [quota |-> q, aff |-> row.aff]]
      <4>1. [row EXCEPT !.quota = q] = [quota |-> q, aff |-> row.aff]
        BY <1>0
      <4>. QED BY <2>2, <4>1, Zenon
    <3>6. snap' \in [Handlers -> UserRows'] /\ form' \in [Handlers -> CodeRows']
      BY <1>5, <2>0, <3>2, <3>4, <3>5 DEF ReadUser
    <3>. QED BY <1>4, <1>5, <2>2, <3>1, <3>6 DEF ReadUser, TypeOK, Busy
  <2>. QED BY <1>5, <2>1, <2>2 DEF ReadUser
<1>6. ASSUME NEW h \in Handlers, WriteUser(h) PROVE TypeOK' /\ Configured'
  <2>1. /\ snap[h] = [quota |-> snap[h].quota, aff |-> snap[h].aff]
        /\ snap[h].quota \in Amounts /\ snap[h].aff \in Amounts
    BY DEF TypeOK, UserRows
  <2>2. NonZero(snap[h].quota, row.quota) \in Amounts /\ NonZero(snap[h].aff, row.aff) \in Amounts
    BY <1>0, <2>1 DEF NonZero
  <2>3. Saved(h) \in UserRows
    <3>1. snap[h].aff + Bonus \in Amounts
      BY <2>1, AmountFacts DEF Configured
    <3>2. \/ Saved(h) = [quota |-> NonZero(snap[h].quota, row.quota), aff |-> NonZero(snap[h].aff, row.aff)]
          \/ Saved(h) = [quota |-> snap[h].quota, aff |-> row.aff]
          \/ Saved(h) = [quota |-> snap[h].quota, aff |-> snap[h].aff + Bonus]
      BY <1>0, <2>1 DEF Saved
    <3>. QED BY <1>0, <1>a, <2>1, <2>2, <3>1, <3>2
  <2>4. row' \in UserRows
    BY <1>0, <1>6, <2>3 DEF WriteUser
  <2>5. invited' \in Nat
    BY <1>6 DEF WriteUser, userHistory, TypeOK
  <2>6. overwritten' \in BOOLEAN
    BY <1>6, Zenon DEF WriteUser, userHistory, TypeOK
  <2>7. external' \in Int
    <3>1. Intended(h).quota \in Int
      BY <1>0, <2>1, AmountFacts DEF Intended
    <3>. QED BY <1>0, <1>6, <3>1 DEF WriteUser, userHistory, TypeOK
  <2>. QED BY <1>3, <1>6, <2>4, <2>5, <2>6, <2>7 DEF WriteUser, TypeOK, codeHistory, checkinHistory
<1>7. ASSUME NEW h \in Handlers, RedeemRead(h) \/ ReadCode(h) \/ CheckinRead(h)
      PROVE  TypeOK' /\ Configured'
  <2>1. PICK l \in {"redeem", "code", "checkin"} : Begin(h, l)
    BY <1>7 DEF RedeemRead, ReadCode, CheckinRead
  <2>2. code' \in [Handlers -> Codes] /\ snap' = snap /\ date' \in [Handlers -> Days]
    BY <1>7 DEF RedeemRead, ReadCode, CheckinRead, TypeOK
  <2>3. /\ negative' \in BOOLEAN /\ (negative => negative') /\ form' \in [Handlers -> CodeRows']
    <3>1. CASE RedeemRead(h) \/ CheckinRead(h)
      <4>1. UNCHANGED negative /\ form' \in [Handlers -> CodeRows]
        BY <3>1 DEF RedeemRead, CheckinRead, TypeOK
      <4>. QED BY <1>0, <1>b, <4>1
    <3>2. ASSUME NEW c \in Codes, NEW q \in CodeQuotas,
                 form' = [form EXCEPT ![h] = [codes[c] EXCEPT !.live = TRUE, !.quota = q]],
                 negative' = (negative \/ q < 0)
          PROVE  /\ negative' \in BOOLEAN /\ (negative => negative') /\ form' \in [Handlers -> CodeRows']
      <4>1. negative' \in BOOLEAN /\ (negative => negative') /\ (q < 0 => negative')
        BY <3>2, Zenon
      <4>2. CodeRows \subseteq CodeRows'
        BY <1>0, <4>1, Growth
      <4>3. q \in Amounts'
        <5>1. q \in Int
          BY WalletAssumption
        <5>. QED BY <4>1, <5>1 DEF Amounts
      <4>4. codes[c] \in CodeRows' /\ form \in [Handlers -> CodeRows']
        BY <4>2 DEF TypeOK
      <4>5. [codes[c] EXCEPT !.live = TRUE, !.quota = q] \in CodeRows'
        BY <4>3, <4>4 DEF CodeRows
      <4>. QED BY <3>2, <4>1, <4>4, <4>5
    <3>3. ASSUME NEW c \in Codes, NEW s \in {"enabled", "disabled", "used"},
                 form' = [form EXCEPT ![h] = [codes[c] EXCEPT !.status = s]], UNCHANGED negative
          PROVE  /\ negative' \in BOOLEAN /\ (negative => negative') /\ form' \in [Handlers -> CodeRows']
      <4>1. [codes[c] EXCEPT !.status = s] \in CodeRows
        BY Rows DEF TypeOK
      <4>. QED BY <1>0, <1>b, <3>3, <4>1 DEF TypeOK
    <3>. QED BY <1>7, <3>1, <3>2, <3>3 DEF ReadCode
  <2>4. snap' \in [Handlers -> UserRows']
    <3>1. UserRows \subseteq UserRows'
      BY <1>0, <2>3, Growth
    <3>. QED BY <2>2, <3>1 DEF TypeOK
  <2>5. UNCHANGED <<row, codes, record, day, userHistory, codeHistory, checkinHistory>>
    BY <1>7 DEF RedeemRead, ReadCode, CheckinRead
  <2>. QED BY <1>4, <2>1, <2>2, <2>3, <2>4, <2>5 DEF Busy
<1>8. ASSUME NEW h \in Handlers, RedeemCommit(h) \/ WriteCode(h) PROVE TypeOK' /\ Configured'
  <2>1. code[h] \in Codes /\ form[h] \in CodeRows /\ codes[code[h]] \in CodeRows
    BY DEF TypeOK
  <2>2. row' \in UserRows /\ paidOut' \in Int
    <3>1. CASE WriteCode(h)
      BY <1>0, <3>1 DEF WriteCode, TypeOK
    <3>2. CASE RedeemCommit(h) /\ UNCHANGED <<row, paidOut>>
      BY <1>0, <3>2 DEF TypeOK
    <3>3. CASE row' = [row EXCEPT !.quota = @ + form[h].quota] /\ paidOut' = paidOut + form[h].quota
      <4>1. row.quota + form[h].quota \in Amounts /\ form[h].quota \in Int
        BY <1>0, <2>1, Rows, AmountFacts
      <4>2. row' = [quota |-> row.quota + form[h].quota, aff |-> row.aff]
        BY <1>0, <3>3
      <4>. QED BY <1>0, <1>a, <3>3, <4>1, <4>2 DEF TypeOK
    <3>. QED BY <1>8, <3>1, <3>2, <3>3 DEF RedeemCommit
  <2>3. codes' \in [Codes -> CodeRows]
    <3>1. codes' = codes \/ \E r \in CodeRows : codes' = [codes EXCEPT ![code[h]] = r]
      <4>1. CASE RedeemCommit(h)
        <5>1. codes' = codes \/ codes' = [codes EXCEPT ![code[h]].status = "used"]
          BY <4>1 DEF RedeemCommit
        <5>2. [codes[code[h]] EXCEPT !.status = "used"] \in CodeRows
          BY <2>1, Rows
        <5>3. [codes EXCEPT ![code[h]].status = "used"] =
                [codes EXCEPT ![code[h]] = [codes[code[h]] EXCEPT !.status = "used"]]
          OBVIOUS
        <5>. QED BY <5>1, <5>2, <5>3
      <4>2. CASE WriteCode(h)
        BY <2>1, <4>2 DEF WriteCode
      <4>. QED BY <1>8, <4>1, <4>2
    <3>. QED BY <2>1, <3>1 DEF TypeOK
  <2>4. credits' \in [Codes -> Nat] /\ reopened' \in [Codes -> Nat]
    BY <1>8 DEF RedeemCommit, WriteCode, TypeOK
  <2>. QED BY <1>3, <1>8, <2>2, <2>3, <2>4
           DEF RedeemCommit, WriteCode, TypeOK, userHistory, checkinHistory
<1>9. ASSUME NEW h \in Handlers, CheckinCreate(h) \/ CheckinAward(h) \/ CheckinTakeBack(h)
      PROVE  TypeOK' /\ Configured'
  <2>1. row' \in UserRows
    <3>1. CASE UNCHANGED row
      BY <1>0, <3>1
    <3>2. CASE row' = [row EXCEPT !.quota = @ + Award]
      <4>1. row.quota + Award \in Amounts
        BY <1>0, AmountFacts DEF Configured
      <4>2. row' = [quota |-> row.quota + Award, aff |-> row.aff]
        BY <1>0, <3>2
      <4>. QED BY <1>0, <1>a, <4>1, <4>2
    <3>. QED BY <1>9, <3>1, <3>2 DEF CheckinCreate, CheckinAward, CheckinTakeBack, PayAward
  <2>2. awards' \in [Days -> Nat]
    BY <1>9 DEF CheckinCreate, CheckinAward, CheckinTakeBack, PayAward, TypeOK
  <2>3. record' \subseteq Days /\ cutShort' \subseteq Days
    BY <1>9 DEF CheckinCreate, CheckinAward, CheckinTakeBack, TypeOK
  <2>4. End(h) \/ \E l \in Busy : Goto(h, l)
    BY <1>9 DEF CheckinCreate, CheckinAward, CheckinTakeBack, Busy
  <2>5. UNCHANGED <<codes, day, negative, userHistory, codeHistory>>
    BY <1>9 DEF CheckinCreate, CheckinAward, CheckinTakeBack
  <2>. QED BY <1>3, <2>1, <2>2, <2>3, <2>4, <2>5 DEF TypeOK, userHistory, codeHistory
<1>10. CASE NextDay \/ Crash \/ (\E c \in Codes : CodeEnds(c))
  <2>0. UNCHANGED <<row, negative, userHistory, codeHistory, awards>>
    BY <1>10 DEF NextDay, Crash, CodeEnds, checkinHistory
  <2>1. day' \in Days
    BY <1>0, <1>10, WalletAssumption DEF NextDay, Crash, CodeEnds, Days
  <2>2. codes' \in [Codes -> CodeRows]
    <3>1. CASE NextDay \/ Crash
      BY <3>1 DEF NextDay, Crash, TypeOK
    <3>2. ASSUME NEW c \in Codes, CodeEnds(c) PROVE codes' \in [Codes -> CodeRows]
      <4>1. /\ [codes[c] EXCEPT !.live = FALSE] \in CodeRows
            /\ [codes[c] EXCEPT !.status = "deleted"] \in CodeRows
        BY Rows DEF TypeOK
      <4>2. \/ codes' = [codes EXCEPT ![c] = [codes[c] EXCEPT !.live = FALSE]]
            \/ codes' = [codes EXCEPT ![c] = [codes[c] EXCEPT !.status = "deleted"]]
        BY <3>2 DEF CodeEnds
      <4>. QED BY <4>1, <4>2 DEF TypeOK
    <3>. QED BY <1>10, <3>1, <3>2
  <2>3. CASE Crash
    <3>1. cutShort' \subseteq Days
      BY <2>3 DEF Crash, TypeOK, Paying
    <3>. QED BY <1>b, <2>0, <2>3, <3>1, Rows DEF Crash, TypeOK, userHistory, codeHistory
  <2>. QED BY <1>10, <1>b, <2>0, <2>1, <2>2, <2>3
           DEF NextDay, CodeEnds, TypeOK, request, userHistory, codeHistory, checkinHistory
<1>11. CASE UNCHANGED vars
  BY <1>11, <1>b DEF vars, request, userHistory, codeHistory, checkinHistory, TypeOK
<1>. QED BY <1>2, <1>5, <1>6, <1>7, <1>8, <1>9, <1>10, <1>11
         DEF Next, SaveUser, Redeem, UpdateRedemption, UserCheckin

-----------------------------------------------------------------------------

LEMMA WalletInductive == Spec => []WalletInv
<1>1. WalletInv /\ [Next]_vars => WalletInv'
  BY NextTypes, NextCodeShape, NextAwards DEF WalletInv
<1>. QED BY <1>1, InitWallet, PTL DEF Spec

\* Every state is well typed; the balances, the worth of the codes and what the
\* requests are about to write are natural numbers until somebody enters, or
\* has configured, a number below zero.
THEOREM WalletTypeCorrect == Spec => []TypeOK
<1>. QED BY WalletInductive, PTL DEF WalletInv

\* No balance goes below zero, whatever the saves write back and however the
\* requests interleave (user.go:797), unless a number below zero was entered
\* for a quota (controller user.go:532) or a code (redemption.go:203), or
\* configured for awards or invitations.
THEOREM BalancesNeverNegative == Spec => []NeverNegative
<1>1. WalletInv => NeverNegative
  BY DEF WalletInv, TypeOK, UserRows, Amounts, NeverNegative
<1>. QED BY <1>1, WalletInductive, PTL

\* A code is paid once for every time it was open (redemption.go:133-146).
THEOREM CodesPaidOnce == Spec => []PaidOncePerOpening
<1>1. ASSUME WalletInv PROVE PaidOncePerOpening
  <2>1. credits \in [Codes -> Nat] /\ reopened \in [Codes -> Nat]
    BY <1>1 DEF WalletInv, TypeOK
  <2>. QED BY <1>1, <2>1 DEF WalletInv, CodeShape, PaidOncePerOpening
<1>. QED BY <1>1, WalletInductive, PTL

\* A day on record is a day paid, and none is paid twice (checkin.go:95-136).
THEOREM AwardsFollowRecords == Spec => []AwardFollowsRecord
<1>. QED BY WalletInductive, PTL DEF WalletInv

-----------------------------------------------------------------------------
(***************************************************************************)
(* The two balances add up: a step moves them by what it adds to one term  *)
(* of the right-hand side. The sum over the days moves by one payment      *)
(* (SumTheorems).                                                          *)
(***************************************************************************)

LEMMA OneMore == ASSUME NEW a \in Int, NEW n \in Int PROVE a * (n + 1) = a * n + a /\ a * n \in Int
OBVIOUS

\* What came in less what went out.
Due ==
  InitQuota + InitAff + external + Bonus * invited + paidOut + Award * SumOver(awards, Days)

LEMMA DaysFinite == IsFiniteSet(Days)
BY WalletAssumption, FS_Interval DEF Days

\* A payment for one day adds one to the sum.
LEMMA SumsMove ==
  ASSUME TypeOK
  PROVE  /\ SumOver(awards, Days) \in Int
         /\ \A d \in Days : awards' = [awards EXCEPT ![d] = @ + 1] =>
              SumOver(awards', Days) = SumOver(awards, Days) + 1
<1>1. SumOver(awards, Days) \in Int
  BY SumType, DaysFinite DEF TypeOK
<1>2. ASSUME NEW d \in Days, awards' = [awards EXCEPT ![d] = @ + 1]
      PROVE  SumOver(awards', Days) = SumOver(awards, Days) + 1
  <2>1. \A x \in Days : awards[x] \in Int /\ awards'[x] \in Int
    BY <1>2 DEF TypeOK
  <2>2. awards'[d] - awards[d] = 1 /\ \A x \in Days \ {d} : awards[x] = awards'[x]
    BY <1>2 DEF TypeOK
  <2>3. SumOver(awards', Days) = SumOver(awards, Days) + (awards'[d] - awards[d])
    BY <2>1, <2>2, SumChange, DaysFinite
  <2>. QED BY <2>2, <2>3
<1>. QED BY <1>1, <1>2

LEMMA NextBalances ==
  TypeOK /\ BalancesAddUp /\ [Next]_vars => BalancesAddUp'
<1>. SUFFICES ASSUME TypeOK, BalancesAddUp, [Next]_vars, ~overwritten'
              PROVE  row'.quota + row'.aff = Due'
  BY DEF BalancesAddUp, Due
<1>0. /\ row.quota \in Int /\ row.aff \in Int /\ external \in Int /\ invited \in Int
      /\ InitQuota \in Int /\ InitAff \in Int /\ Bonus \in Int /\ paidOut \in Int /\ Award \in Int
      /\ row = [quota |-> row.quota, aff |-> row.aff]
  BY WalletAssumption, AmountFacts DEF TypeOK, UserRows
<1>. DEFINE A == SumOver(awards, Days)
<1>1. A \in Int
  BY SumsMove
<1>2. ~overwritten => row.quota + row.aff = InitQuota + InitAff + external + Bonus * invited + paidOut + Award * A
  BY DEF BalancesAddUp
<1>3. Bonus * invited \in Int /\ Award * A \in Int
  BY <1>0, <1>1, OneMore
<1>4. CASE UNCHANGED <<row, external, invited, overwritten, paidOut, awards>>
  BY <1>2, <1>4 DEF Due
<1>5. CASE AdjustQuota
  <2>1. UNCHANGED <<invited, overwritten, paidOut, awards>>
    BY <1>5 DEF AdjustQuota, codeHistory, checkinHistory
  <2>2. row'.quota + row'.aff = row.quota + row.aff + (external' - external) /\ external' \in Int
    <3>1. ASSUME NEW q \in Moves, Debit(q) \/ Credit(q) \/ TransferAffQuotaToQuota(q)
          PROVE  row'.quota + row'.aff = row.quota + row.aff + (external' - external) /\ external' \in Int
      BY <1>0, <3>1, WalletAssumption DEF Debit, Credit, TransferAffQuotaToQuota
    <3>2. ASSUME NEW q \in Overrides, Override(q)
          PROVE  row'.quota + row'.aff = row.quota + row.aff + (external' - external) /\ external' \in Int
      BY <1>0, <3>2, WalletAssumption DEF Override
    <3>. QED BY <1>5, <3>1, <3>2 DEF AdjustQuota
  <2>3. Due' = InitQuota + InitAff + external' + Bonus * invited + paidOut + Award * A
    BY <2>1 DEF Due
  <2>. HIDE DEF A
  <2>. QED BY <1>0, <1>1, <1>2, <1>3, <2>1, <2>2, <2>3
<1>6. ASSUME NEW h \in Handlers, WriteUser(h) PROVE row'.quota + row'.aff = Due'
  <2>0. UNCHANGED <<paidOut, awards>>
    BY <1>6 DEF WriteUser, codeHistory, checkinHistory
  <2>1. /\ ~overwritten
        /\ \/ UNCHANGED <<row, invited, external>>
           \/ /\ row' = Intended(h)
              /\ invited' = IF pc[h] = "invite" THEN invited + 1 ELSE invited
              /\ external' = external + (Intended(h).quota - row.quota)
    <3>1. \/ /\ row' = Saved(h)
             /\ invited' = IF pc[h] = "invite" THEN invited + 1 ELSE invited
             /\ external' = external + (Intended(h).quota - row.quota)
             /\ overwritten' = (overwritten \/ Saved(h) # Intended(h))
          \/ UNCHANGED <<row, invited, external>> /\ UNCHANGED overwritten
      BY <1>6, Zenon DEF WriteUser, userHistory
    <3>2. ASSUME NEW same \in BOOLEAN, overwritten' = (overwritten \/ ~same)
          PROVE  ~overwritten /\ same
      BY <3>2 DEF TypeOK
    <3>3. (Saved(h) = Intended(h)) \in BOOLEAN
      BY Zenon
    <3>4. overwritten' = (overwritten \/ Saved(h) # Intended(h)) => ~overwritten /\ Saved(h) = Intended(h)
      BY <3>2, <3>3, Zenon
    <3>. QED BY <3>1, <3>4, Zenon
  <2>2. CASE UNCHANGED <<row, invited, external>>
    BY <1>2, <2>0, <2>1, <2>2 DEF Due
  <2>3. CASE /\ row' = Intended(h)
             /\ invited' = IF pc[h] = "invite" THEN invited + 1 ELSE invited
             /\ external' = external + (Intended(h).quota - row.quota)
    <3>0. Due' = InitQuota + InitAff + external' + Bonus * invited' + paidOut + Award * A
      BY <2>0 DEF Due
    <3>. HIDE DEF A
    <3>1. CASE pc[h] = "invite"
      <4>1. row'.quota + row'.aff = row.quota + row.aff + Bonus /\ external' = external
        BY <1>0, <2>3, <3>1 DEF Intended
      <4>2. Bonus * invited' = Bonus * invited + Bonus
        BY <1>0, <2>3, <3>1, OneMore
      <4>. QED BY <1>0, <1>1, <1>2, <1>3, <2>1, <3>0, <4>1, <4>2
    <3>2. CASE pc[h] = "editQuota"
      <4>1. snap[h].quota \in Int
        <5>1. h \in Handlers
          BY <1>6
        <5>. QED BY <5>1, AmountFacts DEF TypeOK, UserRows
      <4>2. /\ row'.quota + row'.aff = snap[h].quota + row.aff /\ invited' = invited
            /\ external' = external + (snap[h].quota - row.quota)
        BY <1>0, <2>3, <3>2, <4>1 DEF Intended
      <4>3. external' \in Int
        BY <1>0, <4>1, <4>2
      <4>4. ASSUME NEW m \in Int, NEW n \in Int,
                   row.quota + row.aff = InitQuota + InitAff + external + m + paidOut + n
            PROVE  row'.quota + row'.aff = InitQuota + InitAff + external' + m + paidOut + n
        BY <1>0, <4>1, <4>2, <4>4
      <4>5. Due' = InitQuota + InitAff + external' + Bonus * invited + paidOut + Award * A
        BY <3>0, <4>2
      <4>6. row.quota + row.aff = InitQuota + InitAff + external + Bonus * invited + paidOut + Award * A
        BY <1>2, <2>1
      <4>. QED BY <1>3, <4>4, <4>5, <4>6
    <3>3. CASE pc[h] \notin {"invite", "editQuota"}
      <4>1. row' = row /\ invited' = invited /\ external' = external
        BY <1>0, <2>3, <3>3 DEF Intended
      <4>. QED BY <1>2, <2>1, <3>0, <4>1
    <3>. QED BY <3>1, <3>2, <3>3
  <2>. QED BY <2>1, <2>2, <2>3
<1>7. ASSUME NEW h \in Handlers, RedeemCommit(h) PROVE row'.quota + row'.aff = Due'
  <2>1. UNCHANGED <<external, invited, overwritten, awards>>
    BY <1>7 DEF RedeemCommit, userHistory, checkinHistory
  <2>2. CASE UNCHANGED <<row, paidOut>>
    BY <1>4, <2>1, <2>2
  <2>3. CASE row' = [row EXCEPT !.quota = @ + form[h].quota] /\ paidOut' = paidOut + form[h].quota
    <3>1. form[h].quota \in Int
      BY <1>7, Rows, AmountFacts DEF TypeOK
    <3>2. Due' = InitQuota + InitAff + external + Bonus * invited + paidOut' + Award * A
      BY <2>1 DEF Due
    <3>3. row'.quota + row'.aff = row.quota + row.aff + form[h].quota
      BY <1>0, <2>3, <3>1
    <3>. HIDE DEF A
    <3>. QED BY <1>0, <1>1, <1>2, <1>3, <2>1, <2>3, <3>1, <3>2, <3>3
  <2>. QED BY <1>7, <2>2, <2>3 DEF RedeemCommit
<1>8. ASSUME NEW h \in Handlers, CheckinCreate(h) \/ CheckinAward(h) PROVE row'.quota + row'.aff = Due'
  <2>1. UNCHANGED <<external, invited, overwritten, paidOut>> /\ date[h] \in Days
    BY <1>8 DEF CheckinCreate, CheckinAward, TypeOK, userHistory, codeHistory
  <2>2. CASE UNCHANGED <<row, awards>>
    BY <1>4, <2>1, <2>2
  <2>3. CASE PayAward(h)
    <3>1. SumOver(awards', Days) = A + 1
      BY <2>1, <2>3, SumsMove DEF PayAward
    <3>2. Due' = InitQuota + InitAff + external + Bonus * invited + paidOut + Award * (A + 1)
      BY <2>1, <3>1 DEF Due
    <3>3. row'.quota + row'.aff = row.quota + row.aff + Award
      BY <1>0, <2>3 DEF PayAward
    <3>. HIDE DEF A
    <3>4. Award * (A + 1) = Award * A + Award
      BY <1>0, <1>1, OneMore
    <3>. QED BY <1>0, <1>1, <1>2, <1>3, <2>1, <3>2, <3>3, <3>4
  <2>. QED BY <1>8, <2>2, <2>3 DEF CheckinCreate, CheckinAward
<1>. QED BY <1>4, <1>5, <1>6, <1>7, <1>8 DEF Next, NextDay, Crash, CodeEnds, SaveUser, ReadUser,
           Redeem, RedeemRead, UpdateRedemption, ReadCode, WriteCode, UserCheckin, CheckinRead,
           CheckinTakeBack, userHistory, codeHistory, checkinHistory, vars

\* Every unit in the two balances came in by a credit, a code, a check-in, an
\* invitation or an administrator's word and left by a debit, as long as no save
\* has overwritten a movement (user.go:755-797, redemption.go:133, checkin.go:95).
THEOREM BalancesAlwaysAddUp == Spec => []BalancesAddUp
<1>1. Init => BalancesAddUp
  <2>. SUFFICES ASSUME Init PROVE BalancesAddUp
    OBVIOUS
  <2>1. SumOver(awards, Days) = 0
    BY SumZero, DaysFinite, WalletAssumption DEF Init
  <2>2. row.quota = InitQuota /\ row.aff = InitAff /\ external = 0 /\ invited = 0 /\ paidOut = 0
    BY DEF Init
  <2>3. Bonus * 0 = 0 /\ Award * 0 = 0
    BY WalletAssumption
  <2>. QED BY <2>1, <2>2, <2>3, WalletAssumption DEF BalancesAddUp
<1>2. WalletInv => TypeOK
  BY DEF WalletInv
<1>. QED BY <1>1, <1>2, NextBalances, WalletInductive, PTL DEF Spec
=============================================================================
