--------------------------- MODULE BillingProofs ---------------------------
(***************************************************************************)
(* The safety of Billing for every number of requests and tokens, every    *)
(* quota, price and fee, with failing statements, panics and crashes.      *)
(*                                                                         *)
(* The argument is the inductive invariant IInv of BillingProperties: the  *)
(* flags of a session that can stand together (SessionShape), what the     *)
(* location of the handler says about them (LocationShape), and what they  *)
(* say about the money that moved (MoneyShape). A step of request r can    *)
(* disturb the shape of r only; ShapeFrame carries the others over.        *)
(*                                                                         *)
(* On it stand the refinement of BillingLedger, the distance between what  *)
(* wallet and token have paid (TokenInv), and the books: the sums over all *)
(* requests of what each has paid (WalletBooks, TokenBooks).               *)
(***************************************************************************)
EXTENDS BillingProperties, SumTheorems

-----------------------------------------------------------------------------
\* Facts about the helpers.

\* A request keeps its shape when nothing the shape reads changes; that a
\* worker finds the task of its refund is no such change.
LEMMA ShapeFrame ==
  ASSUME NEW q \in Requests, Shape(q),
         pc'[q] = pc[q], session'[q] = session[q],
         job'[q] = job[q] \/ (job[q] = "left" /\ job'[q] = "wallet"),
         price'[q] = price[q], estimate'[q] = estimate[q],
         paid'[q] = paid[q], tokenPaid'[q] = tokenPaid[q], faulted'[q] = faulted[q]
  PROVE  Shape(q)'
  BY DEF Shape, SessionShape, LocationShape, MoneyShape, RefundDue

\* Every request presents one of the tokens.
LEMMA TokenType == ASSUME TypeOK, NEW r \in Requests PROVE TokenOf[r] \in Tokens
  BY RequestAssumption DEF TypeOK, TokenOf

\* The conditional debit never takes the wallet below zero.
LEMMA WalletNat ==
  ASSUME wallet \in Nat, NEW q \in Int, ChargeWallet(q)
  PROVE  wallet' \in Nat
  BY DEF ChargeWallet, WalletAllows

\* ... and neither does the one of a token, which moves no other request.
LEMMA TokenStep ==
  ASSUME TypeOK, NoOverdraft, NEW r \in Requests, NEW q \in Int,
         TakeFromToken(r, q), tokenPaid[r] + q \in Nat
  PROVE  /\ remain' \in [Tokens -> Int] /\ used' \in [Tokens -> Int]
         /\ tokenPaid' \in [Requests -> Nat]
         /\ \A t \in Tokens : remain'[t] >= 0
         /\ tokenPaid'[r] = tokenPaid[r] + q
         /\ \A x \in Requests \ {r} : tokenPaid'[x] = tokenPaid[x]
<1>1. TokenOf[r] \in Tokens
  BY TokenType
<1>2. /\ tokenPaid' \in [Requests -> Nat] /\ tokenPaid'[r] = tokenPaid[r] + q
      /\ \A x \in Requests \ {r} : tokenPaid'[x] = tokenPaid[x]
  BY DEF TakeFromToken, TypeOK
<1>3. used' \in [Tokens -> Int]
  BY <1>1 DEF TakeFromToken, ChargeToken, TypeOK
<1>4. remain' \in [Tokens -> Int] /\ \A t \in Tokens : remain'[t] >= 0
  BY <1>1 DEF TakeFromToken, ChargeToken, TokenAllows, TypeOK, NoOverdraft
<1>. QED BY <1>2, <1>3, <1>4

LEMMA SessionFields ==
  ASSUME NEW s \in Sessions
  PROVE  /\ s.open \in BOOLEAN /\ s.settled \in BOOLEAN
         /\ s.fundingSettled \in BOOLEAN /\ s.refunded \in BOOLEAN
         /\ s.consumed \in Nat /\ s.tokenConsumed \in Nat /\ s.preConsumed \in Nat
  BY DEF Sessions

LEMMA NoSessionType == NoSession \in Sessions
  BY DEF NoSession, Sessions

-----------------------------------------------------------------------------
\* The invariant holds initially and every action keeps it.

LEMMA InitInv == Init => IInv
<1>. SUFFICES ASSUME Init PROVE IInv
  OBVIOUS
<1>1. TypeOK
  BY AmountAssumption, NoSessionType DEF Init, TypeOK, Locations, Jobs
<1>2. NoOverdraft
  BY AmountAssumption DEF Init, NoOverdraft
<1>3. ASSUME NEW r \in Requests PROVE Shape(r)
  BY DEF Init, Shape, SessionShape, LocationShape, MoneyShape, RefundDue, NoSession, Ended
<1>. QED BY <1>1, <1>2, <1>3 DEF IInv

LEMMA AuthenticateInv == ASSUME IInv, NEW r \in Requests, Authenticate(r) PROVE IInv'
<1>1. TokenOf[r] \in Tokens /\ pc[r] = "new" /\ pc'[r] \in {"rejected", "exhausting", "serving", "priced"}
  BY TokenType DEF Authenticate, Goto, IInv, TypeOK
<1>2. tokenQuota' \in [Requests -> Int]
  <2>1. PICK q \in {remain[TokenOf[r]]} \cup Copies :
          tokenQuota' = [tokenQuota EXCEPT ![r] = IF TokenOf[r] \in Limited THEN q ELSE 0]
    BY DEF Authenticate
  <2>2. q \in Int
    BY <1>1, AmountAssumption DEF Copies, IInv, TypeOK
  <2>. QED BY <2>1, <2>2 DEF IInv, TypeOK
<1>3. /\ pc' \in [Requests -> Locations]
      /\ \A x \in Requests \ {r} : pc'[x] = pc[x]
  BY DEF Authenticate, Goto, IInv, TypeOK, Locations, Ended
<1>4. /\ estimate' \in [Requests -> Nat]
      /\ \A x \in Requests \ {r} : estimate'[x] = estimate[x]
  BY AmountAssumption DEF Authenticate, Goto, IInv, TypeOK
<1>5. TypeOK' /\ NoOverdraft'
  BY <1>2, <1>3, <1>4 DEF Authenticate, IInv, TypeOK, NoOverdraft, historyVars
<1>6. Shape(r)'
  BY <1>1, <1>4 DEF Authenticate, IInv, TypeOK, Shape, SessionShape, LocationShape, MoneyShape, RefundDue,
     NoSession, Ended, historyVars
<1>. QED BY <1>3, <1>4, <1>5, <1>6, ShapeFrame DEF Authenticate, IInv, historyVars

LEMMA MarkExhaustedInv == ASSUME IInv, NEW r \in Requests, MarkExhausted(r) PROVE IInv'
<1>1. TokenOf[r] \in Tokens /\ pc[r] = "exhausting" /\ pc'[r] = "rejected"
  BY TokenType DEF MarkExhausted, Goto, IInv, TypeOK
<1>2. pc' \in [Requests -> Locations] /\ \A x \in Requests \ {r} : pc'[x] = pc[x]
  BY DEF MarkExhausted, Goto, IInv, TypeOK, Locations, Ended
<1>3. TypeOK' /\ NoOverdraft'
  BY <1>1, <1>2 DEF MarkExhausted, IInv, TypeOK, NoOverdraft, historyVars
<1>4. Shape(r)'
  BY <1>1 DEF MarkExhausted, IInv, TypeOK, Shape, SessionShape, LocationShape, MoneyShape, RefundDue,
     NoSession, Ended, historyVars
<1>. QED BY <1>2, <1>3, <1>4, ShapeFrame DEF MarkExhausted, IInv, historyVars

LEMMA OpenSessionInv == ASSUME IInv, NEW r \in Requests, OpenSession(r) PROVE IInv'
<1>. DEFINE s == session[r]
            t == [s EXCEPT !.open = TRUE]
<1>1. pc[r] = "priced" /\ s = NoSession /\ s \in Sessions /\ tokenPaid[r] = 0
  BY DEF OpenSession, IInv, TypeOK, Shape, LocationShape
<1>2. job[r] = "none" /\ paid[r] = 0
  BY <1>1 DEF IInv, TypeOK, Jobs, Shape, SessionShape, LocationShape, NoSession, Ended
<1>3. \/ pc' = [pc EXCEPT ![r] = "serving"] /\ session' = [session EXCEPT ![r] = t]
      \/ pc' = [pc EXCEPT ![r] = "rejected"] /\ session' = session
      \/ pc' = [pc EXCEPT ![r] = "takeToken"] /\ session' = session
  BY DEF OpenSession, Goto
<1>4. t \in Sessions
  BY <1>1 DEF Sessions
<1>5. /\ pc' \in [Requests -> Locations] /\ session' \in [Requests -> Sessions]
      /\ \A x \in Requests \ {r} : pc'[x] = pc[x] /\ session'[x] = session[x]
  BY <1>3, <1>4 DEF IInv, TypeOK, Locations, Ended
<1>6. TypeOK' /\ NoOverdraft'
  BY <1>5 DEF OpenSession, IInv, TypeOK, NoOverdraft, historyVars
<1>7. Shape(r)'
  <2>1. CASE pc' = [pc EXCEPT ![r] = "serving"] /\ session' = [session EXCEPT ![r] = t]
    <3>1. pc'[r] = "serving" /\ session'[r] = t
      BY <2>1 DEF IInv, TypeOK
    <3>. QED BY <1>1, <1>2, <3>1 DEF OpenSession, Shape, SessionShape, LocationShape, MoneyShape, RefundDue,
                NoSession, Ended, historyVars
  <2>2. CASE pc'[r] \in {"rejected", "takeToken"} /\ session' = session
    BY <1>1, <1>2, <2>2 DEF OpenSession, Shape, SessionShape, LocationShape, MoneyShape, RefundDue,
       NoSession, Ended, historyVars
  <2>. QED BY <1>3, <2>1, <2>2 DEF IInv, TypeOK
<1>. QED BY <1>5, <1>6, <1>7, ShapeFrame DEF OpenSession, IInv, historyVars

LEMMA PreConsumeTokenInv == ASSUME IInv, NEW r \in Requests, PreConsumeToken(r) PROVE IInv'
<1>. DEFINE s == session[r]
            q == estimate[r]
            t == [s EXCEPT !.tokenConsumed = q]
<1>1. /\ pc[r] = "takeToken" /\ s = NoSession /\ s \in Sessions
      /\ q \in Nat /\ tokenPaid[r] = 0
  BY DEF PreConsumeToken, IInv, TypeOK, Shape, LocationShape
<1>2. job[r] = "none" /\ paid[r] = 0
  BY <1>1 DEF IInv, TypeOK, Jobs, Shape, SessionShape, LocationShape, NoSession, Ended
<1>3. CASE TakeFromToken(r, q) /\ session' = [session EXCEPT ![r] = t] /\ Goto(r, "takeWallet")
           /\ faulted' = faulted
  <2>1. t \in Sessions
    BY <1>1 DEF Sessions
  <2>2. /\ remain' \in [Tokens -> Int] /\ used' \in [Tokens -> Int]
        /\ tokenPaid' \in [Requests -> Nat] /\ \A x \in Tokens : remain'[x] >= 0
        /\ tokenPaid'[r] = q /\ \A x \in Requests \ {r} : tokenPaid'[x] = tokenPaid[x]
    BY <1>1, <1>3, TokenStep DEF IInv
  <2>3. TypeOK' /\ NoOverdraft'
    BY <1>3, <2>1, <2>2 DEF PreConsumeToken, IInv, TypeOK, NoOverdraft, Goto, Locations
  <2>4. session'[r] = t /\ pc'[r] = "takeWallet"
    BY <1>3 DEF IInv, TypeOK, Goto
  <2>5. Shape(r)'
    BY <1>1, <1>2, <2>2, <2>4 DEF PreConsumeToken, Shape, SessionShape, LocationShape, MoneyShape, RefundDue,
       NoSession, Ended
  <2>. QED BY <1>3, <2>2, <2>3, <2>5, ShapeFrame DEF PreConsumeToken, IInv, TypeOK, Goto
<1>4. CASE Goto(r, "rejected") /\ TokenUnchanged /\ UNCHANGED <<session, faulted>>
  <2>1. TypeOK' /\ NoOverdraft'
    BY <1>4 DEF PreConsumeToken, IInv, TypeOK, NoOverdraft, Goto, Locations, Ended, TokenUnchanged
  <2>2. Shape(r)'
    BY <1>1, <1>2, <1>4 DEF PreConsumeToken, IInv, TypeOK, Goto, TokenUnchanged, Shape, SessionShape,
       LocationShape, MoneyShape, RefundDue, NoSession, Ended
  <2>. QED BY <1>4, <2>1, <2>2, ShapeFrame DEF PreConsumeToken, IInv, TypeOK, Goto, TokenUnchanged
<1>. QED BY <1>3, <1>4 DEF PreConsumeToken

LEMMA PreConsumeWalletInv == ASSUME IInv, NEW r \in Requests, PreConsumeWallet(r) PROVE IInv'
<1>. DEFINE s == session[r]
            q == estimate[r]
            t == [s EXCEPT !.open = TRUE, !.consumed = q, !.preConsumed = q]
<1>1. /\ pc[r] = "takeWallet"
      /\ s \in Sessions /\ q \in Nat /\ wallet \in Nat /\ job[r] \in Jobs
      /\ ~s.open /\ s.tokenConsumed = q /\ tokenPaid[r] = q
  BY DEF PreConsumeWallet, IInv, TypeOK, NoOverdraft, Shape, LocationShape
<1>2. /\ ~s.settled /\ ~s.fundingSettled /\ ~s.refunded /\ s.preConsumed = 0 /\ s.consumed = 0
      /\ job[r] = "none"
  BY <1>1, SessionFields DEF IInv, Shape, SessionShape
<1>3. paid[r] = 0
  BY <1>1, <1>2 DEF IInv, Shape, LocationShape, Ended
<1>4. CASE pc'[r] = "serving"
  <2>1. /\ ChargeWallet(q) /\ paid' = [paid EXCEPT ![r] = @ + q]
        /\ session' = [session EXCEPT ![r] = t] /\ Goto(r, "serving")
    BY <1>1, <1>4 DEF PreConsumeWallet, Goto, IInv, TypeOK
  <2>2. t \in Sessions
    BY <1>1 DEF Sessions
  <2>3. wallet' \in Nat
    BY <1>1, <2>1, WalletNat
  <2>4. TypeOK'
    BY <1>1, <1>3, <2>1, <2>2, <2>3 DEF PreConsumeWallet, IInv, TypeOK, Goto, Locations
  <2>5. session'[r] = t /\ paid'[r] = q /\ pc'[r] = "serving"
    BY <1>3, <2>1, <1>1 DEF IInv, TypeOK, Goto
  <2>6. Shape(r)'
    BY <1>1, <1>2, <1>3, <2>5
       DEF PreConsumeWallet, Shape, SessionShape, LocationShape, MoneyShape, RefundDue, Ended, Sessions
  <2>. QED BY <2>1, <2>3, <2>4, <2>6, ShapeFrame
           DEF PreConsumeWallet, IInv, Goto, TypeOK, NoOverdraft
<1>5. CASE pc'[r] = "undoToken"
  <2>1. Goto(r, "undoToken") /\ UNCHANGED <<wallet, paid, session>>
    BY <1>1, <1>5 DEF PreConsumeWallet, Goto, IInv, TypeOK
  <2>2. Shape(r)'
    BY <2>1, <1>1, <1>2, <1>3
       DEF PreConsumeWallet, Shape, SessionShape, LocationShape, MoneyShape, RefundDue, Ended, Goto, IInv, TypeOK
  <2>. QED BY <2>1, <2>2, ShapeFrame
           DEF PreConsumeWallet, IInv, Goto, TypeOK, NoOverdraft, Locations
<1>. QED BY <1>4, <1>5 DEF PreConsumeWallet, Goto, IInv, TypeOK

LEMMA UndoPreConsumeTokenInv ==
  ASSUME IInv, NEW r \in Requests, UndoPreConsumeToken(r) PROVE IInv'
<1>. DEFINE s == session[r]
            t == [s EXCEPT !.tokenConsumed = 0]
<1>1. /\ pc[r] = "undoToken" /\ s \in Sessions /\ job[r] \in Jobs
      /\ ~s.open /\ tokenPaid[r] = s.tokenConsumed
  BY DEF UndoPreConsumeToken, IInv, TypeOK, Shape, LocationShape
<1>2. /\ s.tokenConsumed \in Nat /\ s.consumed = 0 /\ s.preConsumed = 0
      /\ ~s.settled /\ ~s.fundingSettled /\ ~s.refunded /\ job[r] = "none"
  BY <1>1, SessionFields DEF IInv, Shape, SessionShape
<1>3. paid[r] = 0
  BY <1>1, <1>2 DEF IInv, Shape, LocationShape, Ended
<1>4. t \in Sessions /\ session' = [session EXCEPT ![r] = t] /\ Goto(r, "rejected")
  BY <1>1 DEF UndoPreConsumeToken, Sessions
<1>5. /\ remain' \in [Tokens -> Int] /\ used' \in [Tokens -> Int]
      /\ tokenPaid' \in [Requests -> Nat] /\ \A x \in Tokens : remain'[x] >= 0
      /\ \A x \in Requests \ {r} : tokenPaid'[x] = tokenPaid[x]
      /\ faulted' \in [Requests -> BOOLEAN]
      /\ \A x \in Requests \ {r} : faulted'[x] = faulted[x]
  <2>1. CASE TakeFromToken(r, -s.tokenConsumed) /\ UNCHANGED faulted
    <3>1. -s.tokenConsumed \in Int /\ tokenPaid[r] + (-s.tokenConsumed) \in Nat
      BY <1>1, <1>2
    <3>. QED BY <2>1, <3>1, TokenStep DEF IInv, TypeOK
  <2>2. CASE Fault(r) /\ TokenUnchanged
    BY <2>2 DEF Fault, TokenUnchanged, IInv, TypeOK, NoOverdraft
  <2>. QED BY <2>1, <2>2 DEF UndoPreConsumeToken
<1>6. TypeOK' /\ NoOverdraft'
  <2>1. pc' \in [Requests -> Locations] /\ session' \in [Requests -> Sessions]
    BY <1>4 DEF IInv, TypeOK, Goto, Locations, Ended
  <2>. QED BY <1>5, <2>1 DEF UndoPreConsumeToken, IInv, TypeOK, NoOverdraft
<1>7. session'[r] = t /\ pc'[r] = "rejected" /\ paid'[r] = 0 /\ job'[r] = "none"
  BY <1>2, <1>3, <1>4 DEF UndoPreConsumeToken, IInv, TypeOK, Goto
<1>8. Shape(r)'
  BY <1>1, <1>2, <1>7 DEF Shape, SessionShape, LocationShape, MoneyShape, RefundDue, Ended, Sessions
<1>. QED BY <1>4, <1>5, <1>6, <1>8, ShapeFrame DEF UndoPreConsumeToken, IInv, TypeOK, Goto

LEMMA AttemptFailsInv == ASSUME IInv, NEW r \in Requests, AttemptFails(r) PROVE IInv'
<1>1. TypeOK' /\ NoOverdraft'
  BY DEF AttemptFails, IInv, TypeOK, NoOverdraft, historyVars
<1>. QED BY <1>1, ShapeFrame DEF AttemptFails, IInv, historyVars

LEMMA AttemptSucceedsInv == ASSUME IInv, NEW r \in Requests, AttemptSucceeds(r) PROVE IInv'
<1>1. TypeOK' /\ NoOverdraft'
  BY AmountAssumption
     DEF AttemptSucceeds, IInv, TypeOK, NoOverdraft, Goto, Locations, historyVars
<1>2. pc[r] = "serving" /\ pc'[r] = "settle"
  BY DEF AttemptSucceeds, IInv, TypeOK, Goto
<1>3. Shape(r)'
  BY <1>2 DEF AttemptSucceeds, IInv, Shape, SessionShape, LocationShape, MoneyShape, RefundDue, Ended, historyVars
<1>. QED BY <1>1, <1>3, ShapeFrame DEF AttemptSucceeds, IInv, TypeOK, Goto, historyVars

LEMMA SettleWalletInv == ASSUME IInv, NEW r \in Requests, SettleWallet(r) PROVE IInv'
<1>. DEFINE s == session[r]
            d == Delta(r)
            done == [s EXCEPT !.settled = s.open]
            funded == [s EXCEPT !.fundingSettled = s.open]
<1>1. /\ pc[r] = "settle" /\ s \in Sessions /\ job[r] \in Jobs
      /\ ~s.settled /\ ~s.fundingSettled /\ price[r] \in Nat /\ wallet \in Nat
      /\ paid[r] = s.preConsumed /\ tokenPaid[r] = s.preConsumed
  BY DEF SettleWallet, IInv, TypeOK, NoOverdraft, Shape, LocationShape, Ended
<1>2. ~s.refunded /\ job[r] = "none" /\ s.preConsumed \in Nat /\ s.open \in BOOLEAN
  BY <1>1, SessionFields DEF IInv, Shape, SessionShape, LocationShape
<1>3. d \in Int /\ s.preConsumed + d = price[r]
  BY <1>1, <1>2 DEF Delta
<1>4. CASE /\ d = 0 \/ s.settled
           /\ session' = [session EXCEPT ![r] = done]
           /\ Goto(r, "recording")
           /\ UNCHANGED <<wallet, paid>>
  <2>1. done \in Sessions
    BY <1>1, <1>2 DEF Sessions
  <2>2. TypeOK' /\ NoOverdraft'
    BY <1>4, <2>1 DEF SettleWallet, IInv, TypeOK, NoOverdraft, Goto, Locations
  <2>3. session'[r] = done /\ pc'[r] = "recording" /\ paid'[r] = price[r]
    BY <1>1, <1>3, <1>4 DEF IInv, TypeOK, Goto
  <2>4. Shape(r)'
    BY <1>1, <1>2, <1>3, <1>4, <2>3
       DEF SettleWallet, IInv, Shape, SessionShape, LocationShape, MoneyShape, RefundDue, Ended, Sessions
  <2>. QED BY <1>4, <2>2, <2>4, ShapeFrame DEF SettleWallet, IInv, TypeOK, Goto
<1>5. CASE /\ ChargeWallet(d)
           /\ paid' = [paid EXCEPT ![r] = @ + d]
           /\ session' = [session EXCEPT ![r] = funded]
           /\ Goto(r, "settleToken")
  <2>1. funded \in Sessions /\ wallet' \in Nat
    BY <1>1, <1>2, <1>3, <1>5, WalletNat DEF Sessions
  <2>2. /\ session'[r] = funded /\ pc'[r] = "settleToken" /\ paid'[r] = price[r]
        /\ paid' \in [Requests -> Nat]
    BY <1>1, <1>3, <1>5 DEF IInv, TypeOK, Goto
  <2>3. TypeOK' /\ NoOverdraft'
    BY <1>5, <2>1, <2>2 DEF SettleWallet, IInv, TypeOK, NoOverdraft, Goto, Locations
  <2>4. Shape(r)'
    BY <1>1, <1>2, <2>2
       DEF SettleWallet, IInv, Shape, SessionShape, LocationShape, MoneyShape, RefundDue, Ended, Sessions
  <2>. QED BY <1>5, <2>3, <2>4, ShapeFrame DEF SettleWallet, IInv, TypeOK, Goto
<1>6. CASE Goto(r, "recording") /\ UNCHANGED <<wallet, paid, session>>
  <2>1. TypeOK' /\ NoOverdraft'
    BY <1>6 DEF SettleWallet, IInv, TypeOK, NoOverdraft, Goto, Locations
  <2>2. pc'[r] = "recording"
    BY <1>6 DEF IInv, TypeOK, Goto
  <2>3. Shape(r)'
    BY <1>1, <1>2, <1>6, <2>2
       DEF SettleWallet, IInv, Shape, SessionShape, LocationShape, MoneyShape, RefundDue, Ended
  <2>. QED BY <1>6, <2>1, <2>3, ShapeFrame DEF SettleWallet, IInv, TypeOK, Goto
<1>. QED BY <1>4, <1>5, <1>6 DEF SettleWallet

LEMMA SettleTokenInv == ASSUME IInv, NEW r \in Requests, SettleToken(r) PROVE IInv'
<1>. DEFINE s == session[r]
            done == [s EXCEPT !.settled = s.open]
<1>1. /\ pc[r] = "settleToken" /\ s \in Sessions /\ price[r] \in Nat /\ job[r] \in Jobs
      /\ ~s.settled /\ s.fundingSettled = s.open /\ tokenPaid[r] = s.preConsumed
      /\ ~s.refunded
  BY SessionFields DEF SettleToken, IInv, TypeOK, Shape, LocationShape, Ended
<1>2. job[r] = "none" /\ s.preConsumed \in Nat /\ s.open \in BOOLEAN
  BY <1>1, SessionFields DEF IInv, Shape, SessionShape
<1>3. done \in Sessions /\ session' = [session EXCEPT ![r] = done] /\ Goto(r, "recording")
  BY <1>1, <1>2 DEF SettleToken, Sessions
<1>4. /\ remain' \in [Tokens -> Int] /\ used' \in [Tokens -> Int]
      /\ tokenPaid' \in [Requests -> Nat] /\ \A x \in Tokens : remain'[x] >= 0
      /\ \A x \in Requests \ {r} : tokenPaid'[x] = tokenPaid[x]
      /\ faulted' \in [Requests -> BOOLEAN]
      /\ \A x \in Requests \ {r} : faulted'[x] = faulted[x]
  <2>1. CASE TakeFromToken(r, Delta(r)) /\ UNCHANGED faulted
    <3>1. Delta(r) \in Int /\ tokenPaid[r] + Delta(r) \in Nat
      BY <1>1, <1>2 DEF Delta
    <3>. QED BY <2>1, <3>1, TokenStep DEF IInv, TypeOK
  <2>2. CASE TokenUnchanged /\ UNCHANGED faulted
    BY <2>2 DEF TokenUnchanged, IInv, TypeOK, NoOverdraft
  <2>3. CASE Fault(r) /\ TokenUnchanged
    BY <2>3 DEF Fault, TokenUnchanged, IInv, TypeOK, NoOverdraft
  <2>. QED BY <2>1, <2>2, <2>3 DEF SettleToken
<1>5. TypeOK' /\ NoOverdraft'
  <2>1. pc' \in [Requests -> Locations] /\ session' \in [Requests -> Sessions]
    BY <1>3 DEF IInv, TypeOK, Goto, Locations
  <2>. QED BY <1>4, <2>1 DEF SettleToken, IInv, TypeOK, NoOverdraft
<1>6. session'[r] = done /\ pc'[r] = "recording" /\ job'[r] = "none"
  BY <1>2, <1>3 DEF SettleToken, IInv, TypeOK, Goto
<1>7. Shape(r)'
  BY <1>1, <1>2, <1>6
     DEF SettleToken, IInv, Shape, SessionShape, LocationShape, MoneyShape, RefundDue, Ended, Sessions
<1>. QED BY <1>3, <1>4, <1>5, <1>7, ShapeFrame DEF SettleToken, IInv, TypeOK, Goto

LEMMA FinishServedInv == ASSUME IInv, NEW r \in Requests, FinishServed(r) PROVE IInv'
<1>1. TypeOK' /\ NoOverdraft'
  BY DEF FinishServed, IInv, TypeOK, NoOverdraft, Goto, Locations, Ended, historyVars
<1>2. pc[r] = "recording" /\ pc'[r] = "served"
  BY DEF FinishServed, IInv, TypeOK, Goto
<1>3. Shape(r)'
  BY <1>2 DEF FinishServed, IInv, Shape, SessionShape, LocationShape, MoneyShape, RefundDue, Ended, historyVars
<1>. QED BY <1>1, <1>3, ShapeFrame DEF FinishServed, IInv, TypeOK, Goto, historyVars

\* Refund marks a session that owes its hold and leaves the task; it types,
\* and of the other requests only moves a task that a worker finds now.
LEMMA RefundStep ==
  ASSUME TypeOK, NEW r \in Requests, Refund(r)
  PROVE  /\ session' \in [Requests -> Sessions] /\ job' \in [Requests -> Jobs]
         /\ \A x \in Requests \ {r} :
              session'[x] = session[x] /\ (job'[x] = job[x] \/ (job[x] = "left" /\ job'[x] = "wallet"))
         /\ \/ /\ NeedsRefund(session[r])
               /\ session'[r] = [session[r] EXCEPT !.refunded = TRUE] /\ RefundDue(r)'
            \/ session'[r] = session[r] /\ job'[r] = job[r]
<1>. DEFINE t == [session[r] EXCEPT !.refunded = TRUE]
<1>1. session[r] \in Sessions
  BY DEF TypeOK
<1>2. t \in Sessions
  BY <1>1 DEF Sessions
<1>3. CASE NeedsRefund(session[r])
  <2>1. /\ session' = [session EXCEPT ![r] = t]
        /\ job' = [Woken EXCEPT ![r] = "wallet"] \/ job' = [job EXCEPT ![r] = "left"]
    BY <1>3 DEF Refund
  <2>2. /\ job' \in [Requests -> Jobs] /\ job'[r] \in {"left", "wallet"}
        /\ \A x \in Requests \ {r} : job'[x] = job[x] \/ (job[x] = "left" /\ job'[x] = "wallet")
    BY <2>1 DEF Woken, TypeOK, Jobs
  <2>. QED BY <1>2, <1>3, <2>1, <2>2 DEF TypeOK, RefundDue
<1>4. CASE ~NeedsRefund(session[r])
  BY <1>4 DEF Refund, TypeOK
<1>. QED BY <1>3, <1>4

\* A request in flight that stops for good keeps its shape, refunded or not.
LEMMA StopShape ==
  ASSUME IInv, NEW r \in Requests, NEW l \in {"fee", "failed", "panicked"},
         \/ pc[r] = "serving"
         \/ pc[r] = "recording" /\ l = "panicked",
         pc'[r] = l,
         \/ /\ NeedsRefund(session[r])
            /\ session'[r] = [session[r] EXCEPT !.refunded = TRUE] /\ RefundDue(r)'
         \/ session'[r] = session[r] /\ job'[r] = job[r],
         price'[r] = price[r], paid'[r] = paid[r], tokenPaid'[r] = tokenPaid[r],
         faulted'[r] = faulted[r]
  PROVE  Shape(r)'
<1>. DEFINE s == session[r]
            t == [s EXCEPT !.refunded = TRUE]
<1>1. /\ s \in Sessions /\ job[r] \in Jobs /\ paid[r] \in Nat
      /\ ~s.refunded /\ tokenPaid[r] \in Nat
      /\ s.fundingSettled => s.settled
      /\ pc[r] = "serving" =>
           ~s.settled /\ tokenPaid[r] = s.preConsumed /\ paid[r] = s.preConsumed
  BY SessionFields DEF IInv, TypeOK, Shape, LocationShape, Ended
<1>2. /\ job[r] = "none" /\ s.preConsumed \in Nat /\ s.open \in BOOLEAN
      /\ s.settled \in BOOLEAN /\ s.fundingSettled \in BOOLEAN
  BY <1>1, SessionFields DEF IInv, Shape, SessionShape
<1>3. CASE NeedsRefund(s) /\ session'[r] = t /\ RefundDue(r)'
  <2>1. /\ s.open /\ ~s.settled /\ ~s.fundingSettled
        /\ paid[r] = s.preConsumed /\ tokenPaid[r] >= s.preConsumed
        /\ s.preConsumed > 0
    BY <1>3 DEF NeedsRefund, IInv, Shape, SessionShape, MoneyShape, RefundDue
  <2>2. /\ session'[r].open /\ ~session'[r].settled /\ ~session'[r].fundingSettled
        /\ session'[r].refunded /\ session'[r] # NoSession
        /\ session'[r].consumed = s.consumed /\ session'[r].preConsumed = s.preConsumed
        /\ session'[r].tokenConsumed = s.tokenConsumed
    BY <1>1, <1>3, <2>1 DEF Sessions, NoSession
  <2>3. SessionShape(r)'
    BY <2>1, <2>2 DEF IInv, Shape, SessionShape
  <2>4. LocationShape(r)'
    BY <1>1, <2>2 DEF LocationShape, Ended
  <2>5. MoneyShape(r)'
    BY <1>3, <2>1, <2>2 DEF MoneyShape, RefundDue
  <2>. QED BY <2>3, <2>4, <2>5 DEF Shape
<1>4. CASE session'[r] = session[r] /\ job'[r] = job[r]
  BY <1>1, <1>2, <1>4 DEF IInv, Shape, SessionShape, LocationShape, MoneyShape, RefundDue, Ended
<1>. QED BY <1>3, <1>4

LEMMA GiveUpInv == ASSUME IInv, NEW r \in Requests, GiveUp(r) PROVE IInv'
<1>1. PICK l \in {"fee", "failed"} : Goto(r, l)
  BY DEF GiveUp
<1>2. /\ session' \in [Requests -> Sessions] /\ job' \in [Requests -> Jobs]
      /\ \A x \in Requests \ {r} :
           session'[x] = session[x] /\ (job'[x] = job[x] \/ (job[x] = "left" /\ job'[x] = "wallet"))
      /\ \/ /\ NeedsRefund(session[r])
            /\ session'[r] = [session[r] EXCEPT !.refunded = TRUE] /\ RefundDue(r)'
         \/ session'[r] = session[r] /\ job'[r] = job[r]
  BY RefundStep DEF GiveUp, IInv
<1>3. TypeOK' /\ NoOverdraft'
  BY <1>1, <1>2 DEF GiveUp, IInv, TypeOK, NoOverdraft, Goto, Locations, Ended, historyVars
<1>4. pc[r] = "serving" /\ pc'[r] = l
  BY <1>1 DEF GiveUp, IInv, TypeOK, Goto
<1>5. Shape(r)'
  BY <1>2, <1>4, StopShape DEF GiveUp, historyVars
<1>. QED BY <1>1, <1>2, <1>3, <1>5, ShapeFrame DEF GiveUp, IInv, TypeOK, Goto, historyVars

LEMMA PanicInv == ASSUME IInv, NEW r \in Requests, Panic(r) PROVE IInv'
<1>1. Goto(r, "panicked") /\ pc[r] \in {"serving", "recording"}
  BY DEF Panic
<1>2. /\ session' \in [Requests -> Sessions] /\ job' \in [Requests -> Jobs]
      /\ \A x \in Requests \ {r} :
           session'[x] = session[x] /\ (job'[x] = job[x] \/ (job[x] = "left" /\ job'[x] = "wallet"))
      /\ \/ /\ NeedsRefund(session[r])
            /\ session'[r] = [session[r] EXCEPT !.refunded = TRUE] /\ RefundDue(r)'
         \/ session'[r] = session[r] /\ job'[r] = job[r]
  <2>1. CASE Refund(r)
    BY <2>1, RefundStep DEF IInv
  <2>2. CASE UNCHANGED <<session, job>>
    BY <2>2 DEF IInv, TypeOK
  <2>. QED BY <2>1, <2>2 DEF Panic
<1>3. TypeOK' /\ NoOverdraft'
  BY <1>1, <1>2 DEF Panic, IInv, TypeOK, NoOverdraft, Goto, Locations, Ended, historyVars
<1>4. pc'[r] = "panicked"
  BY <1>1 DEF IInv, TypeOK, Goto
<1>5. Shape(r)'
  BY <1>1, <1>2, <1>4, StopShape DEF Panic, historyVars
<1>. QED BY <1>1, <1>2, <1>3, <1>5, ShapeFrame DEF Panic, IInv, TypeOK, Goto, historyVars

LEMMA ChargeFeeInv == ASSUME IInv, NEW r \in Requests, ChargeFee(r) PROVE IInv'
<1>1. pc[r] = "fee" /\ pc'[r] \in {"feeToken", "failed"}
  BY DEF ChargeFee, IInv, TypeOK, Goto
<1>2. wallet' \in Nat /\ feePaid' \in [Requests -> Nat]
  <2>1. CASE UNCHANGED <<wallet, feePaid>>
    BY <2>1 DEF IInv, TypeOK, NoOverdraft
  <2>2. ASSUME NEW f \in Fees, ChargeWallet(f), feePaid' = [feePaid EXCEPT ![r] = f]
        PROVE  wallet' \in Nat /\ feePaid' \in [Requests -> Nat]
    <3>1. f \in Nat /\ wallet \in Nat
      BY AmountAssumption DEF IInv, TypeOK, NoOverdraft
    <3>. QED BY <2>2, <3>1, WalletNat DEF IInv, TypeOK
  <2>. QED BY <2>1, <2>2 DEF ChargeFee
<1>3. pc' \in [Requests -> Locations] /\ \A x \in Requests \ {r} : pc'[x] = pc[x]
  BY DEF ChargeFee, IInv, TypeOK, Goto, Locations, Ended
<1>4. TypeOK' /\ NoOverdraft'
  BY <1>2, <1>3 DEF ChargeFee, IInv, TypeOK, NoOverdraft
<1>5. Shape(r)'
  BY <1>1 DEF ChargeFee, IInv, Shape, SessionShape, LocationShape, MoneyShape, RefundDue, Ended
<1>. QED BY <1>3, <1>4, <1>5, ShapeFrame DEF ChargeFee, IInv

LEMMA ChargeFeeTokenInv == ASSUME IInv, NEW r \in Requests, ChargeFeeToken(r) PROVE IInv'
<1>1. pc[r] = "feeToken" /\ pc'[r] = "failed" /\ feePaid[r] \in Nat /\ tokenPaid[r] \in Nat
  BY DEF ChargeFeeToken, IInv, TypeOK, Goto
<1>2. /\ remain' \in [Tokens -> Int] /\ used' \in [Tokens -> Int]
      /\ tokenPaid' \in [Requests -> Nat] /\ \A x \in Tokens : remain'[x] >= 0
      /\ tokenPaid'[r] >= tokenPaid[r]
      /\ \A x \in Requests \ {r} : tokenPaid'[x] = tokenPaid[x]
      /\ faulted' \in [Requests -> BOOLEAN]
      /\ faulted'[r] \/ faulted'[r] = faulted[r]
      /\ \A x \in Requests \ {r} : faulted'[x] = faulted[x]
  <2>1. CASE TakeFromToken(r, feePaid[r]) /\ UNCHANGED faulted
    <3>1. feePaid[r] \in Int /\ tokenPaid[r] + feePaid[r] \in Nat
      BY <1>1
    <3>. QED BY <1>1, <2>1, <3>1, TokenStep DEF IInv, TypeOK
  <2>2. CASE TokenUnchanged /\ UNCHANGED faulted
    BY <1>1, <2>2 DEF TokenUnchanged, IInv, TypeOK, NoOverdraft
  <2>3. CASE Fault(r) /\ TokenUnchanged
    BY <1>1, <2>3 DEF Fault, TokenUnchanged, IInv, TypeOK, NoOverdraft
  <2>. QED BY <2>1, <2>2, <2>3 DEF ChargeFeeToken
<1>3. pc' \in [Requests -> Locations] /\ \A x \in Requests \ {r} : pc'[x] = pc[x]
  BY DEF ChargeFeeToken, IInv, TypeOK, Goto, Locations, Ended
<1>4. TypeOK' /\ NoOverdraft'
  BY <1>2, <1>3 DEF ChargeFeeToken, IInv, TypeOK, NoOverdraft
<1>5. session[r].preConsumed \in Nat /\ tokenPaid'[r] \in Nat
  BY <1>2, SessionFields DEF IInv, TypeOK
<1>6. Shape(r)'
  BY <1>1, <1>2, <1>5 DEF ChargeFeeToken, IInv, Shape, SessionShape, LocationShape, MoneyShape, RefundDue, Ended
<1>. QED BY <1>2, <1>3, <1>4, <1>6, ShapeFrame DEF ChargeFeeToken, IInv

LEMMA RefundWalletInv == ASSUME IInv, NEW r \in Requests, RefundWallet(r) PROVE IInv'
<1>. DEFINE s == session[r]
            q == s.consumed
<1>1. /\ job[r] = "wallet" /\ s \in Sessions /\ s.refunded /\ ~s.settled /\ ~s.fundingSettled
      /\ paid[r] = q /\ q = s.preConsumed /\ tokenPaid[r] >= s.preConsumed
  BY DEF RefundWallet, IInv, TypeOK, Shape, SessionShape, MoneyShape, RefundDue
<1>2. q \in Nat /\ wallet \in Nat /\ s.open /\ tokenPaid[r] \in Nat
  BY <1>1, SessionFields DEF IInv, TypeOK, NoOverdraft, Shape, SessionShape
<1>3. pc[r] \in {"fee", "feeToken", "failed", "panicked", "crashed"}
  BY <1>1 DEF IInv, Shape, LocationShape
<1>4. job' = [job EXCEPT ![r] = "token"] /\ job'[r] = "token" /\ job' \in [Requests -> Jobs]
  BY DEF RefundWallet, IInv, TypeOK, Jobs
<1>5. CASE ChargeWallet(-q) /\ paid' = [paid EXCEPT ![r] = @ - q] /\ UNCHANGED faulted
  <2>1. wallet' \in Nat /\ paid' \in [Requests -> Nat] /\ paid'[r] = 0
    <3>1. -q \in Int
      BY <1>2
    <3>2. wallet' \in Nat
      BY <1>2, <1>5, <3>1, WalletNat
    <3>. QED BY <1>1, <1>2, <1>5, <3>2 DEF IInv, TypeOK
  <2>2. TypeOK' /\ NoOverdraft'
    BY <1>4, <1>5, <2>1 DEF RefundWallet, IInv, TypeOK, NoOverdraft
  <2>3. Shape(r)'
    BY <1>1, <1>2, <1>3, <1>4, <2>1
       DEF RefundWallet, IInv, Shape, SessionShape, LocationShape, MoneyShape, RefundDue, Ended
  <2>. QED BY <1>4, <1>5, <2>2, <2>3, ShapeFrame DEF RefundWallet, IInv, TypeOK
<1>6. CASE Fault(r) /\ UNCHANGED <<wallet, paid>>
  <2>1. TypeOK' /\ NoOverdraft' /\ faulted'[r]
    BY <1>4, <1>6 DEF RefundWallet, Fault, IInv, TypeOK, NoOverdraft
  <2>2. Shape(r)'
    BY <1>1, <1>2, <1>3, <1>4, <1>6, <2>1
       DEF RefundWallet, IInv, Shape, SessionShape, LocationShape, MoneyShape, RefundDue, Ended
  <2>. QED BY <1>4, <1>6, <2>1, <2>2, ShapeFrame DEF RefundWallet, Fault, IInv, TypeOK
<1>. QED BY <1>5, <1>6 DEF RefundWallet

LEMMA RefundTokenInv == ASSUME IInv, NEW r \in Requests, RefundToken(r) PROVE IInv'
<1>. DEFINE s == session[r]
<1>1. /\ job[r] = "token" /\ s \in Sessions /\ s.refunded /\ ~s.settled /\ ~s.fundingSettled
      /\ tokenPaid[r] >= s.preConsumed
  BY DEF RefundToken, IInv, TypeOK, Shape, SessionShape, MoneyShape, RefundDue
<1>2. /\ s.tokenConsumed \in Nat /\ s.open /\ s.tokenConsumed = s.preConsumed
      /\ tokenPaid[r] \in Nat
  BY <1>1, SessionFields DEF IInv, TypeOK, Shape, SessionShape
<1>3. pc[r] \in {"fee", "feeToken", "failed", "panicked", "crashed"}
  BY <1>1 DEF IInv, Shape, LocationShape
<1>4. job' = [job EXCEPT ![r] = "none"] /\ job'[r] = "none" /\ job' \in [Requests -> Jobs]
  BY DEF RefundToken, IInv, TypeOK, Jobs
<1>5. /\ remain' \in [Tokens -> Int] /\ used' \in [Tokens -> Int]
      /\ tokenPaid' \in [Requests -> Nat] /\ \A x \in Tokens : remain'[x] >= 0
      /\ \A x \in Requests \ {r} : tokenPaid'[x] = tokenPaid[x]
      /\ faulted' \in [Requests -> BOOLEAN]
      /\ faulted'[r] \/ faulted'[r] = faulted[r]
      /\ \A x \in Requests \ {r} : faulted'[x] = faulted[x]
  <2>1. CASE TakeFromToken(r, -s.tokenConsumed) /\ UNCHANGED faulted
    <3>1. -s.tokenConsumed \in Int /\ tokenPaid[r] + (-s.tokenConsumed) \in Nat
      BY <1>1, <1>2
    <3>. QED BY <2>1, <3>1, TokenStep DEF IInv, TypeOK
  <2>2. CASE Fault(r) /\ TokenUnchanged
    BY <2>2 DEF Fault, TokenUnchanged, IInv, TypeOK, NoOverdraft
  <2>. QED BY <2>1, <2>2 DEF RefundToken
<1>6. TypeOK' /\ NoOverdraft'
  BY <1>4, <1>5 DEF RefundToken, IInv, TypeOK, NoOverdraft
<1>7. tokenPaid'[r] >= 0
  BY <1>5
<1>8. Shape(r)'
  BY <1>1, <1>2, <1>3, <1>4, <1>5, <1>7
     DEF RefundToken, IInv, Shape, SessionShape, LocationShape, MoneyShape, RefundDue, Ended
<1>. QED BY <1>4, <1>5, <1>6, <1>8, ShapeFrame DEF RefundToken, IInv, TypeOK

LEMMA PoolWakesInv == ASSUME IInv, PoolWakes PROVE IInv'
<1>1. /\ job' \in [Requests -> Jobs]
      /\ \A x \in Requests : job'[x] = job[x] \/ (job[x] = "left" /\ job'[x] = "wallet")
  BY DEF PoolWakes, Woken, IInv, TypeOK, Jobs
<1>2. TypeOK' /\ NoOverdraft'
  BY <1>1 DEF PoolWakes, IInv, TypeOK, NoOverdraft, historyVars
<1>. QED BY <1>1, <1>2, ShapeFrame DEF PoolWakes, IInv, historyVars

LEMMA CrashInv == ASSUME IInv, Crash PROVE IInv'
<1>1. TypeOK'
  BY DEF Crash, IInv, TypeOK, Locations, Ended, Jobs
<1>2. NoOverdraft'
  BY DEF Crash, IInv, NoOverdraft
<1>3. ASSUME NEW r \in Requests PROVE Shape(r)'
  <2>1. job'[r] = "none" /\ session'[r] = session[r] /\ paid'[r] = paid[r]
        /\ price'[r] = price[r] /\ tokenPaid'[r] = tokenPaid[r] /\ tokenPaid[r] \in Nat
    BY DEF Crash, IInv, TypeOK
  <2>2. job[r] # "none" => session[r].refunded /\ pc[r] # "new"
    BY DEF IInv, Shape, SessionShape, LocationShape
  <2>3. /\ faulted[r] => faulted'[r]
        /\ job[r] # "none" => faulted'[r]
        /\ pc'[r] = pc[r] \/ (pc'[r] = "crashed" /\ pc[r] \notin Ended \cup {"new"})
    BY <2>2 DEF Crash, AtRest, IInv, TypeOK
  <2>4. SessionShape(r)'
    BY <2>1 DEF IInv, Shape, SessionShape
  <2>5. LocationShape(r)'
    <3>1. CASE pc'[r] = pc[r]
      <4>1. estimate'[r] = estimate[r]
        BY DEF Crash
      <4>. QED BY <2>1, <3>1, <4>1 DEF IInv, Shape, LocationShape
    <3>2. CASE pc'[r] = "crashed"
      BY <2>1, <3>2 DEF LocationShape, Ended
    <3>. QED BY <2>3, <3>1, <3>2
  <2>6. MoneyShape(r)'
    BY <2>1, <2>3 DEF IInv, Shape, MoneyShape, RefundDue, LocationShape, Ended
  <2>. QED BY <2>4, <2>5, <2>6 DEF Shape
<1>. QED BY <1>1, <1>2, <1>3 DEF IInv

LEMMA StutterInv == ASSUME IInv, UNCHANGED vars PROVE IInv'
<1>1. TypeOK' /\ NoOverdraft'
  BY DEF IInv, TypeOK, NoOverdraft, vars, handlerVars, historyVars
<1>. QED BY <1>1, ShapeFrame DEF IInv, vars, handlerVars, historyVars

LEMMA NextInv == IInv /\ [Next]_vars => IInv'
<1>. SUFFICES ASSUME IInv, [Next]_vars PROVE IInv'
  OBVIOUS
<1>1. ASSUME NEW r \in Requests, PreConsume(r) PROVE IInv'
  BY <1>1, AuthenticateInv, MarkExhaustedInv, OpenSessionInv, PreConsumeTokenInv,
     PreConsumeWalletInv, UndoPreConsumeTokenInv DEF PreConsume
<1>2. ASSUME NEW r \in Requests, Conclude(r) PROVE IInv'
  BY <1>2, AttemptSucceedsInv, GiveUpInv DEF Conclude
<1>3. ASSUME NEW r \in Requests, Settle(r) PROVE IInv'
  BY <1>3, SettleWalletInv, SettleTokenInv, FinishServedInv, ChargeFeeInv, ChargeFeeTokenInv
     DEF Settle
<1>4. ASSUME NEW r \in Requests, RefundTask(r) PROVE IInv'
  BY <1>4, RefundWalletInv, RefundTokenInv DEF RefundTask
<1>5. ASSUME NEW r \in Requests, AttemptFails(r) \/ Panic(r) PROVE IInv'
  BY <1>5, AttemptFailsInv, PanicInv
<1>6. CASE Crash
  BY <1>6, CrashInv
<1>7. CASE UNCHANGED vars
  BY <1>7, StutterInv
<1>8. CASE PoolWakes
  BY <1>8, PoolWakesInv
<1>. QED BY <1>1, <1>2, <1>3, <1>4, <1>5, <1>6, <1>7, <1>8 DEF Next

\* The inductive invariant: which flags of a session can stand together, and
\* what they, the location of the handler and the refund task say about the
\* money that was taken (service.go:81-243).
THEOREM Inductive == Spec => []IInv
  BY InitInv, NextInv, PTL DEF Spec

-----------------------------------------------------------------------------
\* The theorems.

\* The state of the billing is always well typed; in particular no settlement
\* or refund gives a request back more than it had taken.
THEOREM TypeCorrect == Spec => []TypeOK
<1>1. IInv => TypeOK
  BY DEF IInv
<1>. QED BY <1>1, Inductive, PTL

\* Neither the wallet nor a token is ever spent below zero, by any number of
\* concurrent requests that read any stale quota (user.go:782, token.go:599).
THEOREM NeverOverdrawn == Spec => []NoOverdraft
<1>1. IInv => NoOverdraft
  BY DEF IInv
<1>. QED BY <1>1, Inductive, PTL

\* What a request has paid is at every step what the flags of its session
\* say: charged once, refunded once, and never both (service.go:92-173).
THEOREM ChargedAsRecorded == Spec => []ChargeMatchesSession
<1>1. IInv => ChargeMatchesSession
  <2>. SUFFICES ASSUME IInv, NEW r \in Requests, ~faulted[r],
                       pc[r] \notin {"panicked", "crashed"}
                PROVE  paid[r] \in Owed(r)
    BY DEF ChargeMatchesSession
  <2>1. MoneyShape(r) /\ SessionShape(r)
    BY DEF IInv, Shape
  <2>2. CASE ~session[r].open
    BY <2>1, <2>2 DEF Owed, MoneyShape, RefundDue
  <2>3. CASE session[r].open
    BY <2>1, <2>3 DEF Owed, MoneyShape, RefundDue, SessionShape
  <2>. QED BY <2>2, <2>3
<1>. QED BY <1>1, Inductive, PTL

\* A step of a request whose session is settled leaves its charges alone.
LEMMA SettledStep ==
  ASSUME IInv, [Next]_vars, NEW r \in Requests, session[r].settled
  PROVE  paid'[r] = paid[r] /\ tokenPaid'[r] = tokenPaid[r]
<1>1. /\ pc[r] \in {"recording"} \cup Ended
      /\ job[r] = "none"
  <2>1. job[r] = "none" /\ session[r] # NoSession
    BY DEF IInv, Shape, SessionShape, NoSession
  <2>2. session[r].open /\ pc[r] \in Locations
    BY DEF IInv, TypeOK, Shape, SessionShape
  <2>. QED BY <2>1, <2>2 DEF IInv, Shape, LocationShape, Locations
<1>2. ASSUME NEW q \in Requests,
             \/ PreConsume(q) \/ AttemptFails(q) \/ Conclude(q)
             \/ Settle(q) \/ Panic(q) \/ RefundTask(q)
      PROVE  \/ paid' = paid /\ tokenPaid' = tokenPaid
             \/ q # r /\ \A x \in Requests \ {q} : paid'[x] = paid[x] /\ tokenPaid'[x] = tokenPaid[x]
  <2>1. CASE PreConsume(q)
    BY <1>1, <2>1 DEF PreConsume, Authenticate, MarkExhausted, OpenSession, PreConsumeToken, PreConsumeWallet,
       UndoPreConsumeToken, TakeFromToken, TokenUnchanged, historyVars, IInv, TypeOK, Ended
  <2>2. CASE AttemptFails(q) \/ Conclude(q) \/ Panic(q)
    BY <2>2 DEF AttemptFails, Conclude, AttemptSucceeds, GiveUp, Panic, historyVars
  <2>3. CASE Settle(q)
    BY <1>1, <2>3 DEF Settle, SettleWallet, SettleToken, FinishServed, ChargeFee, ChargeFeeToken,
       TakeFromToken, TokenUnchanged, historyVars, IInv, TypeOK, Ended
  <2>4. CASE RefundTask(q)
    BY <1>1, <2>4 DEF RefundTask, RefundWallet, RefundToken, TakeFromToken, TokenUnchanged,
       IInv, TypeOK
  <2>. QED BY <1>2, <2>1, <2>2, <2>3, <2>4
<1>3. CASE Crash \/ PoolWakes \/ UNCHANGED vars
  BY <1>3 DEF Crash, PoolWakes, vars, historyVars
<1>. QED BY <1>2, <1>3 DEF Next

\* A settled session is never charged or refunded again, by no late panic,
\* deferred refund or other request (service.go:96 and :170).
THEOREM SettledForGood == Spec => SettledIsFinal
<1>1. IInv /\ [Next]_vars =>
        [\A r \in Requests :
           session[r].settled => paid'[r] = paid[r] /\ tokenPaid'[r] = tokenPaid[r]]_vars
  BY SettledStep
<1>. QED BY <1>1, Inductive, PTL DEF Spec, SettledIsFinal

-----------------------------------------------------------------------------
(***************************************************************************)
(* Billing implements BillingLedger: every step of the handlers, the       *)
(* refund tasks and the faults is, through the mapping of                  *)
(* BillingProperties, one action of the ledger or none.                    *)
(***************************************************************************)

\* The fee is charged at most once: before its step no fee was paid.
FeeShape == \A r \in Requests : feePaid[r] # 0 => pc[r] \in Ended \cup {"feeToken"}

LEMMA FeeShapeInv == IInv /\ FeeShape /\ [Next]_vars => FeeShape'
<1>. SUFFICES ASSUME IInv, FeeShape, [Next]_vars PROVE FeeShape'
  OBVIOUS
<1>1. ASSUME NEW r \in Requests, PreConsume(r) PROVE FeeShape'
  BY <1>1 DEF PreConsume, Authenticate, MarkExhausted, OpenSession, PreConsumeToken, PreConsumeWallet,
     UndoPreConsumeToken, Goto, FeeShape, IInv, TypeOK, historyVars, Ended
<1>2. ASSUME NEW r \in Requests, Conclude(r) \/ AttemptFails(r) \/ Panic(r) PROVE FeeShape'
  BY <1>2 DEF Conclude, AttemptSucceeds, GiveUp, AttemptFails, Panic, Goto, FeeShape, IInv,
     TypeOK, historyVars, Ended
<1>3. ASSUME NEW r \in Requests, Settle(r) PROVE FeeShape'
  BY <1>3 DEF Settle, SettleWallet, SettleToken, FinishServed, ChargeFee, ChargeFeeToken, Goto,
     FeeShape, IInv, TypeOK, historyVars, Ended
<1>4. ASSUME NEW r \in Requests, RefundTask(r) PROVE FeeShape'
  BY <1>4 DEF RefundTask, RefundWallet, RefundToken, FeeShape
<1>5. CASE Crash \/ PoolWakes
  BY <1>5 DEF Crash, PoolWakes, historyVars, FeeShape, Ended
<1>6. CASE UNCHANGED vars
  BY <1>6 DEF vars, handlerVars, historyVars, FeeShape
<1>. QED BY <1>1, <1>2, <1>3, <1>4, <1>5, <1>6 DEF Next

LEMMA FeeInductive == Spec => []FeeShape
<1>1. Init => FeeShape
  BY DEF Init, FeeShape
<1>. QED BY <1>1, FeeShapeInv, Inductive, PTL DEF Spec

-----------------------------------------------------------------------------

\* A step that leaves the money and every phase alone is none of the ledger's.
LEMMA LedgerStutter ==
  ASSUME wallet' = wallet, paid' = paid, feePaid' = feePaid,
         \A r \in Requests : PhaseOf(r)' = PhaseOf(r)
  PROVE  UNCHANGED Ledger!ledgerVars
  BY DEF Ledger!ledgerVars

\* A step that only closes request r, if it is not closed, abandons it.
LEMMA LedgerClose ==
  ASSUME wallet' = wallet, paid' = paid, feePaid' = feePaid,
         NEW r \in Requests, PhaseOf(r)' \in {"closed", PhaseOf(r)},
         \A x \in Requests \ {r} : PhaseOf(x)' = PhaseOf(x)
  PROVE  [Ledger!Next]_Ledger!ledgerVars
<1>1. CASE PhaseOf(r)' = PhaseOf(r)
  BY <1>1, LedgerStutter
<1>2. CASE PhaseOf(r)' # PhaseOf(r)
  <2>1. Ledger!Abandon({r})
    BY <1>2 DEF Ledger!Abandon
  <2>. QED BY <2>1 DEF Ledger!Next
<1>. QED BY <1>1, <1>2

LEMMA PhaseFrame ==
  ASSUME NEW x \in Requests, pc'[x] = pc[x], session'[x] = session[x],
         job'[x] = job[x] \/ (job[x] = "left" /\ job'[x] = "wallet")
  PROVE  PhaseOf(x)' = PhaseOf(x)
<1>1. RefundDue(x)' = RefundDue(x)
  BY DEF RefundDue
<1>. QED BY <1>1 DEF PhaseOf, WalletDone

LEMMA LedgerInit == Init => Ledger!Init
  BY DEF Init, Ledger!Init, PhaseOf, WalletDone, RefundDue, NoSession, Ended

\* The pre-consumption: only the wallet's debit is seen, as a reservation.
LEMMA LedgerPreConsume ==
  ASSUME IInv, IInv', NEW r \in Requests, PreConsume(r)
  PROVE  [Ledger!Next]_Ledger!ledgerVars
<1>1. /\ session[r] \in Sessions /\ ~session[r].settled /\ session[r].consumed = 0
      /\ job[r] = "none" /\ job' = job /\ feePaid' = feePaid
      /\ PhaseOf(r) = "open"
  <2>1. pc[r] \in {"new", "exhausting", "priced", "takeToken", "takeWallet", "undoToken"}
    BY DEF PreConsume, Authenticate, MarkExhausted, OpenSession, PreConsumeToken, PreConsumeWallet,
       UndoPreConsumeToken
  <2>2. session[r] \in Sessions /\ ~session[r].open
    BY <2>1 DEF IInv, TypeOK, Shape, LocationShape, NoSession
  <2>3. /\ ~session[r].settled /\ ~session[r].refunded /\ job[r] = "none"
        /\ session[r].consumed = 0
    BY <2>2, SessionFields DEF IInv, Shape, SessionShape
  <2>4. job' = job /\ feePaid' = feePaid
    BY DEF PreConsume, Authenticate, MarkExhausted, OpenSession, PreConsumeToken, PreConsumeWallet,
       UndoPreConsumeToken, historyVars
  <2>. QED BY <2>1, <2>2, <2>3, <2>4 DEF PhaseOf, WalletDone, RefundDue, Ended
<1>2. \A x \in Requests \ {r} : PhaseOf(x)' = PhaseOf(x)
  <2>1. \A x \in Requests \ {r} : pc'[x] = pc[x] /\ session'[x] = session[x]
    BY DEF PreConsume, Authenticate, MarkExhausted, OpenSession, PreConsumeToken, PreConsumeWallet,
       UndoPreConsumeToken, Goto, IInv, TypeOK
  <2>. QED BY <1>1, <2>1, PhaseFrame
<1>3. ASSUME wallet' = wallet, paid' = paid, session'[r].consumed = 0
      PROVE  [Ledger!Next]_Ledger!ledgerVars
  <2>1. PhaseOf(r)' \in {"closed", "open"}
    BY <1>3 DEF PhaseOf
  <2>. QED BY <1>1, <1>2, <1>3, <2>1, LedgerClose
<1>4. CASE Authenticate(r)
  BY <1>1, <1>3, <1>4 DEF Authenticate, historyVars
<1>9. CASE MarkExhausted(r)
  BY <1>1, <1>3, <1>9 DEF MarkExhausted, historyVars
<1>5. CASE OpenSession(r)
  <2>1. session'[r].consumed = 0
    BY <1>1, <1>5 DEF OpenSession, IInv, TypeOK, Sessions
  <2>. QED BY <1>3, <1>5, <2>1 DEF OpenSession, historyVars
<1>6. CASE PreConsumeToken(r)
  <2>1. session'[r].consumed = 0
    BY <1>1, <1>6 DEF PreConsumeToken, IInv, TypeOK, Sessions
  <2>. QED BY <1>3, <1>6, <2>1 DEF PreConsumeToken
<1>7. CASE UndoPreConsumeToken(r)
  <2>1. session'[r].consumed = 0
    BY <1>1, <1>7 DEF UndoPreConsumeToken, IInv, TypeOK, Sessions
  <2>. QED BY <1>3, <1>7, <2>1 DEF UndoPreConsumeToken
<1>8. CASE PreConsumeWallet(r)
  <2>. DEFINE q == estimate[r]
              t == [session[r] EXCEPT !.open = TRUE, !.consumed = q, !.preConsumed = q]
  <2>1. CASE UNCHANGED <<wallet, paid, session>>
    BY <1>1, <1>3, <2>1
  <2>2. CASE /\ ChargeWallet(q) /\ paid' = [paid EXCEPT ![r] = @ + q]
             /\ session'[r].consumed = q /\ pc'[r] = "serving"
    <3>1. q \in Nat /\ paid[r] = 0 /\ wallet \in Nat /\ paid \in [Requests -> Nat]
      <4>1. pc[r] = "takeWallet"
        BY <1>8 DEF PreConsumeWallet
      <4>2. session[r].preConsumed = 0
        BY <1>1 DEF IInv, Shape, SessionShape
      <4>. QED BY <4>1, <4>2 DEF IInv, TypeOK, NoOverdraft, Shape, LocationShape, Ended
    <3>2. CASE q = 0
      BY <1>3, <2>2, <3>1, <3>2 DEF ChargeWallet
    <3>3. CASE q > 0
      <4>1. wallet >= q /\ wallet' = wallet - q /\ paid' = [paid EXCEPT ![r] = q]
        <5>1. wallet >= q /\ wallet' = wallet - q
          BY <2>2, <3>1, <3>3 DEF ChargeWallet, WalletAllows
        <5>2. paid[r] + q = q
          BY <3>1
        <5>. QED BY <2>2, <5>1, <5>2
      <4>2. PhaseOf(r)' = "held"
        BY <2>2, <3>3 DEF PhaseOf, WalletDone, RefundDue, Ended
      <4>3. Ledger!Reserve(r)
        <5>1. q \in 0..wallet
          BY <3>1, <4>1
        <5>2. [x \in Requests |-> PhaseOf(x)]' = [[x \in Requests |-> PhaseOf(x)] EXCEPT ![r] = "held"]
          BY <1>2, <4>2
        <5>. QED BY <1>1, <4>1, <5>1, <5>2 DEF Ledger!Reserve
      <4>. QED BY <4>3 DEF Ledger!Next
    <3>. QED BY <3>1, <3>2, <3>3
  <2>3. \/ UNCHANGED <<wallet, paid, session>>
        \/ /\ ChargeWallet(q) /\ paid' = [paid EXCEPT ![r] = @ + q]
           /\ session'[r].consumed = q /\ pc'[r] = "serving"
    <3>1. CASE UNCHANGED <<wallet, paid, session>>
      BY <3>1
    <3>2. CASE /\ ChargeWallet(q) /\ paid' = [paid EXCEPT ![r] = @ + q]
               /\ session' = [session EXCEPT ![r] = t] /\ Goto(r, "serving")
      <4>1. session'[r] = t /\ pc'[r] = "serving"
        BY <3>2 DEF Goto, IInv, TypeOK
      <4>2. t.consumed = q
        BY <1>1 DEF Sessions
      <4>. QED BY <3>2, <4>1, <4>2
    <3>. QED BY <1>8, <3>1, <3>2 DEF PreConsumeWallet
  <2>. QED BY <2>1, <2>2, <2>3
<1>. QED BY <1>4, <1>5, <1>6, <1>7, <1>8, <1>9 DEF PreConsume

\* The settlement: a wallet that is charged is a capture; the rest is not seen,
\* or closes a request whose settlement failed.
LEMMA LedgerSettle ==
  ASSUME IInv, IInv', FeeShape, NEW r \in Requests, Settle(r)
  PROVE  [Ledger!Next]_Ledger!ledgerVars
<1>1. job' = job
  BY DEF Settle, SettleWallet, SettleToken, FinishServed, ChargeFee, ChargeFeeToken
<1>2. \A x \in Requests \ {r} : PhaseOf(x)' = PhaseOf(x)
  <2>1. \A x \in Requests \ {r} : pc'[x] = pc[x] /\ session'[x] = session[x]
    BY DEF Settle, SettleWallet, SettleToken, FinishServed, ChargeFee, ChargeFeeToken, Goto,
       IInv, TypeOK
  <2>. QED BY <1>1, <2>1, PhaseFrame
<1>3. CASE SettleWallet(r)
  <2>. DEFINE s == session[r]
              d == Delta(r)
  <2>1. /\ pc[r] = "settle" /\ s \in Sessions /\ ~s.settled /\ price[r] \in Nat
        /\ wallet \in Nat /\ paid \in [Requests -> Nat] /\ paid[r] = s.preConsumed
        /\ feePaid' = feePaid
    BY <1>3 DEF SettleWallet, IInv, TypeOK, NoOverdraft, Shape, LocationShape, Ended
  <2>2. job[r] = "none" /\ s.preConsumed \in Nat /\ s.open \in BOOLEAN
    BY <1>3, <2>1, SessionFields DEF SettleWallet, IInv, Shape, SessionShape, LocationShape
  <2>3. d \in Int /\ paid[r] + d = price[r] /\ PhaseOf(r) # "closed"
    BY <2>1, <2>2 DEF Delta, PhaseOf, WalletDone, RefundDue, Ended
  <2>4. CASE d = 0 /\ UNCHANGED <<wallet, paid>>
             /\ session' = [session EXCEPT ![r].settled = s.open] /\ Goto(r, "recording")
    <3>1. PhaseOf(r)' = "closed"
      <4>1. pc'[r] = "recording" /\ session'[r] = [s EXCEPT !.settled = s.open]
        BY <2>4 DEF Goto, IInv, TypeOK
      <4>. QED BY <2>1, <4>1 DEF PhaseOf, WalletDone, RefundDue, Sessions
    <3>. QED BY <1>2, <2>1, <2>4, <3>1, LedgerClose
  <2>5. CASE ChargeWallet(d) /\ paid' = [paid EXCEPT ![r] = @ + d] /\ Goto(r, "settleToken")
    <3>1. PhaseOf(r)' = "closed"
      BY <2>5 DEF Goto, PhaseOf, WalletDone, RefundDue, IInv, TypeOK
    <3>2. /\ price[r] \in 0..(wallet + paid[r])
          /\ wallet' = wallet + paid[r] - price[r]
      BY <2>1, <2>3, <2>5 DEF ChargeWallet, WalletAllows
    <3>3. paid' = [paid EXCEPT ![r] = price[r]]
      BY <2>3, <2>5
    <3>4. [x \in Requests |-> PhaseOf(x)]' = [[x \in Requests |-> PhaseOf(x)] EXCEPT ![r] = "closed"]
      BY <1>2, <3>1
    <3>5. Ledger!Capture(r)
      BY <2>1, <2>3, <3>2, <3>3, <3>4 DEF Ledger!Capture
    <3>. QED BY <3>5 DEF Ledger!Next
  <2>6. CASE UNCHANGED <<wallet, paid, session>> /\ Goto(r, "recording")
    <3>1. PhaseOf(r)' \in {"closed", PhaseOf(r)}
      <4>1. pc'[r] = "recording" /\ session' = session
        BY <2>6 DEF Goto, IInv, TypeOK
      <4>. QED BY <2>1, <4>1 DEF PhaseOf, WalletDone, RefundDue, Ended
    <3>. QED BY <1>2, <2>1, <2>6, <3>1, LedgerClose
  <2>. QED BY <1>3, <2>1, <2>4, <2>5, <2>6 DEF SettleWallet
<1>4. CASE SettleToken(r)
  <2>1. /\ wallet' = wallet /\ paid' = paid /\ feePaid' = feePaid
        /\ session' = [session EXCEPT ![r].settled = session[r].open] /\ Goto(r, "recording")
    BY <1>4 DEF SettleToken
  <2>2. pc'[r] = "recording" /\ session'[r] = [session[r] EXCEPT !.settled = session[r].open]
    BY <2>1 DEF Goto, IInv, TypeOK
  <2>3. session[r] \in Sessions
    BY DEF IInv, TypeOK
  <2>4. PhaseOf(r)' = "closed"
    BY <2>2, <2>3 DEF PhaseOf, WalletDone, RefundDue, Sessions
  <2>. QED BY <1>2, <2>1, <2>4, LedgerClose
<1>5. CASE FinishServed(r)
  <2>1. /\ wallet' = wallet /\ paid' = paid /\ feePaid' = feePaid
        /\ pc[r] = "recording" /\ pc'[r] = "served"
    BY <1>5 DEF FinishServed, historyVars, Goto, IInv, TypeOK
  <2>2. job[r] = "none"
    BY <2>1 DEF IInv, Shape, SessionShape, LocationShape
  <2>3. PhaseOf(r)' = "closed"
    BY <1>1, <2>1, <2>2 DEF PhaseOf, WalletDone, RefundDue, Ended
  <2>. QED BY <1>2, <2>1, <2>3, LedgerClose
<1>6. CASE ChargeFee(r)
  <2>1. /\ pc[r] = "fee" /\ pc'[r] \in {"feeToken", "failed"} /\ session' = session
        /\ paid' = paid /\ wallet \in Nat /\ feePaid[r] = 0
    BY <1>6 DEF ChargeFee, Goto, IInv, TypeOK, NoOverdraft, FeeShape, Ended
  <2>2. PhaseOf(r)' = PhaseOf(r)
    BY <1>1, <2>1 DEF PhaseOf, WalletDone, RefundDue, Ended
  <2>3. CASE UNCHANGED <<wallet, feePaid>>
    BY <1>2, <2>1, <2>2, <2>3, LedgerStutter
  <2>4. ASSUME NEW f \in Fees, ChargeWallet(f), feePaid' = [feePaid EXCEPT ![r] = f]
        PROVE  [Ledger!Next]_Ledger!ledgerVars
    <3>1. f \in 1..wallet /\ wallet' = wallet - f
      BY <2>1, <2>4, AmountAssumption DEF ChargeWallet, WalletAllows
    <3>2. [x \in Requests |-> PhaseOf(x)]' = [x \in Requests |-> PhaseOf(x)]
      BY <1>2, <2>2
    <3>3. Ledger!Penalize(r)
      BY <2>1, <2>4, <3>1, <3>2 DEF Ledger!Penalize
    <3>. QED BY <3>3 DEF Ledger!Next
  <2>. QED BY <1>6, <2>3, <2>4 DEF ChargeFee
<1>7. CASE ChargeFeeToken(r)
  <2>1. /\ pc[r] = "feeToken" /\ pc'[r] = "failed" /\ session' = session
        /\ wallet' = wallet /\ paid' = paid /\ feePaid' = feePaid
    BY <1>7 DEF ChargeFeeToken, Goto, IInv, TypeOK
  <2>2. PhaseOf(r)' = PhaseOf(r)
    BY <1>1, <2>1 DEF PhaseOf, WalletDone, RefundDue, Ended
  <2>. QED BY <1>2, <2>1, <2>2, LedgerStutter
<1>. QED BY <1>3, <1>4, <1>5, <1>6, <1>7 DEF Settle

\* A handler that stops: with the refund pending its reservation is still
\* held, otherwise it is closed as it is.
LEMMA LedgerStop ==
  ASSUME IInv, IInv', NEW r \in Requests, GiveUp(r) \/ Panic(r)
  PROVE  [Ledger!Next]_Ledger!ledgerVars
<1>1. /\ wallet' = wallet /\ paid' = paid /\ feePaid' = feePaid
      /\ pc[r] \in {"serving", "recording"} /\ pc'[r] \in {"fee", "failed", "panicked"}
      /\ \A x \in Requests \ {r} : pc'[x] = pc[x]
  BY DEF GiveUp, Panic, Goto, IInv, TypeOK, historyVars
<1>2. /\ \A x \in Requests \ {r} :
           session'[x] = session[x] /\ (job'[x] = job[x] \/ (job[x] = "left" /\ job'[x] = "wallet"))
      /\ \/ /\ NeedsRefund(session[r])
            /\ session'[r] = [session[r] EXCEPT !.refunded = TRUE] /\ RefundDue(r)'
         \/ session'[r] = session[r] /\ job'[r] = job[r]
  BY RefundStep DEF GiveUp, Panic, IInv, TypeOK
<1>3. session[r] \in Sessions /\ job[r] = "none"
  BY <1>1 DEF IInv, TypeOK, Shape, SessionShape, LocationShape
<1>4. \A x \in Requests \ {r} : PhaseOf(x)' = PhaseOf(x)
  BY <1>1, <1>2, PhaseFrame
<1>5. CASE /\ NeedsRefund(session[r])
           /\ session'[r] = [session[r] EXCEPT !.refunded = TRUE] /\ RefundDue(r)'
  <2>1. session[r].open /\ ~session[r].settled /\ session[r].consumed > 0
    BY <1>3, <1>5 DEF NeedsRefund, IInv, Shape, SessionShape
  <2>2. session'[r].consumed = session[r].consumed
    BY <1>3, <1>5 DEF Sessions
  <2>3. PhaseOf(r) = "held" /\ PhaseOf(r)' = "held"
    BY <1>1, <1>5, <2>1, <2>2 DEF PhaseOf, WalletDone, RefundDue, Ended
  <2>. QED BY <1>1, <1>4, <2>3, LedgerClose
<1>6. CASE session'[r] = session[r] /\ job'[r] = job[r]
  <2>1. PhaseOf(r)' = "closed"
    BY <1>1, <1>3, <1>6 DEF PhaseOf, WalletDone, RefundDue, Ended
  <2>. QED BY <1>1, <1>4, <2>1, LedgerClose
<1>. QED BY <1>2, <1>5, <1>6

\* The refund task: the wallet's credit releases the reservation.
LEMMA LedgerRefund ==
  ASSUME IInv, IInv', NEW r \in Requests, RefundTask(r)
  PROVE  [Ledger!Next]_Ledger!ledgerVars
<1>1. /\ pc' = pc /\ session' = session /\ feePaid' = feePaid
      /\ job[r] # "none" /\ \A x \in Requests \ {r} : job'[x] = job[x]
  BY DEF RefundTask, RefundWallet, RefundToken, IInv, TypeOK
<1>2. pc[r] \in Ended \cup {"fee", "feeToken"} /\ session[r].consumed > 0
  BY <1>1 DEF IInv, Shape, SessionShape, LocationShape, Ended
<1>3. \A x \in Requests \ {r} : PhaseOf(x)' = PhaseOf(x)
  BY <1>1, PhaseFrame
<1>4. CASE RefundToken(r)
  <2>1. PhaseOf(r)' = "closed"
    BY <1>1, <1>2, <1>4 DEF RefundToken, PhaseOf, WalletDone, RefundDue, IInv, TypeOK
  <2>. QED BY <1>1, <1>3, <1>4, <2>1, LedgerClose DEF RefundToken
<1>5. CASE RefundWallet(r)
  <2>1. PhaseOf(r)' = "closed"
    BY <1>1, <1>2, <1>5 DEF RefundWallet, PhaseOf, WalletDone, RefundDue, IInv, TypeOK
  <2>2. PhaseOf(r) = "held"
    BY <1>2, <1>5 DEF RefundWallet, PhaseOf, WalletDone, RefundDue, Ended
  <2>3. CASE UNCHANGED <<wallet, paid>>
    BY <1>1, <1>3, <2>1, <2>3, LedgerClose
  <2>4. CASE ChargeWallet(-session[r].consumed)
             /\ paid' = [paid EXCEPT ![r] = @ - session[r].consumed]
    <3>1. /\ wallet \in Nat /\ session[r].consumed \in Nat /\ paid \in [Requests -> Nat]
          /\ paid[r] = session[r].consumed
      BY <1>5, SessionFields
         DEF RefundWallet, IInv, TypeOK, NoOverdraft, Shape, MoneyShape, RefundDue, SessionShape
    <3>2. wallet' = wallet + paid[r]
      BY <2>4, <3>1 DEF ChargeWallet
    <3>3. paid[r] - session[r].consumed = 0
      BY <3>1
    <3>4. paid' = [paid EXCEPT ![r] = 0]
      BY <2>4, <3>3
    <3>5. [x \in Requests |-> PhaseOf(x)]' = [[x \in Requests |-> PhaseOf(x)] EXCEPT ![r] = "closed"]
      BY <1>3, <2>1
    <3>6. Ledger!Release(r)
      BY <1>1, <2>2, <3>2, <3>4, <3>5 DEF Ledger!Release
    <3>. QED BY <3>6 DEF Ledger!Next
  <2>. QED BY <1>5, <2>3, <2>4 DEF RefundWallet
<1>. QED BY <1>4, <1>5 DEF RefundTask

\* A crash abandons every request under way that is not closed yet.
LEMMA LedgerCrash ==
  ASSUME IInv, IInv', Crash PROVE [Ledger!Next]_Ledger!ledgerVars
<1>. DEFINE S == {r \in Requests : pc[r] # "new" /\ PhaseOf(r) # "closed"}
<1>1. wallet' = wallet /\ paid' = paid /\ feePaid' = feePaid /\ session' = session
  BY DEF Crash
<1>2. ASSUME NEW r \in Requests
      PROVE  PhaseOf(r)' = IF r \in S THEN "closed" ELSE PhaseOf(r)
  <2>1. CASE pc[r] = "new"
    <3>1. pc'[r] = "new" /\ session'[r].consumed = 0 /\ session[r].consumed = 0
      BY <1>1, <2>1 DEF Crash, IInv, Shape, LocationShape, NoSession
    <3>. QED BY <2>1, <3>1 DEF PhaseOf, WalletDone, RefundDue, Ended
  <2>2. CASE pc[r] # "new"
    <3>1. pc'[r] \in Ended /\ job'[r] = "none"
      BY <2>2 DEF Crash, AtRest, Ended
    <3>2. PhaseOf(r)' = "closed"
      BY <3>1 DEF PhaseOf, WalletDone, RefundDue
    <3>. QED BY <2>2, <3>2
  <2>. QED BY <2>1, <2>2
<1>3. Ledger!Abandon(S)
  BY <1>1, <1>2 DEF Ledger!Abandon
<1>. QED BY <1>3 DEF Ledger!Next

LEMMA LedgerNext ==
  IInv /\ IInv' /\ FeeShape /\ [Next]_vars => [Ledger!Next]_Ledger!ledgerVars
<1>. SUFFICES ASSUME IInv, IInv', FeeShape, [Next]_vars PROVE [Ledger!Next]_Ledger!ledgerVars
  OBVIOUS
<1>1. ASSUME NEW r \in Requests, AttemptFails(r) \/ AttemptSucceeds(r)
      PROVE  [Ledger!Next]_Ledger!ledgerVars
  <2>1. /\ wallet' = wallet /\ paid' = paid /\ feePaid' = feePaid /\ session' = session
        /\ job' = job /\ pc[r] = "serving" /\ pc'[r] \in {"serving", "settle"}
        /\ \A x \in Requests \ {r} : pc'[x] = pc[x]
    BY <1>1 DEF AttemptFails, AttemptSucceeds, Goto, historyVars, IInv, TypeOK
  <2>2. PhaseOf(r)' = PhaseOf(r)
    BY <2>1 DEF PhaseOf, WalletDone, RefundDue, Ended
  <2>. QED BY <2>1, <2>2, PhaseFrame, LedgerStutter
<1>2. CASE UNCHANGED vars
  BY <1>2, PhaseFrame, LedgerStutter DEF vars, handlerVars, historyVars
<1>3. ASSUME NEW r \in Requests,
             \/ PreConsume(r) \/ AttemptFails(r) \/ Conclude(r)
             \/ Settle(r) \/ Panic(r) \/ RefundTask(r)
      PROVE  [Ledger!Next]_Ledger!ledgerVars
  BY <1>1, <1>3, LedgerPreConsume, LedgerSettle, LedgerStop, LedgerRefund DEF Conclude
<1>4. CASE PoolWakes
  <2>1. \A x \in Requests : job'[x] = job[x] \/ (job[x] = "left" /\ job'[x] = "wallet")
    BY <1>4 DEF PoolWakes, Woken, IInv, TypeOK
  <2>. QED BY <1>4, <2>1, PhaseFrame, LedgerStutter DEF PoolWakes, historyVars
<1>. QED BY <1>2, <1>3, <1>4, LedgerCrash DEF Next

\* The billing sessions implement the ledger: whatever the interleaving and
\* whatever fails, a request reserves at most once, its usage is charged,
\* released or abandoned once and for all, and the balance stays covered.
THEOREM BillingRefinesLedger == Spec => ImplementsLedger
<1>1. Spec => Ledger!Init
  BY LedgerInit DEF Spec
<1>2. IInv /\ FeeShape /\ [Next]_vars => [Ledger!Next]_Ledger!ledgerVars
  BY LedgerNext, NextInv
<1>. QED BY <1>1, <1>2, Inductive, FeeInductive, PTL DEF Spec, ImplementsLedger, Ledger!Spec

-----------------------------------------------------------------------------
(***************************************************************************)
(* The two accounts of a request, its wallet and its token, move together  *)
(* as long as no statement of the request has failed.                      *)
(***************************************************************************)

\* What a pending refund has yet to return to the wallet, and to the token.
WalletDue(r) == IF RefundDue(r) THEN session[r].preConsumed ELSE 0
TokenDue(r) == IF job[r] = "none" THEN 0 ELSE session[r].preConsumed

\* The token holds no more than the wallet was charged; without a quota of its
\* own, which can refuse nothing, it holds exactly that.
Follows(r, tokenSpent, walletSpent) ==
  /\ tokenSpent <= walletSpent
  /\ TokenOf[r] \notin Limited => tokenSpent = walletSpent

\* A request that failed, or whose panic was refunded.
Undone(r) ==
  pc[r] \in {"fee", "feeToken", "failed"} \/ (pc[r] = "panicked" /\ session[r].refunded)

\* What the location of the handler says about the two accounts together.
TokenShape(r) ==
  LET s == session[r]
      l == pc[r] IN
  ~faulted[r] =>
    /\ l # "crashed"
    /\ l \notin {"feeToken", "failed"} => feePaid[r] = 0
    /\ l = "rejected" => tokenPaid[r] = 0 /\ paid[r] = 0
    /\ l \in {"recording", "served", "panicked"} /\ ~s.refunded => Follows(r, tokenPaid[r], paid[r])
    /\ l = "settleToken" => paid[r] = price[r]
    /\ l = "recording" /\ s.open /\ ~s.settled => tokenPaid[r] = s.preConsumed
    /\ Undone(r) => paid[r] = WalletDue(r)
    /\ Undone(r) /\ l # "failed" => tokenPaid[r] = TokenDue(r)
    /\ l = "failed" => Follows(r, tokenPaid[r] - TokenDue(r), feePaid[r])

TokenInv == \A r \in Requests : TokenShape(r)

-----------------------------------------------------------------------------
\* A step of one request leaves the accounts of the others alone.

LEMMA TokenFrame ==
  ASSUME NEW q \in Requests, TokenShape(q),
         pc'[q] = pc[q], session'[q] = session[q], paid'[q] = paid[q],
         job'[q] = job[q] \/ (job[q] = "left" /\ job'[q] = "wallet"),
         feePaid'[q] = feePaid[q], tokenPaid'[q] = tokenPaid[q], faulted'[q] = faulted[q],
         price'[q] = price[q], TokenOf' = TokenOf
  PROVE  TokenShape(q)'
  BY DEF TokenShape, Undone, Follows, WalletDue, TokenDue, RefundDue

Step(r) ==
  PreConsume(r) \/ AttemptFails(r) \/ Conclude(r) \/ Settle(r) \/ Panic(r) \/ RefundTask(r)

LEMMA TokensStay ==
  ASSUME NEW r \in Requests, Step(r) \/ Crash \/ PoolWakes \/ UNCHANGED vars
  PROVE  TokenOf' = TokenOf
<1>1. setup' = setup
  BY DEF Step, PreConsume, Authenticate, MarkExhausted, OpenSession, PreConsumeToken, PreConsumeWallet,
     UndoPreConsumeToken, AttemptFails, Conclude, AttemptSucceeds, GiveUp, Settle, SettleWallet,
     SettleToken, FinishServed, ChargeFee, ChargeFeeToken, Panic, RefundTask, RefundWallet,
     RefundToken, Crash, PoolWakes, vars
<1>. QED BY <1>1 DEF TokenOf

LEMMA OthersStay ==
  ASSUME TypeOK, NEW r \in Requests, Step(r), NEW q \in Requests \ {r}
  PROVE  /\ pc'[q] = pc[q] /\ session'[q] = session[q] /\ paid'[q] = paid[q]
         /\ job'[q] = job[q] \/ (job[q] = "left" /\ job'[q] = "wallet")
         /\ feePaid'[q] = feePaid[q] /\ tokenPaid'[q] = tokenPaid[q] /\ faulted'[q] = faulted[q]
         /\ price'[q] = price[q]
<1>1. CASE PreConsume(r)
  <2>1. CASE Authenticate(r) \/ MarkExhausted(r)
    BY <2>1 DEF Authenticate, MarkExhausted, Goto, historyVars, TypeOK
  <2>2. CASE OpenSession(r)
    BY <2>2 DEF OpenSession, Goto, historyVars, TypeOK
  <2>3. CASE PreConsumeToken(r)
    BY <2>3 DEF PreConsumeToken, TakeFromToken, TokenUnchanged, Goto, TypeOK
  <2>4. CASE PreConsumeWallet(r)
    BY <2>4 DEF PreConsumeWallet, Goto, TypeOK
  <2>5. CASE UndoPreConsumeToken(r)
    BY <2>5 DEF UndoPreConsumeToken, TakeFromToken, TokenUnchanged, Fault, Goto, TypeOK
  <2>. QED BY <1>1, <2>1, <2>2, <2>3, <2>4, <2>5 DEF PreConsume
<1>2. CASE AttemptFails(r) \/ AttemptSucceeds(r)
  BY <1>2 DEF AttemptFails, AttemptSucceeds, Goto, historyVars, TypeOK
<1>3. CASE GiveUp(r) \/ Panic(r)
  <2>1. pc'[q] = pc[q] /\ UNCHANGED <<price, historyVars>>
    BY <1>3 DEF GiveUp, Panic, Goto, TypeOK
  <2>2. session'[q] = session[q] /\ (job'[q] = job[q] \/ (job[q] = "left" /\ job'[q] = "wallet"))
    BY <1>3, RefundStep DEF GiveUp, Panic
  <2>. QED BY <2>1, <2>2 DEF historyVars
<1>4. CASE Settle(r)
  <2>1. CASE SettleWallet(r) \/ FinishServed(r)
    BY <2>1 DEF SettleWallet, FinishServed, Goto, historyVars, TypeOK
  <2>2. CASE SettleToken(r)
    BY <2>2 DEF SettleToken, TakeFromToken, TokenUnchanged, Fault, Goto, TypeOK
  <2>3. CASE ChargeFee(r)
    BY <2>3 DEF ChargeFee, Goto, TypeOK
  <2>4. CASE ChargeFeeToken(r)
    BY <2>4 DEF ChargeFeeToken, TakeFromToken, TokenUnchanged, Fault, Goto, TypeOK
  <2>. QED BY <1>4, <2>1, <2>2, <2>3, <2>4 DEF Settle
<1>5. CASE RefundTask(r)
  BY <1>5 DEF RefundTask, RefundWallet, RefundToken, TakeFromToken, TokenUnchanged, Fault, TypeOK
<1>. QED BY <1>1, <1>2, <1>3, <1>4, <1>5 DEF Step, Conclude

-----------------------------------------------------------------------------
\* What a request's own step does to its two accounts.

\* Of the session, what the steps below need at a line before its end.
LEMMA InFlight ==
  ASSUME IInv, NEW r \in Requests
  PROVE  /\ session[r] \in Sessions /\ session[r].preConsumed \in Nat
         /\ session[r].settled \in BOOLEAN /\ session[r].refunded \in BOOLEAN
         /\ session[r].open \in BOOLEAN
         /\ paid[r] \in Nat /\ tokenPaid[r] \in Nat /\ feePaid[r] \in Nat
         /\ price[r] \in Nat /\ estimate[r] \in Nat /\ job[r] \in Jobs
         /\ session[r].tokenConsumed \in Nat
         /\ ~session[r].open => session[r].preConsumed = 0
         /\ job[r] # "none" => session[r].refunded
         /\ session[r].refunded => pc[r] \in {"fee", "feeToken", "failed", "panicked", "crashed"}
BY SessionFields DEF IInv, TypeOK, Shape, SessionShape, LocationShape

\* Before its pre-consumption a request has taken nothing.
LEMMA FreshAccounts ==
  ASSUME IInv, NEW r \in Requests, pc[r] \in {"new", "exhausting", "priced", "takeToken"}
  PROVE  paid[r] = 0 /\ tokenPaid[r] = 0
BY DEF IInv, Shape, LocationShape, Ended, NoSession

LEMMA PreConsumeAccounts ==
  ASSUME IInv, NEW r \in Requests, TokenShape(r), PreConsume(r)
  PROVE  TokenShape(r)'
<1>1. CASE Authenticate(r) \/ MarkExhausted(r) \/ OpenSession(r)
  <2>1. /\ pc[r] \in {"new", "exhausting", "priced"}
        /\ pc'[r] \in {"rejected", "exhausting", "serving", "priced", "takeToken"}
    BY <1>1 DEF Authenticate, MarkExhausted, OpenSession, Goto, IInv, TypeOK
  <2>2. UNCHANGED historyVars
    BY <1>1 DEF Authenticate, MarkExhausted, OpenSession
  <2>. QED BY <2>1, <2>2, FreshAccounts DEF historyVars, TokenShape, Undone
<1>2. CASE PreConsumeToken(r)
  <2>1. pc[r] = "takeToken" /\ feePaid' = feePaid /\ paid' = paid /\ faulted' = faulted
    BY <1>2 DEF PreConsumeToken
  <2>2. pc'[r] = "takeWallet" \/ (pc'[r] = "rejected" /\ tokenPaid' = tokenPaid)
    BY <1>2 DEF PreConsumeToken, Goto, TokenUnchanged, IInv, TypeOK
  <2>. QED BY <2>1, <2>2, FreshAccounts DEF TokenShape, Undone
<1>3. CASE PreConsumeWallet(r)
  <2>1. pc[r] = "takeWallet" /\ pc'[r] \in {"serving", "undoToken"} /\ feePaid' = feePaid /\ faulted' = faulted
    BY <1>3 DEF PreConsumeWallet, Goto, IInv, TypeOK
  <2>. QED BY <2>1 DEF TokenShape, Undone
<1>4. CASE UndoPreConsumeToken(r)
  <2>1. pc[r] = "undoToken" /\ pc'[r] = "rejected" /\ feePaid' = feePaid /\ paid' = paid
    BY <1>4 DEF UndoPreConsumeToken, Goto, IInv, TypeOK
  <2>2. paid[r] = 0 /\ tokenPaid[r] = session[r].tokenConsumed
    BY <2>1, InFlight DEF IInv, Shape, LocationShape, Ended
  <2>3. ~faulted'[r] => ~faulted[r] /\ tokenPaid'[r] = 0
    BY <1>4, <2>2, InFlight DEF UndoPreConsumeToken, TakeFromToken, Fault, IInv, TypeOK
  <2>. QED BY <2>1, <2>2, <2>3 DEF TokenShape, Undone
<1>. QED BY <1>1, <1>2, <1>3, <1>4 DEF PreConsume

\* A request that is being served has taken its hold from both.
LEMMA HoldOnBoth ==
  ASSUME IInv, NEW r \in Requests, pc[r] \in {"serving", "settle"}
  PROVE  paid[r] = session[r].preConsumed /\ tokenPaid[r] = session[r].preConsumed
BY DEF IInv, Shape, LocationShape, Ended

LEMMA AttemptAccounts ==
  ASSUME IInv, NEW r \in Requests, TokenShape(r), AttemptFails(r) \/ AttemptSucceeds(r)
  PROVE  TokenShape(r)'
<1>1. pc[r] = "serving" /\ pc'[r] \in {"serving", "settle"} /\ UNCHANGED historyVars
  BY DEF AttemptFails, AttemptSucceeds, Goto, IInv, TypeOK
<1>. QED BY <1>1 DEF historyVars, TokenShape, Undone

\* A request that stops for good: what its refund has yet to return is its hold.
LEMMA StopAccounts ==
  ASSUME IInv, NEW r \in Requests, TokenShape(r), GiveUp(r) \/ Panic(r)
  PROVE  TokenShape(r)'
<1>. DEFINE s == session[r]
            t == [s EXCEPT !.refunded = TRUE]
<1>0. TokenOf' = TokenOf
  BY TokensStay DEF Step, Conclude
<1>1. /\ pc[r] \in {"serving", "recording"} /\ UNCHANGED historyVars
      /\ pc'[r] \in {"fee", "failed", "panicked"}
      /\ pc[r] = "recording" => pc'[r] = "panicked"
  BY DEF GiveUp, Panic, Goto, IInv, TypeOK
<1>2. \/ NeedsRefund(s) /\ session'[r] = t /\ RefundDue(r)'
      \/ session'[r] = s /\ job'[r] = job[r]
  BY RefundStep DEF GiveUp, Panic, IInv
<1>3. job[r] = "none" /\ ~s.refunded
  BY <1>1, InFlight
<1>4. CASE NeedsRefund(s) /\ session'[r] = t /\ RefundDue(r)'
  <2>1. s.open /\ ~s.settled /\ ~s.fundingSettled
    BY <1>4 DEF NeedsRefund
  <2>2. session'[r].refunded /\ session'[r].preConsumed = s.preConsumed
    BY <1>4, InFlight DEF Sessions
  <2>3. paid[r] = s.preConsumed
    BY <2>1, <1>3 DEF IInv, Shape, MoneyShape, RefundDue
  <2>4. ~faulted[r] => tokenPaid[r] = s.preConsumed
    BY <1>1, <2>1, HoldOnBoth DEF TokenShape
  <2>5. ~faulted[r] => feePaid[r] = 0
    BY <1>1 DEF TokenShape
  <2>. QED BY <1>0, <1>1, <1>4, <2>2, <2>3, <2>4, <2>5, InFlight
         DEF historyVars, TokenShape, Undone, Follows, WalletDue, TokenDue, RefundDue
<1>5. CASE session'[r] = s /\ job'[r] = job[r]
  <2>1. CASE pc[r] = "serving" /\ pc'[r] = "panicked"
    BY <1>0, <1>1, <1>3, <1>5, <2>1, HoldOnBoth, InFlight DEF historyVars, TokenShape, Undone, Follows
  <2>2. CASE pc[r] = "serving" /\ pc'[r] # "panicked"
    <3>1. GiveUp(r)
      BY <2>2 DEF Panic, Goto, IInv, TypeOK
    <3>2. ~NeedsRefund(s)
      <4>1. SUFFICES ASSUME NeedsRefund(s) PROVE FALSE
        OBVIOUS
      <4>2. job'[r] \in {"left", "wallet"}
        BY <3>1, <4>1 DEF GiveUp, Refund, Woken, IInv, TypeOK
      <4>. QED BY <1>3, <1>5, <4>2
    <3>3. s.preConsumed = 0
      BY <1>3, <2>2, <3>2, InFlight
         DEF NeedsRefund, IInv, Shape, SessionShape, LocationShape
    <3>. QED BY <1>0, <1>1, <1>3, <1>5, <2>2, <3>3, HoldOnBoth, InFlight
           DEF historyVars, TokenShape, Undone, Follows, WalletDue, TokenDue, RefundDue
  <2>3. CASE pc[r] = "recording"
    BY <1>0, <1>1, <1>3, <1>5, <2>3 DEF historyVars, TokenShape, Undone, Follows
  <2>. QED BY <1>1, <2>1, <2>2, <2>3
<1>. QED BY <1>2, <1>4, <1>5

\* The settlement charges the difference to the wallet, then to the token. A
\* token that refuses has a quota of its own, and refuses a charge only.
LEMMA SettleAccounts ==
  ASSUME IInv, NEW r \in Requests, TokenShape(r), SettleWallet(r) \/ SettleToken(r) \/ FinishServed(r)
  PROVE  TokenShape(r)'
<1>. DEFINE s == session[r]
<1>0. TokenOf' = TokenOf
  BY TokensStay DEF Step, Settle
<1>1. CASE SettleWallet(r)
  <2>1. /\ pc[r] = "settle" /\ pc'[r] \in {"recording", "settleToken"}
        /\ feePaid' = feePaid /\ tokenPaid' = tokenPaid /\ faulted' = faulted /\ job' = job
    BY <1>1 DEF SettleWallet, Goto, IInv, TypeOK
  <2>2. ~s.refunded /\ feePaid[r] \in Nat /\ (~faulted[r] => feePaid[r] = 0)
    BY <2>1, InFlight DEF TokenShape
  <2>3. CASE pc'[r] = "settleToken"
    <3>1. paid'[r] = price'[r]
      BY <1>1, <2>1, <2>3, HoldOnBoth, InFlight DEF SettleWallet, Goto, Delta, IInv, TypeOK
    <3>. QED BY <2>1, <2>2, <2>3, <3>1 DEF TokenShape, Undone
  <2>4. CASE pc'[r] = "recording"
    <3>1. paid'[r] = paid[r]
      BY <1>1, <2>4 DEF SettleWallet, Goto, IInv, TypeOK
    <3>2. /\ session'[r].preConsumed = s.preConsumed
          /\ ~session'[r].refunded
      <4>1. session' = [session EXCEPT ![r].settled = s.open] \/ session' = session
        BY <1>1, <2>4 DEF SettleWallet, Goto, IInv, TypeOK
      <4>. QED BY <4>1, <2>2, InFlight DEF IInv, TypeOK, Sessions
    <3>. QED BY <1>0, <2>1, <2>2, <2>4, <3>1, <3>2, HoldOnBoth, InFlight DEF TokenShape, Undone, Follows
  <2>. QED BY <2>1, <2>3, <2>4
<1>2. CASE SettleToken(r)
  <2>1. /\ pc[r] = "settleToken" /\ pc'[r] = "recording"
        /\ feePaid' = feePaid /\ paid' = paid /\ job' = job
        /\ session' = [session EXCEPT ![r].settled = s.open]
    BY <1>2 DEF SettleToken, Goto, IInv, TypeOK
  <2>2. /\ ~s.refunded /\ tokenPaid[r] = s.preConsumed
        /\ ~faulted[r] => paid[r] = price[r]
    BY <2>1, InFlight DEF IInv, Shape, LocationShape, TokenShape
  <2>3. /\ ~session'[r].refunded
        /\ session'[r].open => session'[r].settled
    BY <2>1, <2>2, InFlight DEF IInv, TypeOK, Sessions
  <2>4. ~faulted'[r] => ~faulted[r] /\ Follows(r, tokenPaid'[r], paid[r])
    <3>1. SUFFICES ASSUME ~faulted'[r] PROVE ~faulted[r] /\ Follows(r, tokenPaid'[r], paid[r])
      OBVIOUS
    <3>2. CASE TakeFromToken(r, Delta(r)) /\ UNCHANGED faulted
      BY <3>1, <3>2, <2>2, InFlight DEF TakeFromToken, Delta, Follows, IInv, TypeOK
    <3>3. CASE ~TokenAllows(TokenOf[r], Delta(r)) /\ TokenUnchanged /\ UNCHANGED faulted
      BY <3>1, <3>3, <2>2, InFlight DEF TokenAllows, TokenUnchanged, Delta, Follows
    <3>4. ~Fault(r)
      BY <3>1 DEF Fault, IInv, TypeOK
    <3>. QED BY <1>2, <3>2, <3>3, <3>4 DEF SettleToken
  <2>. QED BY <1>0, <2>1, <2>3, <2>4 DEF TokenShape, Undone, Follows
<1>3. CASE FinishServed(r)
  <2>1. pc[r] = "recording" /\ pc'[r] = "served" /\ UNCHANGED historyVars /\ UNCHANGED <<session, job>>
    BY <1>3 DEF FinishServed, Goto, IInv, TypeOK
  <2>. QED BY <1>0, <2>1 DEF historyVars, TokenShape, Undone, Follows
<1>. QED BY <1>1, <1>2, <1>3

\* The fee is charged to both in the same order.
LEMMA FeeAccounts ==
  ASSUME IInv, NEW r \in Requests, TokenShape(r), ChargeFee(r) \/ ChargeFeeToken(r)
  PROVE  TokenShape(r)'
<1>0. TokenOf' = TokenOf
  BY TokensStay DEF Step, Settle
<1>1. CASE ChargeFee(r)
  <2>1. /\ pc[r] = "fee" /\ pc'[r] \in {"feeToken", "failed"}
        /\ pc'[r] = "failed" => feePaid'[r] = feePaid[r]
        /\ paid' = paid /\ tokenPaid' = tokenPaid /\ faulted' = faulted
        /\ UNCHANGED <<session, job>>
    BY <1>1 DEF ChargeFee, Goto, IInv, TypeOK
  <2>. QED BY <1>0, <2>1, InFlight DEF TokenShape, Undone, Follows, WalletDue, TokenDue, RefundDue
<1>2. CASE ChargeFeeToken(r)
  <2>1. /\ pc[r] = "feeToken" /\ pc'[r] = "failed"
        /\ paid' = paid /\ feePaid' = feePaid /\ UNCHANGED <<session, job>>
    BY <1>2 DEF ChargeFeeToken, Goto, IInv, TypeOK
  <2>2. ASSUME ~faulted'[r]
        PROVE  ~faulted[r] /\ Follows(r, tokenPaid'[r] - tokenPaid[r], feePaid[r])
    <3>1. CASE TakeFromToken(r, feePaid[r]) /\ UNCHANGED faulted
      BY <2>2, <3>1, InFlight DEF TakeFromToken, Follows, IInv, TypeOK
    <3>2. CASE ~TokenAllows(TokenOf[r], feePaid[r]) /\ TokenUnchanged /\ UNCHANGED faulted
      BY <2>2, <3>2, InFlight DEF TokenAllows, TokenUnchanged, Follows
    <3>3. ~Fault(r)
      BY <2>2 DEF Fault, IInv, TypeOK
    <3>. QED BY <1>2, <3>1, <3>2, <3>3 DEF ChargeFeeToken
  <2>. QED BY <1>0, <2>1, <2>2, InFlight DEF TokenShape, Undone, Follows, WalletDue, TokenDue, RefundDue
<1>. QED BY <1>1, <1>2

\* The refund returns the hold, to the wallet and then to the token.
LEMMA RefundAccounts ==
  ASSUME IInv, NEW r \in Requests, TokenShape(r), RefundTask(r)
  PROVE  TokenShape(r)'
<1>. DEFINE s == session[r]
<1>0. TokenOf' = TokenOf
  BY TokensStay DEF Step
<1>1. /\ s.refunded /\ pc[r] \in {"fee", "feeToken", "failed", "panicked", "crashed"}
      /\ s.consumed = s.preConsumed /\ s.tokenConsumed = s.preConsumed
  BY InFlight DEF RefundTask, RefundWallet, RefundToken, IInv, Shape, SessionShape
<1>2. pc' = pc /\ session' = session /\ feePaid' = feePaid
  BY DEF RefundTask, RefundWallet, RefundToken
<1>3. CASE RefundWallet(r)
  <2>1. job[r] = "wallet" /\ job'[r] = "token" /\ tokenPaid' = tokenPaid
    BY <1>3 DEF RefundWallet, IInv, TypeOK
  <2>2. ~faulted'[r] => ~faulted[r] /\ paid'[r] = paid[r] - s.preConsumed
    BY <1>1, <1>3 DEF RefundWallet, Fault, IInv, TypeOK
  <2>. QED BY <1>0, <1>1, <1>2, <2>1, <2>2, InFlight DEF TokenShape, Undone, Follows, WalletDue, TokenDue, RefundDue
<1>4. CASE RefundToken(r)
  <2>1. job[r] = "token" /\ job'[r] = "none" /\ paid' = paid
    BY <1>4 DEF RefundToken, IInv, TypeOK
  <2>2. ~faulted'[r] => ~faulted[r] /\ tokenPaid'[r] = tokenPaid[r] - s.preConsumed
    BY <1>1, <1>4, InFlight DEF RefundToken, TakeFromToken, Fault, IInv, TypeOK
  <2>. QED BY <1>0, <1>1, <1>2, <2>1, <2>2, InFlight DEF TokenShape, Undone, Follows, WalletDue, TokenDue, RefundDue
<1>. QED BY <1>3, <1>4 DEF RefundTask

LEMMA CrashAccounts == ASSUME IInv, TokenInv, Crash PROVE TokenInv'
<1>1. SUFFICES ASSUME NEW r \in Requests, ~faulted'[r] PROVE TokenShape(r)'
  BY DEF TokenInv, TokenShape
<1>2. ~faulted[r] /\ (pc[r] = "new" \/ AtRest(r))
  BY <1>1 DEF Crash, IInv, TypeOK
<1>3. job[r] = "none" /\ job'[r] = "none"
  BY <1>2, InFlight DEF Crash, AtRest, Jobs
<1>4. pc'[r] = pc[r]
  BY <1>2 DEF Crash, AtRest, IInv, TypeOK
<1>5. faulted'[r] = faulted[r]
  BY <1>1, <1>2 DEF Crash, IInv, TypeOK
<1>6. TokenShape(r)
  BY DEF TokenInv
<1>7. TokenOf' = TokenOf
  BY TokensStay
<1>. QED BY <1>3, <1>4, <1>5, <1>6, <1>7, TokenFrame DEF Crash

-----------------------------------------------------------------------------

LEMMA NextTokenInv == IInv /\ TokenInv /\ [Next]_vars => TokenInv'
<1>. SUFFICES ASSUME IInv, TokenInv, [Next]_vars PROVE TokenInv'
  OBVIOUS
<1>1. ASSUME NEW r \in Requests, Step(r) PROVE TokenInv'
  <2>1. TokenShape(r)'
    BY <1>1, PreConsumeAccounts, AttemptAccounts, StopAccounts, SettleAccounts, FeeAccounts,
       RefundAccounts DEF TokenInv, Step, Conclude, Settle
  <2>2. ASSUME NEW q \in Requests \ {r} PROVE TokenShape(q)'
    BY <1>1, <2>2, OthersStay, TokensStay, TokenFrame DEF TokenInv, IInv
  <2>. QED BY <2>1, <2>2 DEF TokenInv
<1>2. CASE UNCHANGED vars
  BY <1>2, TokenFrame DEF TokenInv, TokenOf, vars, handlerVars, historyVars
<1>3. CASE PoolWakes
  <2>1. ASSUME NEW q \in Requests
        PROVE  job'[q] = job[q] \/ (job[q] = "left" /\ job'[q] = "wallet")
    BY <1>3 DEF PoolWakes, Woken, IInv, TypeOK
  <2>2. ASSUME NEW q \in Requests PROVE TokenOf' = TokenOf
    BY <1>3, TokensStay
  <2>. QED BY <1>3, <2>1, <2>2, TokenFrame DEF TokenInv, PoolWakes, historyVars
<1>. QED BY <1>1, <1>2, <1>3, CrashAccounts DEF Next, Step

\* The two accounts at every line of the handler and every state of its refund.
THEOREM AccountsInductive == Spec => []TokenInv
<1>1. Init => TokenInv
  BY DEF Init, TokenInv, TokenShape, Undone
<1>. QED BY <1>1, NextTokenInv, Inductive, PTL DEF Spec

\* A finished request of which no statement failed has charged its token no
\* more than the wallet, and exactly as much when the token has no quota of its
\* own (billing.go:8).
THEOREM TokenAlwaysFollows == Spec => []TokenFollowsWallet
<1>1. IInv /\ TokenInv => TokenFollowsWallet
  <2>. SUFFICES ASSUME IInv, TokenInv, NEW r \in Requests, AtRest(r), ~faulted[r]
                PROVE  Follows(r, tokenPaid[r], paid[r] + feePaid[r])
    BY DEF TokenFollowsWallet, Follows
  <2>. QED BY InFlight DEF TokenInv, TokenShape, AtRest, Ended, Undone, Follows, WalletDue, TokenDue, RefundDue
<1>. QED BY <1>1, Inductive, AccountsInductive, PTL

\* A request that was turned away or failed has paid for no usage once its
\* refund has run, unless a statement of it failed; its fee is all there is
\* (relay.go:177-186).
THEOREM FailuresPayNothing == Spec => []FailureIsFree
<1>1. IInv /\ TokenInv => FailureIsFree
  BY InFlight DEF FailureIsFree, TokenInv, TokenShape, AtRest, Undone, Follows, WalletDue, TokenDue, RefundDue
<1>. QED BY <1>1, Inductive, AccountsInductive, PTL

-----------------------------------------------------------------------------
(***************************************************************************)
(* The books: what a step takes from the wallet or from a token is, to the *)
(* unit, what it adds to the account of the request that takes it. The     *)
(* sums over the requests then move with the columns (SumTheorems).        *)
(***************************************************************************)

\* The wallet moves against the account of the request that steps. A fee is
\* written over what stood there, which FeeShape says was nothing.
LEMMA WalletAgainstAccount ==
  ASSUME IInv, FeeShape, NEW r \in Requests, Step(r)
  PROVE  wallet' + (paid'[r] + feePaid'[r]) = wallet + (paid[r] + feePaid[r])
<1>. /\ wallet \in Int /\ paid \in [Requests -> Nat] /\ feePaid \in [Requests -> Nat]
     /\ paid[r] \in Nat /\ feePaid[r] \in Nat
  BY DEF IInv, TypeOK
<1>1. CASE UNCHANGED <<wallet, paid, feePaid>>
  BY <1>1
<1>2. CASE PreConsumeWallet(r)
  <2>1. estimate[r] \in Nat
    BY DEF IInv, TypeOK
  <2>. QED BY <1>2, <2>1 DEF PreConsumeWallet, ChargeWallet
<1>3. CASE SettleWallet(r)
  <2>1. Delta(r) \in Int
    BY InFlight DEF Delta
  <2>. QED BY <1>3, <2>1 DEF SettleWallet, ChargeWallet
<1>4. CASE ChargeFee(r)
  <2>1. feePaid[r] = 0
    BY <1>4 DEF ChargeFee, FeeShape, Ended
  <2>2. CASE UNCHANGED <<wallet, feePaid>>
    BY <1>4, <2>2 DEF ChargeFee
  <2>3. CASE \E f \in Fees : ChargeWallet(f) /\ feePaid' = [feePaid EXCEPT ![r] = f]
    <3>1. PICK f \in Fees : ChargeWallet(f) /\ feePaid' = [feePaid EXCEPT ![r] = f]
      BY <2>3
    <3>2. f \in Nat
      BY AmountAssumption
    <3>. QED BY <1>4, <2>1, <3>1, <3>2 DEF ChargeFee, ChargeWallet
  <2>. QED BY <1>4, <2>2, <2>3 DEF ChargeFee
<1>5. CASE RefundWallet(r)
  <2>1. session[r].consumed \in Nat
    BY SessionFields DEF IInv, TypeOK
  <2>. QED BY <1>5, <2>1 DEF RefundWallet, ChargeWallet
<1>6. \/ UNCHANGED <<wallet, paid, feePaid>> \/ PreConsumeWallet(r) \/ SettleWallet(r)
      \/ ChargeFee(r) \/ RefundWallet(r)
  BY DEF Step, PreConsume, Authenticate, MarkExhausted, OpenSession, PreConsumeToken,
     UndoPreConsumeToken, AttemptFails, Conclude, AttemptSucceeds, GiveUp, Settle,
     SettleToken, FinishServed, ChargeFeeToken, Panic, RefundTask, RefundToken, historyVars
<1>. QED BY <1>1, <1>2, <1>3, <1>4, <1>5, <1>6

\* A token moves, if at all, by one charge or credit for the request.
LEMMA TokenByCharge ==
  ASSUME IInv, NEW r \in Requests, Step(r)
  PROVE  TokenUnchanged \/ \E q \in Int : TakeFromToken(r, q)
<1>1. CASE PreConsumeToken(r)
  <2>1. estimate[r] \in Int
    BY InFlight
  <2>. QED BY <1>1, <2>1 DEF PreConsumeToken
<1>2. CASE UndoPreConsumeToken(r) \/ RefundToken(r)
  <2>1. -session[r].tokenConsumed \in Int
    BY InFlight
  <2>. QED BY <1>2, <2>1 DEF UndoPreConsumeToken, RefundToken
<1>3. CASE SettleToken(r)
  <2>1. Delta(r) \in Int
    BY InFlight DEF Delta
  <2>. QED BY <1>3, <2>1 DEF SettleToken
<1>4. CASE ChargeFeeToken(r)
  <2>1. feePaid[r] \in Int
    BY InFlight
  <2>. QED BY <1>4, <2>1 DEF ChargeFeeToken
<1>5. \/ TokenUnchanged \/ PreConsumeToken(r) \/ UndoPreConsumeToken(r) \/ RefundToken(r)
      \/ SettleToken(r) \/ ChargeFeeToken(r)
  BY DEF Step, PreConsume, Authenticate, MarkExhausted, OpenSession, PreConsumeWallet,
     AttemptFails, Conclude, AttemptSucceeds, GiveUp, Settle, SettleWallet,
     FinishServed, ChargeFee, Panic, RefundTask, RefundWallet, historyVars, TokenUnchanged
<1>. QED BY <1>1, <1>2, <1>3, <1>4, <1>5

\* The presenters of a token.
Presenters(t) == {r \in Requests : TokenOf[r] = t}

LEMMA PresentersFinite ==
  ASSUME NEW t PROVE IsFiniteSet(Presenters(t)) /\ Presenters(t) \subseteq Requests
BY RequestAssumption, FS_Subset DEF Presenters

\* The wallet's half of the books.
WalletBooks == wallet + SumOver([r \in Requests |-> paid[r] + feePaid[r]], Requests) = InitWallet

LEMMA WalletBooksStep ==
  ASSUME IInv, IInv', FeeShape, WalletBooks, NEW r \in Requests, Step(r)
  PROVE  WalletBooks'
<1>. DEFINE f == [q \in Requests |-> paid[q] + feePaid[q]]
            g == [q \in Requests |-> paid'[q] + feePaid'[q]]
<1>1. \A q \in Requests : f[q] \in Int /\ g[q] \in Int
  BY DEF IInv, TypeOK
<1>2. \A q \in Requests \ {r} : f[q] = g[q]
  BY OthersStay DEF IInv
<1>3. wallet' + g[r] = wallet + f[r] /\ f[r] \in Int /\ g[r] \in Int
  BY <1>1, WalletAgainstAccount
<1>4. wallet + SumOver(f, Requests) = InitWallet
  BY DEF WalletBooks
<1>5. SUFFICES wallet' + SumOver(g, Requests) = InitWallet
  BY DEF WalletBooks
<1>. HIDE DEF f, g
<1>6. SumOver(g, Requests) = SumOver(f, Requests) + (g[r] - f[r])
  BY <1>1, <1>2, RequestAssumption, SumChange
<1>7. SumOver(f, Requests) \in Int
  BY <1>1, RequestAssumption, SumType
<1>. QED BY <1>3, <1>4, <1>6, <1>7 DEF IInv, TypeOK

\* The tokens' half.
TokenBooks ==
  \A t \in Tokens :
    /\ used[t] = SumOver(tokenPaid, Presenters(t))
    /\ remain[t] = IF t \in Limited THEN InitRemain[t] - used[t] ELSE InitRemain[t]

LEMMA TokenBooksStep ==
  ASSUME IInv, IInv', TokenBooks, NEW r \in Requests, Step(r)
  PROVE  TokenBooks'
<1>0. TokenOf' = TokenOf /\ \A t : Presenters(t)' = Presenters(t)
  BY TokensStay DEF Presenters
<1>1. CASE TokenUnchanged
  BY <1>0, <1>1 DEF TokenUnchanged, TokenBooks
<1>2. ASSUME NEW q \in Int, TakeFromToken(r, q) PROVE TokenBooks'
  <2>1. SUFFICES ASSUME NEW t \in Tokens
                 PROVE  /\ used'[t] = SumOver(tokenPaid', Presenters(t))
                        /\ remain'[t] = IF t \in Limited THEN InitRemain[t] - used'[t] ELSE InitRemain[t]
    BY <1>0 DEF TokenBooks
  <2>2. /\ used[t] = SumOver(tokenPaid, Presenters(t))
        /\ remain[t] = IF t \in Limited THEN InitRemain[t] - used[t] ELSE InitRemain[t]
        /\ used[t] \in Int /\ InitRemain[t] \in Int
    BY AmountAssumption DEF TokenBooks, IInv, TypeOK
  <2>3. \A x \in Requests : tokenPaid[x] \in Int /\ tokenPaid'[x] \in Int
    BY DEF IInv, TypeOK
  <2>4. tokenPaid'[r] = tokenPaid[r] + q /\ \A x \in Requests \ {r} : tokenPaid'[x] = tokenPaid[x]
    BY <1>2 DEF TakeFromToken, IInv, TypeOK
  <2>5. CASE t = TokenOf[r]
    <3>1. r \in Presenters(t)
      BY <2>5 DEF Presenters
    <3>2. SumOver(tokenPaid', Presenters(t)) = SumOver(tokenPaid, Presenters(t)) + (tokenPaid'[r] - tokenPaid[r])
      BY <2>3, <2>4, <3>1, PresentersFinite, SumChange
    <3>3. used'[t] = used[t] + q
      BY <1>2, <2>5 DEF TakeFromToken, ChargeToken, IInv, TypeOK
    <3>4. remain'[t] = IF t \in Limited THEN remain[t] - q ELSE remain[t]
      BY <1>2, <2>5 DEF TakeFromToken, ChargeToken, IInv, TypeOK
    <3>5. used'[t] = SumOver(tokenPaid', Presenters(t))
      BY <2>2, <2>3, <2>4, <3>2, <3>3
    <3>. QED BY <2>2, <3>3, <3>4, <3>5
  <2>6. CASE t # TokenOf[r]
    <3>1. \A x \in Presenters(t) : tokenPaid[x] = tokenPaid'[x]
      BY <2>4, <2>6 DEF Presenters
    <3>2. SumOver(tokenPaid, Presenters(t)) = SumOver(tokenPaid', Presenters(t))
      BY <3>1, PresentersFinite, SumSame
    <3>3. used'[t] = used[t] /\ remain'[t] = remain[t]
      BY <1>2, <2>6 DEF TakeFromToken, ChargeToken, IInv, TypeOK
    <3>. QED BY <2>2, <3>2, <3>3
  <2>. QED BY <2>5, <2>6
<1>. QED BY <1>1, <1>2, TokenByCharge

LEMMA BooksInit == Init => WalletBooks /\ TokenBooks
<1>. SUFFICES ASSUME Init PROVE WalletBooks /\ TokenBooks
  OBVIOUS
<1>1. WalletBooks
  <2>. DEFINE f == [q \in Requests |-> paid[q] + feePaid[q]]
  <2>1. \A q \in Requests : f[q] = 0
    BY DEF Init
  <2>. HIDE DEF f
  <2>2. SumOver(f, Requests) = 0
    BY <2>1, RequestAssumption, SumZero
  <2>3. wallet + SumOver(f, Requests) = InitWallet
    BY <2>2, AmountAssumption DEF Init
  <2>. QED BY <2>3 DEF WalletBooks, f
<1>2. ASSUME NEW t \in Tokens
      PROVE  /\ used[t] = SumOver(tokenPaid, Presenters(t))
             /\ remain[t] = IF t \in Limited THEN InitRemain[t] - used[t] ELSE InitRemain[t]
  <2>1. \A x \in Presenters(t) : tokenPaid[x] = 0
    BY DEF Init, Presenters
  <2>2. SumOver(tokenPaid, Presenters(t)) = 0
    BY <2>1, PresentersFinite, SumZero
  <2>. QED BY <2>2, AmountAssumption DEF Init
<1>. QED BY <1>1, <1>2 DEF TokenBooks

LEMMA BooksStep ==
  IInv /\ IInv' /\ FeeShape /\ WalletBooks /\ TokenBooks /\ [Next]_vars => WalletBooks' /\ TokenBooks'
<1>. SUFFICES ASSUME IInv, IInv', FeeShape, WalletBooks, TokenBooks, [Next]_vars
              PROVE  WalletBooks' /\ TokenBooks'
  OBVIOUS
<1>1. ASSUME NEW r \in Requests, Step(r) PROVE WalletBooks' /\ TokenBooks'
  BY <1>1, WalletBooksStep, TokenBooksStep
<1>2. CASE Crash \/ PoolWakes \/ UNCHANGED vars
  <2>1. UNCHANGED <<setup, wallet, paid, feePaid, remain, used, tokenPaid>>
    BY <1>2 DEF Crash, PoolWakes, vars, historyVars
  <2>. QED BY <2>1 DEF WalletBooks, TokenBooks, Presenters, TokenOf
<1>. QED BY <1>1, <1>2 DEF Next, Step

\* Whatever fails and however the requests interleave, every unit missing from
\* the wallet is in the account of a request, and every unit a token has used
\* was charged by a request that presents it.
THEOREM BooksAlwaysBalance == Spec => []BooksBalance
<1>1. WalletBooks /\ TokenBooks => BooksBalance
  BY DEF WalletBooks, TokenBooks, Presenters, BooksBalance
<1>. QED BY <1>1, BooksInit, BooksStep, Inductive, FeeInductive, PTL DEF Spec
=============================================================================
