------------------------- MODULE TokenWindowProofs -------------------------
(***************************************************************************)
(* Only a save of the settings takes a token's counters past its quotas,   *)
(* and its window and its cycle move together, for every number of         *)
(* requests, every quota, price and window length, with failing statements *)
(* and with saves; and while no save and no reset through a *Token that    *)
(* another request has written undoes anything, the window counts what was *)
(* charged to it.                                                          *)
(***************************************************************************)
EXTENDS TokenWindowProperties, TLAPS

LEMMA SettingsFields ==
  ASSUME NEW s \in Settings
  PROVE  /\ s.anchor \in Nat /\ s.windowLen \in Nat /\ s.windowLen > 0
         /\ s.cycleLen \in Nat /\ s.cycleLen > 0
         /\ s.windowQuota \in Nat /\ s.windowQuota > 0 /\ s.cycleQuota \in Nat /\ s.cycleQuota > 0
         /\ s.anchor + s.windowLen <= StartTime
<1>1. s \in SettingsRows
  BY QuotaAssumption
<1>. QED BY <1>1, QuotaAssumption DEF SettingsRows

LEMMA CounterFields ==
  ASSUME NEW c \in Counters
  PROVE  /\ c.windowUsed \in Int /\ c.cycleUsed \in Int
         /\ c.windowStart \in Nat /\ c.cycleStart \in Nat
  BY DEF Counters

LEMMA RowFields ==
  ASSUME NEW row \in Rows PROVE row.counters \in Counters /\ row.settings \in Settings
  BY DEF Rows

\* The start of the window of a time, of whatever settings, is a time before it, and no
\* time before the clock began to run.
LEMMA CurrentWindowBounds ==
  ASSUME NEW s \in Settings, NEW t \in Nat, t >= StartTime
  PROVE  CurrentWindow(s, t) \in Nat /\ 0 < CurrentWindow(s, t) /\ CurrentWindow(s, t) <= t
<1>. DEFINE L == s.windowLen
            e == t - s.anchor
            n == e \div L
<1>1. L \in Nat /\ L > 0 /\ s.anchor \in Nat /\ e \in Nat /\ e >= L
  BY SettingsFields, QuotaAssumption
<1>2. /\ n \in Nat /\ e % L \in Nat /\ e % L < L
      /\ e = L * n + (e % L)
  <2>1. \A a, b \in Nat : b > 0 => a \div b \in Nat
    OBVIOUS
  <2>2. \A a, b \in Nat : b > 0 => a % b \in Nat /\ a % b < b
    OBVIOUS
  <2>3. \A a, b \in Nat : b > 0 => a = b * (a \div b) + (a % b)
    OBVIOUS
  <2>. HIDE DEF L, e
  <2>. QED BY <1>1, <2>1, <2>2, <2>3
<1>3. \A x, y \in Nat : x * y \in Nat /\ x * y = y * x
  OBVIOUS
<1>4. L * n \in Nat /\ n * L = L * n
  <2>. HIDE DEF L, n
  <2>. QED BY <1>1, <1>2, <1>3
<1>5. CurrentWindow(s, t) = s.anchor + L * n
  <2>1. CurrentWindow(s, t) = s.anchor + n * L
    BY DEF CurrentWindow
  <2>. HIDE DEF L, n
  <2>. QED BY <1>4, <2>1
<1>6. L * n > 0
  <2>. HIDE DEF L, n, e
  <2>. QED BY <1>1, <1>2, <1>4
<1>7. t = s.anchor + e
  BY <1>1
<1>. HIDE DEF L, n, e
<1>. QED BY <1>1, <1>2, <1>4, <1>5, <1>6, <1>7

\* The start of a cycle is a time, and no earlier than the start it is reckoned from.
LEMMA CurrentCycleBounds ==
  ASSUME NEW row \in Rows, NEW t \in Nat
  PROVE  /\ CurrentCycle(row, t) \in Nat
         /\ CurrentCycle(row, t) >= row.counters.cycleStart
<1>. DEFINE s == row.counters.cycleStart
            L == row.settings.cycleLen
<1>1. s \in Nat /\ L \in Nat /\ L > 0
  BY RowFields, CounterFields, SettingsFields
<1>2. CASE s <= 0 \/ t < s
  BY <1>1, <1>2 DEF CurrentCycle
<1>3. CASE s > 0 /\ t >= s
  <2>1. t - s \in Nat
    BY <1>1, <1>3
  <2>2. (t - s) \div L \in Nat
    <3>1. \A a, b \in Nat : b > 0 => a \div b \in Nat
      OBVIOUS
    <3>. HIDE DEF s, L
    <3>. QED BY <1>1, <2>1, <3>1
  <2>3. \A x, y \in Nat : x * y \in Nat
    OBVIOUS
  <2>4. ((t - s) \div L) * L \in Nat
    <3>. HIDE DEF s, L
    <3>. QED BY <1>1, <2>2, <2>3
  <2>5. CurrentCycle(row, t) = s + ((t - s) \div L) * L
    <3>1. ~(s <= 0) /\ ~(t < s)
      BY <1>1, <1>3
    <3>. QED BY <3>1, Zenon DEF CurrentCycle
  <2>. HIDE DEF s, L
  <2>. QED BY <1>1, <2>4, <2>5 DEF s
<1>. QED BY <1>1, <1>2, <1>3

\* Resetting a window, or a cycle, of counters.
LEMMA ResetCounters ==
  ASSUME NEW c \in Counters, NEW n \in Nat
  PROVE  /\ [c EXCEPT !.windowUsed = 0, !.windowStart = n] \in Counters
         /\ [c EXCEPT !.windowUsed = 0, !.windowStart = n].windowUsed = 0
         /\ [c EXCEPT !.windowUsed = 0, !.windowStart = n].windowStart = n
         /\ [c EXCEPT !.windowUsed = 0, !.windowStart = n].cycleUsed = c.cycleUsed
         /\ [c EXCEPT !.windowUsed = 0, !.windowStart = n].cycleStart = c.cycleStart
         /\ [c EXCEPT !.cycleUsed = 0, !.cycleStart = n] \in Counters
         /\ [c EXCEPT !.cycleUsed = 0, !.cycleStart = n].cycleUsed = 0
         /\ [c EXCEPT !.cycleUsed = 0, !.cycleStart = n].cycleStart = n
         /\ [c EXCEPT !.cycleUsed = 0, !.cycleStart = n].windowUsed = c.windowUsed
         /\ [c EXCEPT !.cycleUsed = 0, !.cycleStart = n].windowStart = c.windowStart
<1>1. [c EXCEPT !.windowUsed = 0] \in Counters /\ [c EXCEPT !.cycleUsed = 0] \in Counters
  BY DEF Counters
<1>2. ASSUME NEW d \in Counters
      PROVE  [d EXCEPT !.windowStart = n] \in Counters /\ [d EXCEPT !.cycleStart = n] \in Counters
  BY DEF Counters
<1>3. /\ [c EXCEPT !.windowUsed = 0, !.windowStart = n] \in Counters
      /\ [c EXCEPT !.cycleUsed = 0, !.cycleStart = n] \in Counters
  BY <1>1, <1>2
<1>. QED BY <1>3 DEF Counters

LEMMA ResetRow ==
  ASSUME NEW row \in Rows, NEW c \in Counters
  PROVE  /\ [row EXCEPT !.counters = c] \in Rows
         /\ [row EXCEPT !.counters = c].counters = c
  BY DEF Rows

\* What the statements on the counters do.
LEMMA MoveWindowStep ==
  ASSUME WInv, NEW r \in Requests, NEW q \in Int, MoveWindow(r, q)
  PROVE  /\ token' \in Counters /\ token'.windowUsed = token.windowUsed + q
         /\ token'.cycleUsed = token.cycleUsed /\ token'.windowStart = token.windowStart
         /\ token'.cycleStart = token.cycleStart
         /\ ahead' \in [Requests -> Int] /\ ahead'[r] = ahead[r] + q
         /\ \A x \in Requests \ {r} : ahead'[x] = ahead[x]
         /\ charged' \in [Times -> Int] /\ faulted' = faulted /\ writes' = writes
<1>1. token \in Counters /\ ahead \in [Requests -> Int] /\ charged \in [Times -> Int]
  BY DEF WInv, TypeOK
<1>2. /\ token' \in Counters /\ token'.windowUsed = token.windowUsed + q
      /\ token'.cycleUsed = token.cycleUsed /\ token'.windowStart = token.windowStart
      /\ token'.cycleStart = token.cycleStart
  BY <1>1 DEF MoveWindow, Counters
<1>3. /\ ahead' \in [Requests -> Int] /\ ahead'[r] = ahead[r] + q
      /\ \A x \in Requests \ {r} : ahead'[x] = ahead[x]
  BY <1>1 DEF MoveWindow
<1>4. charged' \in [Times -> Int]
  <2>. DEFINE w == token.windowStart
              v == charged[w] + q
  <2>1. charged' = [charged EXCEPT ![w] = v]
    BY DEF MoveWindow
  <2>2. w \in Times => v \in Int
    BY <1>1
  <2>. HIDE DEF w, v
  <2>. QED BY <1>1, <2>1, <2>2
<1>5. faulted' = faulted /\ writes' = writes
  BY DEF MoveWindow
<1>. QED BY <1>2, <1>3, <1>4, <1>5

LEMMA MoveCycleStep ==
  ASSUME WInv, NEW r \in Requests, NEW q \in Int, MoveCycle(r, q)
  PROVE  /\ token' \in Counters /\ token'.cycleUsed = token.cycleUsed + q
         /\ token'.windowUsed = token.windowUsed /\ token'.windowStart = token.windowStart
         /\ token'.cycleStart = token.cycleStart
         /\ ahead' \in [Requests -> Int] /\ ahead'[r] = ahead[r] - q
         /\ \A x \in Requests \ {r} : ahead'[x] = ahead[x]
         /\ charged' = charged /\ faulted' = faulted /\ writes' = writes
<1>1. token \in Counters /\ ahead \in [Requests -> Int]
  BY DEF WInv, TypeOK
<1>2. /\ token' \in Counters /\ token'.cycleUsed = token.cycleUsed + q
      /\ token'.windowUsed = token.windowUsed /\ token'.windowStart = token.windowStart
      /\ token'.cycleStart = token.cycleStart
  BY <1>1 DEF MoveCycle, Counters
<1>. QED BY <1>1, <1>2 DEF MoveCycle

-----------------------------------------------------------------------------
\* A step of one request keeps the invariant when it leaves the counters within the
\* bound and the request itself where HalfWay says it may be.
LEMMA StepOf ==
  ASSUME WInv, NEW r \in Requests, NEW l \in Locations, Goto(r, l),
         token' \in Counters, UsedWithinQuota',
         snap' \in [Requests -> Rows], same' \in [Requests -> SUBSET Requests],
         flight' \subseteq [by : Requests, row : Rows],
         touched' \subseteq Requests, late' \in BOOLEAN,
         held' \in [Requests -> Nat],
         amount' \in [Requests -> Nat], \A x \in Requests \ {r} : amount'[x] = amount[x],
         ahead' \in [Requests -> Int], \A x \in Requests \ {r} : ahead'[x] = ahead[x],
         charged' \in [Times -> Int],
         faulted' \in [Requests -> BOOLEAN],
         \A x \in Requests \ {r} : faulted'[x] = faulted[x],
         l = "undoGive" => faulted'[r],
         WithCycle /\ ~faulted'[r] => HalfWay(r)',
         now' = now, settings' = settings, edit' = edit, writes' = writes
  PROVE  WInv'
<1>1. pc' \in [Requests -> Locations] /\ pc'[r] = l /\ \A x \in Requests \ {r} : pc'[x] = pc[x]
  BY DEF WInv, TypeOK, Goto
<1>2. TypeOK'
  BY <1>1 DEF WInv, TypeOK, writes
<1>3. \A x \in Requests : pc'[x] = "undoGive" => faulted'[x]
  BY <1>1 DEF WInv
<1>4. ASSUME WithCycle, NEW x \in Requests, ~faulted'[x] PROVE HalfWay(x)'
  <2>1. CASE x = r
    BY <1>4, <2>1
  <2>2. CASE x # r
    <3>1. HalfWay(x)
      BY <1>4, <2>2 DEF WInv
    <3>2. pc'[x] = pc[x] /\ amount'[x] = amount[x] /\ ahead'[x] = ahead[x]
      BY <1>1, <2>2
    <3>. QED BY <3>1, <3>2 DEF HalfWay
  <2>. QED BY <2>1, <2>2
<1>. QED BY <1>2, <1>3, <1>4 DEF WInv

LEMMA InitWInv == Init => WInv
<1>. SUFFICES ASSUME Init PROVE WInv
  OBVIOUS
<1>1. /\ NewToken \in Counters /\ NewRow \in Rows
      /\ NewToken.windowUsed = 0 /\ NewToken.cycleUsed = 0
  BY QuotaAssumption DEF NewToken, Counters, NewRow, Rows
<1>2. TypeOK
  <2>1. pc \in [Requests -> Locations] /\ same \in [Requests -> SUBSET Requests]
    BY DEF Init, Locations, Loading
  <2>2. snap \in [Requests -> Rows] /\ token \in Counters /\ settings \in Settings
    BY <1>1, QuotaAssumption DEF Init
  <2>3. now \in StartTime..MaxTime
    BY QuotaAssumption DEF Init
  <2>4. ahead \in [Requests -> Int] /\ charged \in [Times -> Int]
    BY DEF Init
  <2>5. amount \in [Requests -> Nat] /\ held \in [Requests -> Nat] /\ faulted \in [Requests -> BOOLEAN]
    BY DEF Init
  <2>6. /\ saves \in Nat /\ saved \in [window : Int, cycle : Int]
        /\ rewrote \in BOOLEAN /\ late \in BOOLEAN
    <3>1. saves \in Nat /\ saved \in [window : Int, cycle : Int]
      BY DEF Init
    <3>2. rewrote = FALSE /\ late = FALSE
      BY Zenon DEF Init
    <3>3. rewrote \in BOOLEAN /\ late \in BOOLEAN
      BY <3>2, Zenon
    <3>. QED BY <3>1, <3>3
  <2>7. edit \subseteq Rows /\ flight \subseteq [by : Requests, row : Rows] /\ touched \subseteq Requests
    BY DEF Init
  <2>. QED BY <2>1, <2>2, <2>3, <2>4, <2>5, <2>6, <2>7 DEF TypeOK
<1>3. UsedWithinQuota
  BY <1>1 DEF Init, UsedWithinQuota
<1>4. \A r \in Requests : HalfWay(r)
  BY DEF Init, HalfWay
<1>. QED BY <1>2, <1>3, <1>4 DEF Init, WInv

LEMMA TickWInv == WInv /\ Tick => WInv'
<1>. SUFFICES ASSUME WInv, Tick PROVE WInv'
  OBVIOUS
<1>. USE DEF copies, resets, history, writes
<1>1. TypeOK'
  BY QuotaAssumption DEF WInv, TypeOK, Tick, Times
<1>2. UsedWithinQuota'
  BY DEF WInv, UsedWithinQuota, Tick
<1>. QED BY <1>1, <1>2 DEF WInv, Tick, HalfWay

LEMMA StutterWInv == WInv /\ UNCHANGED vars => WInv'
<1>. SUFFICES ASSUME WInv, UNCHANGED vars PROVE WInv'
  OBVIOUS
<1>. USE DEF copies, resets, history, writes, vars
<1>1. TypeOK'
  BY DEF WInv, TypeOK
<1>2. UsedWithinQuota'
  BY DEF WInv, UsedWithinQuota
<1>. QED BY <1>1, <1>2 DEF WInv, HalfWay

\* What the owner saves is well typed: the counters as read, or zeroed.
LEMMA EnteredType ==
  ASSUME NEW s \in Settings, NEW row \in Rows PROVE Entered(s, row) \in Counters
<1>. DEFINE w == IF WindowsChange(s, row.settings)
                 THEN [row.counters EXCEPT !.windowUsed = 0, !.windowStart = 0]
                 ELSE row.counters
<1>1. row.counters \in Counters /\ 0 \in Nat
  BY RowFields
<1>2. [row.counters EXCEPT !.windowUsed = 0, !.windowStart = 0] \in Counters
  BY <1>1, ResetCounters
<1>3. w \in Counters
  BY <1>1, <1>2
<1>. HIDE DEF w
<1>4. [w EXCEPT !.cycleUsed = 0, !.cycleStart = 0] \in Counters
  BY <1>1, <1>3, ResetCounters
<1>5. Entered(s, row) = IF CyclesChange(s, row.settings)
                        THEN [w EXCEPT !.cycleUsed = 0, !.cycleStart = 0] ELSE w
  BY DEF Entered, w
<1>. QED BY <1>3, <1>4, <1>5

LEMMA EditWInv == WInv /\ (EditRead \/ EditWrite) => WInv'
<1>. SUFFICES ASSUME WInv, EditRead \/ EditWrite PROVE WInv'
  OBVIOUS
<1>. USE DEF copies, resets, history, writes
<1>1. CASE EditRead
  <2>1. [counters |-> token, settings |-> settings] \in Rows
    BY DEF WInv, TypeOK, Rows
  <2>2. TypeOK'
    BY <1>1, <2>1 DEF WInv, TypeOK, EditRead
  <2>3. UsedWithinQuota'
    BY <1>1 DEF WInv, UsedWithinQuota, EditRead
  <2>. QED BY <1>1, <2>2, <2>3 DEF WInv, EditRead, HalfWay
<1>2. CASE EditWrite
  <2>1. PICK row \in edit, s \in Settings :
          /\ settings' = s /\ token' = Entered(s, row)
          /\ saved' = [window |-> token'.windowUsed, cycle |-> token'.cycleUsed]
          /\ rewrote' = (rewrote \/ token' # token)
    BY <1>2 DEF EditWrite
  <2>2. row \in Rows
    BY DEF WInv, TypeOK
  <2>3. token' \in Counters
    BY <2>1, <2>2, EnteredType
  <2>4. token'.windowUsed \in Int /\ token'.cycleUsed \in Int
    BY <2>3, CounterFields
  <2>5. /\ saved' \in [window : Int, cycle : Int]
        /\ saved'.window = token'.windowUsed /\ saved'.cycle = token'.cycleUsed
    BY <2>1, <2>4
  <2>6. TypeOK'
    <3>1. settings' \in Settings /\ rewrote' \in BOOLEAN
      BY <2>1 DEF WInv, TypeOK
    <3>. QED BY <1>2, <2>3, <2>5, <3>1 DEF WInv, TypeOK, EditWrite
  <2>7. UsedWithinQuota'
    BY <2>4, <2>5 DEF UsedWithinQuota
  <2>. QED BY <1>2, <2>6, <2>7 DEF WInv, EditWrite, HalfWay
<1>. QED BY <1>1, <1>2

\* Where a request has moved both counters alike.
Even == Loading \cup
        {"window", "resetWindow", "keepWindow", "cycle", "resetCycle", "keepCycle", "check",
         "take", "serving", "settle", "give"} \cup Ended

LEMMA EvenPlaces ==
  ASSUME NEW l \in Even PROVE l \in Locations /\ l # "undoGive"
BY DEF Even, Locations, Ended, Loading

LEMMA EvenIsHalfWay ==
  ASSUME NEW r \in Requests, pc[r] \in Even PROVE HalfWay(r) <=> ahead[r] = 0
BY DEF HalfWay, Even, Ended, Loading

\* A step of one request that moves no counter, between two such places.
LEMMA EvenStep ==
  ASSUME WInv, NEW r \in Requests, NEW l \in Even, pc[r] \in Even, Goto(r, l),
         token' \in Counters, UsedWithinQuota',
         snap' \in [Requests -> Rows], same' \in [Requests -> SUBSET Requests],
         flight' \subseteq [by : Requests, row : Rows],
         touched' \subseteq Requests, late' \in BOOLEAN,
         held' \in [Requests -> Nat],
         amount' \in [Requests -> Nat], \A x \in Requests \ {r} : amount'[x] = amount[x],
         UNCHANGED <<ahead, charged, faulted, writes, now, settings, edit>>
  PROVE  WInv'
<1>1. l \in Locations /\ l # "undoGive"
  BY EvenPlaces
<1>2. pc'[r] = l
  BY DEF Goto, WInv, TypeOK
<1>3. ASSUME WithCycle, ~faulted[r] PROVE HalfWay(r)'
  <2>1. ahead[r] = 0
    BY <1>3, EvenIsHalfWay DEF WInv
  <2>. QED BY <2>1, <1>2 DEF HalfWay, Even, Ended, Loading
<1>. QED BY <1>1, <1>3, StepOf DEF WInv, TypeOK

\* ... when nothing of the token, or of the copies of it, changes either.
LEMMA PlainStep ==
  ASSUME WInv, NEW r \in Requests, NEW l \in Even, pc[r] \in Even, Goto(r, l),
         held' \in [Requests -> Nat],
         amount' \in [Requests -> Nat], \A x \in Requests \ {r} : amount'[x] = amount[x],
         touched' \subseteq Requests, UNCHANGED late,
         UNCHANGED <<now, settings, token, copies, edit, history>>
  PROVE  WInv'
<1>1. UsedWithinQuota'
  BY DEF WInv, UsedWithinQuota, history, writes
<1>. QED BY <1>1, EvenStep DEF WInv, TypeOK, copies, history

\* A *Token is handed to those that wait for it, or the query has failed for them all.
LEMMA LandWInv == WInv /\ Land => WInv'
<1>. SUFFICES ASSUME WInv, Land PROVE WInv'
  OBVIOUS
<1>. USE DEF history, writes, resets
<1>1. PICK f \in flight, group \in SUBSET {r \in Requests : pc[r] \in Loading} :
        \/ /\ snap' = [r \in Requests |-> IF r \in group THEN f.row ELSE snap[r]]
           /\ same' = [r \in Requests |-> IF r \in group THEN group ELSE same[r] \ group]
           /\ pc' = [r \in Requests |-> IF r \in group THEN Loaded(pc[r]) ELSE pc[r]]
        \/ /\ UNCHANGED <<snap, same>>
           /\ pc' = [r \in Requests |-> IF r \in group THEN "rejected" ELSE pc[r]]
  BY DEF Land
<1>2. f.row \in Rows /\ group \in SUBSET Requests
  BY DEF WInv, TypeOK
<1>3. \A r \in Requests :
        pc'[r] = pc[r] \/ (pc[r] \in Even /\ pc'[r] \in Even)
  BY <1>1 DEF Loaded, Even, Loading, Ended
<1>4. TypeOK'
  <2>1. pc' \in [Requests -> Locations]
    <3>1. pc' = [r \in Requests |-> pc'[r]]
      BY <1>1
    <3>2. \A r \in Requests : pc'[r] \in Locations
      BY <1>3, EvenPlaces DEF WInv, TypeOK
    <3>. QED BY <3>1, <3>2
  <2>2. snap' \in [Requests -> Rows]
    BY <1>1, <1>2 DEF WInv, TypeOK
  <2>3. same' \in [Requests -> SUBSET Requests]
    BY <1>1, <1>2 DEF WInv, TypeOK
  <2>4. flight' \subseteq [by : Requests, row : Rows]
    BY DEF Land
  <2>. QED BY <2>1, <2>2, <2>3, <2>4 DEF WInv, TypeOK, Land
<1>5. UsedWithinQuota'
  BY DEF WInv, UsedWithinQuota, Land
<1>6. \A r \in Requests : pc'[r] = "undoGive" => faulted'[r]
  BY <1>3, EvenPlaces DEF WInv, Land
<1>7. ASSUME NEW r \in Requests, HalfWay(r) PROVE HalfWay(r)'
  <2>1. ahead' = ahead /\ amount' = amount
    BY DEF Land
  <2>2. CASE pc'[r] = pc[r]
    BY <1>7, <2>1, <2>2 DEF HalfWay
  <2>3. CASE pc[r] \in Even /\ pc'[r] \in Even
    <3>1. ahead[r] = 0
      BY <1>7, <2>3, EvenIsHalfWay
    <3>. QED BY <2>1, <2>3, <3>1 DEF HalfWay, Even, Ended, Loading
  <2>. QED BY <1>3, <2>2, <2>3
<1>8. faulted' = faulted
  BY DEF Land
<1>. QED BY <1>4, <1>5, <1>6, <1>7, <1>8 DEF WInv

LEMMA AuthenticateWInv ==
  ASSUME WInv, NEW r \in Requests, Authenticate(r) PROVE WInv'
<1>1. /\ token \in Counters /\ settings \in Settings /\ amount[r] \in Nat
      /\ now \in Nat /\ now >= StartTime
      /\ snap \in [Requests -> Rows] /\ same \in [Requests -> SUBSET Requests]
      /\ flight \subseteq [by : Requests, row : Rows]
      /\ held \in [Requests -> Nat] /\ amount \in [Requests -> Nat]
      /\ touched \subseteq Requests /\ late \in BOOLEAN /\ UsedWithinQuota
  BY QuotaAssumption DEF WInv, TypeOK
<1>. USE DEF history, resets
<1>2. CASE Query(r)
  <2>1. pc[r] \in Even /\ pc' = pc
    BY <1>2 DEF Query, Even
  <2>2. pc[r] \in Even /\ Goto(r, pc[r])
    BY <2>1 DEF Goto, WInv, TypeOK
  <2>3. [counters |-> token, settings |-> settings] \in Rows
    BY <1>1 DEF Rows
  <2>4. flight' \subseteq [by : Requests, row : Rows]
    BY <1>2, <2>3 DEF Query
  <2>5. UsedWithinQuota'
    BY <1>1, <1>2 DEF Query, UsedWithinQuota, writes
  <2>6. /\ UNCHANGED <<token, snap, same, touched, late, held, amount>>
        /\ UNCHANGED <<ahead, charged, faulted, writes, now, settings, edit>>
    BY <1>2 DEF Query
  <2>. QED BY <1>1, <2>2, <2>4, <2>5, <2>6, EvenStep
<1>3. CASE DecideWindow(r)
  <2>1. CurrentWindow(snap[r].settings, now) \in Nat
    BY <1>1, RowFields, CurrentWindowBounds
  <2>2. amount' \in [Requests -> Nat] /\ \A x \in Requests \ {r} : amount'[x] = amount[x]
    BY <1>1, <1>3, <2>1 DEF DecideWindow
  <2>3. PICK l \in {"resetWindow", "cycle"} : Goto(r, l)
    BY <1>3 DEF DecideWindow
  <2>4. pc[r] \in Even /\ l \in Even
    BY <1>3 DEF DecideWindow, Even
  <2>. QED BY <1>1, <1>3, <2>2, <2>3, <2>4, PlainStep DEF DecideWindow
<1>4. CASE ResetWindow(r)
  <2>1. pc[r] \in Even /\ touched' \subseteq Requests
    BY <1>1, <1>4 DEF ResetWindow, NoteReset, Even
  <2>2. CASE /\ token' = [token EXCEPT !.windowUsed = 0, !.windowStart = amount[r]]
             /\ Goto(r, "keepWindow") /\ NoteReset(r)
    <3>1. /\ token' \in Counters /\ token'.windowUsed = 0 /\ token'.cycleUsed = token.cycleUsed
      <4>. DEFINE c == [token EXCEPT !.windowUsed = 0, !.windowStart = amount[r]]
      <4>1. c \in Counters /\ c.windowUsed = 0 /\ c.cycleUsed = token.cycleUsed
        <5>1. token \in Counters /\ amount[r] \in Nat
          BY <1>1
        <5>. QED BY <5>1, ResetCounters
      <4>2. token' = c
        BY <2>2
      <4>. HIDE DEF c
      <4>. QED BY <4>1, <4>2
    <3>2. UNCHANGED <<ahead, charged, faulted, writes, now, settings, edit, copies, held, amount>>
      BY <1>4 DEF ResetWindow
    <3>3. UsedWithinQuota'
      BY <1>1, <3>1, <3>2, SettingsFields DEF UsedWithinQuota, writes
    <3>4. late' \in BOOLEAN
      BY <2>2, Zenon DEF NoteReset
    <3>5. "keepWindow" \in Even
      BY DEF Even
    <3>6. \A x \in Requests \ {r} : amount'[x] = amount[x]
      BY <3>2
    <3>. QED BY <1>1, <2>1, <2>2, <3>1, <3>2, <3>3, <3>4, <3>5, <3>6, EvenStep DEF copies
  <2>3. CASE Goto(r, "reloadWindow") /\ UNCHANGED <<token, late>>
    <3>1. UNCHANGED <<now, settings, token, copies, edit, history, held, amount>>
      BY <1>4, <2>3 DEF ResetWindow
    <3>2. "reloadWindow" \in Even
      BY DEF Even, Loading
    <3>. QED BY <1>1, <2>1, <2>3, <3>1, <3>2, PlainStep
  <2>. QED BY <1>4, <2>2, <2>3 DEF ResetWindow
<1>5. CASE KeepWindow(r)
  <2>. DEFINE kept(row) == [row EXCEPT !.counters =
                 [@ EXCEPT !.windowUsed = 0, !.windowStart = amount[r]]]
  <2>1. \A row \in Rows : kept(row) \in Rows
    BY <1>1, RowFields, ResetCounters, ResetRow, Zenon
  <2>2. snap' = [q \in Requests |-> IF q \in same[r] THEN kept(snap[q]) ELSE snap[q]]
    BY <1>5 DEF KeepWindow
  <2>3. snap' \in [Requests -> Rows]
    <3>. HIDE DEF kept
    <3>. QED BY <1>1, <2>1, <2>2
  <2>4. pc[r] \in Even /\ "cycle" \in Even /\ Goto(r, "cycle") /\ touched' \subseteq Requests
    BY <1>1, <1>5 DEF KeepWindow, Touch, Even
  <2>5. /\ UNCHANGED <<token, same, flight, late, held, amount>>
        /\ UNCHANGED <<ahead, charged, faulted, writes, now, settings, edit>>
    BY <1>5 DEF KeepWindow
  <2>6. UsedWithinQuota'
    BY <1>1, <2>5 DEF UsedWithinQuota, writes
  <2>. QED BY <1>1, <2>3, <2>4, <2>5, <2>6, EvenStep
<1>6. CASE DecideCycle(r)
  <2>1. CurrentCycle(snap[r], now) \in Nat
    BY <1>1, CurrentCycleBounds
  <2>2. amount' \in [Requests -> Nat] /\ \A x \in Requests \ {r} : amount'[x] = amount[x]
    BY <1>1, <1>6, <2>1 DEF DecideCycle
  <2>3. PICK l \in {"resetCycle", "check"} : Goto(r, l)
    BY <1>6 DEF DecideCycle
  <2>4. pc[r] \in Even /\ l \in Even
    BY <1>6 DEF DecideCycle, Even
  <2>. QED BY <1>1, <1>6, <2>2, <2>3, <2>4, PlainStep DEF DecideCycle
<1>7. CASE ResetCycle(r)
  <2>1. pc[r] \in Even /\ touched' \subseteq Requests
    BY <1>1, <1>7 DEF ResetCycle, NoteReset, Even
  <2>2. CASE /\ token' = [token EXCEPT !.cycleUsed = 0, !.cycleStart = amount[r]]
             /\ Goto(r, "keepCycle") /\ NoteReset(r)
    <3>1. /\ token' \in Counters /\ token'.cycleUsed = 0 /\ token'.windowUsed = token.windowUsed
      <4>. DEFINE c == [token EXCEPT !.cycleUsed = 0, !.cycleStart = amount[r]]
      <4>1. c \in Counters /\ c.cycleUsed = 0 /\ c.windowUsed = token.windowUsed
        <5>1. token \in Counters /\ amount[r] \in Nat
          BY <1>1
        <5>. QED BY <5>1, ResetCounters
      <4>2. token' = c
        BY <2>2
      <4>. HIDE DEF c
      <4>. QED BY <4>1, <4>2
    <3>2. UNCHANGED <<ahead, charged, faulted, writes, now, settings, edit, copies, held, amount>>
      BY <1>7 DEF ResetCycle
    <3>3. UsedWithinQuota'
      BY <1>1, <3>1, <3>2, SettingsFields DEF UsedWithinQuota, writes
    <3>4. late' \in BOOLEAN
      BY <2>2, Zenon DEF NoteReset
    <3>5. "keepCycle" \in Even
      BY DEF Even
    <3>6. \A x \in Requests \ {r} : amount'[x] = amount[x]
      BY <3>2
    <3>. QED BY <1>1, <2>1, <2>2, <3>1, <3>2, <3>3, <3>4, <3>5, <3>6, EvenStep DEF copies
  <2>3. CASE Goto(r, "reloadCycle") /\ UNCHANGED <<token, late>>
    <3>1. UNCHANGED <<now, settings, token, copies, edit, history, held, amount>>
      BY <1>7, <2>3 DEF ResetCycle
    <3>2. "reloadCycle" \in Even
      BY DEF Even, Loading
    <3>. QED BY <1>1, <2>1, <2>3, <3>1, <3>2, PlainStep
  <2>. QED BY <1>7, <2>2, <2>3 DEF ResetCycle
<1>8. CASE KeepCycle(r)
  <2>. DEFINE kept(row) == [row EXCEPT !.counters =
                 [@ EXCEPT !.cycleUsed = 0, !.cycleStart = amount[r]]]
  <2>1. \A row \in Rows : kept(row) \in Rows
    BY <1>1, RowFields, ResetCounters, ResetRow, Zenon
  <2>2. snap' = [q \in Requests |-> IF q \in same[r] THEN kept(snap[q]) ELSE snap[q]]
    BY <1>8 DEF KeepCycle
  <2>3. snap' \in [Requests -> Rows]
    <3>. HIDE DEF kept
    <3>. QED BY <1>1, <2>1, <2>2
  <2>4. pc[r] \in Even /\ "check" \in Even /\ Goto(r, "check") /\ touched' \subseteq Requests
    BY <1>1, <1>8 DEF KeepCycle, Touch, Even
  <2>5. /\ UNCHANGED <<token, same, flight, late, held, amount>>
        /\ UNCHANGED <<ahead, charged, faulted, writes, now, settings, edit>>
    BY <1>8 DEF KeepCycle
  <2>6. UsedWithinQuota'
    BY <1>1, <2>5 DEF UsedWithinQuota, writes
  <2>. QED BY <1>1, <2>3, <2>4, <2>5, <2>6, EvenStep
<1>9. CASE Admit(r)
  <2>1. amount' \in [Requests -> Nat] /\ \A x \in Requests \ {r} : amount'[x] = amount[x]
    BY <1>1, <1>9, QuotaAssumption DEF Admit
  <2>2. PICK l \in {"rejected", "serving", "take"} : Goto(r, l)
    BY <1>9 DEF Admit
  <2>3. pc[r] \in Even /\ l \in Even
    BY <1>9 DEF Admit, Even, Ended
  <2>4. NewRow \in Rows
    BY QuotaAssumption DEF NewRow, Rows, NewToken, Counters
  <2>5. snap' \in [Requests -> Rows]
    BY <1>1, <1>9, <2>4 DEF Admit
  <2>6. same' \in [Requests -> SUBSET Requests]
    BY <1>1, <1>9 DEF Admit
  <2>7. /\ UNCHANGED <<token, flight, touched, late, held>>
        /\ UNCHANGED <<ahead, charged, faulted, writes, now, settings, edit>>
    BY <1>9 DEF Admit
  <2>8. UsedWithinQuota'
    BY <1>1, <2>7 DEF UsedWithinQuota, writes
  <2>. QED BY <1>1, <2>1, <2>2, <2>3, <2>5, <2>6, <2>7, <2>8, EvenStep
<1>. QED BY <1>2, <1>3, <1>4, <1>5, <1>6, <1>7, <1>8, <1>9 DEF Authenticate

LEMMA ConcludeWInv ==
  ASSUME WInv, NEW r \in Requests, Conclude(r) PROVE WInv'
<1>1. held \in [Requests -> Nat] /\ amount \in [Requests -> Nat] /\ touched \subseteq Requests
  BY DEF WInv, TypeOK
<1>2. amount' \in [Requests -> Nat] /\ \A x \in Requests \ {r} : amount'[x] = amount[x]
  <2>1. PICK p \in Nat :
          \/ p > held[r] /\ amount' = [amount EXCEPT ![r] = p - held[r]]
          \/ p < held[r] /\ amount' = [amount EXCEPT ![r] = held[r] - p]
          \/ amount' = amount
    BY QuotaAssumption DEF Conclude
  <2>. QED BY <1>1, <2>1
<1>3. PICK l \in {"settle", "give", "done"} : Goto(r, l)
  BY DEF Conclude
<1>4. pc[r] \in Even /\ l \in Even
  BY DEF Conclude, Even, Ended
<1>5. held' \in [Requests -> Nat]
  BY <1>1 DEF Conclude
<1>. QED BY <1>1, <1>2, <1>3, <1>4, <1>5, PlainStep DEF Conclude, resets

\* Of a request that is between its two statements, how far it is ahead.
LEMMA HalfWayAt ==
  ASSUME WInv, WithCycle, NEW r \in Requests, ~faulted[r]
  PROVE  /\ pc[r] \in Even => ahead[r] = 0
         /\ pc[r] \in {"takeCycle", "settleCycle", "undoTake", "undoSettle"} => ahead[r] = amount[r]
         /\ pc[r] = "giveCycle" => ahead[r] = -amount[r]
<1>1. HalfWay(r)
  BY DEF WInv
<1>. QED BY <1>1 DEF HalfWay, Even, Ended, Loading

\* ... and what must be true of it in the next state.
LEMMA HalfWayNext ==
  ASSUME NEW r \in Requests,
         \/ pc'[r] \in Even /\ ahead'[r] = 0
         \/ /\ pc'[r] \in {"takeCycle", "settleCycle", "undoTake", "undoSettle"}
            /\ ahead'[r] = amount'[r]
         \/ pc'[r] = "giveCycle" /\ ahead'[r] = -amount'[r]
         \/ pc'[r] = "undoGive"
  PROVE  HalfWay(r)'
BY DEF HalfWay, Even, Ended, Loading

\* What a step of a request does between its statements: the counters move, and the
\* request with them.
LEMMA ChargeStep ==
  ASSUME WInv, NEW r \in Requests, NEW l \in Locations, Goto(r, l),
         token' \in Counters, UsedWithinQuota',
         held' \in [Requests -> Nat],
         amount' \in [Requests -> Nat], \A x \in Requests \ {r} : amount'[x] = amount[x],
         ahead' \in [Requests -> Int], \A x \in Requests \ {r} : ahead'[x] = ahead[x],
         charged' \in [Times -> Int],
         faulted' \in [Requests -> BOOLEAN],
         \A x \in Requests \ {r} : faulted'[x] = faulted[x],
         l = "undoGive" => faulted'[r],
         WithCycle /\ ~faulted'[r] => HalfWay(r)',
         UNCHANGED <<now, settings, copies, edit, resets, writes>>
  PROVE  WInv'
<1>1. /\ snap' \in [Requests -> Rows] /\ same' \in [Requests -> SUBSET Requests]
      /\ flight' \subseteq [by : Requests, row : Rows]
      /\ touched' \subseteq Requests /\ late' \in BOOLEAN
  BY DEF WInv, TypeOK, copies, resets
<1>. QED BY <1>1, StepOf

\* The statement of a request has failed: nothing moves, and that is remembered.
LEMMA FailsStep ==
  ASSUME WInv, NEW r \in Requests, NEW l \in Locations, Goto(r, l), Fails(r),
         held' \in [Requests -> Nat],
         amount' \in [Requests -> Nat], \A x \in Requests \ {r} : amount'[x] = amount[x],
         UNCHANGED <<now, settings, copies, edit, resets>>
  PROVE  WInv'
<1>1. faulted'[r] /\ faulted' \in [Requests -> BOOLEAN]
      /\ \A x \in Requests \ {r} : faulted'[x] = faulted[x]
  BY DEF WInv, TypeOK, Fails, Fault
<1>2. UNCHANGED <<token, ahead, charged, writes>>
  BY DEF Fails
<1>3. UsedWithinQuota'
  BY <1>2 DEF WInv, UsedWithinQuota, writes
<1>. QED BY <1>1, <1>2, <1>3, ChargeStep DEF WInv, TypeOK

\* The window moves by q, which is a credit or within the quota.
LEMMA MoveWindowWithin ==
  ASSUME WInv, NEW r \in Requests, NEW q \in Int, MoveWindow(r, q), settings' = settings,
         q <= 0 \/ WindowAllows(q)
  PROVE  UsedWithinQuota'
<1>1. /\ token'.windowUsed = token.windowUsed + q /\ token'.cycleUsed = token.cycleUsed
      /\ writes' = writes
  BY MoveWindowStep
<1>2. /\ token.windowUsed \in Int /\ settings.windowQuota \in Int
      /\ saved \in [window : Int, cycle : Int] /\ UsedWithinQuota
  BY CounterFields, SettingsFields DEF WInv, TypeOK
<1>. QED BY <1>1, <1>2 DEF UsedWithinQuota, WindowAllows, writes

LEMMA MoveCycleWithin ==
  ASSUME WInv, NEW r \in Requests, NEW q \in Int, MoveCycle(r, q), settings' = settings,
         q <= 0 \/ CycleAllows(q)
  PROVE  UsedWithinQuota'
<1>1. /\ token'.cycleUsed = token.cycleUsed + q /\ token'.windowUsed = token.windowUsed
      /\ writes' = writes
  BY MoveCycleStep
<1>2. /\ token.cycleUsed \in Int /\ settings.cycleQuota \in Int
      /\ saved \in [window : Int, cycle : Int] /\ UsedWithinQuota
  BY CounterFields, SettingsFields DEF WInv, TypeOK
<1>. QED BY <1>1, <1>2 DEF UsedWithinQuota, CycleAllows, writes

LEMMA ChargeTypes ==
  ASSUME WInv, NEW r \in Requests
  PROVE  /\ amount[r] \in Nat /\ amount \in [Requests -> Nat] /\ held \in [Requests -> Nat]
         /\ ahead \in [Requests -> Int] /\ ahead[r] \in Int
         /\ charged \in [Times -> Int] /\ faulted \in [Requests -> BOOLEAN]
         /\ token \in Counters /\ pc \in [Requests -> Locations]
BY DEF WInv, TypeOK

\* Where the calls return to: the amount is gone, and held is what it may be.
LEMMA ReturnTypes ==
  ASSUME WInv, NEW r \in Requests, Succeed(r) \/ Fail(r)
  PROVE  /\ \E l \in {"serving", "rejected", "done"} : Goto(r, l) /\ pc'[r] = l
         /\ amount' \in [Requests -> Nat] /\ \A x \in Requests \ {r} : amount'[x] = amount[x]
         /\ held' \in [Requests -> Nat]
<1>1. PICK l \in {"serving", "rejected", "done"} : Leave(r, l)
  BY DEF Succeed, Fail
<1>2. held' \in [Requests -> Nat]
  BY ChargeTypes DEF Succeed, Fail
<1>3. Goto(r, l) /\ amount' = [amount EXCEPT ![r] = 0]
  BY <1>1 DEF Leave
<1>4. pc'[r] = l
  BY <1>3, ChargeTypes DEF Goto
<1>5. amount' \in [Requests -> Nat] /\ \A x \in Requests \ {r} : amount'[x] = amount[x]
  BY <1>3, ChargeTypes
<1>. QED BY <1>2, <1>3, <1>4, <1>5

LEMMA ChargeWInv ==
  ASSUME WInv, NEW r \in Requests, Charge(r) PROVE WInv'
<1>. DEFINE q == amount[r]
<1>1. q \in Nat /\ q \in Int /\ -q \in Int /\ -q <= 0
  BY ChargeTypes
<1>2. {"serving", "rejected", "done"} \subseteq Even
  BY DEF Even, Ended
<1>3. CASE TakeWindow(r)
  <2>1. UNCHANGED <<now, settings, copies, edit, resets>> /\ pc[r] \in Even
    BY <1>3 DEF TakeWindow, Even
  <2>2. CASE WindowAllows(q) /\ MoveWindow(r, q) /\ WithCycle
             /\ Goto(r, IF pc[r] = "take" THEN "takeCycle" ELSE "settleCycle")
             /\ UNCHANGED <<amount, held>>
    <3>1. PICK l \in {"takeCycle", "settleCycle"} : Goto(r, l)
      BY <2>2
    <3>2. l \in Locations /\ l # "undoGive" /\ pc'[r] = l
      BY <3>1, ChargeTypes DEF Locations, Goto
    <3>3. UsedWithinQuota'
      BY <1>1, <2>1, <2>2, MoveWindowWithin
    <3>4. faulted' = faulted /\ ahead'[r] = ahead[r] + q
      BY <1>1, <2>2, MoveWindowStep
    <3>5. WithCycle /\ ~faulted'[r] => HalfWay(r)'
      <4>. SUFFICES ASSUME WithCycle, ~faulted'[r] PROVE HalfWay(r)'
        OBVIOUS
      <4>1. ahead[r] = 0
        BY <2>1, <3>4, HalfWayAt
      <4>2. ahead'[r] = amount'[r]
        BY <1>1, <2>2, <3>4, <4>1
      <4>. QED BY <3>2, <4>2, HalfWayNext
    <3>6. /\ token' \in Counters /\ ahead' \in [Requests -> Int] /\ charged' \in [Times -> Int]
          /\ \A x \in Requests \ {r} : ahead'[x] = ahead[x]
          /\ writes' = writes
      BY <1>1, <2>2, MoveWindowStep
    <3>7. /\ amount' \in [Requests -> Nat] /\ held' \in [Requests -> Nat]
          /\ \A x \in Requests \ {r} : amount'[x] = amount[x]
          /\ faulted' \in [Requests -> BOOLEAN]
          /\ \A x \in Requests \ {r} : faulted'[x] = faulted[x]
      BY <2>2, <3>4, ChargeTypes
    <3>. QED BY <2>1, <3>1, <3>2, <3>3, <3>5, <3>6, <3>7, ChargeStep
  <2>3. CASE WindowAllows(q) /\ MoveWindow(r, q) /\ ~WithCycle /\ Succeed(r)
    <3>1. PICK l \in {"serving", "rejected", "done"} : Goto(r, l) /\ pc'[r] = l
      BY <2>3, ReturnTypes
    <3>2. l \in Locations /\ l # "undoGive"
      BY <1>2, EvenPlaces
    <3>3. UsedWithinQuota'
      BY <1>1, <2>1, <2>3, MoveWindowWithin
    <3>4. /\ token' \in Counters /\ ahead' \in [Requests -> Int] /\ charged' \in [Times -> Int]
          /\ \A x \in Requests \ {r} : ahead'[x] = ahead[x]
          /\ writes' = writes /\ faulted' = faulted
      BY <1>1, <2>3, MoveWindowStep
    <3>5. /\ amount' \in [Requests -> Nat] /\ \A x \in Requests \ {r} : amount'[x] = amount[x]
          /\ held' \in [Requests -> Nat]
      BY <2>3, ReturnTypes
    <3>6. faulted' \in [Requests -> BOOLEAN] /\ \A x \in Requests \ {r} : faulted'[x] = faulted[x]
      BY <3>4, ChargeTypes
    <3>. QED BY <2>1, <2>3, <3>1, <3>2, <3>3, <3>4, <3>5, <3>6, ChargeStep
  <2>4. CASE Fail(r) /\ UNCHANGED <<token, history>>
    <3>1. PICK l \in {"serving", "rejected", "done"} : Goto(r, l)
      BY <2>4, ReturnTypes
    <3>2. /\ amount' \in [Requests -> Nat] /\ \A x \in Requests \ {r} : amount'[x] = amount[x]
          /\ held' \in [Requests -> Nat]
      BY <2>4, ReturnTypes
    <3>3. touched' \subseteq Requests /\ UNCHANGED late
      BY <2>1 DEF WInv, TypeOK, resets
    <3>. QED BY <1>2, <2>1, <2>4, <3>1, <3>2, <3>3, PlainStep
  <2>. QED BY <1>3, <2>2, <2>3, <2>4 DEF TakeWindow
<1>4. CASE TakeCycle(r)
  <2>1. /\ UNCHANGED <<now, settings, copies, edit, resets>>
        /\ pc[r] \in {"takeCycle", "settleCycle"}
    BY <1>4 DEF TakeCycle
  <2>2. CASE CycleAllows(q) /\ MoveCycle(r, q) /\ Succeed(r)
    <3>1. PICK l \in {"serving", "rejected", "done"} : Goto(r, l) /\ pc'[r] = l
      BY <2>2, ReturnTypes
    <3>2. l \in Locations /\ l # "undoGive" /\ l \in Even
      BY <1>2, EvenPlaces
    <3>3. UsedWithinQuota'
      BY <1>1, <2>1, <2>2, MoveCycleWithin
    <3>4. /\ token' \in Counters /\ ahead' \in [Requests -> Int] /\ charged' = charged
          /\ \A x \in Requests \ {r} : ahead'[x] = ahead[x]
          /\ writes' = writes /\ faulted' = faulted /\ ahead'[r] = ahead[r] - q
      BY <1>1, <2>2, MoveCycleStep
    <3>5. WithCycle /\ ~faulted'[r] => HalfWay(r)'
      <4>. SUFFICES ASSUME WithCycle, ~faulted'[r] PROVE HalfWay(r)'
        OBVIOUS
      <4>1. ahead[r] = q
        BY <2>1, <3>4, HalfWayAt
      <4>2. ahead'[r] = 0
        BY <1>1, <3>4, <4>1
      <4>. QED BY <3>1, <3>2, <4>2, HalfWayNext
    <3>6. /\ amount' \in [Requests -> Nat] /\ \A x \in Requests \ {r} : amount'[x] = amount[x]
          /\ held' \in [Requests -> Nat]
      BY <2>2, ReturnTypes
    <3>7. /\ faulted' \in [Requests -> BOOLEAN] /\ \A x \in Requests \ {r} : faulted'[x] = faulted[x]
          /\ charged' \in [Times -> Int]
      BY <3>4, ChargeTypes
    <3>. QED BY <2>1, <3>1, <3>2, <3>3, <3>4, <3>5, <3>6, <3>7, ChargeStep
  <2>3. CASE /\ Goto(r, IF pc[r] = "takeCycle" THEN "undoTake" ELSE "undoSettle")
             /\ UNCHANGED <<token, amount, held, history>>
    <3>1. PICK l \in {"undoTake", "undoSettle"} : Goto(r, l)
      BY <2>3
    <3>2. l \in Locations /\ l # "undoGive" /\ pc'[r] = l
      BY <3>1, ChargeTypes DEF Locations, Goto
    <3>3. UNCHANGED <<ahead, charged, faulted, writes, token, amount, held>>
      BY <2>3 DEF history
    <3>4. WithCycle /\ ~faulted'[r] => HalfWay(r)'
      <4>. SUFFICES ASSUME WithCycle, ~faulted'[r] PROVE HalfWay(r)'
        OBVIOUS
      <4>1. ahead'[r] = amount'[r]
        BY <2>1, <3>3, HalfWayAt
      <4>. QED BY <3>1, <3>2, <4>1, HalfWayNext
    <3>5. UsedWithinQuota'
      BY <2>1, <3>3 DEF WInv, UsedWithinQuota, writes
    <3>6. \A x \in Requests \ {r} : ahead'[x] = ahead[x] /\ amount'[x] = amount[x] /\ faulted'[x] = faulted[x]
      BY <3>3
    <3>. QED BY <2>1, <3>1, <3>2, <3>3, <3>4, <3>5, <3>6, ChargeTypes, ChargeStep
  <2>. QED BY <1>4, <2>2, <2>3 DEF TakeCycle
<1>5. CASE UndoTakeWindow(r)
  <2>1. /\ UNCHANGED <<now, settings, copies, edit, resets>>
        /\ pc[r] \in {"undoTake", "undoSettle"} /\ Fail(r)
    BY <1>5 DEF UndoTakeWindow
  <2>2. PICK l \in {"serving", "rejected", "done"} : Goto(r, l) /\ pc'[r] = l
    BY <2>1, ReturnTypes
  <2>3. l \in Locations /\ l \in Even /\ l # "undoGive"
    BY <1>2, EvenPlaces
  <2>4. /\ amount' \in [Requests -> Nat] /\ \A x \in Requests \ {r} : amount'[x] = amount[x]
        /\ held' \in [Requests -> Nat]
    BY <2>1, ReturnTypes
  <2>5. CASE MoveWindow(r, -q)
    <3>1. /\ token' \in Counters /\ ahead' \in [Requests -> Int] /\ charged' \in [Times -> Int]
          /\ \A x \in Requests \ {r} : ahead'[x] = ahead[x]
          /\ writes' = writes /\ faulted' = faulted /\ ahead'[r] = ahead[r] + (-q)
      BY <1>1, <2>5, MoveWindowStep
    <3>2. UsedWithinQuota'
      BY <1>1, <2>1, <2>5, MoveWindowWithin
    <3>3. WithCycle /\ ~faulted'[r] => HalfWay(r)'
      <4>. SUFFICES ASSUME WithCycle, ~faulted'[r] PROVE HalfWay(r)'
        OBVIOUS
      <4>1. ahead[r] = q
        BY <2>1, <3>1, HalfWayAt
      <4>2. ahead'[r] = 0
        BY <1>1, <3>1, <4>1
      <4>. QED BY <2>2, <2>3, <4>2, HalfWayNext
    <3>4. faulted' \in [Requests -> BOOLEAN] /\ \A x \in Requests \ {r} : faulted'[x] = faulted[x]
      BY <3>1, ChargeTypes
    <3>. QED BY <2>1, <2>2, <2>3, <2>4, <3>1, <3>2, <3>3, <3>4, ChargeStep
  <2>6. CASE Fails(r)
    BY <2>1, <2>2, <2>3, <2>4, <2>6, FailsStep
  <2>. QED BY <1>5, <2>5, <2>6 DEF UndoTakeWindow
<1>. QED BY <1>3, <1>4, <1>5 DEF Charge

LEMMA ReturnWInv ==
  ASSUME WInv, NEW r \in Requests, Return(r) PROVE WInv'
<1>. DEFINE q == amount[r]
<1>1. q \in Nat /\ q \in Int /\ -q \in Int /\ -q <= 0
  BY ChargeTypes
<1>2. UNCHANGED <<now, settings, copies, edit, resets, held>>
  BY DEF Return, GiveWindow, GiveCycle, UndoGiveWindow
<1>3. /\ amount' \in [Requests -> Nat] /\ \A x \in Requests \ {r} : amount'[x] = amount[x]
      /\ held' \in [Requests -> Nat]
  <2>1. amount' = amount \/ amount' = [amount EXCEPT ![r] = 0]
    BY DEF Return, GiveWindow, GiveCycle, UndoGiveWindow, Leave
  <2>. QED BY <1>2, <2>1, ChargeTypes
<1>4. "done" \in Even /\ "done" \in Locations /\ "giveCycle" \in Locations /\ "undoGive" \in Locations
  BY DEF Even, Locations, Ended
<1>5. CASE Fails(r) /\ (Leave(r, "done") \/ Goto(r, "undoGive"))
  BY <1>2, <1>3, <1>4, <1>5, FailsStep DEF Leave
<1>6. CASE pc[r] = "give" /\ MoveWindow(r, -q)
           /\ IF WithCycle THEN Goto(r, "giveCycle") /\ UNCHANGED amount ELSE Leave(r, "done")
  <2>1. /\ token' \in Counters /\ ahead' \in [Requests -> Int] /\ charged' \in [Times -> Int]
        /\ \A x \in Requests \ {r} : ahead'[x] = ahead[x]
        /\ writes' = writes /\ faulted' = faulted /\ ahead'[r] = ahead[r] + (-q)
    BY <1>1, <1>6, MoveWindowStep
  <2>2. UsedWithinQuota'
    BY <1>1, <1>2, <1>6, MoveWindowWithin
  <2>3. PICK l \in {"giveCycle", "done"} : Goto(r, l) /\ (WithCycle => l = "giveCycle" /\ UNCHANGED amount)
    BY <1>6 DEF Leave
  <2>4. WithCycle /\ ~faulted'[r] => HalfWay(r)'
    <3>. SUFFICES ASSUME WithCycle, ~faulted'[r] PROVE HalfWay(r)'
      OBVIOUS
    <3>1. pc[r] \in Even
      BY <1>6 DEF Even
    <3>2. ahead[r] = 0
      BY <2>1, <3>1, HalfWayAt
    <3>3. ahead'[r] = -amount'[r] /\ pc'[r] = "giveCycle"
      BY <1>1, <2>1, <2>3, <3>2, ChargeTypes DEF Goto
    <3>. QED BY <3>3, HalfWayNext
  <2>5. faulted' \in [Requests -> BOOLEAN] /\ \A x \in Requests \ {r} : faulted'[x] = faulted[x]
    BY <2>1, ChargeTypes
  <2>. QED BY <1>2, <1>3, <1>4, <2>1, <2>2, <2>3, <2>4, <2>5, ChargeStep
<1>7. CASE pc[r] = "giveCycle" /\ MoveCycle(r, -amount[r]) /\ Leave(r, "done")
  <2>1. /\ token' \in Counters /\ ahead' \in [Requests -> Int] /\ charged' = charged
        /\ \A x \in Requests \ {r} : ahead'[x] = ahead[x]
        /\ writes' = writes /\ faulted' = faulted /\ ahead'[r] = ahead[r] - (-q)
    BY <1>1, <1>7, MoveCycleStep
  <2>2. UsedWithinQuota'
    BY <1>1, <1>2, <1>7, MoveCycleWithin
  <2>3. Goto(r, "done") /\ pc'[r] = "done"
    BY <1>7, ChargeTypes DEF Leave, Goto
  <2>4. WithCycle /\ ~faulted'[r] => HalfWay(r)'
    <3>. SUFFICES ASSUME WithCycle, ~faulted'[r] PROVE HalfWay(r)'
      OBVIOUS
    <3>1. ahead[r] = -q
      BY <1>7, <2>1, HalfWayAt
    <3>2. ahead'[r] = 0
      BY <1>1, <2>1, <3>1
    <3>. QED BY <1>4, <2>3, <3>2, HalfWayNext
  <2>5. /\ faulted' \in [Requests -> BOOLEAN] /\ \A x \in Requests \ {r} : faulted'[x] = faulted[x]
        /\ charged' \in [Times -> Int]
    BY <2>1, ChargeTypes
  <2>. QED BY <1>2, <1>3, <1>4, <2>1, <2>2, <2>3, <2>4, <2>5, ChargeStep
<1>8. CASE UndoGiveWindow(r)
  <2>1. Goto(r, "done") /\ faulted[r]
    BY <1>8 DEF UndoGiveWindow, Leave, WInv
  <2>2. CASE WindowAllows(q) /\ MoveWindow(r, q)
    <3>1. /\ token' \in Counters /\ ahead' \in [Requests -> Int] /\ charged' \in [Times -> Int]
          /\ \A x \in Requests \ {r} : ahead'[x] = ahead[x]
          /\ writes' = writes /\ faulted' = faulted
      BY <1>1, <2>2, MoveWindowStep
    <3>2. UsedWithinQuota'
      BY <1>1, <1>2, <2>2, MoveWindowWithin
    <3>3. faulted' \in [Requests -> BOOLEAN] /\ \A x \in Requests \ {r} : faulted'[x] = faulted[x]
      BY <3>1, ChargeTypes
    <3>. QED BY <1>2, <1>3, <1>4, <2>1, <3>1, <3>2, <3>3, ChargeStep
  <2>3. CASE UNCHANGED <<token, history>>
    <3>1. UNCHANGED <<token, ahead, charged, faulted, writes>>
      BY <2>3 DEF history
    <3>2. UsedWithinQuota'
      BY <1>2, <3>1 DEF WInv, UsedWithinQuota, writes
    <3>3. \A x \in Requests \ {r} : ahead'[x] = ahead[x] /\ faulted'[x] = faulted[x]
      BY <3>1
    <3>. QED BY <1>2, <1>3, <1>4, <2>1, <3>1, <3>2, <3>3, ChargeTypes, ChargeStep
  <2>. QED BY <1>8, <2>2, <2>3 DEF UndoGiveWindow
<1>. QED BY <1>5, <1>6, <1>7, <1>8 DEF Return, GiveWindow, GiveCycle

-----------------------------------------------------------------------------
LEMMA NextWInv == WInv /\ [Next]_vars => WInv'
<1>. SUFFICES ASSUME WInv, [Next]_vars PROVE WInv'
  OBVIOUS
<1>1. CASE \E r \in Requests : Authenticate(r) \/ Charge(r) \/ Conclude(r) \/ Return(r)
  BY <1>1, AuthenticateWInv, ChargeWInv, ConcludeWInv, ReturnWInv
<1>2. CASE Tick \/ Land \/ EditRead \/ EditWrite
  BY <1>2, TickWInv, LandWInv, EditWInv
<1>3. CASE UNCHANGED vars
  BY <1>3, StutterWInv
<1>. QED BY <1>1, <1>2, <1>3 DEF Next

\* The inductive invariant: neither counter is beyond both its quota and what the last
\* save wrote, and a request between its two statements differs by exactly the amount
\* it is moving (service.go:245-327).
THEOREM WindowInductive == Spec => []WInv
<1>. QED BY InitWInv, NextWInv, PTL DEF Spec

\* Every state is well typed.
THEOREM WindowTypeCorrect == Spec => []TypeOK
<1>1. WInv => TypeOK
  BY DEF WInv
<1>. QED BY <1>1, WindowInductive, PTL

\* Neither counter of a token passes its quota but by a save of the settings, which
\* may lower the quota or bring back an old counter (controller token.go:556-582);
\* requests, resets and rollbacks never take it further, whichever statements fail
\* (the conditional UPDATEs of token.go:704 and 745).
THEOREM QuotasHold == Spec => []UsedWithinQuota
<1>1. WInv => UsedWithinQuota
  BY DEF WInv
<1>. QED BY <1>1, WindowInductive, PTL

\* A request that has ended without a failed statement has charged its window
\* and its cycle the same (the rollbacks of service.go:256-266 and 286-297).
THEOREM CountersAgree == Spec => []WindowFollowsCycle
<1>1. ASSUME WInv, NEW r \in Requests, WithCycle, pc[r] \in Ended, ~faulted[r]
      PROVE  ahead[r] = 0
  <2>1. pc[r] \in Even
    BY <1>1 DEF Even
  <2>. QED BY <1>1, <2>1, HalfWayAt
<1>2. WInv => WindowFollowsCycle
  BY <1>1 DEF WindowFollowsCycle
<1>. QED BY <1>2, WindowInductive, PTL

-----------------------------------------------------------------------------
\* A step after which no request is newly at a reset, and that changes what those that
\* are there go by only while it marks them as touched.
LEMMA ResetsForwardFrame ==
  ASSUME ResetsForward,
         \A x \in Requests :
           pc'[x] \in {"resetWindow", "resetCycle"} =>
             /\ pc'[x] = pc[x] /\ amount'[x] = amount[x] /\ (x \in touched => x \in touched')
             /\ \/ x \in touched'
                \/ pc'[x] = "resetWindow" /\ snap'[x].counters.windowStart = snap[x].counters.windowStart
                \/ pc'[x] = "resetCycle" /\ snap'[x].counters.cycleStart = snap[x].counters.cycleStart
  PROVE  ResetsForward'
BY DEF ResetsForward

\* A request that goes somewhere else than to a reset, with the copies as they are.
LEMMA ResetsForwardGo ==
  ASSUME WInv, ResetsForward, NEW r \in Requests, NEW l, Goto(r, l),
         l \notin {"resetWindow", "resetCycle"},
         \A x \in Requests \ {r} :
           /\ amount'[x] = amount[x] /\ snap'[x] = snap[x]
           /\ x \in touched => x \in touched'
  PROVE  ResetsForward'
<1>1. pc'[r] = l /\ \A x \in Requests \ {r} : pc'[x] = pc[x]
  BY DEF Goto, WInv, TypeOK
<1>. QED BY <1>1, ResetsForwardFrame

LEMMA LandResetsForward == WInv /\ ResetsForward /\ Land => ResetsForward'
<1>. SUFFICES ASSUME WInv, ResetsForward, Land PROVE ResetsForward'
  OBVIOUS
<1>1. PICK f \in flight, group \in SUBSET {r \in Requests : pc[r] \in Loading} :
        \/ /\ snap' = [r \in Requests |-> IF r \in group THEN f.row ELSE snap[r]]
           /\ pc' = [r \in Requests |-> IF r \in group THEN Loaded(pc[r]) ELSE pc[r]]
        \/ /\ UNCHANGED <<snap, same>>
           /\ pc' = [r \in Requests |-> IF r \in group THEN "rejected" ELSE pc[r]]
  BY DEF Land
<1>2. amount' = amount /\ touched' = touched
  BY DEF Land, resets
<1>3. \A x \in group : pc'[x] \notin {"resetWindow", "resetCycle"}
  BY <1>1 DEF Loaded, Loading
<1>4. \A x \in Requests \ group : pc'[x] = pc[x] /\ snap'[x] = snap[x]
  BY <1>1
<1>. QED BY <1>2, <1>3, <1>4, ResetsForwardFrame

LEMMA AuthenticateResetsForward ==
  ASSUME WInv, ResetsForward, NEW r \in Requests, Authenticate(r) PROVE ResetsForward'
<1>0. /\ snap \in [Requests -> Rows] /\ amount \in [Requests -> Nat] /\ pc \in [Requests -> Locations]
      /\ now \in Nat /\ now >= StartTime /\ now \in Times /\ amount[r] \in Nat
      /\ same \in [Requests -> SUBSET Requests]
  BY QuotaAssumption DEF WInv, TypeOK, Times
<1>. USE DEF resets
<1>1. CASE Query(r)
  <2>1. pc' = pc /\ amount' = amount /\ snap' = snap /\ touched' = touched
    BY <1>1 DEF Query
  <2>. QED BY <2>1, ResetsForwardFrame
<1>2. CASE DecideWindow(r)
  <2>1. CASE ShouldResetWindow(snap[r], now)
    <3>. DEFINE w == CurrentWindow(snap[r].settings, now)
    <3>1. /\ pc'[r] = "resetWindow" /\ amount'[r] = w /\ snap' = snap /\ touched' = touched
          /\ \A x \in Requests \ {r} : pc'[x] = pc[x] /\ amount'[x] = amount[x]
      BY <1>0, <1>2, <2>1 DEF DecideWindow, Goto, copies
    <3>2. w \in Nat /\ 0 < w /\ w <= now /\ snap[r].counters.windowStart \in Nat
      BY <1>0, CurrentWindowBounds, RowFields, CounterFields
    <3>3. w > snap[r].counters.windowStart
      BY <2>1, <3>2 DEF ShouldResetWindow
    <3>4. w \in Times
      BY <1>0, <3>2, QuotaAssumption DEF Times
    <3>. HIDE DEF w
    <3>. QED BY <3>1, <3>3, <3>4 DEF ResetsForward
  <2>2. CASE ~ShouldResetWindow(snap[r], now)
    <3>1. Goto(r, "cycle") /\ amount' = amount /\ snap' = snap /\ touched' = touched
      BY <1>2, <2>2 DEF DecideWindow, copies
    <3>. QED BY <3>1, ResetsForwardGo
  <2>. QED BY <2>1, <2>2
<1>3. CASE ResetWindow(r)
  <2>1. PICK l \in {"keepWindow", "reloadWindow"} : Goto(r, l)
    BY <1>3 DEF ResetWindow
  <2>2. amount' = amount /\ snap' = snap /\ touched' = touched \ {r}
    BY <1>3 DEF ResetWindow, NoteReset, copies
  <2>. QED BY <2>1, <2>2, ResetsForwardGo
<1>4. CASE KeepWindow(r)
  <2>1. /\ pc'[r] = "cycle" /\ amount' = amount
        /\ \A x \in Requests \ {r} : pc'[x] = pc[x]
    BY <1>0, <1>4 DEF KeepWindow, Goto
  <2>2. touched' = touched \cup {x \in same[r] \ {r} : pc[x] = "resetWindow"}
    BY <1>4 DEF KeepWindow, Touch
  <2>3. ASSUME NEW x \in Requests PROVE snap'[x].counters.cycleStart = snap[x].counters.cycleStart
    <3>. DEFINE c == [snap[x].counters EXCEPT !.windowUsed = 0, !.windowStart = amount[r]]
    <3>1. snap[x] \in Rows /\ snap[x].counters \in Counters
      BY <1>0, RowFields
    <3>2. snap'[x] = snap[x] \/ snap'[x] = [snap[x] EXCEPT !.counters = c]
      BY <1>4 DEF KeepWindow
    <3>3. c \in Counters /\ c.cycleStart = snap[x].counters.cycleStart
      BY <1>0, <3>1, ResetCounters
    <3>. HIDE DEF c
    <3>. QED BY <3>1, <3>2, <3>3, ResetRow
  <2>4. \A x \in Requests \ same[r] : snap'[x] = snap[x]
    BY <1>4 DEF KeepWindow
  <2>. QED BY <2>1, <2>2, <2>3, <2>4, ResetsForwardFrame
<1>5. CASE DecideCycle(r)
  <2>1. CASE WithCycle /\ ShouldResetCycle(snap[r], now)
    <3>. DEFINE w == CurrentCycle(snap[r], now)
    <3>1. /\ pc'[r] = "resetCycle" /\ amount'[r] = w /\ snap' = snap /\ touched' = touched
          /\ \A x \in Requests \ {r} : pc'[x] = pc[x] /\ amount'[x] = amount[x]
      BY <1>0, <1>5, <2>1 DEF DecideCycle, Goto, copies
    <3>2. w >= snap[r].counters.cycleStart
      BY <1>0, CurrentCycleBounds
    <3>. HIDE DEF w
    <3>. QED BY <3>1, <3>2 DEF ResetsForward
  <2>2. CASE ~(WithCycle /\ ShouldResetCycle(snap[r], now))
    <3>1. Goto(r, "check") /\ amount' = amount /\ snap' = snap /\ touched' = touched
      BY <1>5, <2>2 DEF DecideCycle, copies
    <3>. QED BY <3>1, ResetsForwardGo
  <2>. QED BY <2>1, <2>2
<1>6. CASE ResetCycle(r)
  <2>1. PICK l \in {"keepCycle", "reloadCycle"} : Goto(r, l)
    BY <1>6 DEF ResetCycle
  <2>2. amount' = amount /\ snap' = snap /\ touched' = touched \ {r}
    BY <1>6 DEF ResetCycle, NoteReset, copies
  <2>. QED BY <2>1, <2>2, ResetsForwardGo
<1>7. CASE KeepCycle(r)
  <2>1. /\ pc'[r] = "check" /\ amount' = amount
        /\ \A x \in Requests \ {r} : pc'[x] = pc[x]
    BY <1>0, <1>7 DEF KeepCycle, Goto
  <2>2. touched' = touched \cup {x \in same[r] \ {r} : pc[x] = "resetCycle"}
    BY <1>7 DEF KeepCycle, Touch
  <2>3. ASSUME NEW x \in Requests PROVE snap'[x].counters.windowStart = snap[x].counters.windowStart
    <3>. DEFINE c == [snap[x].counters EXCEPT !.cycleUsed = 0, !.cycleStart = amount[r]]
    <3>1. snap[x] \in Rows /\ snap[x].counters \in Counters
      BY <1>0, RowFields
    <3>2. snap'[x] = snap[x] \/ snap'[x] = [snap[x] EXCEPT !.counters = c]
      BY <1>7 DEF KeepCycle
    <3>3. c \in Counters /\ c.windowStart = snap[x].counters.windowStart
      BY <1>0, <3>1, ResetCounters
    <3>. HIDE DEF c
    <3>. QED BY <3>1, <3>2, <3>3, ResetRow
  <2>4. \A x \in Requests \ same[r] : snap'[x] = snap[x]
    BY <1>7 DEF KeepCycle
  <2>. QED BY <2>1, <2>2, <2>3, <2>4, ResetsForwardFrame
<1>8. CASE Admit(r)
  <2>1. PICK l \in {"rejected", "serving", "take"} : Goto(r, l)
    BY <1>8 DEF Admit
  <2>2. touched' = touched /\ \A x \in Requests \ {r} : amount'[x] = amount[x] /\ snap'[x] = snap[x]
    BY <1>0, <1>8 DEF Admit
  <2>. QED BY <2>1, <2>2, ResetsForwardGo
<1>. QED BY <1>1, <1>2, <1>3, <1>4, <1>5, <1>6, <1>7, <1>8 DEF Authenticate

LEMMA NextResetsForward == WInv /\ ResetsForward /\ [Next]_vars => ResetsForward'
<1>. SUFFICES ASSUME WInv, ResetsForward, [Next]_vars PROVE ResetsForward'
  OBVIOUS
<1>1. CASE Tick \/ EditRead \/ EditWrite \/ UNCHANGED vars
  <2>1. pc' = pc /\ amount' = amount /\ snap' = snap /\ touched' = touched
    BY <1>1 DEF Tick, EditRead, EditWrite, vars, copies, resets
  <2>. QED BY <2>1, ResetsForwardFrame
<1>2. ASSUME NEW r \in Requests, Charge(r) \/ Conclude(r) \/ Return(r) PROVE ResetsForward'
  <2>1. snap' = snap /\ touched' = touched /\ \A x \in Requests \ {r} : amount'[x] = amount[x]
    <3>1. \/ amount' = amount \/ \E a : amount' = [amount EXCEPT ![r] = a]
      BY <1>2 DEF Charge, TakeWindow, TakeCycle, UndoTakeWindow, Conclude, Succeed, Fail,
                  Return, GiveWindow, GiveCycle, UndoGiveWindow, Leave
    <3>2. UNCHANGED <<copies, resets>>
      BY <1>2 DEF Charge, TakeWindow, TakeCycle, UndoTakeWindow, Conclude,
                  Return, GiveWindow, GiveCycle, UndoGiveWindow
    <3>. QED BY <3>1, <3>2 DEF copies, resets, WInv, TypeOK
  <2>2. PICK l \in {"takeCycle", "settleCycle", "serving", "done", "rejected", "undoTake",
                    "undoSettle", "settle", "give", "giveCycle", "undoGive"} : Goto(r, l)
    BY <1>2 DEF Charge, TakeWindow, TakeCycle, UndoTakeWindow, Conclude, Succeed, Fail,
                Return, GiveWindow, GiveCycle, UndoGiveWindow, Leave
  <2>. QED BY <2>1, <2>2, ResetsForwardGo
<1>. QED BY <1>1, <1>2, LandResetsForward, AuthenticateResetsForward DEF Next

\* A step of the requests keeps the starts, or replaces one by what a request has
\* decided on from that very start.
LEMMA StartsAdvance ==
  ASSUME WInv, ResetsForward, [Next]_vars, pc' # pc, \A r \in touched : pc'[r] = pc[r]
  PROVE  token'.windowStart >= token.windowStart /\ token'.cycleStart >= token.cycleStart
<1>0. token \in Counters /\ amount \in [Requests -> Nat] /\ pc \in [Requests -> Locations]
  BY DEF WInv, TypeOK
<1>. DEFINE Keeps == token'.windowStart = token.windowStart /\ token'.cycleStart = token.cycleStart
<1>1. token.windowStart \in Nat /\ token.cycleStart \in Nat
  BY <1>0, CounterFields
<1>2. CASE Tick \/ Land \/ EditRead \/ EditWrite \/ UNCHANGED vars
  <2>1. token' = token
    BY <1>2 DEF Tick, Land, EditRead, EditWrite, vars
  <2>. QED BY <1>1, <2>1
<1>3. ASSUME NEW r \in Requests, Charge(r) \/ Conclude(r) \/ Return(r) PROVE Keeps
  <2>1. amount[r] \in Int /\ -amount[r] \in Int
    BY <1>0
  <2>2. \/ token' = token
        \/ \E q \in Int : MoveWindow(r, q)
        \/ \E q \in Int : MoveCycle(r, q)
    BY <1>3, <2>1 DEF Charge, TakeWindow, TakeCycle, UndoTakeWindow, Conclude, Fails,
                Return, GiveWindow, GiveCycle, UndoGiveWindow
  <2>. QED BY <2>2, MoveWindowStep, MoveCycleStep
<1>4. ASSUME NEW r \in Requests, Authenticate(r)
      PROVE  token'.windowStart >= token.windowStart /\ token'.cycleStart >= token.cycleStart
  <2>1. CASE token' = token
    BY <1>1, <2>1
  <2>2. CASE ResetWindow(r) /\ token' # token
    <3>1. /\ token.windowStart = snap[r].counters.windowStart /\ pc[r] = "resetWindow"
          /\ token' = [token EXCEPT !.windowUsed = 0, !.windowStart = amount[r]]
          /\ Goto(r, "keepWindow")
      BY <2>2 DEF ResetWindow
    <3>2. r \notin touched
      BY <1>0, <3>1 DEF Goto
    <3>3. amount[r] > token.windowStart /\ amount[r] \in Nat
      BY <1>0, <3>1, <3>2 DEF ResetsForward
    <3>4. token'.windowStart = amount[r] /\ token'.cycleStart = token.cycleStart
      BY <1>0, <3>1, <3>3, ResetCounters
    <3>. QED BY <1>1, <3>3, <3>4
  <2>3. CASE ResetCycle(r) /\ token' # token
    <3>1. /\ token.cycleStart = snap[r].counters.cycleStart /\ pc[r] = "resetCycle"
          /\ token' = [token EXCEPT !.cycleUsed = 0, !.cycleStart = amount[r]]
          /\ Goto(r, "keepCycle")
      BY <2>3 DEF ResetCycle
    <3>2. r \notin touched
      BY <1>0, <3>1 DEF Goto
    <3>3. amount[r] >= token.cycleStart /\ amount[r] \in Nat
      BY <1>0, <3>1, <3>2 DEF ResetsForward
    <3>4. token'.cycleStart = amount[r] /\ token'.windowStart = token.windowStart
      BY <1>0, <3>1, <3>3, ResetCounters
    <3>. QED BY <1>1, <3>3, <3>4
  <2>. QED BY <1>4, <2>1, <2>2, <2>3 DEF Authenticate, Query, DecideWindow, KeepWindow,
                DecideCycle, KeepCycle, Admit
<1>. QED BY <1>1, <1>2, <1>3, <1>4 DEF Next

\* A stored window or cycle only gives way to a later one, unless a save changes it or
\* the request that resets it goes by what another has written into their *Token
\* (the conditional resets of token.go:794 and 811 and the singleflight of token.go:424).
THEOREM WindowsOnlyAdvance == Spec => WindowsAdvance
<1>1. Init => ResetsForward
  BY DEF Init, ResetsForward
<1>2. WInv /\ ResetsForward /\ [Next]_vars =>
        [pc' # pc /\ (\A r \in touched : pc'[r] = pc[r]) =>
           /\ token'.windowStart >= token.windowStart
           /\ token'.cycleStart >= token.cycleStart]_token
  BY StartsAdvance
<1>. QED BY <1>1, <1>2, NextResetsForward, WindowInductive, PTL DEF Spec, WindowsAdvance

-----------------------------------------------------------------------------
\* The books of the stored window, for the three things that happen to it.

LEMMA BooksOfMove ==
  ASSUME WInv, LaterWindowsEmpty, Accounted, NEW r \in Requests, NEW q \in Int, MoveWindow(r, q)
  PROVE  LaterWindowsEmpty' /\ Accounted'
<1>. DEFINE w == token.windowStart
            v == charged[w] + q
<1>1. w \in Times /\ charged \in [Times -> Int] /\ w \in Nat /\ v \in Int
  BY CounterFields DEF WInv, TypeOK, LaterWindowsEmpty
<1>2. token'.windowUsed = token.windowUsed + q /\ token'.windowStart = w
  BY MoveWindowStep
<1>3. charged' = [charged EXCEPT ![w] = v]
  BY DEF MoveWindow
<1>4. Accounted'
  <2>1. charged'[w] = v
    BY <1>1, <1>3
  <2>2. token.windowUsed = charged[w]
    BY DEF Accounted
  <2>. QED BY <1>2, <2>1, <2>2 DEF Accounted
<1>5. LaterWindowsEmpty'
  <2>1. ASSUME NEW x \in Times, x > w PROVE charged'[x] = 0
    <3>1. x # w
      BY <1>1, <2>1
    <3>2. charged[x] = 0
      BY <2>1 DEF LaterWindowsEmpty
    <3>. HIDE DEF w, v
    <3>. QED BY <1>1, <1>3, <3>1, <3>2
  <2>. HIDE DEF v
  <2>. QED BY <1>1, <1>2, <2>1 DEF LaterWindowsEmpty
<1>. QED BY <1>4, <1>5

\* A reset starts a later window, to which nothing has been charged.
LEMMA BooksOfReset ==
  ASSUME LaterWindowsEmpty, NEW n \in Times, n > token.windowStart,
         token'.windowUsed = 0, token'.windowStart = n, charged' = charged
  PROVE  LaterWindowsEmpty' /\ Accounted'
<1>1. token.windowStart \in Nat /\ \A v \in Times : v \in Nat
  BY QuotaAssumption DEF LaterWindowsEmpty, Times
<1>2. \A v \in Times : v > n => v > token.windowStart
  BY <1>1
<1>. QED BY <1>2 DEF LaterWindowsEmpty, Accounted

\* Nothing happens to the stored window.
LEMMA BooksFrame ==
  ASSUME LaterWindowsEmpty, Accounted, token'.windowUsed = token.windowUsed,
         token'.windowStart = token.windowStart, charged' = charged
  PROVE  LaterWindowsEmpty' /\ Accounted'
BY DEF LaterWindowsEmpty, Accounted

\* Every step keeps the books of the stored window, as long as nothing has undone them.
LEMMA NextWindowBooks ==
  WInv /\ ResetsForward /\ WindowBooks /\ [Next]_vars => WindowBooks'
<1>. SUFFICES ASSUME WInv, ResetsForward, WindowBooks, [Next]_vars, ~rewrote', ~late'
              PROVE  LaterWindowsEmpty' /\ Accounted'
  BY DEF WindowBooks
<1>0. token \in Counters /\ amount \in [Requests -> Nat]
  BY DEF WInv, TypeOK
<1>1. CASE Tick \/ Land \/ EditRead \/ UNCHANGED vars
  <2>1. token' = token /\ charged' = charged /\ rewrote' = rewrote /\ late' = late
    BY <1>1 DEF Tick, Land, EditRead, vars, history, writes, resets
  <2>. QED BY <2>1, BooksFrame DEF WindowBooks
<1>2. CASE EditWrite
  <2>1. token' = token /\ charged' = charged /\ ~rewrote /\ late' = late
    BY <1>2 DEF EditWrite, resets
  <2>. QED BY <2>1, BooksFrame DEF WindowBooks
<1>3. ASSUME NEW r \in Requests, Authenticate(r) PROVE LaterWindowsEmpty' /\ Accounted'
  <2>1. charged' = charged /\ rewrote' = rewrote
    BY <1>3 DEF Authenticate, Query, DecideWindow, ResetWindow, KeepWindow, DecideCycle,
                ResetCycle, KeepCycle, Admit, history, writes
  <2>2. late => late'
    BY <1>3, Zenon DEF Authenticate, Query, DecideWindow, ResetWindow, KeepWindow, DecideCycle,
                ResetCycle, KeepCycle, Admit, NoteReset, resets
  <2>3. LaterWindowsEmpty /\ Accounted
    BY <2>1, <2>2 DEF WindowBooks
  <2>4. CASE token' = token
    BY <2>1, <2>3, <2>4, BooksFrame
  <2>5. CASE ResetWindow(r) /\ token' # token
    <3>1. /\ token.windowStart = snap[r].counters.windowStart /\ pc[r] = "resetWindow"
          /\ token' = [token EXCEPT !.windowUsed = 0, !.windowStart = amount[r]]
          /\ NoteReset(r)
      BY <2>5 DEF ResetWindow
    <3>2. r \notin touched
      BY <3>1, Zenon DEF NoteReset
    <3>3. amount[r] \in Times /\ amount[r] > token.windowStart /\ amount[r] \in Nat
      BY <1>0, <3>1, <3>2 DEF ResetsForward
    <3>4. token'.windowUsed = 0 /\ token'.windowStart = amount[r]
      BY <1>0, <3>1, <3>3, ResetCounters
    <3>. QED BY <2>1, <2>3, <3>3, <3>4, BooksOfReset
  <2>6. CASE ResetCycle(r) /\ token' # token
    <3>1. token' = [token EXCEPT !.cycleUsed = 0, !.cycleStart = amount[r]]
      BY <2>6 DEF ResetCycle
    <3>2. token'.windowUsed = token.windowUsed /\ token'.windowStart = token.windowStart
      BY <1>0, <3>1, ResetCounters
    <3>. QED BY <2>1, <2>3, <3>2, BooksFrame
  <2>. QED BY <1>3, <2>4, <2>5, <2>6 DEF Authenticate, Query, DecideWindow, KeepWindow,
                DecideCycle, KeepCycle, Admit
<1>4. ASSUME NEW r \in Requests, Charge(r) \/ Conclude(r) \/ Return(r)
      PROVE  LaterWindowsEmpty' /\ Accounted'
  <2>1. amount[r] \in Int /\ -amount[r] \in Int
    BY <1>0
  <2>2. \/ \E q \in Int : MoveWindow(r, q)
        \/ \E q \in Int : MoveCycle(r, q)
        \/ UNCHANGED <<token, charged, writes>>
    BY <1>4, <2>1 DEF Charge, TakeWindow, TakeCycle, UndoTakeWindow, Conclude, Fails,
                Return, GiveWindow, GiveCycle, UndoGiveWindow, history
  <2>3. late' = late /\ rewrote' = rewrote
    <3>1. UNCHANGED resets
      BY <1>4 DEF Charge, TakeWindow, TakeCycle, UndoTakeWindow, Conclude,
                  Return, GiveWindow, GiveCycle, UndoGiveWindow
    <3>. QED BY <2>2, <3>1 DEF MoveWindow, MoveCycle, resets, writes
  <2>4. LaterWindowsEmpty /\ Accounted
    BY <2>3 DEF WindowBooks
  <2>5. CASE \E q \in Int : MoveCycle(r, q)
    BY <2>4, <2>5, MoveCycleStep, BooksFrame
  <2>. QED BY <2>2, <2>4, <2>5, BooksOfMove, BooksFrame
<1>. QED BY <1>1, <1>2, <1>3, <1>4 DEF Next

LEMMA InitWindowBooks == Init => ResetsForward /\ WindowBooks
<1>. SUFFICES ASSUME Init PROVE ResetsForward /\ WindowBooks
  OBVIOUS
<1>1. ResetsForward
  BY DEF Init, ResetsForward
<1>2. token.windowStart = 0 /\ token.windowUsed = 0 /\ 0 \in Times
  BY QuotaAssumption DEF Init, NewToken, Times
<1>3. \A w \in Times : charged[w] = 0
  BY DEF Init
<1>. QED BY <1>1, <1>2, <1>3 DEF WindowBooks, LaterWindowsEmpty, Accounted

\* As long as no save of the settings has changed a counter, and no request has reset
\* with a start that another one has written into their common *Token, the counter of
\* the stored window is exactly what has been charged to it: a reset wipes no charge of
\* the window it starts, because it starts a later one (the condition of token.go:794).
THEOREM UsageIsAccounted == Spec => []UsedIsAccounted
<1>1. WindowBooks => UsedIsAccounted
  BY DEF WindowBooks, UsedIsAccounted
<1>. QED BY <1>1, InitWindowBooks, NextResetsForward, NextWindowBooks, WindowInductive, PTL DEF Spec
=============================================================================
