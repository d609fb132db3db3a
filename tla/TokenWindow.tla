---------------------------- MODULE TokenWindow ----------------------------
(***************************************************************************)
(* An API token with a quota per time window (quota_type 2), or per window *)
(* and per cycle (quota_type 3): internal/store/token and the calls that   *)
(* internal/domain/billing makes.                                          *)
(*                                                                         *)
(* Nothing resets a window when it ends. The next request that is          *)
(* authenticated sees that the window the token stores is over and resets  *)
(* it with an UPDATE that is conditional on the start it has read. Requests*)
(* that load the token at the same time get one *Token between them (the   *)
(* singleflight of GetTokenByKey), and what one writes there after its     *)
(* UPDATE is what the others send as the old start. The window and the     *)
(* cycle are charged by two UPDATEs, and the first is undone when the      *)
(* second fails. Credits are unconditional, and fall on whichever window   *)
(* is stored when they arrive. Saving the token's settings writes the      *)
(* counters back as they were read, or as zeros.                           *)
(***************************************************************************)
EXTENDS Integers

CONSTANTS
  Requests,     \* requests that present the token, of one process
  WithCycle,    \* quota_type 3; FALSE is quota_type 2
  Settings,     \* what the owner may set: see SettingsRows
  FirstSettings,
  StartTime,    \* the clock at the start
  Amounts,      \* what may be pre-consumed; 0 for a trusted request
  Prices,       \* what an answer may cost
  MaxSaves,     \* bound on the owner's saves
  DbFaults,     \* whether statements may fail
  MaxTime       \* bound on the clock

\* WindowStartHour, WindowHours and CycleDays in ticks of the clock, and the quotas.
SettingsRows ==
  [anchor : Nat, windowLen : Nat \ {0}, cycleLen : Nat \ {0},
   windowQuota : Nat \ {0}, cycleQuota : Nat \ {0}]

ASSUME QuotaAssumption ==
  /\ Settings \subseteq SettingsRows /\ FirstSettings \in Settings
  /\ Amounts \subseteq Nat /\ Prices \subseteq Nat
  /\ WithCycle \in BOOLEAN /\ MaxSaves \in Nat /\ DbFaults \in BOOLEAN
  /\ StartTime \in Nat /\ MaxTime \in Nat /\ StartTime <= MaxTime
  /\ \A s \in Settings : s.anchor + s.windowLen <= StartTime

VARIABLES
  now,        \* the clock
  settings,   \* the owner's part of the row
  token,      \* its counters and starts
  pc,         \* where each request is
  flight,     \* the query of the singleflight: who runs it and what it has read
  snap,       \* the *Token each request works on
  same,       \* who has the same *Token as a request
  amount,     \* what its debit or credit is about to move
  held,       \* what it has pre-consumed
  edit,       \* the row as the owner's save has read it
  ahead,      \* history: what each request has charged to the window, not the cycle
  charged,    \* history: debits less credits that fell on each window
  faulted,    \* history: a statement of the request failed
  saves,      \* how many saves there have been
  saved,      \* history: what the last save wrote as used, of window and cycle
  rewrote,    \* history: a save has changed a counter
  touched,    \* history: requests about to reset, whose *Token another has written
  late        \* history: one of those has reset

resets == <<touched, late>>
writes == <<saves, saved, rewrote>>
history == <<ahead, charged, faulted, writes>>
copies == <<flight, snap, same>>
vars == <<now, settings, token, pc, copies, amount, held, edit, resets, history>>

Times == 0..MaxTime
NewToken == [windowUsed |-> 0, windowStart |-> 0, cycleUsed |-> 0, cycleStart |-> 0]
NewRow == [counters |-> NewToken, settings |-> FirstSettings]
Ended == {"rejected", "done"}
Goto(r, l) == pc' = [pc EXCEPT ![r] = l]
Fault(r) == DbFaults /\ faulted' = [faulted EXCEPT ![r] = TRUE]

-----------------------------------------------------------------------------
\* The windows (token_window.go).

CurrentWindow(s, t) == s.anchor + ((t - s.anchor) \div s.windowLen) * s.windowLen

CurrentCycle(row, t) ==
  LET start == row.counters.cycleStart
      len == row.settings.cycleLen IN
  IF start <= 0 THEN t
  ELSE IF t < start THEN start
  ELSE start + ((t - start) \div len) * len

ShouldResetWindow(row, t) ==
  row.counters.windowStart <= 0 \/ row.counters.windowStart < CurrentWindow(row.settings, t)
ShouldResetCycle(row, t) ==
  row.counters.cycleStart <= 0 \/ row.counters.cycleStart < CurrentCycle(row, t)

-----------------------------------------------------------------------------

Init ==
  /\ now = StartTime
  /\ settings = FirstSettings /\ token = NewToken
  /\ pc = [r \in Requests |-> "new"]
  /\ flight = {} /\ snap = [r \in Requests |-> NewRow] /\ same = [r \in Requests |-> {r}]
  /\ amount = [r \in Requests |-> 0] /\ held = [r \in Requests |-> 0]
  /\ edit = {}
  /\ ahead = [r \in Requests |-> 0] /\ charged = [w \in Times |-> 0]
  /\ faulted = [r \in Requests |-> FALSE]
  /\ saves = 0 /\ saved = [window |-> 0, cycle |-> 0] /\ rewrote = FALSE
  /\ touched = {} /\ late = FALSE

Tick ==
  /\ now < MaxTime /\ now' = now + 1
  /\ UNCHANGED <<settings, token, pc, copies, amount, held, edit, resets, history>>

-----------------------------------------------------------------------------
\* GetTokenByKey. A row from the Redis copy is one that was loaded some time ago.

\* Where a request waits for the token: at first, and after a reset that failed.
Loading == {"new", "reloadWindow", "reloadCycle"}
Loaded(l) == CASE l = "new" -> "window" [] l = "reloadWindow" -> "cycle" [] OTHER -> "check"

\* tokenLoadGroup.Do: the first to come queries the database.
Query(r) ==
  /\ pc[r] \in Loading /\ flight = {}
  /\ flight' = {[by |-> r, row |-> [counters |-> token, settings |-> settings]]}
  /\ UNCHANGED <<now, settings, token, pc, snap, same, amount, held, edit, resets, history>>

\* All that have joined by the time the query returns get its one *Token, or its error.
Land ==
  /\ \E f \in flight, group \in SUBSET {r \in Requests : pc[r] \in Loading} :
       /\ f.by \in group
       /\ \/ /\ snap' = [r \in Requests |-> IF r \in group THEN f.row ELSE snap[r]]
             /\ same' = [r \in Requests |-> IF r \in group THEN group ELSE same[r] \ group]
             /\ pc' = [r \in Requests |-> IF r \in group THEN Loaded(pc[r]) ELSE pc[r]]
          \/ /\ DbFaults /\ UNCHANGED <<snap, same>>
             /\ pc' = [r \in Requests |-> IF r \in group THEN "rejected" ELSE pc[r]]
  /\ flight' = {}
  /\ UNCHANGED <<now, settings, token, amount, held, edit, resets, history>>

-----------------------------------------------------------------------------
\* ValidateUserToken.

\* The clock is read; amount keeps the start the window is to be reset to.
DecideWindow(r) ==
  /\ pc[r] = "window"
  /\ IF ShouldResetWindow(snap[r], now)
     THEN /\ Goto(r, "resetWindow")
          /\ amount' = [amount EXCEPT ![r] = CurrentWindow(snap[r].settings, now)]
     ELSE Goto(r, "cycle") /\ UNCHANGED amount
  /\ UNCHANGED <<now, settings, token, copies, held, edit, resets, history>>

\* The reset of a request whose *Token another has written since it decided.
NoteReset(r) == touched' = touched \ {r} /\ late' = (late \/ r \in touched)

\* Mutant: the UPDATE is not conditional on the stored start.
ResetWindow_Unconditional(r) ==
  /\ pc[r] = "resetWindow"
  /\ token' = [token EXCEPT !.windowUsed = 0, !.windowStart = amount[r]]
  /\ Goto(r, "keepWindow")
  /\ NoteReset(r)
  /\ UNCHANGED <<now, settings, copies, amount, held, edit, history>>

\* ResetWindowQuota. The old start is read from the *Token when the statement is
\* sent. A request that loses the race, or whose statement fails, loads the row again
\* and goes on with it, whatever window that row is in.
ResetWindow(r) ==
  /\ pc[r] = "resetWindow"
  /\ \/ /\ token.windowStart = snap[r].counters.windowStart
        /\ token' = [token EXCEPT !.windowUsed = 0, !.windowStart = amount[r]]
        /\ Goto(r, "keepWindow") /\ NoteReset(r)
     \/ /\ token.windowStart # snap[r].counters.windowStart \/ DbFaults
        /\ Goto(r, "reloadWindow") /\ touched' = touched \ {r}
        /\ UNCHANGED <<token, late>>
  /\ UNCHANGED <<now, settings, copies, amount, held, edit, history>>

\* What the request then writes to its *Token, and which others that are about to
\* reset have the same one.
Touch(r, reset) == touched' = touched \cup {q \in same[r] \ {r} : pc[q] = reset}

KeepWindow(r) ==
  /\ pc[r] = "keepWindow" /\ Goto(r, "cycle")
  /\ snap' = [q \in Requests |->
       IF q \in same[r]
       THEN [snap[q] EXCEPT !.counters = [@ EXCEPT !.windowUsed = 0, !.windowStart = amount[r]]]
       ELSE snap[q]]
  /\ Touch(r, "resetWindow")
  /\ UNCHANGED <<now, settings, token, flight, same, amount, held, edit, late, history>>

DecideCycle(r) ==
  /\ pc[r] = "cycle"
  /\ IF WithCycle /\ ShouldResetCycle(snap[r], now)
     THEN Goto(r, "resetCycle") /\ amount' = [amount EXCEPT ![r] = CurrentCycle(snap[r], now)]
     ELSE Goto(r, "check") /\ UNCHANGED amount
  /\ UNCHANGED <<now, settings, token, copies, held, edit, resets, history>>

\* ResetCycleQuota.
ResetCycle(r) ==
  /\ pc[r] = "resetCycle"
  /\ \/ /\ token.cycleStart = snap[r].counters.cycleStart
        /\ token' = [token EXCEPT !.cycleUsed = 0, !.cycleStart = amount[r]]
        /\ Goto(r, "keepCycle") /\ NoteReset(r)
     \/ /\ token.cycleStart # snap[r].counters.cycleStart \/ DbFaults
        /\ Goto(r, "reloadCycle") /\ touched' = touched \ {r}
        /\ UNCHANGED <<token, late>>
  /\ UNCHANGED <<now, settings, copies, amount, held, edit, history>>

KeepCycle(r) ==
  /\ pc[r] = "keepCycle" /\ Goto(r, "check")
  /\ snap' = [q \in Requests |->
       IF q \in same[r]
       THEN [snap[q] EXCEPT !.counters = [@ EXCEPT !.cycleUsed = 0, !.cycleStart = amount[r]]]
       ELSE snap[q]]
  /\ Touch(r, "resetCycle")
  /\ UNCHANGED <<now, settings, token, flight, same, amount, held, edit, late, history>>

Remaining(row) ==
  LET w == row.settings.windowQuota - row.counters.windowUsed
      c == row.settings.cycleQuota - row.counters.cycleUsed IN
  IF WithCycle /\ c < w THEN c ELSE w

\* The last checks of ValidateUserToken, the snapshot that SetupContextForToken
\* leaves in the context, and the check of PreConsumeTokenQuota against it.
Admit(r) ==
  /\ pc[r] = "check"
  /\ \E q \in Amounts :
       /\ amount' = [amount EXCEPT ![r] = q]
       /\ IF Remaining(snap[r]) <= 0 \/ Remaining(snap[r]) < q THEN Goto(r, "rejected")
          ELSE IF q = 0 THEN Goto(r, "serving")
          ELSE Goto(r, "take")
  /\ snap' = [snap EXCEPT ![r] = NewRow]   \* nobody looks at it again
  /\ same' = [q \in Requests |-> IF q = r THEN {r} ELSE same[q] \ {r}]
  /\ UNCHANGED <<now, settings, token, flight, held, edit, resets, history>>

-----------------------------------------------------------------------------
\* The debits and the credits.

WindowAllows(q) == token.windowUsed + q <= settings.windowQuota

CycleAllows(q) == token.cycleUsed + q <= settings.cycleQuota

\* A credit is a debit of -q.
MoveWindow(r, q) ==
  /\ token' = [token EXCEPT !.windowUsed = @ + q]
  /\ ahead' = [ahead EXCEPT ![r] = @ + q]
  /\ charged' = [charged EXCEPT ![token.windowStart] = @ + q]
  /\ UNCHANGED <<faulted, writes>>

MoveCycle(r, q) ==
  /\ token' = [token EXCEPT !.cycleUsed = @ + q]
  /\ ahead' = [ahead EXCEPT ![r] = @ - q]
  /\ UNCHANGED <<charged, faulted, writes>>

Fails(r) == Fault(r) /\ UNCHANGED <<token, ahead, charged, writes>>

\* The call returns: its amount is gone.
Leave(r, l) == Goto(r, l) /\ amount' = [amount EXCEPT ![r] = 0]

\* A request that has been served is done whatever becomes of the settlement;
\* one that is not gets its answer from the pre-consumption.
Succeed(r) ==
  IF pc[r] \in {"take", "takeCycle"}
  THEN Leave(r, "serving") /\ held' = [held EXCEPT ![r] = amount[r]]
  ELSE Leave(r, "done") /\ UNCHANGED held
Fail(r) ==
  /\ Leave(r, IF pc[r] \in {"take", "undoTake"} THEN "rejected" ELSE "done")
  /\ UNCHANGED held

\* DecreaseWindowQuota, for the pre-consumption or for the settlement.
TakeWindow(r) ==
  /\ pc[r] \in {"take", "settle"}
  /\ \/ /\ WindowAllows(amount[r])
        /\ MoveWindow(r, amount[r])
        /\ IF WithCycle
           THEN /\ Goto(r, IF pc[r] = "take" THEN "takeCycle" ELSE "settleCycle")
                /\ UNCHANGED <<amount, held>>
           ELSE Succeed(r)
     \/ /\ ~WindowAllows(amount[r]) \/ DbFaults
        /\ Fail(r) /\ UNCHANGED <<token, history>>
  /\ UNCHANGED <<now, settings, copies, edit, resets>>

\* DecreaseCycleQuota; when it fails the window is credited back.
TakeCycle(r) ==
  /\ pc[r] \in {"takeCycle", "settleCycle"}
  /\ \/ CycleAllows(amount[r]) /\ MoveCycle(r, amount[r]) /\ Succeed(r)
     \/ /\ ~CycleAllows(amount[r]) \/ DbFaults
        /\ Goto(r, IF pc[r] = "takeCycle" THEN "undoTake" ELSE "undoSettle")
        /\ UNCHANGED <<token, amount, held, history>>
  /\ UNCHANGED <<now, settings, copies, edit, resets>>

\* Mutant: the rollback of the window is forgotten.
UndoTakeWindow_Dropped(r) ==
  /\ pc[r] \in {"undoTake", "undoSettle"}
  /\ Fail(r)
  /\ UNCHANGED <<now, settings, token, copies, edit, resets, history>>

UndoTakeWindow(r) ==
  /\ pc[r] \in {"undoTake", "undoSettle"}
  /\ MoveWindow(r, -amount[r]) \/ Fails(r)
  /\ Fail(r)
  /\ UNCHANGED <<now, settings, copies, edit, resets>>

\* Mutant: the difference is passed on with its sign.
Conclude_Signed(r) ==
  /\ pc[r] = "serving"
  /\ \E p \in Prices \cup {0} :
       /\ amount' = [amount EXCEPT ![r] = p - held[r]]
       /\ Goto(r, IF p > held[r] THEN "settle" ELSE IF p = held[r] THEN "done" ELSE "give")
  /\ held' = [held EXCEPT ![r] = 0]
  /\ UNCHANGED <<now, settings, token, copies, edit, resets, history>>

\* The answer is priced, or the request failed and is refunded (price 0).
Conclude(r) ==
  /\ pc[r] = "serving"
  /\ \E p \in Prices \cup {0} :
       \/ p > held[r] /\ amount' = [amount EXCEPT ![r] = p - held[r]] /\ Goto(r, "settle")
       \/ p < held[r] /\ amount' = [amount EXCEPT ![r] = held[r] - p] /\ Goto(r, "give")
       \/ p = held[r] /\ Goto(r, "done") /\ UNCHANGED amount
  /\ held' = [held EXCEPT ![r] = 0]
  /\ UNCHANGED <<now, settings, token, copies, edit, resets, history>>

\* IncreaseWindowQuota: no condition.
GiveWindow(r) ==
  /\ pc[r] = "give"
  /\ \/ /\ MoveWindow(r, -amount[r])
        /\ IF WithCycle THEN Goto(r, "giveCycle") /\ UNCHANGED amount ELSE Leave(r, "done")
     \/ Fails(r) /\ Leave(r, "done")
  /\ UNCHANGED <<now, settings, copies, held, edit, resets>>

\* IncreaseCycleQuota; when it fails the window is debited again.
GiveCycle(r) ==
  /\ pc[r] = "giveCycle"
  /\ \/ MoveCycle(r, -amount[r]) /\ Leave(r, "done")
     \/ Fails(r) /\ Goto(r, "undoGive") /\ UNCHANGED amount
  /\ UNCHANGED <<now, settings, copies, held, edit, resets>>

\* Mutant: the debit that undoes a credit is made without its condition.
UndoGiveWindow_Unguarded(r) ==
  /\ pc[r] = "undoGive"
  /\ MoveWindow(r, amount[r])
  /\ Leave(r, "done")
  /\ UNCHANGED <<now, settings, copies, held, edit, resets>>

UndoGiveWindow(r) ==
  /\ pc[r] = "undoGive"
  /\ \/ WindowAllows(amount[r]) /\ MoveWindow(r, amount[r])
     \/ UNCHANGED <<token, history>> /\ (~WindowAllows(amount[r]) \/ DbFaults)
  /\ Leave(r, "done")
  /\ UNCHANGED <<now, settings, copies, held, edit, resets>>

-----------------------------------------------------------------------------
\* UpdateToken: the handler reads the row, enters what the owner has set, and writes
\* every column back. The counters are zeroed when the windows, or the cycles, are
\* others than those that were read. The quota mode (quota_type) stays.

EditRead ==
  /\ saves < MaxSaves /\ edit = {}
  /\ edit' = {[counters |-> token, settings |-> settings]}
  /\ UNCHANGED <<now, settings, token, pc, copies, amount, held, resets, history>>

WindowsChange(s, old) == s.windowLen # old.windowLen \/ s.anchor # old.anchor

CyclesChange(s, old) == WithCycle /\ (s.cycleLen # old.cycleLen \/ s.cycleQuota # old.cycleQuota)

Entered(s, row) ==
  LET w == IF WindowsChange(s, row.settings)
           THEN [row.counters EXCEPT !.windowUsed = 0, !.windowStart = 0] ELSE row.counters IN
  IF CyclesChange(s, row.settings) THEN [w EXCEPT !.cycleUsed = 0, !.cycleStart = 0] ELSE w

EditWrite ==
  /\ \E row \in edit, s \in Settings :
       /\ settings' = s /\ token' = Entered(s, row)
       /\ saved' = [window |-> token'.windowUsed, cycle |-> token'.cycleUsed]
       /\ rewrote' = (rewrote \/ token' # token)
  /\ edit' = {} /\ saves' = saves + 1
  /\ UNCHANGED <<now, pc, copies, amount, held, resets, ahead, charged, faulted>>

-----------------------------------------------------------------------------

Authenticate(r) ==
  \/ Query(r) \/ DecideWindow(r) \/ ResetWindow(r) \/ KeepWindow(r)
  \/ DecideCycle(r) \/ ResetCycle(r) \/ KeepCycle(r) \/ Admit(r)
Charge(r) == TakeWindow(r) \/ TakeCycle(r) \/ UndoTakeWindow(r)
Return(r) == GiveWindow(r) \/ GiveCycle(r) \/ UndoGiveWindow(r)

Terminated == (\A r \in Requests : pc[r] \in Ended) /\ edit = {}

Next ==
  \/ Tick \/ Land
  \/ \E r \in Requests : Authenticate(r) \/ Charge(r) \/ Conclude(r) \/ Return(r)
  \/ EditRead \/ EditWrite
  \/ Terminated /\ UNCHANGED vars

Spec == Init /\ [][Next]_vars
=============================================================================
