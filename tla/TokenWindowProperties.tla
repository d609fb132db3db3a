----------------------- MODULE TokenWindowProperties -----------------------
(* What must be true of the windows and cycles of a token. *)
EXTENDS TokenWindow

Counters == [windowUsed : Int, windowStart : Nat, cycleUsed : Int, cycleStart : Nat]
Rows == [counters : Counters, settings : Settings]

Locations ==
  Loading \cup {"window", "resetWindow", "keepWindow", "cycle", "resetCycle", "keepCycle", "check",
   "take", "takeCycle", "undoTake", "serving", "settle", "settleCycle", "undoSettle", "give",
   "giveCycle", "undoGive"} \cup Ended

\* The state is well typed (the columns of tokens, token.go:76-83).
TypeOK ==
  /\ now \in StartTime..MaxTime /\ settings \in Settings /\ token \in Counters
  /\ edit \subseteq Rows /\ flight \subseteq [by : Requests, row : Rows]
  /\ pc \in [Requests -> Locations] /\ snap \in [Requests -> Rows]
  /\ same \in [Requests -> SUBSET Requests] /\ touched \subseteq Requests
  /\ amount \in [Requests -> Nat] /\ held \in [Requests -> Nat]
  /\ faulted \in [Requests -> BOOLEAN]
  /\ ahead \in [Requests -> Int] /\ charged \in [Times -> Int]
  /\ saves \in Nat /\ saved \in [window : Int, cycle : Int]
  /\ rewrote \in BOOLEAN /\ late \in BOOLEAN

\* The invariants below for the steps in between: which of the two counters a
\* request has moved and not the other, by where it is.
HalfWay(r) ==
  CASE pc[r] \in {"takeCycle", "settleCycle", "undoTake", "undoSettle"} -> ahead[r] = amount[r]
    [] pc[r] = "giveCycle" -> ahead[r] = -amount[r]
    [] pc[r] = "undoGive" -> TRUE
    [] OTHER -> ahead[r] = 0

\* The counters of a window and of a cycle pass their quotas only when a save of
\* the settings puts them there (it lowers the quota, or brings back an old counter),
\* and then go no further, however debits, rollbacks, resets and saves interleave: what
\* negative_balance.go:34 reports is never the work of a debit.
UsedWithinQuota ==
  /\ token.windowUsed <= settings.windowQuota \/ token.windowUsed <= saved.window
  /\ token.cycleUsed <= settings.cycleQuota \/ token.cycleUsed <= saved.cycle

\* What the proofs carry along: with the type, where each request stands.
WInv ==
  /\ TypeOK
  /\ UsedWithinQuota
  /\ \A r \in Requests : pc[r] = "undoGive" => faulted[r]
  /\ WithCycle => \A r \in Requests : ~faulted[r] => HalfWay(r)

\* The window's counter is exactly what has been charged to it since it was opened,
\* less what was given back meanwhile: no reset wipes a charge of the window it starts
\* (token.go:794), and no charge is counted twice.
Accounted == token.windowUsed = charged[token.windowStart]

\* That is so as long as no save of the settings has changed a counter, and no request
\* has reset with a start that another one has written into their common *Token.
UsedIsAccounted == ~rewrote /\ ~late => Accounted

\* What the proofs carry along: a reset leads to a later window of the clock, or to a
\* cycle no earlier, and nothing has been charged to a window that has not begun.
ResetsForward ==
  \A r \in Requests :
    /\ pc[r] = "resetWindow" =>
         amount[r] \in Times /\ (r \in touched \/ amount[r] > snap[r].counters.windowStart)
    /\ pc[r] = "resetCycle" => r \in touched \/ amount[r] >= snap[r].counters.cycleStart

LaterWindowsEmpty ==
  /\ token.windowStart \in Times
  /\ \A w \in Times : w > token.windowStart => charged[w] = 0

WindowBooks == ~rewrote /\ ~late => LaterWindowsEmpty /\ Accounted

\* A request that has ended, and of which no statement failed, has charged
\* its window and its cycle the same: the two UPDATEs are one transaction in
\* effect (service.go:256-266, 286-297).
WindowFollowsCycle ==
  \A r \in Requests :
    WithCycle /\ pc[r] \in Ended /\ ~faulted[r] => ahead[r] = 0

\* A stored window or cycle only ever gives way to a later one in a step of a request
\* (saves leave the requests where they are): one that decided on its reset long ago
\* never reopens a window that is over, unless another has written a later start into
\* their common *Token.
WindowsAdvance ==
  [][pc' # pc /\ (\A r \in touched : pc'[r] = pc[r]) =>
       /\ token'.windowStart >= token.windowStart
       /\ token'.cycleStart >= token.cycleStart]_token

\* The counters are the system's own: saving the settings of a token leaves
\* them as they are (docs, tokens.window_used_quota: maintained by the system).
SavesKeepCharges == ~late => Accounted
=============================================================================
