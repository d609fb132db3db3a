----------------------------- MODULE SettingsForm -----------------------------
(***************************************************************************)
(* A settings form of the web console (features/system-settings): what the *)
(* server holds, what the page's query has read of it, the values the form *)
(* was last reset to, and what the administrator has typed. A save puts    *)
(* the changed keys one after the other; each one that is written asks for *)
(* the options again, and api.get joins a GET that is already on its way   *)
(* (lib/api.ts). Another administrator writes the same options.            *)
(*                                                                         *)
(* The refs of useSettingsForm (baseline, defaults, their serialisation)   *)
(* and the form's own default values always change together: one variable, *)
(* baseline. A key is dirty when its input differs from it.                *)
(***************************************************************************)
EXTENDS Naturals, FiniteSets

CONSTANTS
  Keys,        \* the options of one form
  Values,      \* what can be typed
  Stored,      \* what the server keeps of it: trimmed, rounded, without a slash
  MaxForeign   \* bound on the writes of others

ASSUME FormAssumption ==
  /\ Stored \in [Values -> Values] /\ \A v \in Values : Stored[Stored[v]] = Stored[v]
  /\ MaxForeign \in Nat

VARIABLES
  memo,      \* the section builds its defaults only when the query's data change
  server,    \* the options
  cached,    \* the data of the query ['system-options']
  baseline,  \* the values the form was last reset to
  input,     \* the values in the form
  put,       \* the PUT of the save: "idle" (no save), "sent", "applied"
  key,       \* the key it writes
  left,      \* the changed keys still to put
  data,      \* the values as they were submitted
  get,       \* the GET in flight: "none", "sent", "read"
  answer,    \* what it has read
  foreign,   \* history: writes of others
  touched,   \* history: keys typed into since the form was last reset
  asked,     \* history: the touched keys when the save was submitted
  behind,    \* history: the server has changed since it was last read for this page
  mishaps    \* history: what has come in between: a failure, a joined GET

form == <<baseline, input, touched>>
saving == <<put, key, left, data, asked>>
query == <<cached, get, answer>>
vars == <<memo, server, form, saving, query, foreign, behind, mishaps>>

Options == [Keys -> Values]
Kept == {Stored[v] : v \in Values}
Blank == [k \in Keys |-> CHOOSE v \in Kept : TRUE]

Init ==
  /\ memo \in BOOLEAN
  /\ server \in [Keys -> Kept]
  /\ cached = server /\ baseline = server /\ input = server
  /\ put = "idle" /\ key \in Keys /\ left = {} /\ data = Blank /\ asked = {}
  /\ get = "none" /\ answer = server
  /\ foreign = 0 /\ touched = {} /\ behind = FALSE /\ mishaps = {}

-----------------------------------------------------------------------------
\* The administrator.

Type(k, v) ==
  /\ input' = [input EXCEPT ![k] = v] /\ touched' = touched \cup {k}
  /\ UNCHANGED <<memo, server, baseline, saving, query, foreign, behind, mishaps>>

\* form.reset(values), and with it the refs.
ResetTo(values) == baseline' = values /\ input' = values /\ touched' = {}

Dirty == {k \in Keys : input[k] # baseline[k]}

\* handleReset; the button is off while a save runs and when nothing is dirty.
HandleReset ==
  /\ put = "idle" /\ Dirty # {}
  /\ ResetTo(baseline)
  /\ UNCHANGED <<memo, server, saving, query, foreign, behind, mishaps>>

\* Mutant: every field of the form is put.
Changed_All == Keys

\* The dirty values that differ from the baseline.
Changed == Dirty

Submit ==
  /\ put = "idle"
  /\ \E k \in Changed : put' = "sent" /\ key' = k /\ left' = Changed \ {k}
  /\ data' = input /\ asked' = touched
  /\ UNCHANGED <<memo, server, form, query, foreign, behind, mishaps>>

-----------------------------------------------------------------------------
\* The save on its way.

\* Mutant: what was typed is put as it is.
PutApplied_Raw ==
  /\ put = "sent" /\ put' = "applied"
  /\ server' = [server EXCEPT ![key] = data[key]]
  /\ behind' = TRUE
  /\ UNCHANGED <<memo, key, left, data, asked, form, query, foreign, mishaps>>

PutApplied ==
  /\ put = "sent" /\ put' = "applied"
  /\ server' = [server EXCEPT ![key] = Stored[data[key]]]
  /\ behind' = TRUE
  /\ UNCHANGED <<memo, key, left, data, asked, form, query, foreign, mishaps>>

NoSave == put' = "idle" /\ left' = {} /\ data' = Blank /\ asked' = {} /\ UNCHANGED key

\* The PUT is refused, or its answer is lost: handleSubmit rejects.
PutFails ==
  /\ put # "idle" /\ NoSave
  /\ mishaps' = mishaps \cup {"failed"}
  /\ UNCHANGED <<memo, server, form, query, foreign, behind>>

\* Mutant: what was saved does not become the baseline.
Saved_NoBaseline(values) == input' = values /\ UNCHANGED baseline /\ touched' = {}

Saved(values) == ResetTo(values)

\* The end of handleSubmit: the form takes over what was submitted. A section
\* that builds its defaults in every render compares them with the query's data
\* at once and takes those over instead.
SaveDone ==
  /\ NoSave
  /\ IF memo THEN Saved(data) ELSE ResetTo(cached)

\* Mutant: an option that was written does not invalidate the query.
PutDone_NoRefresh ==
  /\ put = "applied"
  /\ IF left = {} THEN SaveDone
     ELSE /\ \E k \in left : key' = k /\ left' = left \ {k}
          /\ put' = "sent" /\ UNCHANGED <<data, asked, form>>
  /\ UNCHANGED <<memo, server, query, foreign, behind, mishaps>>

PutDone ==
  /\ put = "applied"
  /\ get' = IF get = "none" THEN "sent" ELSE get
  /\ mishaps' = IF get = "read" /\ behind THEN mishaps \cup {"joined"} ELSE mishaps
  /\ IF left = {} THEN SaveDone
     ELSE /\ \E k \in left : key' = k /\ left' = left \ {k}
          /\ put' = "sent" /\ UNCHANGED <<data, asked, form>>
  /\ UNCHANGED <<memo, server, cached, answer, foreign, behind>>

-----------------------------------------------------------------------------
\* The query.

\* The window is focused again with the data stale.
Focus ==
  /\ get = "none" /\ get' = "sent"
  /\ UNCHANGED <<memo, server, form, saving, cached, answer, foreign, behind, mishaps>>

GetRead ==
  /\ get = "sent" /\ get' = "read"
  /\ answer' = server /\ behind' = FALSE
  /\ UNCHANGED <<memo, server, form, saving, cached, foreign, mishaps>>

\* Mutant: the effect leaves a form with input alone.
Effect_DirtyKept(values) == IF values # baseline /\ Dirty = {} THEN ResetTo(values) ELSE UNCHANGED form

\* The effect on the defaults: reset when they are not the serialised ones.
Effect(values) == IF values # baseline THEN ResetTo(values) ELSE UNCHANGED form

\* The answer becomes the query's data. Equal data are the same object, and a
\* section that memoises then has nothing new, unless another option changed.
GetDone ==
  /\ get = "read" /\ get' = "none" /\ cached' = answer
  /\ \/ Effect(answer)
     \/ memo /\ answer = cached /\ UNCHANGED form
  /\ UNCHANGED <<memo, server, saving, answer, foreign, behind, mishaps>>

\* The GET fails: it is tried again, or given up with the data kept.
GetFails ==
  /\ get # "none" /\ get' \in {"sent", "none"}
  /\ answer' = cached /\ behind' = (behind \/ answer # cached)
  /\ mishaps' = mishaps \cup {"failed"}
  /\ UNCHANGED <<memo, server, form, saving, cached, foreign>>

-----------------------------------------------------------------------------
\* Another administrator writes an option.
Foreign(k, v) ==
  /\ foreign < MaxForeign /\ foreign' = foreign + 1
  /\ server' = [server EXCEPT ![k] = v] /\ behind' = TRUE
  /\ UNCHANGED <<memo, form, saving, query, mishaps>>

Next ==
  \/ \E k \in Keys, v \in Values : Type(k, v)
  \/ \E k \in Keys, v \in Kept : Foreign(k, v)
  \/ HandleReset \/ Submit \/ PutApplied \/ PutFails \/ PutDone
  \/ Focus \/ GetRead \/ GetDone \/ GetFails

Spec == Init /\ [][Next]_vars

-----------------------------------------------------------------------------

TypeOK ==
  /\ memo \in BOOLEAN /\ behind \in BOOLEAN
  /\ server \in [Keys -> Kept] /\ cached \in [Keys -> Kept] /\ answer \in [Keys -> Kept]
  /\ baseline \in Options /\ input \in Options /\ data \in Options
  /\ put \in {"idle", "sent", "applied"} /\ key \in Keys /\ left \subseteq Keys
  /\ get \in {"none", "sent", "read"}
  /\ foreign \in 0..MaxForeign /\ touched \subseteq Keys /\ asked \subseteq Keys
  /\ mishaps \subseteq {"failed", "joined"}

Quiet == put = "idle" /\ get = "none"

\* A save writes a key only when the administrator has typed into it since the
\* form last took values over: what others have written to the other keys, which
\* this form may show outdated, stays (use-settings-form.ts:169).
SavesOnlyEdits == [][PutApplied => key \in asked]_vars

\* When nothing is on its way and the server has not changed since it was last
\* read, a field without input shows what the server keeps. Sections that memoise
\* need that nobody else writes and nothing fails: otherwise the data can come back
\* to what they were while the form has moved on, and no effect runs.
CleanShowsServer ==
  Quiet /\ ~behind /\ (memo => foreign = 0 /\ mishaps = {}) =>
    \A k \in Keys \ Dirty : Stored[input[k]] = server[k]

\* The refresh that follows a save brings back what was saved, which the refs
\* know already: it does not reset the form under what is typed meanwhile, in a
\* section that memoises, when nothing failed and the server stores what it gets.
EchoKeepsInput ==
  [][ GetDone /\ memo /\ foreign = 0 /\ mishaps = {} /\ put = "idle"
      /\ (\A k \in Keys : baseline[k] \in Kept) => UNCHANGED input ]_vars

\* Input that no save has taken up.
Unsaved == {k \in Dirty : put = "idle" \/ input[k] # data[k]}

\* "No automatic resets that could overwrite user input" (use-settings-form.ts:168):
\* what is typed stays until the administrator types again, resets or saves it.
InputStays ==
  [][ \A k \in Unsaved : input'[k] # input[k] => HandleReset \/ \E v \in Values : Type(k, v) ]_vars

\* "Always refresh system-options" (use-update-option.ts:49): when all is quiet after
\* a save, with nobody else writing, the page has read what the server holds, whatever
\* GETs were on their way meanwhile. It takes that nothing failed and that no refresh
\* was joined to a GET which had been answered before the write (lib/api.ts:61).
SaveIsRefreshed == Quiet /\ foreign = 0 /\ mishaps = {} => cached = server
=============================================================================
