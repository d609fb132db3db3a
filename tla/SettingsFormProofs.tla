-------------------------- MODULE SettingsFormProofs --------------------------
(***************************************************************************)
(* What a settings form writes and shows, for any number of options, any   *)
(* values and any way the server stores them, in both kinds of section.    *)
(***************************************************************************)
EXTENDS SettingsForm, TLAPS

\* Dirty keys were typed into; the keys of a save were when it was submitted.
EditShape ==
  /\ Dirty \subseteq touched
  /\ put # "idle" => key \in asked /\ left \subseteq asked

\* What the page knows when the server has not changed since it was read.
QueryShape == ~behind => (IF get = "read" THEN answer ELSE cached) = server

\* A section that builds its defaults anew has never moved off the query's data.
UnmemoShape == ~memo => baseline = cached

\* Undisturbed and between saves, whatever has changed is yet to be read.
Undisturbed == foreign = 0 /\ mishaps = {}
RefreshShape == Undisturbed /\ put = "idle" /\ behind => get = "sent"

\* In a section that memoises, undisturbed: between saves the baseline is what
\* the server holds; in a save, what has been written is what was submitted, and
\* the rest was never in question.
ToPut == left \cup (IF put = "sent" THEN {key} ELSE {})
MemoShape ==
  memo /\ Undisturbed =>
    /\ put = "idle" => \A k \in Keys : Stored[baseline[k]] = server[k]
    /\ put # "idle" => \A k \in Keys \ ToPut : Stored[data[k]] = server[k]

FormInv == TypeOK /\ EditShape /\ QueryShape /\ UnmemoShape /\ RefreshShape /\ MemoShape

-----------------------------------------------------------------------------

LEMMA KeptFacts ==
  /\ Kept \subseteq Values
  /\ \A v \in Values : Stored[v] \in Kept
  /\ \A v \in Kept : Stored[v] = v
BY FormAssumption DEF Kept

LEMMA BlankType == ASSUME NEW f \in [Keys -> Kept] PROVE Blank \in Options
<1>1. ASSUME NEW k \in Keys PROVE (CHOOSE v \in Kept : TRUE) \in Values
  <2>1. f[k] \in Kept
    OBVIOUS
  <2>2. (CHOOSE v \in Kept : TRUE) \in Kept
    BY <2>1
  <2>. QED BY <2>2, KeptFacts
<1>. QED BY <1>1 DEF Blank, Options

LEMMA OptionsKept == ASSUME NEW f \in [Keys -> Kept] PROVE f \in Options
BY KeptFacts DEF Options

LEMMA InitForm == Init => FormInv
<1>. SUFFICES ASSUME Init PROVE FormInv
  OBVIOUS
<1>1. Blank \in Options /\ server \in Options
  BY BlankType, OptionsKept DEF Init
<1>2. memo \in BOOLEAN /\ behind \in BOOLEAN
  BY Zenon DEF Init
<1>3. TypeOK
  BY <1>1, <1>2, FormAssumption DEF Init, TypeOK
<1>4. EditShape /\ QueryShape /\ UnmemoShape /\ RefreshShape
  BY DEF Init, EditShape, QueryShape, UnmemoShape, RefreshShape, Dirty
<1>5. MemoShape
  BY KeptFacts DEF Init, MemoShape
<1>. QED BY <1>3, <1>4, <1>5 DEF FormInv

-----------------------------------------------------------------------------
\* One lemma for each step.

LEMMA TypeStep == ASSUME FormInv, NEW k \in Keys, NEW v \in Values, Type(k, v) PROVE FormInv'
<1>1. TypeOK'
  BY DEF FormInv, TypeOK, Type, Options, form, saving, query
<1>2. EditShape'
  BY DEF FormInv, TypeOK, EditShape, Dirty, Type, Options, saving
<1>3. QueryShape' /\ UnmemoShape' /\ RefreshShape' /\ MemoShape'
  BY DEF FormInv, QueryShape, UnmemoShape, RefreshShape, Undisturbed, MemoShape, ToPut, Type,
         saving, query
<1>. QED BY <1>1, <1>2, <1>3 DEF FormInv

LEMMA ResetStep == ASSUME FormInv, HandleReset PROVE FormInv'
<1>1. TypeOK'
  BY DEF FormInv, TypeOK, HandleReset, ResetTo, saving, query
<1>2. EditShape'
  BY DEF FormInv, EditShape, Dirty, HandleReset, ResetTo, saving
<1>3. QueryShape' /\ UnmemoShape' /\ RefreshShape' /\ MemoShape'
  BY DEF FormInv, QueryShape, UnmemoShape, RefreshShape, Undisturbed, MemoShape, ToPut,
         HandleReset, ResetTo,
         saving, query
<1>. QED BY <1>1, <1>2, <1>3 DEF FormInv

LEMMA SubmitStep == ASSUME FormInv, Submit PROVE FormInv'
<1>1. PICK k \in Changed : put' = "sent" /\ key' = k /\ left' = Changed \ {k}
  BY DEF Submit
<1>2. k \in Keys /\ Changed \subseteq Keys
  BY DEF Changed, Dirty
<1>3. TypeOK'
  BY <1>1, <1>2 DEF FormInv, TypeOK, Submit, form, query
<1>4. EditShape'
  BY <1>1, <1>2 DEF FormInv, EditShape, Changed, Dirty, Submit, form
<1>5. QueryShape' /\ UnmemoShape' /\ RefreshShape'
  BY DEF FormInv, QueryShape, UnmemoShape, RefreshShape, Undisturbed, Submit, form, query
<1>6. MemoShape'
  <2>1. ToPut' = Changed
    BY <1>1 DEF ToPut
  <2>2. ASSUME memo, Undisturbed, NEW j \in Keys \ Changed PROVE Stored[data'[j]] = server'[j]
    BY <2>2 DEF FormInv, MemoShape, Submit, Changed, Dirty
  <2>3. Undisturbed' = Undisturbed /\ memo' = memo
    BY DEF Undisturbed, Submit
  <2>. QED BY <1>1, <2>1, <2>2, <2>3 DEF MemoShape
<1>. QED BY <1>3, <1>4, <1>5, <1>6 DEF FormInv

LEMMA PutAppliedStep == ASSUME FormInv, PutApplied PROVE FormInv'
<1>1. /\ server' \in [Keys -> Kept] /\ key \in Keys /\ server'[key] = Stored[data[key]]
      /\ \A k \in Keys \ {key} : server'[k] = server[k]
  BY KeptFacts DEF FormInv, TypeOK, PutApplied, Options
<1>2. TypeOK'
  BY <1>1 DEF FormInv, TypeOK, PutApplied, form, query
<1>3. EditShape' /\ QueryShape' /\ UnmemoShape' /\ RefreshShape'
  BY DEF FormInv, EditShape, QueryShape, UnmemoShape, RefreshShape, Undisturbed, Dirty, PutApplied,
         form, query
<1>4. MemoShape'
  <2>1. ToPut' = left /\ ToPut = left \cup {key} /\ data' = data /\ put' = "applied" /\ put = "sent"
    BY DEF ToPut, PutApplied
  <2>2. Undisturbed' = Undisturbed /\ memo' = memo
    BY DEF Undisturbed, PutApplied
  <2>3. ASSUME memo, Undisturbed, NEW j \in Keys \ left PROVE Stored[data[j]] = server'[j]
    <3>1. CASE j = key
      BY <1>1, <3>1
    <3>2. CASE j # key
      BY <1>1, <2>1, <2>3, <3>2 DEF FormInv, MemoShape
    <3>. QED BY <3>1, <3>2
  <2>. QED BY <2>1, <2>2, <2>3 DEF MemoShape
<1>. QED BY <1>2, <1>3, <1>4 DEF FormInv

LEMMA PutFailsStep == ASSUME FormInv, PutFails PROVE FormInv'
<1>1. Blank \in Options
  BY BlankType DEF FormInv, TypeOK
<1>2. TypeOK'
  BY <1>1 DEF FormInv, TypeOK, PutFails, NoSave, form, query
<1>3. EditShape' /\ QueryShape' /\ UnmemoShape' /\ RefreshShape' /\ MemoShape'
  BY DEF FormInv, EditShape, QueryShape, UnmemoShape, RefreshShape, Undisturbed, MemoShape, Dirty,
         PutFails, NoSave,
         form, query
<1>. QED BY <1>2, <1>3 DEF FormInv

LEMMA PutDoneStep == ASSUME FormInv, PutDone PROVE FormInv'
<1>0. put = "applied" /\ get' = (IF get = "none" THEN "sent" ELSE get)
      /\ mishaps' = (IF get = "read" /\ behind THEN mishaps \cup {"joined"} ELSE mishaps)
      /\ UNCHANGED <<memo, server, cached, answer, foreign, behind>>
  BY DEF PutDone
<1>1. QueryShape' /\ RefreshShape'
  <2>1. QueryShape'
    BY <1>0 DEF FormInv, QueryShape
  <2>2. ASSUME Undisturbed', behind PROVE get' = "sent"
    BY <1>0, <2>2 DEF FormInv, TypeOK, Undisturbed
  <2>. QED BY <1>0, <2>1, <2>2 DEF RefreshShape
<1>2. CASE left = {}
  <2>1. SaveDone
    BY <1>2 DEF PutDone
  <2>2. Blank \in Options /\ cached \in Options
    BY BlankType, OptionsKept DEF FormInv, TypeOK
  <2>3. TypeOK'
    BY <1>0, <2>1, <2>2 DEF FormInv, TypeOK, SaveDone, NoSave, Saved, ResetTo
  <2>4. EditShape' /\ UnmemoShape'
    BY <1>0, <2>1 DEF EditShape, UnmemoShape, Dirty, SaveDone, NoSave, Saved, ResetTo
  <2>5. MemoShape'
    <3>1. SUFFICES ASSUME memo, Undisturbed'
                   PROVE  \A k \in Keys : Stored[baseline'[k]] = server'[k]
      BY <1>0, <2>1 DEF MemoShape, SaveDone, NoSave
    <3>2. Undisturbed
      BY <1>0, <3>1 DEF Undisturbed
    <3>3. ToPut = {}
      BY <1>0, <1>2 DEF ToPut
    <3>4. \A k \in Keys : Stored[data[k]] = server[k]
      BY <1>0, <3>1, <3>2, <3>3 DEF FormInv, MemoShape
    <3>5. baseline' = data
      BY <2>1, <3>1 DEF SaveDone, Saved, ResetTo
    <3>. QED BY <1>0, <3>4, <3>5
  <2>. QED BY <1>1, <2>3, <2>4, <2>5 DEF FormInv
<1>3. CASE left # {}
  <2>1. PICK k \in left : key' = k /\ left' = left \ {k}
    BY <1>3 DEF PutDone
  <2>2. put' = "sent" /\ UNCHANGED <<data, asked, form>>
    BY <1>3 DEF PutDone
  <2>3. TypeOK'
    BY <1>0, <2>1, <2>2 DEF FormInv, TypeOK, form
  <2>4. EditShape' /\ UnmemoShape'
    BY <1>0, <2>1, <2>2 DEF FormInv, EditShape, UnmemoShape, Dirty, form
  <2>5. MemoShape'
    <3>1. ToPut' = left /\ ToPut = left
      BY <1>0, <2>1, <2>2 DEF ToPut
    <3>2. Undisturbed' => Undisturbed
      BY <1>0 DEF Undisturbed
    <3>. QED BY <1>0, <2>2, <3>1, <3>2 DEF FormInv, MemoShape
  <2>. QED BY <1>1, <2>3, <2>4, <2>5 DEF FormInv
<1>. QED BY <1>2, <1>3

LEMMA QueryStep == ASSUME FormInv, Focus \/ GetRead \/ GetFails PROVE FormInv'
<1>1. CASE Focus
  <2>1. TypeOK' /\ EditShape' /\ QueryShape' /\ UnmemoShape' /\ RefreshShape'
    BY <1>1 DEF FormInv, TypeOK, EditShape, QueryShape, UnmemoShape, RefreshShape, Undisturbed,
           Dirty, Focus, form, saving
  <2>2. MemoShape'
    BY <1>1 DEF FormInv, MemoShape, Undisturbed, ToPut, Focus, form, saving
  <2>. QED BY <2>1, <2>2 DEF FormInv
<1>2. CASE GetRead
  <2>1. TypeOK' /\ EditShape' /\ QueryShape' /\ UnmemoShape' /\ RefreshShape'
    BY <1>2 DEF FormInv, TypeOK, EditShape, QueryShape, UnmemoShape, RefreshShape, Undisturbed,
           Dirty, GetRead, form, saving
  <2>2. MemoShape'
    BY <1>2 DEF FormInv, MemoShape, Undisturbed, ToPut, GetRead, form, saving
  <2>. QED BY <2>1, <2>2 DEF FormInv
<1>3. CASE GetFails
  <2>1. get' \in {"sent", "none"} /\ behind' = (behind \/ answer # cached) /\ answer' = cached
        /\ UNCHANGED <<server, cached>>
    BY <1>3 DEF GetFails
  <2>2. behind' \in BOOLEAN
    BY <2>1, Zenon
  <2>3. TypeOK'
    BY <1>3, <2>2 DEF FormInv, TypeOK, GetFails, form, saving
  <2>4. QueryShape'
    <3>1. SUFFICES ASSUME ~behind' PROVE cached = server
      BY <2>1 DEF QueryShape
    <3>2. ~behind /\ answer = cached
      BY <2>1, <3>1
    <3>. QED BY <3>2 DEF FormInv, QueryShape
  <2>5. EditShape' /\ UnmemoShape' /\ RefreshShape' /\ MemoShape'
    BY <1>3 DEF FormInv, EditShape, UnmemoShape, RefreshShape, Undisturbed, MemoShape, Dirty,
                GetFails, form, saving
  <2>. QED BY <2>3, <2>4, <2>5 DEF FormInv
<1>. QED BY <1>1, <1>2, <1>3

\* The refresh of an undisturbed form brings what its baseline is stored as.
LEMMA EchoIsBaseline ==
  ASSUME FormInv, Undisturbed, put = "idle", get = "read"
  PROVE  answer = server /\ (memo => \A k \in Keys : Stored[baseline[k]] = answer[k])
BY DEF FormInv, MemoShape, QueryShape, RefreshShape

LEMMA GetDoneStep == ASSUME FormInv, GetDone PROVE FormInv'
<1>0. get = "read" /\ get' = "none" /\ cached' = answer
      /\ UNCHANGED <<memo, server, saving, answer, foreign, behind, mishaps>>
  BY DEF GetDone
<1>1. \/ ResetTo(answer)
      \/ UNCHANGED form /\ (answer = baseline \/ memo)
  BY DEF GetDone, Effect
<1>2. answer \in Options
  BY OptionsKept DEF FormInv, TypeOK
<1>3. TypeOK'
  BY <1>0, <1>1, <1>2 DEF FormInv, TypeOK, ResetTo, form, saving
<1>4. EditShape'
  BY <1>0, <1>1 DEF FormInv, EditShape, Dirty, ResetTo, form, saving
<1>5. QueryShape' /\ UnmemoShape' /\ RefreshShape'
  BY <1>0, <1>1 DEF FormInv, QueryShape, UnmemoShape, RefreshShape, Undisturbed, ResetTo, form, saving
<1>6. MemoShape'
  <2>1. Undisturbed' = Undisturbed /\ ToPut' = ToPut /\ put' = put /\ data' = data
    BY <1>0 DEF Undisturbed, ToPut, saving
  <2>2. ASSUME memo, Undisturbed, put = "idle"
        PROVE  \A k \in Keys : Stored[baseline'[k]] = server[k]
    <3>1. answer = server /\ \A k \in Keys : Stored[baseline[k]] = server[k]
      BY <1>0, <2>2, EchoIsBaseline
    <3>3. \A k \in Keys : Stored[answer[k]] = answer[k]
      BY KeptFacts DEF FormInv, TypeOK
    <3>. QED BY <1>1, <3>1, <3>3 DEF ResetTo, form
  <2>. QED BY <1>0, <2>1, <2>2 DEF FormInv, MemoShape
<1>. QED BY <1>3, <1>4, <1>5, <1>6 DEF FormInv

LEMMA ForeignStep == ASSUME FormInv, NEW k \in Keys, NEW v \in Kept, Foreign(k, v) PROVE FormInv'
<1>1. server' \in [Keys -> Kept] /\ foreign' \in 0..MaxForeign /\ foreign' # 0
  BY FormAssumption DEF FormInv, TypeOK, Foreign
<1>2. TypeOK'
  BY <1>1 DEF FormInv, TypeOK, Foreign, form, saving, query
<1>3. EditShape' /\ QueryShape' /\ UnmemoShape' /\ RefreshShape' /\ MemoShape'
  BY <1>1 DEF FormInv, EditShape, QueryShape, UnmemoShape, RefreshShape, Undisturbed, MemoShape,
              Dirty, Foreign, form, saving, query
<1>. QED BY <1>2, <1>3 DEF FormInv

LEMMA StutterForm == ASSUME FormInv, UNCHANGED vars PROVE FormInv'
<1>1. UNCHANGED <<memo, server, baseline, input, touched, put, key, left, data, asked, cached, get,
                  answer, foreign, behind, mishaps>>
  BY DEF vars, form, saving, query
<1>2. TypeOK' /\ EditShape'
  BY <1>1 DEF FormInv, TypeOK, EditShape, Dirty
<1>3. QueryShape' /\ UnmemoShape' /\ RefreshShape' /\ MemoShape'
  BY <1>1 DEF FormInv, QueryShape, UnmemoShape, RefreshShape, Undisturbed, MemoShape, ToPut
<1>. QED BY <1>2, <1>3 DEF FormInv

LEMMA FormInductive == Spec => []FormInv
<1>1. FormInv /\ [Next]_vars => FormInv'
  BY TypeStep, ResetStep, SubmitStep, PutAppliedStep, PutFailsStep, PutDoneStep, QueryStep,
     GetDoneStep, ForeignStep, StutterForm DEF Next
<1>. QED BY <1>1, InitForm, PTL DEF Spec

-----------------------------------------------------------------------------

\* Every state is well typed.
THEOREM FormTypeCorrect == Spec => []TypeOK
<1>. QED BY FormInductive, PTL DEF FormInv

\* A save writes no key the administrator has not typed into (use-settings-form.ts:244).
THEOREM SavesWriteEditsOnly == Spec => SavesOnlyEdits
<1>1. FormInv => (PutApplied => key \in asked)
  BY DEF FormInv, EditShape, PutApplied
<1>. QED BY <1>1, FormInductive, PTL DEF SavesOnlyEdits

\* A clean field shows what the server keeps (use-settings-form.ts:207-221, 264-268).
THEOREM CleanFieldsShowServer == Spec => []CleanShowsServer
<1>1. FormInv => CleanShowsServer
  <2>. SUFFICES ASSUME FormInv, Quiet, ~behind, memo => foreign = 0 /\ mishaps = {},
                       NEW k \in Keys \ Dirty
                PROVE  Stored[input[k]] = server[k]
    BY DEF CleanShowsServer
  <2>1. input[k] = baseline[k]
    BY DEF Dirty
  <2>2. CASE memo
    BY <2>1, <2>2 DEF FormInv, MemoShape, Undisturbed, Quiet
  <2>3. CASE ~memo
    <3>1. baseline = server
      BY <2>3 DEF FormInv, UnmemoShape, QueryShape, Quiet
    <3>2. server[k] \in Kept
      BY DEF FormInv, TypeOK
    <3>. QED BY <2>1, <3>1, <3>2, KeptFacts
  <2>. QED BY <2>2, <2>3
<1>. QED BY <1>1, FormInductive, PTL

\* After a save the page has read what the server holds (use-update-option.ts:50).
THEOREM SavesAreRefreshed == Spec => []SaveIsRefreshed
<1>1. FormInv => SaveIsRefreshed
  BY DEF FormInv, QueryShape, RefreshShape, Undisturbed, SaveIsRefreshed, Quiet
<1>. QED BY <1>1, FormInductive, PTL

\* The refresh after a save resets nothing under the administrator's hands
\* (use-settings-form.ts:213, 267).
THEOREM EchoLeavesInput == Spec => EchoKeepsInput
<1>1. ASSUME FormInv, GetDone, memo, foreign = 0, mishaps = {}, put = "idle",
             \A k \in Keys : baseline[k] \in Kept
      PROVE  UNCHANGED input
  <2>1. \A k \in Keys : baseline[k] = answer[k]
    BY <1>1, EchoIsBaseline, KeptFacts DEF GetDone, Undisturbed
  <2>2. baseline = answer
    BY <1>1, <2>1 DEF FormInv, TypeOK, Options
  <2>. QED BY <1>1, <2>2 DEF GetDone, Effect, form
<1>. QED BY <1>1, FormInductive, PTL DEF EchoKeepsInput
=============================================================================
