------------------------------ MODULE Playground ------------------------------
(***************************************************************************)
(* The playground of the web console (features/playground): the list of    *)
(* messages, kept in the browser's storage as it changes, and the streams  *)
(* that answer. Whatever a stream delivers goes to the last message of the *)
(* list; all streams share one reference to the source and one completion  *)
(* flag (use-stream-request.ts).                                           *)
(*                                                                         *)
(* What the user sees, and what his clicks work on, is the page as it was  *)
(* rendered last. A stream's update is rendered some time later, his own   *)
(* before anything else happens. While the reference was set at that time, *)
(* the page counts as generating: the input, regenerate, edit and delete   *)
(* are off, the suggestions and an edit that is already open are not.      *)
(*                                                                         *)
(* Requests are streamed, as the default configuration has it. What a      *)
(* message contains is the set of requests whose answers went into it.     *)
(***************************************************************************)
EXTENDS Naturals, SequencesExt

CONSTANTS
  MaxRequests,   \* bound on the requests
  MaxOverlapped  \* bound on the requests once one is sent while another is generating

ASSUME PlaygroundAssumption == MaxRequests \in Nat \ {0} /\ MaxOverlapped \in Nat

VARIABLES
  messages,    \* the list: the component's state with all updates applied
  rendered,    \* the list and isGenerating as the handlers of the page see them
  editing,     \* the message being edited, None or its request and author
  source,      \* sseSourceRef: the request whose source it holds, or 0
  completed,   \* isStreamCompleteRef
  open,        \* requests whose connection still delivers
  requests,    \* how many requests there have been
  overlapped,  \* history: a request was sent while another was generating
  putBack      \* history: requests whose answer was finished when a click put it back unfinished

history == <<overlapped, putBack>>
vars == <<messages, rendered, editing, source, completed, open, requests, history>>

Requests == 1..MaxRequests
None == [from |-> "none", req |-> 0]

User(r) == [from |-> "user", req |-> r, status |-> "complete", holds |-> {}]
Loading(r) == [from |-> "assistant", req |-> r, status |-> "loading", holds |-> {}]
Finished(m) == m.status \in {"complete", "error"}
Key(m) == [from |-> m.from, req |-> m.req]

isGenerating == source # 0
Page == [messages |-> messages, generating |-> isGenerating]
Render == rendered' = Page'

Init ==
  /\ messages = <<>> /\ editing = None
  /\ source = 0 /\ completed = FALSE /\ open = {}
  /\ requests = 0 /\ overlapped = FALSE /\ putBack = {}
  /\ rendered = Page

-----------------------------------------------------------------------------
\* updateLastAssistantMessage, and the updates the handlers make with it.

\* Mutant: whatever the last message is.
LastIsAnswer_AnyRole(list) == list # <<>>

LastIsAnswer(list) == list # <<>> /\ list[Len(list)].from = "assistant"

UpdateLast(list, m) == IF LastIsAnswer(list) THEN [list EXCEPT ![Len(list)] = m] ELSE list

Received(m, r) ==
  IF m.status = "error" THEN m
  ELSE [m EXCEPT !.holds = @ \cup {r}, !.status = "streaming"]

Completed(m) == IF Finished(m) THEN m ELSE [m EXCEPT !.status = "complete"]

\* The text of the error replaces the content.
WithError(m) == [m EXCEPT !.status = "error", !.holds = {}]

-----------------------------------------------------------------------------
\* What the user does. The list is the one last rendered, whatever the streams
\* have made of it since.

shown == rendered.messages

\* Answers that are finished by now, and were not in the list that replaces them.
Revived(new) ==
  {m.req : m \in {x \in ToSet(new) :
                    ~Finished(x) /\ \E y \in ToSet(messages) : Key(y) = Key(x) /\ Finished(y)}}

\* sendChat with the new list; the stream may fail to start.
SendChat(new) ==
  LET r == requests + 1 IN
  /\ requests < MaxRequests /\ requests' = r
  /\ completed' = FALSE /\ overlapped' = (overlapped \/ isGenerating)
  /\ overlapped' => r <= MaxOverlapped
  /\ putBack' = putBack \cup Revived(new)
  /\ \/ /\ messages' = new /\ source' = r /\ open' = open \cup {r}
     \/ /\ messages' = UpdateLast(new, WithError(Last(new))) /\ source' = 0 /\ UNCHANGED open
  /\ Render

\* handleSendMessage: from the input, which is off while generating, or from a
\* suggestion, which is not.
SendMessage ==
  /\ SendChat(shown \o <<User(requests + 1), Loading(requests + 1)>>)
  /\ UNCHANGED editing

\* Mutant: guardAction lets everything through.
guardAction_Open == TRUE

guardAction == ~rendered.generating

Regenerate ==
  /\ guardAction
  /\ \E i \in 1..Len(shown) :
       /\ shown[i].from = "assistant" /\ Finished(shown[i])
       /\ SendChat(Append(SubSeq(shown, 1, i - 1), Loading(requests + 1)))
  /\ UNCHANGED editing

DeleteMessage ==
  /\ guardAction
  /\ \E i \in 1..Len(shown) :
       /\ messages' = RemoveAt(shown, i)
       /\ putBack' = putBack \cup Revived(RemoveAt(shown, i))
  /\ UNCHANGED <<editing, source, completed, open, requests, overlapped>>
  /\ Render

EditMessage ==
  /\ guardAction
  /\ \E m \in ToSet(shown) : editing' = Key(m)
  /\ UNCHANGED <<messages, source, completed, open, requests, history>>
  /\ Render

\* The edit of a message that is there, of any author, is saved or cancelled.
SaveEdit ==
  /\ editing' = None
  /\ \E i \in 1..Len(shown) :
       /\ Key(shown[i]) = editing
       /\ \/ UNCHANGED <<messages, putBack>>
          \/ /\ messages' = [shown EXCEPT ![i].holds = {}]
             /\ putBack' = putBack \cup Revived(shown)
  /\ UNCHANGED <<source, completed, open, requests, overlapped>>
  /\ Render

\* Save & Submit, of a user's message: what comes after it goes.
SubmitEdit ==
  /\ editing' = None
  /\ \E i \in 1..Len(shown) :
       /\ Key(shown[i]) = editing /\ shown[i].from = "user"
       /\ SendChat(Append(SubSeq(shown, 1, i), Loading(requests + 1)))

\* Mutant: stopping leaves the connection open.
Stop_StaysOpen ==
  /\ rendered.generating /\ source' = 0
  /\ messages' = UpdateLast(messages, Completed(Last(messages)))
  /\ UNCHANGED <<editing, open, completed, requests, history>>
  /\ Render

\* stopGeneration; the button is there while the page is generating. A list that
\* stays as it is need not be rendered.
Stop ==
  /\ rendered.generating /\ source' = 0 /\ open' = open \ {source}
  /\ messages' = UpdateLast(messages, Completed(Last(messages)))
  /\ UNCHANGED <<editing, completed, requests, history>>
  /\ Render \/ (~LastIsAnswer(messages) /\ UNCHANGED rendered)

-----------------------------------------------------------------------------
\* What a stream does: to the list as it is; it is rendered later.

Chunk(r) ==
  /\ r \in open
  /\ messages' = UpdateLast(messages, Received(Last(messages), r))
  /\ UNCHANGED <<rendered, editing, source, completed, open, requests, history>>

\* closeSource: the stream's own source, and whatever the reference holds.
CloseSource(r) == open' = open \ {r} /\ source' = 0

Done(r) ==
  /\ r \in open
  /\ completed' = TRUE /\ CloseSource(r)
  /\ messages' = UpdateLast(messages, Completed(Last(messages)))
  /\ UNCHANGED <<rendered, editing, requests, history>>

\* handleError: nothing when some stream has completed since the last start.
HandleError(r) ==
  /\ ~completed /\ CloseSource(r)
  /\ messages' = UpdateLast(messages, WithError(Last(messages)))

\* The connection fails, or the server answers with an error.
Fail(r) ==
  /\ r \in open
  /\ \/ HandleError(r)
     \/ completed /\ open' = open \ {r} /\ UNCHANGED <<messages, source>>
  /\ UNCHANGED <<rendered, editing, completed, requests, history>>

\* A chunk does not parse. What came with it is still delivered, after the error:
\* chunks, which the error status turns away, and perhaps the end.
ParseError(r) ==
  /\ r \in open /\ HandleError(r)
  /\ completed' \in {completed, TRUE}
  /\ UNCHANGED <<rendered, editing, requests, history>>

\* The connection ends without [DONE] and without an error: nobody is told.
HangUp(r) ==
  /\ r \in open /\ open' = open \ {r}
  /\ UNCHANGED <<messages, rendered, editing, source, completed, requests, history>>

-----------------------------------------------------------------------------

Stuck(l) == {i \in 1..Len(l) : ~Finished(l[i])}

\* sanitizeMessagesOnLoad: the last unfinished message is settled.
Sanitized(l) ==
  IF Stuck(l) = {} THEN l
  ELSE LET i == CHOOSE i \in Stuck(l) : \A j \in Stuck(l) : j <= i IN
       [l EXCEPT ![i] = IF @.holds # {} THEN [@ EXCEPT !.status = "complete"] ELSE WithError(@)]

\* Mutant: what is loaded is taken as it is.
Reload_AsStored ==
  /\ messages' \in {shown, messages} /\ editing' = None
  /\ source' = 0 /\ completed' = FALSE /\ open' = {}
  /\ UNCHANGED <<requests, history>>
  /\ Render

\* The page is left, or reloaded, and opened again. The list is stored as it is
\* updated, or no later than it is rendered. The streams are nobody's: one that
\* goes on, because the page was left inside the console, updates a component
\* that is gone.
Reload ==
  /\ \E l \in {shown, messages} : messages' = Sanitized(l)
  /\ editing' = None /\ source' = 0 /\ completed' = FALSE /\ open' = {}
  /\ UNCHANGED <<requests, history>>
  /\ Render

\* What has changed is rendered.
Rerender == UNCHANGED <<messages, editing, source, completed, open, requests, history>> /\ Render

Stream(r) == Chunk(r) \/ Done(r) \/ Fail(r) \/ ParseError(r) \/ HangUp(r)

Next ==
  \/ SendMessage \/ Regenerate \/ DeleteMessage \/ EditMessage \/ SaveEdit \/ SubmitEdit
  \/ Stop \/ Reload \/ Rerender
  \/ \E r \in Requests : Stream(r)

Spec == Init /\ [][Next]_vars

-----------------------------------------------------------------------------

Messages ==
  [from : {"user"}, req : Requests, status : {"complete"}, holds : {{}}]
  \cup [from : {"assistant"}, req : Requests, status : {"loading", "streaming", "complete", "error"},
        holds : SUBSET Requests]

TypeOK ==
  /\ messages \in Seq(Messages) /\ rendered \in [messages : Seq(Messages), generating : BOOLEAN]
  /\ editing \in [from : {"none", "user", "assistant"}, req : 0..MaxRequests]
  /\ source \in 0..requests /\ completed \in BOOLEAN
  /\ open \subseteq 1..requests /\ requests \in 0..MaxRequests
  /\ overlapped \in BOOLEAN /\ putBack \subseteq Requests

\* As long as requests do not overlap, an answer goes into the message made for
\* it, although the streams know nothing but the last one (message-utils.ts:196).
OwnAnswers ==
  ~overlapped => \A m \in ToSet(messages) : m.holds \subseteq {m.req}

\* An unfinished message is the last one and Stop is there to finish it: none is
\* left loading by an error, a stop, a lost connection, an edit or a reload. The
\* one way to leave it is a click between the end of an answer and its rendering
\* that puts the list of before back (index.tsx:120, 162).
UnfinishedCanBeStopped ==
  ~overlapped =>
    \A i \in Stuck(messages) :
      \/ i = Len(messages) /\ source = messages[i].req /\ rendered.generating
      \/ messages[i].req \in putBack

\* What the proofs carry along. The page shows the list, but for what streams
\* have done to its last message; it shows all of it when it is not generating.
InStep ==
  /\ Len(shown) = Len(messages)
  /\ \A i \in 1..Len(messages) :
       Key(shown[i]) = Key(messages[i]) /\ (i # Len(messages) => shown[i] = messages[i])
  /\ isGenerating => rendered.generating

\* While a request is generating, its message is the last one and unfinished, and
\* no other request's connection is open; none is once some stream has completed.
Generating ==
  /\ completed => ~isGenerating
  /\ \A r \in open : r = source
  /\ ~rendered.generating => shown = messages
  /\ isGenerating =>
       /\ LastIsAnswer(messages) /\ Last(messages).req = source
       /\ ~Finished(Last(messages)) /\ ~Finished(Last(shown))

AnswersInPlace ==
  \A i \in 1..Len(messages) :
    /\ messages[i].holds \subseteq {messages[i].req} /\ shown[i].holds \subseteq {shown[i].req}
    /\ ~Finished(messages[i]) => \/ i = Len(messages) /\ isGenerating
                                 \/ messages[i].req \in putBack

PInv == TypeOK /\ InStep /\ (~overlapped => Generating /\ AnswersInPlace)

\* A stream never changes a message that is finished: nothing comes late after a
\* stop, an error or a reload (use-chat-handler.ts:54, 84).
FinishedStays ==
  [][ (\E r \in Requests : Stream(r)) /\ ~overlapped =>
        \A i \in 1..Len(messages) : Finished(messages[i]) => messages'[i] = messages[i] ]_vars
=============================================================================
