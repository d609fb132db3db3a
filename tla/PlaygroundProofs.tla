--------------------------- MODULE PlaygroundProofs ---------------------------
(***************************************************************************)
(* The messages of the playground, for any number of requests: answers go  *)
(* into their own messages, an unfinished message can be stopped, and a    *)
(* finished one stays as it is, as long as no request is sent while        *)
(* another is generating and no click puts back what was rendered before   *)
(* an answer had ended.                                                    *)
(***************************************************************************)
EXTENDS Playground, SequenceTheorems, WellFoundedInduction, TLAPS

Statuses == {"loading", "streaming", "complete", "error"}

-----------------------------------------------------------------------------
\* Messages, and what the handlers make of one.

\* A message by its fields.
LEMMA MessageFields ==
  ASSUME NEW m \in Messages
  PROVE  /\ m.from \in {"user", "assistant"} /\ m.req \in Requests
         /\ m.status \in Statuses /\ m.holds \in SUBSET Requests
         /\ m.from = "user" => Finished(m) /\ m.holds = {}
BY DEF Messages, Statuses, Finished

LEMMA NewMessages ==
  ASSUME NEW r \in Requests
  PROVE  /\ User(r) \in Messages /\ Finished(User(r)) /\ User(r).holds = {}
         /\ Loading(r) \in Messages /\ ~Finished(Loading(r)) /\ Loading(r).holds = {}
         /\ Loading(r).from = "assistant" /\ Loading(r).req = r
BY DEF User, Loading, Messages, Finished

\* The end of an answer, and its error, leave it finished, with no more than it had.
LEMMA CompletedMessage ==
  ASSUME NEW m \in Messages, m.from = "assistant"
  PROVE  /\ Completed(m) \in Messages /\ Finished(Completed(m))
         /\ Completed(m).holds \subseteq m.holds /\ Key(Completed(m)) = Key(m)
<1>1. CASE Finished(m)
  BY <1>1 DEF Completed
<1>2. CASE ~Finished(m)
  <2>. DEFINE n == [m EXCEPT !.status = "complete"]
  <2>1. /\ n \in Messages /\ n.status = "complete" /\ n.holds = m.holds
        /\ n.req = m.req /\ n.from = m.from
    BY DEF Messages
  <2>2. Completed(m) = n
    BY <1>2 DEF Completed
  <2>. HIDE DEF n
  <2>. QED BY <2>1, <2>2 DEF Finished, Key
<1>. QED BY <1>1, <1>2

LEMMA WithErrorMessage ==
  ASSUME NEW m \in Messages, m.from = "assistant"
  PROVE  /\ WithError(m) \in Messages /\ Finished(WithError(m))
         /\ WithError(m).holds = {} /\ Key(WithError(m)) = Key(m)
<1>. DEFINE n == [m EXCEPT !.status = "error", !.holds = {}]
<1>1. n \in Messages /\ n.req = m.req /\ n.from = m.from /\ n.status = "error" /\ n.holds = {}
  BY DEF Messages
<1>2. WithError(m) = n
  BY DEF WithError
<1>. HIDE DEF n
<1>. QED BY <1>1, <1>2 DEF Finished, Key

\* A chunk of r makes an answer hold r too, unless it has failed.
LEMMA ReceivedMessage ==
  ASSUME NEW m \in Messages, m.from = "assistant", NEW r \in Requests
  PROVE  /\ Received(m, r) \in Messages /\ Key(Received(m, r)) = Key(m)
         /\ Received(m, r).holds \subseteq m.holds \cup {r}
         /\ ~Finished(m) => ~Finished(Received(m, r))
<1>1. CASE m.status = "error"
  BY <1>1 DEF Received, Finished
<1>2. CASE m.status # "error"
  <2>. DEFINE n == [m EXCEPT !.holds = @ \cup {r}, !.status = "streaming"]
  <2>1. /\ n \in Messages /\ n.from = "assistant" /\ n.req = m.req
        /\ n.status = "streaming" /\ n.holds = m.holds \cup {r}
    BY DEF Messages
  <2>2. Received(m, r) = n
    BY <1>2 DEF Received
  <2>. HIDE DEF n
  <2>. QED BY <2>1, <2>2 DEF Finished, Key
<1>. QED BY <1>1, <1>2

-----------------------------------------------------------------------------
\* Lists of messages.

LEMMA Item ==
  ASSUME NEW list \in Seq(Messages)
  PROVE  /\ Len(list) \in Nat /\ \A i \in 1..Len(list) : list[i] \in Messages
         /\ list # <<>> => Len(list) \in 1..Len(list)
         /\ ToSet(list) = {list[i] : i \in 1..Len(list)}
<1>1. Len(list) \in Nat /\ DOMAIN list = 1..Len(list) /\ \A i \in 1..Len(list) : list[i] \in Messages
  BY LenProperties, ElementOfSeq
<1>2. list # <<>> => Len(list) \in 1..Len(list)
  BY <1>1, EmptySeq
<1>. QED BY <1>1, <1>2 DEF ToSet

\* updateLastAssistantMessage changes the last message, if it is an answer.
LEMMA UpdateLastList ==
  ASSUME NEW list \in Seq(Messages), NEW m, LastIsAnswer(list) => m \in Messages
  PROVE  /\ UpdateLast(list, m) \in Seq(Messages)
         /\ Len(UpdateLast(list, m)) = Len(list)
         /\ \A i \in 1..Len(list) :
              UpdateLast(list, m)[i] = IF i = Len(list) /\ LastIsAnswer(list) THEN m ELSE list[i]
<1>1. CASE LastIsAnswer(list)
  <2>1. Len(list) \in 1..Len(list)
    BY <1>1, Item DEF LastIsAnswer
  <2>2. UpdateLast(list, m) = [list EXCEPT ![Len(list)] = m]
    BY <1>1 DEF UpdateLast
  <2>. QED BY <1>1, <2>1, <2>2, ExceptSeq
<1>2. CASE ~LastIsAnswer(list)
  BY <1>2 DEF UpdateLast
<1>. QED BY <1>1, <1>2

\* A list cut after its n-th message, with a new answer.
LEMMA CutAndLoad ==
  ASSUME NEW list \in Seq(Messages), NEW n \in 0..Len(list), NEW r \in Requests
  PROVE  LET new == Append(SubSeq(list, 1, n), Loading(r)) IN
         /\ new \in Seq(Messages) /\ Len(new) = n + 1 /\ new[n + 1] = Loading(r)
         /\ \A i \in 1..n : new[i] = list[i]
<1>. DEFINE front == SubSeq(list, 1, n)
<1>1. n \in Nat /\ n <= Len(list) /\ \A i \in 1..n : list[i] \in Messages
  BY Item
<1>2. front \in Seq(Messages) /\ Len(front) = n /\ \A i \in 1..n : front[i] = list[i]
  BY <1>1, SubSeqProperties
<1>. HIDE DEF front
<1>3. Loading(r) \in Messages
  BY NewMessages
<1>. QED BY <1>1, <1>2, <1>3, AppendProperties DEF front

\* A list with a question and a new answer.
LEMMA AskAndLoad ==
  ASSUME NEW list \in Seq(Messages), NEW r \in Requests
  PROVE  LET new == list \o <<User(r), Loading(r)>> IN
         /\ new \in Seq(Messages) /\ Len(new) = Len(list) + 2
         /\ new[Len(list) + 2] = Loading(r) /\ new[Len(list) + 1] = User(r)
         /\ \A i \in 1..Len(list) : new[i] = list[i]
<1>. DEFINE q == <<User(r), Loading(r)>>
<1>1. q \in Seq(Messages) /\ Len(q) = 2 /\ q[1] = User(r) /\ q[2] = Loading(r)
  BY NewMessages
<1>2. Len(list) \in Nat
  BY Item
<1>. HIDE DEF q
<1>3. /\ list \o q \in Seq(Messages) /\ Len(list \o q) = Len(list) + 2
      /\ \A i \in 1..(Len(list) + 2) :
           (list \o q)[i] = IF i <= Len(list) THEN list[i] ELSE q[i - Len(list)]
  <2>1. /\ list \o q \in Seq(Messages) /\ Len(list \o q) = Len(list) + Len(q)
        /\ \A i \in 1..(Len(list) + Len(q)) :
             (list \o q)[i] = IF i <= Len(list) THEN list[i] ELSE q[i - Len(list)]
    BY <1>1, ConcatProperties
  <2>. QED BY <1>1, <1>2, <2>1
<1>. QED BY <1>1, <1>2, <1>3 DEF q

\* A list without its i-th message.
LEMMA RemoveAtList ==
  ASSUME NEW list \in Seq(Messages), NEW i \in 1..Len(list)
  PROVE  /\ RemoveAt(list, i) \in Seq(Messages)
         /\ \A j \in 1..Len(RemoveAt(list, i)) :
              \E k \in 1..Len(list) : RemoveAt(list, i)[j] = list[k]
<1>. DEFINE l == Len(list)
            front == SubSeq(list, 1, i - 1)
            back == SubSeq(list, i + 1, l)
<1>1. l \in Nat /\ \A k \in 1..l : list[k] \in Messages
  BY Item
<1>2. /\ front \in Seq(Messages) /\ Len(front) = i - 1
      /\ \A k \in 1..(i - 1) : front[k] = list[k]
  <2>1. \A k \in 1..(i - 1) : list[k] \in Messages
    BY <1>1
  <2>2. Len(front) = IF 1 <= i - 1 THEN i - 1 - 1 + 1 ELSE 0
    BY <1>1, <2>1, SubSeqProperties
  <2>3. front \in Seq(Messages) /\ \A k \in 1..(i - 1 - 1 + 1) : front[k] = list[1 + k - 1]
    BY <1>1, <2>1, SubSeqProperties
  <2>. HIDE DEF front
  <2>. QED BY <1>1, <2>2, <2>3
<1>3. /\ back \in Seq(Messages) /\ Len(back) = l - i
      /\ \A k \in 1..(l - i) : back[k] = list[i + k]
  <2>1. \A k \in (i + 1)..l : list[k] \in Messages
    BY <1>1
  <2>2. Len(back) = IF i + 1 <= l THEN l - (i + 1) + 1 ELSE 0
    BY <1>1, <2>1, SubSeqProperties
  <2>3. back \in Seq(Messages) /\ \A k \in 1..(l - (i + 1) + 1) : back[k] = list[i + 1 + k - 1]
    BY <1>1, <2>1, SubSeqProperties
  <2>. HIDE DEF back
  <2>. QED BY <1>1, <2>2, <2>3
<1>4. RemoveAt(list, i) = front \o back
  BY DEF RemoveAt
<1>. HIDE DEF front, back
<1>5. /\ front \o back \in Seq(Messages) /\ Len(front \o back) = l - 1
      /\ \A j \in 1..(l - 1) :
           (front \o back)[j] = IF j <= i - 1 THEN front[j] ELSE back[j - (i - 1)]
  <2>1. /\ front \o back \in Seq(Messages) /\ Len(front \o back) = Len(front) + Len(back)
        /\ \A j \in 1..(Len(front) + Len(back)) :
             (front \o back)[j] = IF j <= Len(front) THEN front[j] ELSE back[j - Len(front)]
    BY <1>2, <1>3, ConcatProperties
  <2>. QED BY <1>1, <1>2, <1>3, <2>1
<1>6. ASSUME NEW j \in 1..(l - 1) PROVE \E k \in 1..l : (front \o back)[j] = list[k]
  <2>1. CASE j <= i - 1
    BY <1>1, <1>2, <1>5, <2>1
  <2>2. CASE j > i - 1
    <3>1. j - (i - 1) \in 1..(l - i) /\ j + 1 \in 1..l /\ i + (j - (i - 1)) = j + 1
      BY <1>1, <2>2
    <3>2. (front \o back)[j] = list[j + 1]
      BY <1>1, <1>3, <1>5, <2>2, <3>1
    <3>. QED BY <3>1, <3>2
  <2>3. j <= i - 1 \/ j > i - 1
    BY <1>1
  <2>. QED BY <2>1, <2>2, <2>3
<1>. QED BY <1>4, <1>5, <1>6

\* A nonempty set of positions has a last one.
LEMMA LastPosition ==
  ASSUME NEW n \in Nat, NEW S, S \subseteq 1..n, S # {}
  PROVE  \E i \in S : \A j \in S : j <= i
<1>. DEFINE R == OpToRel(<, Nat)
            T == {n - i : i \in S}
<1>1. IsWellFoundedOn(R, Nat)
  BY NatLessThanWellFounded
<1>2. \A x, y \in Nat : <<x, y>> \in R <=> x < y
  BY DEF OpToRel
<1>. HIDE DEF R
<1>3. T \subseteq Nat /\ T # {}
  <2>1. \A i \in S : n - i \in Nat
    OBVIOUS
  <2>2. PICK i \in S : TRUE
    OBVIOUS
  <2>3. n - i \in T
    OBVIOUS
  <2>4. T \subseteq Nat
    BY <2>1
  <2>. QED BY <2>3, <2>4
<1>4. PICK x \in T : \A y \in T : ~ (<<y, x>> \in R)
  <2>. HIDE DEF T
  <2>. QED BY <1>1, <1>3, WFMin, Zenon
<1>5. PICK i \in S : x = n - i
  OBVIOUS
<1>6. ASSUME NEW j \in S PROVE j <= i
  <2>1. n - j \in T /\ n - j \in Nat /\ x \in Nat
    BY <1>3
  <2>2. ~ (n - j < x)
    BY <1>2, <1>4, <2>1
  <2>. QED BY <1>5, <2>2
<1>. QED BY <1>6

\* What is loaded: the last unfinished message is settled, the others are as they were.
LEMMA SanitizedList ==
  ASSUME NEW list \in Seq(Messages), Stuck(list) # {}
  PROVE  /\ Sanitized(list) \in Seq(Messages) /\ Len(Sanitized(list)) = Len(list)
         /\ \E i \in Stuck(list) :
              /\ Finished(Sanitized(list)[i])
              /\ Sanitized(list)[i].holds \subseteq list[i].holds
              /\ Sanitized(list)[i].req = list[i].req
              /\ \A j \in 1..Len(list) : j # i => Sanitized(list)[j] = list[j]
              /\ \A j \in Stuck(list) : j <= i
<1>. DEFINE i == CHOOSE k \in Stuck(list) : \A j \in Stuck(list) : j <= k
            m == list[i]
            n == IF m.holds # {} THEN [m EXCEPT !.status = "complete"] ELSE WithError(m)
<1>1. i \in Stuck(list) /\ \A j \in Stuck(list) : j <= i
  <2>1. Stuck(list) \subseteq 1..Len(list) /\ Len(list) \in Nat
    BY Item DEF Stuck
  <2>2. \E k \in Stuck(list) : \A j \in Stuck(list) : j <= k
    <3>1. \A S : S \subseteq 1..Len(list) /\ S # {} => \E k \in S : \A j \in S : j <= k
      BY <2>1, LastPosition
    <3>. QED BY <2>1, <3>1, Zenon
  <2>. QED BY <2>2, Zenon
<1>2. i \in 1..Len(list) /\ m \in Messages /\ ~Finished(m)
  <2>. HIDE DEF i
  <2>. QED BY <1>1, Item DEF Stuck
<1>3. Sanitized(list) = [list EXCEPT ![i] = n]
  <2>1. Sanitized(list) =
          [list EXCEPT ![i] = IF list[i].holds # {} THEN [list[i] EXCEPT !.status = "complete"]
                              ELSE WithError(list[i])]
    BY DEF Sanitized
  <2>. HIDE DEF i
  <2>. QED BY <2>1
<1>. HIDE DEF i
<1>4. n \in Messages /\ Finished(n) /\ n.holds \subseteq m.holds /\ n.req = m.req
  <2>1. m.from = "assistant"
    BY <1>2, MessageFields
  <2>2. CASE m.holds # {}
    <3>. DEFINE c == [m EXCEPT !.status = "complete"]
    <3>1. c \in Messages /\ c.status = "complete" /\ c.holds = m.holds /\ c.req = m.req
      <4>. HIDE DEF m
      <4>. QED BY <1>2, <2>1 DEF Messages
    <3>. QED BY <2>2, <3>1 DEF Finished
  <2>3. CASE m.holds = {}
    BY <1>2, <2>1, <2>3, WithErrorMessage DEF Key
  <2>. QED BY <2>2, <2>3
<1>. HIDE DEF n
<1>. QED BY <1>1, <1>2, <1>3, <1>4, ExceptSeq

\* An end or an error settles the last message, and adds nothing to it.
LEMMA SettledList ==
  ASSUME NEW list \in Seq(Messages),
         NEW m, m = Completed(Last(list)) \/ m = WithError(Last(list))
  PROVE  LET new == UpdateLast(list, m) IN
         /\ new \in Seq(Messages) /\ Len(new) = Len(list)
         /\ \A i \in 1..Len(list) :
              /\ i # Len(list) => new[i] = list[i]
              /\ i = Len(list) => Finished(new[i])
              /\ new[i].holds \subseteq list[i].holds /\ Key(new[i]) = Key(list[i])
<1>. DEFINE last == list[Len(list)]
            new == UpdateLast(list, m)
<1>1. CASE LastIsAnswer(list)
  <2>1. last \in Messages /\ last.from = "assistant" /\ Last(list) = last
    BY <1>1, Item DEF LastIsAnswer, Last
  <2>2. /\ m \in Messages /\ Finished(m) /\ m.holds \subseteq last.holds /\ Key(m) = Key(last)
    <3>1. CASE m = Completed(last)
      BY <2>1, <3>1, CompletedMessage
    <3>2. CASE m = WithError(last)
      BY <2>1, <3>2, WithErrorMessage
    <3>. QED BY <2>1, <3>1, <3>2
  <2>3. /\ new \in Seq(Messages) /\ Len(new) = Len(list)
        /\ \A i \in 1..Len(list) : new[i] = IF i = Len(list) THEN m ELSE list[i]
    BY <1>1, <2>2, UpdateLastList
  <2>. HIDE DEF new
  <2>. QED BY <2>2, <2>3 DEF new
<1>2. CASE ~LastIsAnswer(list)
  <2>1. new = list
    BY <1>2 DEF UpdateLast
  <2>2. ASSUME NEW i \in 1..Len(list), i = Len(list) PROVE Finished(list[i])
    <3>1. list[i] \in Messages /\ list[i].from # "assistant"
      BY <1>2, <2>2, Item, EmptySeq DEF LastIsAnswer
    <3>. QED BY <3>1, MessageFields
  <2>. QED BY <2>1, <2>2
<1>. QED BY <1>1, <1>2

-----------------------------------------------------------------------------
\* What the invariant says while nothing is generating, and while something is.

EditKeys == [from : {"none", "user", "assistant"}, req : 0..MaxRequests]

LEMMA NoneIsKey == None \in EditKeys
<1>1. 0 \in 0..MaxRequests
  BY PlaygroundAssumption
<1>. QED BY <1>1 DEF None, EditKeys

\* What the invariant says of the list, when no request has overlapped.
Calm ==
  /\ completed => ~isGenerating
  /\ \A r \in open : r = source
  /\ isGenerating =>
       LastIsAnswer(messages) /\ Last(messages).req = source /\ ~Finished(Last(messages))
  /\ \A i \in 1..Len(messages) :
       /\ messages[i].holds \subseteq {messages[i].req}
       /\ ~Finished(messages[i]) => \/ i = Len(messages) /\ isGenerating
                                    \/ messages[i].req \in putBack

LEMMA Calms == PInv /\ ~overlapped => Calm
BY DEF PInv, Generating, AnswersInPlace, Calm

\* The two lists are lists of messages with the same keys.
LEMMA Lists ==
  ASSUME PInv
  PROVE  /\ messages \in Seq(Messages) /\ shown \in Seq(Messages) /\ Len(shown) = Len(messages)
         /\ Len(messages) \in Nat /\ rendered.generating \in BOOLEAN
         /\ \A i \in 1..Len(messages) :
              /\ shown[i] \in Messages /\ messages[i] \in Messages
              /\ shown[i].req = messages[i].req /\ shown[i].from = messages[i].from
<1>1. messages \in Seq(Messages) /\ rendered \in [messages : Seq(Messages), generating : BOOLEAN]
  BY DEF PInv, TypeOK
<1>2. shown \in Seq(Messages) /\ rendered.generating \in BOOLEAN
  BY <1>1, Zenon DEF shown
<1>3. Len(shown) = Len(messages) /\ \A i \in 1..Len(messages) : Key(shown[i]) = Key(messages[i])
  BY DEF PInv, InStep
<1>. QED BY <1>1, <1>2, <1>3, Item DEF Key

LEMMA Quiet ==
  ASSUME PInv, ~overlapped, ~isGenerating
  PROVE  source = 0 /\ open = {}
<1>1. source = 0 /\ open \subseteq 1..requests /\ requests \in Nat
  BY DEF PInv, TypeOK, isGenerating
<1>2. \A r \in open : r = 0
  BY <1>1 DEF PInv, Generating
<1>. QED BY <1>1, <1>2

LEMMA Busy ==
  ASSUME PInv, ~overlapped, isGenerating
  PROVE  LET l == Len(messages) IN
         /\ l \in 1..l /\ LastIsAnswer(messages) /\ messages[l].from = "assistant"
         /\ ~Finished(messages[l]) /\ messages[l].req = source /\ Last(messages) = messages[l]
         /\ ~Finished(shown[l]) /\ Last(shown) = shown[l]
         /\ ~completed /\ \A r \in open : r = source
<1>1. messages \in Seq(Messages) /\ Generating /\ LastIsAnswer(messages) /\ Len(shown) = Len(messages)
  BY Lists DEF PInv, Generating
<1>. QED BY <1>1, Item DEF Generating, LastIsAnswer, Last

LEMMA Delivering ==
  ASSUME PInv, ~overlapped, NEW r \in open
  PROVE  isGenerating /\ r = source /\ ~completed /\ open \ {r} = {} /\ rendered.generating
<1>1. r = source /\ r # 0 /\ \A x \in open : x = r
  <2>1. open \subseteq 1..requests /\ requests \in Nat
    BY DEF PInv, TypeOK
  <2>. QED BY <2>1 DEF PInv, Generating
<1>. QED BY <1>1 DEF isGenerating, PInv, Generating, InStep

\* A message of the page that is unfinished: the request of the last one is
\* generating, or it has been put back, or the list it is in puts it back.
LEMMA ShownItem ==
  ASSUME PInv, ~overlapped, NEW i \in 1..Len(shown), NEW new, shown[i] \in ToSet(new)
  PROVE  /\ shown[i].holds \subseteq {shown[i].req}
         /\ ~Finished(shown[i]) => \/ i = Len(shown) /\ isGenerating
                                   \/ shown[i].req \in putBack \cup Revived(new)
<1>1. /\ i \in 1..Len(messages) /\ Len(shown) = Len(messages)
      /\ shown[i].req = messages[i].req /\ Key(shown[i]) = Key(messages[i])
  BY Lists DEF Key
<1>2. messages[i] \in ToSet(messages)
  BY <1>1, Lists, Item
<1>3. /\ shown[i].holds \subseteq {shown[i].req}
      /\ ~Finished(messages[i]) => \/ i = Len(messages) /\ isGenerating
                                   \/ messages[i].req \in putBack
  BY <1>1 DEF PInv, AnswersInPlace
<1>4. ASSUME ~Finished(shown[i]), Finished(messages[i]) PROVE shown[i].req \in Revived(new)
  BY <1>1, <1>2, <1>4 DEF Revived
<1>. QED BY <1>1, <1>3, <1>4

LEMMA RevivedRequests ==
  ASSUME NEW new \in Seq(Messages) PROVE Revived(new) \subseteq Requests
<1>1. \A x \in ToSet(new) : x.req \in Requests
  BY Item, MessageFields
<1>. QED BY <1>1 DEF Revived

\* A step that ends with the page rendered.
LEMMA RenderStep ==
  ASSUME PInv, messages' \in Seq(Messages), editing' \in EditKeys, requests' \in 0..MaxRequests,
         source' \in 0..requests', open' \subseteq 1..requests', completed' \in BOOLEAN,
         overlapped' \in BOOLEAN, putBack' \subseteq Requests, Render, ~overlapped' => Calm'
  PROVE  PInv'
<1>. DEFINE g == source' # 0
<1>0. g \in BOOLEAN /\ rendered' = [messages |-> messages', generating |-> g]
  BY Zenon DEF Render, Page, isGenerating
<1>. HIDE DEF g
<1>1. /\ rendered' \in [messages : Seq(Messages), generating : BOOLEAN]
      /\ shown' = messages' /\ rendered'.generating = g
  BY <1>0 DEF shown
<1>2. TypeOK'
  BY <1>1, Zenon DEF TypeOK, EditKeys
<1>3. isGenerating' <=> rendered'.generating
  BY <1>1 DEF g, isGenerating
<1>4. InStep'
  BY <1>1, <1>3 DEF InStep
<1>5. ASSUME ~overlapped' PROVE Generating' /\ AnswersInPlace'
  BY <1>1, <1>5 DEF Calm, Generating, AnswersInPlace
<1>. QED BY <1>2, <1>4, <1>5 DEF PInv

\* A step of a stream: it changes the last message of the list, and no more than
\* that of the page's.
LEMMA StreamStep ==
  ASSUME PInv, NEW r \in open, NEW m,
         LastIsAnswer(messages) => m \in Messages /\ Key(m) = Key(messages[Len(messages)]),
         messages' = UpdateLast(messages, m),
         source' \in {source, 0}, open' \subseteq open, completed' \in BOOLEAN,
         UNCHANGED <<rendered, editing, requests, history>>, ~overlapped => Calm'
  PROVE  PInv'
<1>1. /\ messages' \in Seq(Messages) /\ Len(messages') = Len(messages) /\ Len(messages) \in Nat
      /\ \A i \in 1..Len(messages) :
           Key(messages'[i]) = Key(messages[i]) /\ (i # Len(messages) => messages'[i] = messages[i])
  BY Lists, UpdateLastList
<1>2. shown' = shown /\ rendered' = rendered /\ overlapped' = overlapped /\ putBack' = putBack
  BY DEF history, shown
<1>3. TypeOK'
  <2>1. source' \in 0..requests /\ requests' = requests /\ editing' = editing /\ open' \subseteq 1..requests
    BY DEF PInv, TypeOK
  <2>. QED BY <1>1, <1>2, <2>1 DEF PInv, TypeOK
<1>4. isGenerating' => isGenerating /\ source' = source
  BY DEF isGenerating
<1>5. InStep'
  BY <1>1, <1>2, <1>4 DEF PInv, InStep
<1>6. ASSUME ~overlapped PROVE Generating' /\ AnswersInPlace'
  <2>1. rendered.generating
    BY <1>6, Delivering
  <2>2. Generating'
    BY <1>2, <1>4, <1>6, <2>1 DEF Calm, PInv, Generating
  <2>3. AnswersInPlace'
    BY <1>1, <1>2, <1>6 DEF Calm, PInv, AnswersInPlace
  <2>. QED BY <2>2, <2>3
<1>. QED BY <1>2, <1>3, <1>5, <1>6 DEF PInv

\* What settles the last message leaves only what was put back.
LEMMA CalmAfter ==
  ASSUME PInv, ~overlapped,
         NEW m, m = Completed(Last(messages)) \/ m = WithError(Last(messages)),
         messages' = UpdateLast(messages, m), putBack' = putBack, source' = 0, open' = {}
  PROVE  Calm'
<1>1. messages \in Seq(Messages)
  BY Lists
<1>2. ASSUME NEW i \in 1..Len(messages)
      PROVE  /\ messages[i].holds \subseteq {messages[i].req}
             /\ i # Len(messages) /\ ~Finished(messages[i]) => messages[i].req \in putBack
  BY <1>2 DEF PInv, AnswersInPlace
<1>3. /\ Len(messages') = Len(messages)
      /\ \A i \in 1..Len(messages) :
           /\ i # Len(messages) => messages'[i] = messages[i]
           /\ i = Len(messages) => Finished(messages'[i])
           /\ messages'[i].holds \subseteq messages[i].holds /\ messages'[i].req = messages[i].req
  BY <1>1, SettledList DEF Key
<1>. QED BY <1>2, <1>3 DEF Calm, isGenerating

-----------------------------------------------------------------------------
\* Every step keeps the invariant.

LEMMA InitPInv == Init => PInv
<1>. SUFFICES ASSUME Init PROVE PInv
  OBVIOUS
<1>1. messages = <<>> /\ messages \in Seq(Messages) /\ Len(messages) = 0 /\ source = 0
  BY EmptySeq DEF Init
<1>2. rendered = [messages |-> <<>>, generating |-> FALSE]
  BY <1>1 DEF Init, Page, isGenerating
<1>3. TypeOK
  <2>1. 0 \in 0..MaxRequests /\ 0 \in 0..0 /\ {} \subseteq Requests
    BY PlaygroundAssumption
  <2>2. rendered \in [messages : Seq(Messages), generating : BOOLEAN]
    BY <1>1, <1>2
  <2>. QED BY <1>1, <2>1, <2>2, NoneIsKey, Zenon DEF Init, TypeOK, EditKeys
<1>4. InStep
  BY <1>1, <1>2 DEF InStep, shown, isGenerating
<1>5. Generating /\ AnswersInPlace
  BY <1>1, <1>2 DEF Init, Generating, AnswersInPlace, shown, isGenerating
<1>. QED BY <1>3, <1>4, <1>5 DEF PInv

\* sendChat with a list that ends in the new answer.
LEMMA SendPInv ==
  ASSUME PInv, NEW list \in Seq(Messages), NEW n \in Nat, Len(list) = n + 1,
         list[n + 1] = Loading(requests + 1),
         ~overlapped /\ ~isGenerating =>
           \A i \in 1..n :
             /\ list[i].holds \subseteq {list[i].req}
             /\ ~Finished(list[i]) => list[i].req \in putBack \cup Revived(list),
         SendChat(list), editing' \in EditKeys
  PROVE  PInv'
<1>. DEFINE r == requests + 1
<1>1. /\ requests \in Nat /\ r \in Requests /\ requests' = r /\ requests < MaxRequests
      /\ r \in 1..r /\ MaxRequests \in Nat /\ r # 0
  BY PlaygroundAssumption DEF PInv, TypeOK, SendChat, Requests
<1>2. overlapped' \in BOOLEAN /\ (~overlapped' => ~overlapped /\ ~isGenerating)
  <2>1. overlapped \in BOOLEAN
    BY DEF PInv, TypeOK
  <2>2. overlapped' = (overlapped \/ isGenerating)
    BY DEF SendChat
  <2>. QED BY <2>1, <2>2
<1>3. Loading(r) \in Messages /\ ~Finished(Loading(r)) /\ Loading(r).holds = {}
      /\ Loading(r).from = "assistant" /\ Loading(r).req = r
  BY <1>1, NewMessages
<1>4. completed' = FALSE /\ open \subseteq 1..requests
  BY DEF SendChat, PInv, TypeOK
<1>5. putBack' = putBack \cup Revived(list) /\ putBack' \subseteq Requests /\ Render
  BY RevivedRequests DEF SendChat, PInv, TypeOK
<1>6. CASE messages' = list /\ source' = r /\ open' = open \cup {r}
  <2>1. source' \in 0..requests' /\ open' \subseteq 1..requests' /\ requests' \in 0..MaxRequests
    <3>1. open \subseteq 1..r /\ r \in 0..MaxRequests /\ r \in 0..r /\ {r} \subseteq 1..r
      BY <1>1, <1>4
    <3>. HIDE DEF r
    <3>. QED BY <1>1, <1>6, <3>1
  <2>2. ASSUME ~overlapped' PROVE Calm'
    <3>1. open = {}
      BY <1>2, <2>2, Quiet
    <3>2. LastIsAnswer(list) /\ Last(list) = Loading(r)
      <4>1. list # <<>>
        BY EmptySeq
      <4>. QED BY <1>3, <4>1 DEF LastIsAnswer, Last
    <3>3. isGenerating'
      BY <1>1, <1>6 DEF isGenerating
    <3>4. \A i \in 1..(n + 1) : i = n + 1 \/ i \in 1..n
      OBVIOUS
    <3>5. \A i \in 1..n : /\ list[i].holds \subseteq {list[i].req}
                          /\ ~Finished(list[i]) => list[i].req \in putBack'
      BY <1>2, <1>5, <2>2
    <3>6. \A i \in 1..(n + 1) :
            /\ list[i].holds \subseteq {list[i].req}
            /\ ~Finished(list[i]) => i = n + 1 \/ list[i].req \in putBack'
      BY <1>3, <3>4, <3>5
    <3>. HIDE DEF r
    <3>. QED BY <1>3, <1>4, <1>6, <3>1, <3>2, <3>3, <3>6 DEF Calm
  <2>. QED BY <1>2, <1>4, <1>5, <1>6, <2>1, <2>2, RenderStep
<1>7. CASE messages' = UpdateLast(list, WithError(Last(list))) /\ source' = 0 /\ open' = open
  <2>1. /\ messages' \in Seq(Messages) /\ Len(messages') = n + 1
        /\ \A i \in 1..(n + 1) :
             /\ i # n + 1 => messages'[i] = list[i]
             /\ i = n + 1 => Finished(messages'[i])
             /\ messages'[i].holds \subseteq list[i].holds /\ messages'[i].req = list[i].req
    <3>1. LET new == UpdateLast(list, WithError(Last(list))) IN
          /\ new \in Seq(Messages) /\ Len(new) = Len(list)
          /\ \A i \in 1..Len(list) :
               /\ i # Len(list) => new[i] = list[i]
               /\ i = Len(list) => Finished(new[i])
               /\ new[i].holds \subseteq list[i].holds /\ Key(new[i]) = Key(list[i])
      BY SettledList
    <3>2. \A x, y : Key(x) = Key(y) => x.req = y.req
      BY DEF Key
    <3>. QED BY <1>7, <3>1, <3>2
  <2>2. source' \in 0..requests' /\ open' \subseteq 1..requests' /\ requests' \in 0..MaxRequests
    BY <1>1, <1>4, <1>7
  <2>3. ASSUME ~overlapped', NEW i \in 1..(n + 1)
        PROVE  /\ messages'[i].holds \subseteq {messages'[i].req}
               /\ ~Finished(messages'[i]) => messages'[i].req \in putBack'
    <3>1. CASE i = n + 1
      <4>1. messages'[i].holds \subseteq {}
        BY <1>3, <2>1, <3>1
      <4>. QED BY <2>1, <3>1, <4>1
    <3>2. CASE i # n + 1
      <4>1. i \in 1..n
        BY <3>2
      <4>. QED BY <1>2, <1>5, <2>1, <2>3, <3>2, <4>1
    <3>. QED BY <3>1, <3>2
  <2>4. ASSUME ~overlapped' PROVE Calm'
    <3>1. open = {}
      BY <1>2, <2>4, Quiet
    <3>. QED BY <1>4, <1>7, <2>1, <2>3, <2>4, <3>1 DEF Calm, isGenerating
  <2>. QED BY <1>2, <1>4, <1>5, <2>1, <2>2, <2>4, RenderStep
<1>. QED BY <1>6, <1>7 DEF SendChat

LEMMA SendMessagePInv == PInv /\ SendMessage => PInv'
<1>. SUFFICES ASSUME PInv, SendMessage PROVE PInv'
  OBVIOUS
<1>. DEFINE r == requests + 1
            list == shown \o <<User(r), Loading(r)>>
            n == Len(shown) + 1
<1>1. shown \in Seq(Messages) /\ editing' \in EditKeys /\ Len(shown) \in Nat
  BY Lists DEF PInv, TypeOK, SendMessage, EditKeys
<1>2. r \in Requests
  BY PlaygroundAssumption DEF PInv, TypeOK, SendMessage, SendChat, Requests
<1>3. /\ list \in Seq(Messages) /\ Len(list) = n + 1 /\ list[n + 1] = Loading(r)
      /\ list[n] = User(r) /\ \A i \in 1..Len(shown) : list[i] = shown[i]
  BY <1>1, <1>2, AskAndLoad
<1>4. SendChat(list)
  BY DEF SendMessage
<1>. HIDE DEF list
<1>5. ASSUME ~overlapped, ~isGenerating, NEW i \in 1..n
      PROVE  /\ list[i].holds \subseteq {list[i].req}
             /\ ~Finished(list[i]) => list[i].req \in putBack \cup Revived(list)
  <2>1. i = n \/ i \in 1..Len(shown)
    BY <1>1
  <2>2. CASE i = n
    BY <1>2, <1>3, <2>2, NewMessages
  <2>3. CASE i \in 1..Len(shown)
    <3>1. list[i] = shown[i] /\ list[i] \in ToSet(list)
      BY <1>1, <1>3, <2>3, Item
    <3>. QED BY <1>5, <2>3, <3>1, ShownItem
  <2>. QED BY <2>1, <2>2, <2>3
<1>6. n \in Nat
  BY <1>1
<1>. HIDE DEF n
<1>. QED BY <1>1, <1>3, <1>4, <1>5, <1>6, SendPInv

\* The list is cut after its n-th message: Regenerate and SubmitEdit.
LEMMA CutPInv ==
  ASSUME PInv, NEW n \in 0..Len(shown), editing' \in EditKeys,
         SendChat(Append(SubSeq(shown, 1, n), Loading(requests + 1)))
  PROVE  PInv'
<1>. DEFINE r == requests + 1
            list == Append(SubSeq(shown, 1, n), Loading(r))
<1>1. shown \in Seq(Messages) /\ Len(shown) \in Nat /\ n \in Nat /\ n <= Len(shown)
  BY Lists
<1>2. r \in Requests
  BY PlaygroundAssumption DEF PInv, TypeOK, SendChat, Requests
<1>3. /\ list \in Seq(Messages) /\ Len(list) = n + 1 /\ list[n + 1] = Loading(r)
      /\ \A i \in 1..n : list[i] = shown[i]
  BY <1>1, <1>2, CutAndLoad
<1>. HIDE DEF list
<1>4. ASSUME ~overlapped, ~isGenerating, NEW i \in 1..n
      PROVE  /\ list[i].holds \subseteq {list[i].req}
             /\ ~Finished(list[i]) => list[i].req \in putBack \cup Revived(list)
  <2>1. i \in 1..Len(shown) /\ i \in 1..Len(list)
    BY <1>1, <1>3
  <2>2. list[i] = shown[i] /\ list[i] \in ToSet(list)
    BY <1>3, <2>1, Item
  <2>. QED BY <1>4, <2>1, <2>2, ShownItem
<1>. QED BY <1>1, <1>3, <1>4, SendPInv DEF list

LEMMA RegeneratePInv == PInv /\ Regenerate => PInv'
<1>. SUFFICES ASSUME PInv, Regenerate PROVE PInv'
  OBVIOUS
<1>1. Len(shown) \in Nat /\ editing' \in EditKeys
  BY Lists DEF PInv, TypeOK, Regenerate, EditKeys
<1>2. PICK i \in 1..Len(shown) :
        SendChat(Append(SubSeq(shown, 1, i - 1), Loading(requests + 1)))
  BY DEF Regenerate
<1>3. i - 1 \in 0..Len(shown)
  BY <1>1
<1>. QED BY <1>1, <1>2, <1>3, CutPInv

LEMMA SubmitEditPInv == PInv /\ SubmitEdit => PInv'
<1>. SUFFICES ASSUME PInv, SubmitEdit PROVE PInv'
  OBVIOUS
<1>1. Len(shown) \in Nat /\ editing' \in EditKeys
  BY Lists, NoneIsKey DEF SubmitEdit
<1>2. PICK i \in 1..Len(shown) :
        SendChat(Append(SubSeq(shown, 1, i), Loading(requests + 1)))
  BY DEF SubmitEdit
<1>3. i \in 0..Len(shown)
  BY <1>1
<1>. QED BY <1>1, <1>2, <1>3, CutPInv

LEMMA DeletePInv == PInv /\ DeleteMessage => PInv'
<1>. SUFFICES ASSUME PInv, DeleteMessage PROVE PInv'
  OBVIOUS
<1>1. PICK i \in 1..Len(shown) :
        /\ messages' = RemoveAt(shown, i) /\ putBack' = putBack \cup Revived(messages')
  BY DEF DeleteMessage
<1>2. shown \in Seq(Messages)
  BY Lists
<1>3. /\ messages' \in Seq(Messages)
      /\ \A j \in 1..Len(messages') : \E k \in 1..Len(shown) : messages'[j] = shown[k]
  BY <1>1, <1>2, RemoveAtList
<1>4. ~isGenerating
  BY DEF DeleteMessage, guardAction, PInv, InStep
<1>5. ASSUME ~overlapped PROVE Calm'
  <2>1. source' = 0 /\ open' = {}
    BY <1>4, <1>5, Quiet DEF DeleteMessage
  <2>2. ASSUME NEW j \in 1..Len(messages')
        PROVE  /\ messages'[j].holds \subseteq {messages'[j].req}
               /\ ~Finished(messages'[j]) => messages'[j].req \in putBack'
    <3>1. messages'[j] \in ToSet(messages')
      BY <1>3, Item
    <3>2. PICK k \in 1..Len(shown) : messages'[j] = shown[k]
      BY <1>3
    <3>. QED BY <1>1, <1>4, <1>5, <3>1, <3>2, ShownItem
  <2>. QED BY <2>1, <2>2 DEF Calm, isGenerating
<1>6. putBack' \subseteq Requests
  BY <1>1, <1>3, RevivedRequests DEF PInv, TypeOK
<1>7. /\ editing' \in EditKeys /\ source' \in 0..requests' /\ open' \subseteq 1..requests'
      /\ completed' \in BOOLEAN /\ requests' \in 0..MaxRequests /\ overlapped' = overlapped
      /\ overlapped \in BOOLEAN /\ Render
  BY DEF PInv, TypeOK, DeleteMessage, EditKeys
<1>. QED BY <1>3, <1>5, <1>6, <1>7, RenderStep

\* A step that moves nothing but what is being edited, and renders the page.
LEMMA EditOnly ==
  ASSUME PInv, editing' \in EditKeys, Render,
         UNCHANGED <<messages, source, completed, open, requests, history>>
  PROVE  PInv'
<1>1. /\ messages' \in Seq(Messages) /\ source' \in 0..requests' /\ open' \subseteq 1..requests'
      /\ completed' \in BOOLEAN /\ requests' \in 0..MaxRequests /\ overlapped' \in BOOLEAN
      /\ putBack' \subseteq Requests
  BY DEF PInv, TypeOK, history
<1>2. ~overlapped' => Calm'
  <2>1. ~overlapped => Calm
    BY Calms
  <2>. QED BY <2>1 DEF Calm, isGenerating, history
<1>. QED BY <1>1, <1>2, RenderStep

LEMMA EditMessagePInv == PInv /\ EditMessage => PInv'
<1>. SUFFICES ASSUME PInv, EditMessage PROVE PInv'
  OBVIOUS
<1>1. shown \in Seq(Messages)
  BY Lists
<1>2. PICK m \in Messages : editing' = Key(m)
  BY <1>1, Item DEF EditMessage
<1>3. editing' \in EditKeys
  BY <1>2, MessageFields, PlaygroundAssumption DEF Key, EditKeys, Requests
<1>. QED BY <1>3, EditOnly DEF EditMessage

LEMMA SaveEditPInv == PInv /\ SaveEdit => PInv'
<1>. SUFFICES ASSUME PInv, SaveEdit PROVE PInv'
  OBVIOUS
<1>1. shown \in Seq(Messages) /\ editing' \in EditKeys
  BY Lists, NoneIsKey DEF SaveEdit
<1>2. CASE UNCHANGED <<messages, putBack>>
  BY <1>1, <1>2, EditOnly DEF SaveEdit, history
<1>3. ASSUME NEW i \in 1..Len(shown), messages' = [shown EXCEPT ![i].holds = {}],
             putBack' = putBack \cup Revived(shown)
      PROVE  PInv'
  <2>. DEFINE m == shown[i]
              n == [m EXCEPT !.holds = {}]
  <2>1. m \in Messages
    BY <1>1, Item
  <2>2. n \in Messages /\ n.from = m.from /\ n.req = m.req /\ n.holds = {} /\ n.status = m.status
    <3>. HIDE DEF m
    <3>. QED BY <2>1 DEF Messages
  <2>3. messages' = [shown EXCEPT ![i] = n]
    BY <1>3
  <2>. HIDE DEF n
  <2>4. /\ messages' \in Seq(Messages) /\ Len(messages') = Len(shown)
        /\ \A j \in 1..Len(shown) : messages'[j] = IF j = i THEN n ELSE shown[j]
    BY <1>1, <2>2, <2>3, ExceptSeq
  <2>5. ASSUME NEW j \in 1..Len(shown)
        PROVE  /\ messages'[j].from = shown[j].from /\ messages'[j].req = shown[j].req
               /\ Finished(messages'[j]) <=> Finished(shown[j])
               /\ messages'[j].holds \subseteq shown[j].holds
    BY <2>2, <2>4 DEF Finished
  <2>6. ASSUME ~overlapped PROVE Calm'
    <3>1. ASSUME NEW j \in 1..Len(messages')
          PROVE  /\ messages'[j].holds \subseteq {messages'[j].req}
                 /\ ~Finished(messages'[j]) => \/ j = Len(messages') /\ isGenerating
                                               \/ messages'[j].req \in putBack'
      <4>1. j \in 1..Len(shown) /\ shown[j] \in ToSet(shown)
        BY <1>1, <2>4, Item
      <4>2. /\ shown[j].holds \subseteq {shown[j].req}
            /\ ~Finished(shown[j]) => \/ j = Len(shown) /\ isGenerating
                                      \/ shown[j].req \in putBack \cup Revived(shown)
        BY <2>6, <4>1, ShownItem
      <4>. QED BY <1>3, <2>4, <2>5, <4>1, <4>2
    <3>2. ASSUME isGenerating
          PROVE  /\ LastIsAnswer(messages') /\ Last(messages').req = source
                 /\ ~Finished(Last(messages')) /\ ~completed
      <4>. DEFINE l == Len(messages)
      <4>1. /\ l \in 1..l /\ messages[l].from = "assistant" /\ messages[l].req = source
            /\ ~Finished(shown[l]) /\ ~completed
        BY <2>6, <3>2, Busy
      <4>2. Len(shown) = l /\ shown[l].from = "assistant" /\ shown[l].req = source
        BY <4>1, Lists
      <4>3. messages' # <<>> /\ Len(messages') = l
        BY <2>4, <4>1, <4>2, EmptySeq
      <4>. QED BY <2>5, <4>1, <4>2, <4>3 DEF LastIsAnswer, Last
    <3>3. isGenerating' <=> isGenerating
      BY DEF SaveEdit, isGenerating
    <3>4. \A r \in open' : r = source'
      BY <2>6 DEF PInv, Generating, SaveEdit
    <3>5. completed' = completed /\ source' = source /\ (~isGenerating \/ ~completed)
      BY <3>2 DEF SaveEdit
    <3>. QED BY <3>1, <3>2, <3>3, <3>4, <3>5 DEF Calm
  <2>7. putBack' \subseteq Requests
    BY <1>1, <1>3, RevivedRequests DEF PInv, TypeOK
  <2>8. /\ source' \in 0..requests' /\ open' \subseteq 1..requests' /\ completed' \in BOOLEAN
        /\ requests' \in 0..MaxRequests /\ overlapped' = overlapped /\ overlapped \in BOOLEAN /\ Render
    BY DEF PInv, TypeOK, SaveEdit
  <2>. QED BY <1>1, <2>4, <2>6, <2>7, <2>8, RenderStep
<1>. QED BY <1>2, <1>3 DEF SaveEdit

LEMMA StopPInv == PInv /\ Stop => PInv'
<1>. SUFFICES ASSUME PInv, Stop PROVE PInv'
  OBVIOUS
<1>1. /\ messages \in Seq(Messages) /\ messages' = UpdateLast(messages, Completed(Last(messages)))
      /\ overlapped' = overlapped /\ putBack' = putBack /\ source' = 0
  BY Lists DEF Stop, history
<1>2. messages' \in Seq(Messages)
  BY <1>1, SettledList
<1>3. ASSUME ~overlapped PROVE Calm'
  <2>1. open' = {}
    BY <1>3 DEF PInv, Generating, Stop
  <2>. QED BY <1>1, <1>3, <2>1, CalmAfter
<1>4. /\ editing' \in EditKeys /\ source' \in 0..requests' /\ open' \subseteq 1..requests'
      /\ completed' \in BOOLEAN /\ requests' \in 0..MaxRequests /\ overlapped' \in BOOLEAN
      /\ putBack' \subseteq Requests
  BY <1>1 DEF PInv, TypeOK, Stop, EditKeys
<1>5. CASE Render
  BY <1>1, <1>2, <1>3, <1>4, <1>5, RenderStep
<1>6. CASE ~LastIsAnswer(messages) /\ UNCHANGED rendered
  <2>1. messages' = messages /\ shown' = shown /\ rendered' = rendered
    BY <1>1, <1>6 DEF UpdateLast, shown
  <2>2. TypeOK'
    BY <1>4, <2>1 DEF PInv, TypeOK, EditKeys
  <2>3. ~isGenerating' /\ rendered'.generating
    BY <1>1, <2>1 DEF isGenerating, Stop
  <2>4. InStep'
    BY <2>1, <2>3 DEF PInv, InStep
  <2>5. ASSUME ~overlapped PROVE Generating' /\ AnswersInPlace'
    BY <1>1, <1>3, <2>1, <2>3, <2>5 DEF Calm, Generating, AnswersInPlace, PInv
  <2>. QED BY <1>1, <2>2, <2>4, <2>5 DEF PInv
<1>. QED BY <1>5, <1>6 DEF Stop

\* What is loaded has nothing unfinished but what was put back.
LEMMA LoadedList ==
  ASSUME PInv, NEW l \in {shown, messages}
  PROVE  /\ Sanitized(l) \in Seq(Messages)
         /\ ~overlapped =>
              \A i \in 1..Len(Sanitized(l)) :
                /\ Sanitized(l)[i].holds \subseteq {Sanitized(l)[i].req}
                /\ ~Finished(Sanitized(l)[i]) => Sanitized(l)[i].req \in putBack
<1>. DEFINE new == Sanitized(l)
<1>1. /\ l \in Seq(Messages) /\ Len(l) = Len(messages) /\ Len(l) \in Nat
      /\ \A i \in 1..Len(l) : i # Len(l) => l[i] = messages[i]
  BY Lists DEF PInv, InStep
<1>2. ASSUME ~overlapped, NEW i \in 1..Len(l)
      PROVE  /\ l[i].holds \subseteq {l[i].req}
             /\ ~Finished(l[i]) /\ i # Len(l) => l[i].req \in putBack
  BY <1>1, <1>2 DEF PInv, AnswersInPlace
<1>3. CASE Stuck(l) = {}
  <2>1. new = l /\ \A i \in 1..Len(l) : Finished(l[i])
    BY <1>3 DEF Sanitized, Stuck
  <2>. QED BY <1>1, <1>2, <2>1
<1>4. CASE Stuck(l) # {}
  <2>1. /\ new \in Seq(Messages) /\ Len(new) = Len(l)
    BY <1>1, <1>4, SanitizedList
  <2>2. PICK i \in Stuck(l) :
          /\ Finished(new[i]) /\ new[i].holds \subseteq l[i].holds /\ new[i].req = l[i].req
          /\ \A j \in 1..Len(l) : j # i => new[j] = l[j]
          /\ \A j \in Stuck(l) : j <= i
    BY <1>1, <1>4, SanitizedList
  <2>. HIDE DEF new
  <2>3. ASSUME ~overlapped, NEW j \in 1..Len(l)
        PROVE  new[j].holds \subseteq {new[j].req} /\ (~Finished(new[j]) => new[j].req \in putBack)
    <3>1. i \in 1..Len(l)
      BY DEF Stuck
    <3>2. CASE j = i
      BY <1>2, <2>2, <2>3, <3>1, <3>2
    <3>3. CASE j # i
      <4>1. new[j] = l[j]
        BY <2>2, <3>3
      <4>2. ~Finished(l[j]) => j <= i /\ j # Len(l)
        BY <1>1, <2>2, <3>1, <3>3 DEF Stuck
      <4>. QED BY <1>2, <2>3, <4>1, <4>2
    <3>. QED BY <3>2, <3>3
  <2>. QED BY <2>1, <2>3 DEF new
<1>. QED BY <1>3, <1>4

LEMMA ReloadPInv == PInv /\ Reload => PInv'
<1>. SUFFICES ASSUME PInv, Reload PROVE PInv'
  OBVIOUS
<1>1. PICK l \in {shown, messages} : messages' = Sanitized(l)
  BY DEF Reload
<1>2. /\ editing' = None /\ source' = 0 /\ open' = {} /\ completed' = FALSE /\ Render
      /\ requests' = requests /\ overlapped' = overlapped /\ putBack' = putBack
  BY DEF Reload, history
<1>3. messages' \in Seq(Messages)
  BY <1>1, LoadedList
<1>4. ASSUME ~overlapped PROVE Calm'
  <2>1. \A i \in 1..Len(messages') :
          /\ messages'[i].holds \subseteq {messages'[i].req}
          /\ ~Finished(messages'[i]) => messages'[i].req \in putBack'
    BY <1>1, <1>2, <1>4, LoadedList
  <2>. QED BY <1>2, <2>1 DEF Calm, isGenerating
<1>5. /\ editing' \in EditKeys /\ source' \in 0..requests' /\ open' \subseteq 1..requests'
      /\ completed' \in BOOLEAN /\ requests' \in 0..MaxRequests /\ overlapped' \in BOOLEAN
      /\ putBack' \subseteq Requests
  <2>1. editing' \in EditKeys /\ open' \subseteq 1..requests' /\ completed' \in BOOLEAN
    BY <1>2, NoneIsKey
  <2>2. requests \in 0..MaxRequests /\ overlapped \in BOOLEAN /\ putBack \subseteq Requests
    BY DEF PInv, TypeOK
  <2>3. source' \in 0..requests'
    BY <1>2, <2>2
  <2>. QED BY <1>2, <2>1, <2>2, <2>3
<1>. QED BY <1>2, <1>3, <1>4, <1>5, RenderStep

LEMMA ChunkPInv == ASSUME PInv, NEW r \in Requests, Chunk(r) PROVE PInv'
<1>. DEFINE m == Received(Last(messages), r)
            l == Len(messages)
<1>1. messages \in Seq(Messages) /\ messages' = UpdateLast(messages, m) /\ l \in Nat /\ r \in open
  BY Lists DEF Chunk
<1>2. ASSUME LastIsAnswer(messages)
      PROVE  /\ m \in Messages /\ Key(m) = Key(messages[l])
             /\ m.holds \subseteq messages[l].holds \cup {r}
             /\ ~Finished(messages[l]) => ~Finished(m)
  <2>1. messages[l] \in Messages /\ messages[l].from = "assistant" /\ Last(messages) = messages[l]
    BY <1>1, <1>2, Item DEF LastIsAnswer, Last
  <2>. QED BY <2>1, ReceivedMessage
<1>. HIDE DEF m
<1>3. /\ messages' \in Seq(Messages) /\ Len(messages') = l
      /\ \A i \in 1..l : messages'[i] = IF i = l /\ LastIsAnswer(messages) THEN m ELSE messages[i]
  BY <1>1, <1>2, UpdateLastList
<1>4. ASSUME ~overlapped PROVE Calm'
  <2>1. isGenerating /\ r = source
    BY <1>1, <1>4, Delivering
  <2>2. /\ l \in 1..l /\ LastIsAnswer(messages) /\ ~completed /\ messages[l].from = "assistant"
        /\ ~Finished(messages[l]) /\ messages[l].req = source /\ \A x \in open : x = source
    BY <1>4, <2>1, Busy
  <2>3. messages'[l] = m /\ \A i \in 1..l : i # l => messages'[i] = messages[i]
    BY <1>3, <2>2
  <2>4. \A i \in 1..l :
          /\ messages[i].holds \subseteq {messages[i].req}
          /\ ~Finished(messages[i]) => i = l \/ messages[i].req \in putBack
    BY <1>4 DEF PInv, AnswersInPlace
  <2>5. ~Finished(m) /\ m.req = source /\ m.from = "assistant" /\ m.holds \subseteq {m.req}
    BY <1>2, <2>1, <2>2, <2>4 DEF Key
  <2>6. LastIsAnswer(messages') /\ Last(messages') = m
    <3>1. messages' # <<>>
      BY <1>3, <2>2, EmptySeq
    <3>. QED BY <1>3, <2>3, <2>5, <3>1 DEF LastIsAnswer, Last
  <2>7. /\ isGenerating' /\ source' = source /\ completed' = completed /\ open' = open
        /\ putBack' = putBack
    BY <2>1 DEF Chunk, isGenerating, history
  <2>. QED BY <1>3, <2>2, <2>3, <2>4, <2>5, <2>6, <2>7 DEF Calm
<1>5. source' = source /\ open' = open /\ completed' \in BOOLEAN
      /\ UNCHANGED <<rendered, editing, requests, history>>
  BY DEF Chunk, PInv, TypeOK
<1>. QED BY <1>1, <1>2, <1>4, <1>5, StreamStep

\* The end of a stream or its error: the last message is settled and the
\* reference to the source is gone.
LEMMA SettlePInv ==
  ASSUME PInv, NEW r \in open, CloseSource(r),
         NEW m, m = Completed(Last(messages)) \/ m = WithError(Last(messages)),
         messages' = UpdateLast(messages, m), completed' \in BOOLEAN,
         UNCHANGED <<rendered, editing, requests, history>>
  PROVE  PInv'
<1>1. ASSUME ~overlapped PROVE Calm'
  BY <1>1, Delivering, CalmAfter DEF CloseSource, history
<1>2. ASSUME LastIsAnswer(messages)
      PROVE  m \in Messages /\ Key(m) = Key(messages[Len(messages)])
  <2>1. /\ Last(messages) \in Messages /\ Last(messages).from = "assistant"
        /\ Last(messages) = messages[Len(messages)]
    BY <1>2, Lists, Item DEF LastIsAnswer, Last
  <2>. QED BY <2>1, CompletedMessage, WithErrorMessage
<1>3. source' \in {source, 0} /\ open' \subseteq open
  BY DEF CloseSource
<1>. QED BY <1>1, <1>2, <1>3, StreamStep

\* A connection ends, and nothing else.
LEMMA HangUpPInv ==
  ASSUME PInv, NEW r, open' = open \ {r},
         UNCHANGED <<messages, rendered, editing, source, completed, requests, history>>
  PROVE  PInv'
BY DEF PInv, TypeOK, InStep, Generating, AnswersInPlace, isGenerating, shown, history

LEMMA StreamPInv == ASSUME PInv, NEW r \in Requests, Stream(r) PROVE PInv'
<1>0. completed \in BOOLEAN
  BY DEF PInv, TypeOK
<1>1. CASE Chunk(r)
  BY <1>1, ChunkPInv
<1>2. CASE Done(r)
  BY <1>2, SettlePInv DEF Done
<1>3. CASE Fail(r)
  <2>1. CASE HandleError(r)
    BY <1>0, <1>3, <2>1, SettlePInv DEF Fail, HandleError
  <2>2. CASE ~HandleError(r)
    BY <1>3, <2>2, HangUpPInv DEF Fail
  <2>. QED BY <2>1, <2>2
<1>4. CASE ParseError(r)
  <2>1. completed' \in BOOLEAN
    BY <1>0, <1>4 DEF ParseError
  <2>. QED BY <1>4, <2>1, SettlePInv DEF ParseError, HandleError
<1>5. CASE HangUp(r)
  BY <1>5, HangUpPInv DEF HangUp
<1>. QED BY <1>1, <1>2, <1>3, <1>4, <1>5 DEF Stream

LEMMA NextPInv == PInv /\ [Next]_vars => PInv'
<1>. SUFFICES ASSUME PInv, [Next]_vars PROVE PInv'
  OBVIOUS
<1>1. CASE UNCHANGED vars
  BY <1>1 DEF vars, history, PInv, TypeOK, InStep, Generating, AnswersInPlace, isGenerating, shown
<1>2. CASE \E r \in Requests : Stream(r)
  BY <1>2, StreamPInv
<1>3. CASE Rerender
  <2>1. editing' \in EditKeys
    BY <1>3 DEF Rerender, PInv, TypeOK, EditKeys
  <2>. QED BY <1>3, <2>1, EditOnly DEF Rerender
<1>. QED BY <1>1, <1>2, <1>3, SendMessagePInv, RegeneratePInv, DeletePInv, EditMessagePInv,
            SaveEditPInv, SubmitEditPInv, StopPInv, ReloadPInv DEF Next

\* The inductive invariant: the page shows the list but for its last message;
\* while a request is generating, its own message is the last one, unfinished,
\* and no other stream delivers; other unfinished ones were put back.
THEOREM PlaygroundInductive == Spec => []PInv
<1>. QED BY InitPInv, NextPInv, PTL DEF Spec

\* Every state is well typed: the list, whatever is sent, cut, edited, deleted or
\* loaded, is a list of messages (the Message type of types.ts).
THEOREM PlaygroundTypeCorrect == Spec => []TypeOK
<1>1. PInv => TypeOK
  BY DEF PInv
<1>. QED BY <1>1, PlaygroundInductive, PTL

\* As long as requests do not overlap, an answer goes into the message made for
\* it (message-utils.ts:196 knows only the last one).
THEOREM AnswersAreTheirOwn == Spec => []OwnAnswers
<1>1. ASSUME PInv, ~overlapped, NEW m \in ToSet(messages) PROVE m.holds \subseteq {m.req}
  <2>1. PICK i \in 1..Len(messages) : m = messages[i]
    BY <1>1, Item DEF PInv, TypeOK
  <2>. QED BY <1>1, <2>1 DEF PInv, AnswersInPlace
<1>2. PInv => OwnAnswers
  BY <1>1 DEF OwnAnswers
<1>. QED BY <1>2, PlaygroundInductive, PTL

\* An unfinished message is the last one, and Stop is there to finish it: none is
\* left loading by an error, a stop, a lost connection, an edit or a reload, but
\* by the click that puts back what was rendered before an answer had ended
\* (index.tsx:120, 162).
THEOREM StopFinishes == Spec => []UnfinishedCanBeStopped
<1>1. ASSUME PInv, ~overlapped, NEW i \in Stuck(messages)
      PROVE  \/ i = Len(messages) /\ source = messages[i].req /\ rendered.generating
             \/ messages[i].req \in putBack
  <2>1. \/ i = Len(messages) /\ isGenerating
        \/ messages[i].req \in putBack
    BY <1>1 DEF Stuck, PInv, AnswersInPlace
  <2>2. isGenerating => rendered.generating /\ messages[Len(messages)].req = source
    BY <1>1, Busy DEF PInv, InStep
  <2>. QED BY <2>1, <2>2
<1>2. PInv => UnfinishedCanBeStopped
  BY <1>1 DEF UnfinishedCanBeStopped
<1>. QED BY <1>2, PlaygroundInductive, PTL

\* What a stream delivers while requests do not overlap changes only the last
\* message, which is unfinished.
LEMMA StreamKeepsFinished ==
  ASSUME PInv, ~overlapped, NEW r \in Requests, Stream(r),
         NEW i \in 1..Len(messages), Finished(messages[i])
  PROVE  messages'[i] = messages[i]
<1>1. messages \in Seq(Messages) /\ r \in open
  BY DEF PInv, TypeOK, Stream, Chunk, Done, Fail, ParseError, HangUp
<1>2. i # Len(messages) /\ LastIsAnswer(messages)
  BY <1>1, Delivering, Busy
<1>3. messages' = messages \/ \E m : messages' = UpdateLast(messages, m)
  BY DEF Stream, Chunk, Done, Fail, ParseError, HangUp, HandleError
<1>4. ASSUME NEW m PROVE UpdateLast(messages, m)[i] = messages[i]
  <2>1. UpdateLast(messages, m) = [messages EXCEPT ![Len(messages)] = m]
    BY <1>2 DEF UpdateLast
  <2>2. DOMAIN messages = 1..Len(messages)
    BY <1>1, LenProperties
  <2>. QED BY <1>2, <2>1, <2>2
<1>. QED BY <1>3, <1>4

\* A finished message stays as it is whatever the streams deliver: nothing comes
\* late after a stop, an error or a reload (use-chat-handler.ts:54, 84).
THEOREM FinishedStay == Spec => FinishedStays
<1>1. PInv /\ [Next]_vars
        => [ (\E r \in Requests : Stream(r)) /\ ~overlapped =>
               \A i \in 1..Len(messages) : Finished(messages[i]) => messages'[i] = messages[i] ]_vars
  BY StreamKeepsFinished
<1>. QED BY <1>1, PlaygroundInductive, PTL DEF Spec, FinishedStays
===============================================================================
