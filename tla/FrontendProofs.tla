--------------------------- MODULE FrontendProofs ---------------------------
(***************************************************************************)
(* What Frontend promises for any operations, files and ids and any number *)
(* of messages: a session stands still under an operation, an abort        *)
(* reaches its own operation only, the events of sessions pair up, and no  *)
(* message is lost, said twice unseen or edited in the place of another.   *)
(***************************************************************************)
EXTENDS Frontend, SequenceTheorems, TLAPS

Recursion == INSTANCE RecursionProofs

-----------------------------------------------------------------------------
(* The messages of a queue. *)

Items == [id : Nat, text : SUBSET Nat]

\* A message is in a queue when it is in one of its items.
LEMMA InQueue ==
  ASSUME NEW queue \in Seq(Items), NEW m
  PROVE  m \in Messages(queue) <=> \E i \in 1 .. Len(queue) : m \in queue[i].text
PROOF
<1>1. DOMAIN queue = 1 .. Len(queue)
  OBVIOUS
<1> QED
  BY <1>1 DEF Messages

\* Two queues, one after the other.
LEMMA MessagesConcat ==
  ASSUME NEW p \in Seq(Items), NEW q \in Seq(Items)
  PROVE  Messages(p \o q) = Messages(p) \cup Messages(q)
PROOF
<1>1. p \o q \in Seq(Items) /\ Len(p \o q) = Len(p) + Len(q)
  OBVIOUS
<1>2. \A i \in 1 .. Len(p) : (p \o q)[i] = p[i]
  OBVIOUS
<1>3. \A i \in 1 .. Len(q) : (p \o q)[Len(p) + i] = q[i]
  OBVIOUS
<1>4. ASSUME NEW m, m \in Messages(p \o q)
      PROVE  m \in Messages(p) \cup Messages(q)
  <2>1. PICK i \in 1 .. Len(p \o q) : m \in (p \o q)[i].text
    BY <1>1, <1>4, InQueue
  <2>2. CASE i <= Len(p)
    BY <1>2, <2>1, <2>2, InQueue
  <2>3. CASE i > Len(p)
    <3>1. i - Len(p) \in 1 .. Len(q) /\ i = Len(p) + (i - Len(p))
      BY <1>1, <2>3
    <3>2. m \in q[i - Len(p)].text
      BY <1>3, <2>1, <3>1
    <3> QED
      BY <3>1, <3>2, InQueue
  <2> QED
    BY <2>2, <2>3
<1>5. ASSUME NEW m, m \in Messages(p)
      PROVE  m \in Messages(p \o q)
  <2>1. PICK i \in 1 .. Len(p) : m \in p[i].text
    BY <1>5, InQueue
  <2>2. i \in 1 .. Len(p \o q) /\ m \in (p \o q)[i].text
    BY <1>1, <1>2, <2>1
  <2> QED
    BY <1>1, <2>2, InQueue
<1>6. ASSUME NEW m, m \in Messages(q)
      PROVE  m \in Messages(p \o q)
  <2>1. PICK i \in 1 .. Len(q) : m \in q[i].text
    BY <1>6, InQueue
  <2>2. Len(p) + i \in 1 .. Len(p \o q) /\ m \in (p \o q)[Len(p) + i].text
    BY <1>1, <1>3, <2>1
  <2> QED
    BY <1>1, <2>2, InQueue
<1> QED
  BY <1>4, <1>5, <1>6

\* One more item.
LEMMA MessagesAppend ==
  ASSUME NEW queue \in Seq(Items), NEW item \in Items
  PROVE  Messages(Append(queue, item)) = Messages(queue) \cup item.text
PROOF
<1>1. <<item>> \in Seq(Items) /\ Len(<<item>>) = 1 /\ <<item>>[1] = item
  OBVIOUS
<1>2. Append(queue, item) = queue \o <<item>>
  OBVIOUS
<1>3. Messages(<<item>>) = item.text
  BY <1>1 DEF Messages
<1> QED
  BY <1>1, <1>2, <1>3, MessagesConcat

\* A queue cut in two.
LEMMA MessagesSplit ==
  ASSUME NEW queue \in Seq(Items), NEW n \in 0 .. Len(queue)
  PROVE  /\ SubSeq(queue, 1, n) \in Seq(Items)
         /\ SubSeq(queue, n + 1, Len(queue)) \in Seq(Items)
         /\ Messages(queue) = Messages(SubSeq(queue, 1, n))
                                \cup Messages(SubSeq(queue, n + 1, Len(queue)))
PROOF
<1> DEFINE a == SubSeq(queue, 1, n)
           b == SubSeq(queue, n + 1, Len(queue))
<1>1. a \in Seq(Items) /\ b \in Seq(Items)
  BY SMTT(100)
<1>2. queue = a \o b
  <2>1. Len(queue) \in Nat /\ 1 \in 1 .. Len(queue) + 1 /\ n \in 1 - 1 .. Len(queue)
        /\ Len(queue) \in n .. Len(queue)
    OBVIOUS
  <2>2. SubSeq(queue, 1, n) \o SubSeq(queue, n + 1, Len(queue)) = SubSeq(queue, 1, Len(queue))
    BY <2>1, ConcatAdjacentSubSeq
  <2>3. SubSeq(queue, 1, Len(queue)) = queue
    BY SubSeqFull
  <2> QED
    BY <2>2, <2>3, ZenonT(60)
<1> QED
  BY <1>1, <1>2, MessagesConcat

\* An item taken out of a queue.
LEMMA MessagesRemoved ==
  ASSUME NEW queue \in Seq(Items), NEW i \in 1 .. Len(queue)
  PROVE  Messages(queue) = Messages(RemoveAt(queue, i)) \cup queue[i].text
PROOF
<1> DEFINE a == SubSeq(queue, 1, i - 1)
           b == SubSeq(queue, i, Len(queue))
           c == SubSeq(queue, i + 1, Len(queue))
<1>1. a \in Seq(Items) /\ b \in Seq(Items) /\ c \in Seq(Items) /\ queue[i] \in Items
  OBVIOUS
<1>2. queue = a \o b
  OBVIOUS
<1>3. b = <<queue[i]>> \o c
  OBVIOUS
<1>4. <<queue[i]>> \in Seq(Items) /\ Messages(<<queue[i]>>) = queue[i].text
  BY <1>1 DEF Messages
<1>5. RemoveAt(queue, i) = a \o c
  BY DEF RemoveAt
<1>6. Messages(queue) = Messages(a) \cup Messages(b)
  BY <1>1, <1>2, MessagesConcat
<1>7. Messages(b) = queue[i].text \cup Messages(c)
  BY <1>1, <1>3, <1>4, MessagesConcat
<1>8. Messages(RemoveAt(queue, i)) = Messages(a) \cup Messages(c)
  BY <1>1, <1>5, MessagesConcat
<1> QED
  BY <1>6, <1>7, <1>8

\* An item with another text has it.
LEMMA TextReplaced ==
  ASSUME NEW queue \in Seq(Items), NEW i \in 1 .. Len(queue), NEW text \in SUBSET Nat
  PROVE  text \subseteq Messages(Replaced(queue, i, text))
PROOF
<1>1. queue[i] \in Items /\ DOMAIN Replaced(queue, i, text) = 1 .. Len(queue)
  BY DEF Replaced
<1>2. Replaced(queue, i, text)[i] = [queue[i] EXCEPT !.text = text]
  BY DEF Replaced
<1>3. Replaced(queue, i, text)[i].text = text
  BY <1>1, <1>2 DEF Items
<1> QED
  BY <1>1, <1>3 DEF Messages

\* An item with another text.
LEMMA MessagesReplaced ==
  ASSUME NEW queue \in Seq(Items), NEW i \in 1 .. Len(queue), NEW text \in SUBSET Nat
  PROVE  Messages(queue) \cup text \subseteq Messages(Replaced(queue, i, text)) \cup queue[i].text
PROOF
<1> DEFINE new == Replaced(queue, i, text)
<1>1. DOMAIN queue = 1 .. Len(queue)
  OBVIOUS
<1>2. DOMAIN new = 1 .. Len(queue)
  BY <1>1 DEF Replaced
<1>3. \A j \in 1 .. Len(queue) : j # i => new[j] = queue[j]
  BY <1>1 DEF Replaced
<1>4. new[i].text = text
  <2>1. queue[i] \in Items
    OBVIOUS
  <2>2. new[i] = [queue[i] EXCEPT !.text = text]
    BY <1>1 DEF Replaced
  <2> QED
    BY <2>1, <2>2 DEF Items
<1>5. \A m : m \in Messages(new) <=> \E j \in 1 .. Len(queue) : m \in new[j].text
  BY <1>2 DEF Messages
<1>6. text \subseteq Messages(new)
  BY <1>4, <1>5
<1>7. ASSUME NEW m, m \in Messages(queue)
      PROVE  m \in Messages(new) \cup queue[i].text
  <2>1. PICK j \in 1 .. Len(queue) : m \in queue[j].text
    BY <1>7, InQueue
  <2> QED
    BY <1>3, <1>5, <2>1
<1> QED
  BY <1>6, <1>7

-----------------------------------------------------------------------------
(* Operations, aborts and sessions. *)

\* The phases in which a session is made, or nothing runs, are not busy.
LEMMA NotBusy == phase \in {"boot", "idle", "left"} => ~Busy
PROOF
  BY OperationsAssumption DEF Busy, Turn

\* No step changes the session while something is in flight.
LEMMA StandsStillStep == [Next]_vars => (session' # session => ~Busy /\ ~Busy')
PROOF
<1> SUFFICES ASSUME Next, session' # session PROVE ~Busy /\ ~Busy'
  BY DEF vars, sessions
<1> USE DEF sessions, control
<1>1. CASE Bootstrap
  <2>1. phase = "boot" /\ phase' \in {"idle", "left"}
    BY <1>1 DEF Bootstrap, Becomes
  <2> QED
    BY <2>1, OperationsAssumption DEF Busy, Turn
<1>2. CASE New \/ \E file \in Files : Switch(file)
  <2>1. ~Busy /\ phase' = phase
    BY <1>2, NotBusy, SMTT(60) DEF New, Switch, Commands, Stopped, AtPrompt
  <2> QED
    BY <2>1 DEF Busy
<1>3. CASE \/ Type \/ ClearBuffer \/ Restore \/ Abort \/ Submit
           \/ \E previous \in BOOLEAN : Navigate(previous)
           \/ \E kind \in {"steering", "follow-up"} : QueueInput(kind) \/ QueueByCommand(kind)
  BY <1>3 DEF Type, ClearBuffer, Restore, Abort, Submit, Navigate, QueueInput, QueueByCommand
<1>4. CASE \/ \E i \in 1 .. MaxTyped : Drop(i) \/ Edit(i)
           \/ \E kinds \in (SUBSET {"steering", "follow-up"}) \ {{}} : ClearQueues(kinds)
           \/ Take \/ Proceed \/ Crash
           \/ (\E kind \in Operations : Operate(kind)) \/ Quit \/ Close \/ Leave
  BY <1>4 DEF Drop, Edit, ClearQueues, Take, Proceed, PreEnds, TurnEnds, RecoverEnds, Ends, Crash,
              Operate, Quit, Close, Leave
<1> QED
  BY <1>1, <1>2, <1>3, <1>4 DEF Next

\* What a turn, a compaction or a summary began in one session it also ends in
\* it, whatever commands run in its awaits.
THEOREM StandsStill == Spec => SessionStandsStill
PROOF
<1>1. [Next]_vars => [session' # session => ~Busy /\ ~Busy']_vars
  BY StandsStillStep
<1> QED
  BY <1>1, PTL DEF Spec, SessionStandsStill

\* The phase and the two flags, and who may change them.
SignalInv ==
  /\ abort \in BOOLEAN /\ pressed \in BOOLEAN
  /\ AbortIsOwn

LEMMA SignalInit == Init => SignalInv
PROOF
  BY NotBusy DEF Init, SignalInv, AbortIsOwn

LEMMA SignalStep == SignalInv /\ [Next]_vars => SignalInv'
PROOF
<1> SUFFICES ASSUME SignalInv, [Next]_vars PROVE SignalInv'
  OBVIOUS
<1>1. Busy \in BOOLEAN
  BY DEF Busy
<1>2. ASSUME UNCHANGED <<phase, abort, pressed>> PROVE SignalInv'
  BY <1>2 DEF SignalInv, AbortIsOwn, Busy
<1>3. ASSUME NEW next, Begin(next) PROVE SignalInv'
  BY <1>3 DEF Begin, SignalInv, AbortIsOwn
<1>4. ASSUME NEW next \in {"idle", "left"}, Becomes(next) PROVE SignalInv'
  BY <1>4, OperationsAssumption DEF Becomes, SignalInv, AbortIsOwn, Busy, Turn
<1>5. ASSUME NEW next \in Turn, phase \in Turn, Becomes(next) PROVE SignalInv'
  BY <1>5 DEF Becomes, SignalInv, AbortIsOwn, Busy, Turn
<1>6. CASE Abort
  BY <1>6 DEF Abort, SignalInv, AbortIsOwn
<1>7. CASE Quit
  BY <1>1, <1>7 DEF Quit, SignalInv, AbortIsOwn, Busy
<1>8. CASE Bootstrap \/ Ends \/ Crash \/ Leave
  BY <1>4, <1>8 DEF Bootstrap, Ends, Crash, Leave
<1>9. CASE PreEnds \/ TurnEnds \/ RecoverEnds
  BY <1>4, <1>5, <1>9 DEF PreEnds, TurnEnds, RecoverEnds, Turn
<1>10. CASE Submit \/ \E kind \in Operations : Operate(kind)
  BY <1>3, <1>10, SMTT(60) DEF Submit, Operate
<1>11. CASE \/ Type \/ ClearBuffer \/ Restore
            \/ \E previous \in BOOLEAN : Navigate(previous)
            \/ \E kind \in {"steering", "follow-up"} : QueueInput(kind) \/ QueueByCommand(kind)
  BY <1>2, <1>11 DEF Type, ClearBuffer, Restore, Navigate, QueueInput, QueueByCommand, control
<1>12. CASE \/ \E i \in 1 .. MaxTyped : Drop(i) \/ Edit(i)
            \/ \E kinds \in (SUBSET {"steering", "follow-up"}) \ {{}} : ClearQueues(kinds)
            \/ Take \/ New \/ (\E file \in Files : Switch(file)) \/ Close
  BY <1>2, <1>12 DEF Drop, Edit, ClearQueues, Take, New, Switch, Close, control
<1>13. CASE UNCHANGED vars
  BY <1>2, <1>13 DEF vars, control
<1> QED
  BY <1>6, <1>7, <1>8, <1>9, <1>10, <1>11, <1>12, <1>13 DEF Next, Proceed

\* An operation in flight is aborted if and only if somebody aborted it.
THEOREM OwnAbort == Spec => []AbortIsOwn
PROOF
<1>1. SignalInv => AbortIsOwn
  BY DEF SignalInv
<1> QED
  BY <1>1, SignalInit, SignalStep, PTL DEF Spec

\* The types of what the events speak of, and two phases: before a session was
\* opened and after it was closed.
SessionInv ==
  /\ runtime \in [started : BOOLEAN, closed : BOOLEAN]
  /\ events = [open |-> events.open, id |-> events.id]
  /\ phase = "boot" => ~runtime.started
  /\ EventsPair

LEMMA SessionInit == Init => SessionInv
PROOF
<1> SUFFICES ASSUME Init PROVE SessionInv
  OBVIOUS
<1>1. events = [open |-> 0, id |-> ""] /\ phase = "boot"
  BY DEF Init
<1>2. runtime = [started |-> FALSE, closed |-> FALSE]
  BY DEF Init
<1>3. runtime \in [started : BOOLEAN, closed : BOOLEAN] /\ ~runtime.started
  BY <1>2
<1>4. events.open = 0 /\ events = [open |-> events.open, id |-> events.id]
  BY <1>1
<1>5. events.open = IF runtime.started /\ ~runtime.closed THEN 1 ELSE 0
  BY <1>3, <1>4
<1>6. (events.open = 1 => events.id = session.id) /\ (phase = "left" => events.open = 0)
  BY <1>4
<1> QED
  BY <1>3, <1>4, <1>5, <1>6 DEF SessionInv, EventsPair

\* Loading, when what was open before is shut.
LEMMA LoadPairs ==
  ASSUME SessionInv, NEW before, before = [open |-> before.open, id |-> before.id], before.open = 0,
         NEW file, NEW id, Load(file, id, before)
  PROVE  /\ runtime' \in [started : BOOLEAN, closed : BOOLEAN]
         /\ events' = [open |-> events'.open, id |-> events'.id]
         /\ events'.open = IF runtime'.started /\ ~runtime'.closed THEN 1 ELSE 0
         /\ events'.open = 1 => events'.id = session'.id
PROOF
<1>1. CASE /\ session' \in {[id |-> file, path |-> file], [id |-> id, path |-> file]}
           /\ events' = Opened(before, session'.id)
           /\ runtime' = [started |-> TRUE, closed |-> FALSE]
  BY <1>1 DEF Opened
<1>2. CASE /\ events' = before
           /\ runtime' = [started |-> FALSE, closed |-> FALSE]
  BY <1>2
<1> QED
  BY <1>1, <1>2 DEF Load

LEMMA SessionStep == SessionInv /\ [Next]_vars => SessionInv'
PROOF
<1> SUFFICES ASSUME SessionInv, [Next]_vars PROVE SessionInv'
  OBVIOUS
<1>1. ASSUME UNCHANGED sessions, phase' \notin {"boot", "left"} \/ phase' = phase PROVE SessionInv'
  BY <1>1 DEF SessionInv, EventsPair, sessions
<1>2. CASE Bootstrap
  <2>1. phase = "boot" /\ phase' = (IF runtime'.started THEN "idle" ELSE "left")
    BY <1>2 DEF Bootstrap, Becomes
  <2>2. events.open = 0 /\ ~runtime.started
    BY <2>1 DEF SessionInv, EventsPair
  <2>3. CASE \E id \in Ids, file \in Files : Load(file, id, events)
    BY <2>1, <2>2, <2>3, LoadPairs DEF SessionInv, EventsPair
  <2>4. CASE \E id \in Ids : /\ session' = Fresh(id) /\ events' = Opened(events, id)
                            /\ runtime' = [started |-> TRUE, closed |-> FALSE]
    BY <2>1, <2>2, <2>4 DEF SessionInv, EventsPair, Fresh, Opened
  <2>5. CASE UNCHANGED sessions
    BY <2>1, <2>2, <2>5 DEF SessionInv, EventsPair, sessions
  <2> QED
    BY <1>2, <2>3, <2>4, <2>5 DEF Bootstrap
<1>3. CASE New
  <2>1. PICK id \in Ids : session' = Fresh(id) /\ events' = [events EXCEPT !.id = id]
    BY <1>3 DEF New
  <2>2. phase' = phase /\ phase = "idle" /\ runtime' = runtime
    BY <1>3 DEF New, Commands, AtPrompt, Stopped, control
  <2> QED
    BY <2>1, <2>2 DEF SessionInv, EventsPair, Fresh
<1>4. ASSUME NEW file \in Files, Switch(file) PROVE SessionInv'
  <2> DEFINE before == IF runtime.started /\ ~runtime.closed THEN Shut(events) ELSE events
  <2>1. before = [open |-> before.open, id |-> before.id] /\ before.open = 0
    BY DEF SessionInv, EventsPair, Shut
  <2>2. Load(file, session.id, before)
    BY <1>4 DEF Switch
  <2>3. phase' = "idle"
    BY <1>4 DEF Switch, Commands, AtPrompt, Stopped, control
  <2> HIDE DEF before
  <2> QED
    BY <2>1, <2>2, <2>3, LoadPairs DEF SessionInv, EventsPair
<1>5. CASE Leave
  <2>1. phase' = "left" /\ session' = session
    BY <1>5 DEF Leave, Becomes
  <2>2. CASE runtime.started /\ ~runtime.closed
    <3>1. runtime' = [runtime EXCEPT !.closed = TRUE] /\ events' = Shut(events) /\ events.open = 1
      BY <1>5, <2>2 DEF Leave, SessionInv, EventsPair
    <3>2. runtime'.started /\ runtime'.closed /\ runtime' \in [started : BOOLEAN, closed : BOOLEAN]
      BY <2>2, <3>1 DEF SessionInv
    <3>3. events' = [open |-> 0, id |-> events.id]
      BY <3>1 DEF SessionInv, Shut
    <3> QED
      BY <2>1, <3>2, <3>3 DEF SessionInv, EventsPair
  <2>3. CASE ~(runtime.started /\ ~runtime.closed)
    BY <1>5, <2>1, <2>3 DEF Leave, SessionInv, EventsPair
  <2> QED
    BY <2>2, <2>3
<1>6. CASE Proceed \/ Crash
  BY <1>1, <1>6 DEF Proceed, PreEnds, TurnEnds, RecoverEnds, Ends, Crash, Becomes
<1>7. CASE Submit \/ \E kind \in Operations : Operate(kind)
  BY <1>1, <1>7, OperationsAssumption, SMTT(60) DEF Submit, Operate, Begin
<1>8. CASE \/ Type \/ ClearBuffer \/ Restore \/ Abort
           \/ \E previous \in BOOLEAN : Navigate(previous)
           \/ \E kind \in {"steering", "follow-up"} : QueueInput(kind) \/ QueueByCommand(kind)
  BY <1>1, <1>8 DEF Type, ClearBuffer, Restore, Abort, Navigate, QueueInput, QueueByCommand, control
<1>9. CASE \/ \E i \in 1 .. MaxTyped : Drop(i) \/ Edit(i)
           \/ \E kinds \in (SUBSET {"steering", "follow-up"}) \ {{}} : ClearQueues(kinds)
           \/ Take \/ Quit \/ Close
  BY <1>1, <1>9 DEF Drop, Edit, ClearQueues, Take, Quit, Close, control
<1>10. CASE UNCHANGED vars
  BY <1>1, <1>10 DEF vars, control
<1> QED
  BY <1>2, <1>3, <1>4, <1>5, <1>6, <1>7, <1>8, <1>9, <1>10 DEF Next

\* Every opening of a session is followed by one shutdown before the next one and
\* before the frontend is left.
THEOREM Pairs == Spec => []EventsPair
PROOF
<1>1. SessionInv => EventsPair
  BY DEF SessionInv
<1> QED
  BY <1>1, SessionInit, SessionStep, PTL DEF Spec

-----------------------------------------------------------------------------
(* Messages. *)

\* A draft is only kept while a position is shown, and a line only until the
\* turn appends it: so overwriting either loses nothing.
KeptInv ==
  /\ typed \in Nat
  /\ steering \in Seq(Items) /\ followUps \in Seq(Items)
  /\ editor \in SUBSET Nat
  /\ nav \in [index : Nat, id : Nat, draft : SUBSET Nat]
  /\ nav.index = 0 => nav.draft = {}
  /\ phase # "pre" => line = {}
  /\ NothingLost

LEMMA KeptInit == Init => KeptInv
PROOF
<1> SUFFICES ASSUME Init PROVE KeptInv
  OBVIOUS
<1>1. steering \in Seq(Items) /\ followUps \in Seq(Items)
  <2>1. << >> \in Seq(Items)
    OBVIOUS
  <2>2. steering = << >> /\ followUps = << >>
    BY DEF Init
  <2> QED
    BY <2>1, <2>2
<1>2. nav \in [index : Nat, id : Nat, draft : SUBSET Nat] /\ nav.draft = {}
  BY DEF Init, NoNav
<1>3. typed = 0 /\ editor = {} /\ line = {}
  BY DEF Init
<1>4. typed \in Nat /\ editor \in SUBSET Nat /\ 1 .. typed = {}
  BY <1>3
<1> QED
  BY <1>1, <1>2, <1>3, <1>4 DEF KeptInv, NothingLost

\* What is pending is in one of the two queues.
LEMMA PendingMessages ==
  ASSUME NEW p \in Seq(Items), NEW q \in Seq(Items), steering = p, followUps = q
  PROVE  Pending \in Seq(Items) /\ Messages(Pending) = Messages(p) \cup Messages(q)
PROOF
  BY MessagesConcat DEF Pending

\* The same of the next state.
LEMMA PendingMessagesNext ==
  ASSUME steering' \in Seq(Items), followUps' \in Seq(Items)
  PROVE  Messages(Pending') = Messages(steering') \cup Messages(followUps')
PROOF
  BY MessagesConcat DEF Pending

\* A step that loses nothing and has no more messages.
LEMMA NothingLostStep ==
  ASSUME KeptInv, typed' = typed, gone \subseteq gone',
         editor \subseteq Held' \cup gone', nav.draft \subseteq Held' \cup gone',
         Messages(Pending) \subseteq Held' \cup gone', line \subseteq Held' \cup gone',
         said \subseteq Held' \cup gone'
  PROVE  NothingLost'
PROOF
  BY DEF KeptInv, NothingLost, Held

\* The places of messages in the next state.
LEMMA HeldNext ==
  /\ editor' \subseteq Held' /\ nav'.draft \subseteq Held' /\ Messages(Pending') \subseteq Held'
  /\ line' \subseteq Held' /\ said' \subseteq Held'
PROOF
  BY DEF Held

\* Steps that leave messages where they are, and the line too unless it is empty.
LEMMA KeptUnchanged ==
  ASSUME KeptInv, UNCHANGED <<input, queues, said, typed, gone>>,
         UNCHANGED line, phase' # "pre" => phase # "pre" \/ line = {}
  PROVE  KeptInv'
PROOF
<1>1. Pending' = Pending
  BY DEF Pending, queues
<1>2. Messages(Pending') = Messages(Pending)
  BY <1>1
<1>3. NothingLost'
  BY <1>2 DEF KeptInv, NothingLost, Held, input
<1> QED
  BY <1>3 DEF KeptInv, input, queues

LEMMA TypeKept == ASSUME KeptInv, Type PROVE KeptInv'
PROOF
<1>1. /\ typed' = typed + 1 /\ editor' = editor \cup {typed'}
      /\ UNCHANGED <<phase, line, nav, steering, followUps, said, gone>>
  BY DEF Type, control, queues, told
<1>2. Messages(Pending') = Messages(Pending)
  BY <1>1 DEF Pending
<1>3. 1 .. typed' = 1 .. typed \cup {typed'}
  BY <1>1 DEF KeptInv
<1>4. NothingLost'
  BY <1>1, <1>2, <1>3 DEF KeptInv, NothingLost, Held
<1> QED
  BY <1>1, <1>4 DEF KeptInv

LEMMA ClearBufferKept == ASSUME KeptInv, ClearBuffer PROVE KeptInv'
PROOF
<1>1. /\ editor' = {} /\ gone' = gone \cup (editor \ Messages(Pending))
      /\ UNCHANGED <<phase, line, nav, steering, followUps, said, typed>>
  BY DEF ClearBuffer, Forget, control, queues
<1>2. Messages(Pending') = Messages(Pending)
  BY <1>1 DEF Pending
<1>3. NothingLost'
  BY <1>1, <1>2 DEF KeptInv, NothingLost, Held
<1> QED
  BY <1>1, <1>3 DEF KeptInv

\* The position is left: the draft comes back for what was in the editor.
LEMMA ResetKept ==
  ASSUME KeptInv, NEW text \in SUBSET Nat, NEW restore \in BOOLEAN, Reset(restore, text)
  PROVE  /\ editor' \in SUBSET Nat
         /\ nav' \in [index : Nat, id : Nat, draft : SUBSET Nat] /\ nav'.draft = {}
         /\ editor' = IF restore /\ nav.index # 0 THEN nav.draft ELSE text
PROOF
<1>1. nav' = NoNav /\ NoNav \in [index : Nat, id : Nat, draft : SUBSET Nat] /\ NoNav.draft = {}
  BY DEF Reset, NoNav
<1> QED
  BY <1>1 DEF KeptInv, Reset

LEMMA NavigateKept ==
  ASSUME KeptInv, NEW previous \in BOOLEAN, Navigate(previous) PROVE KeptInv'
PROOF
<1>1. /\ UNCHANGED <<phase, line, steering, followUps, said, typed>>
      /\ Pending' = Pending
  BY DEF Navigate, control, queues, NothingQueued, Pending
<1>2. Pending \in Seq(Items)
  BY PendingMessages DEF KeptInv
<1>3. CASE NothingQueued
  <2>1. Reset(TRUE, editor) /\ gone' = (IF nav.index # 0 THEN gone \cup (editor \ Messages(Pending)) ELSE gone)
    BY <1>3 DEF NothingQueued, Forget
  <2>2. /\ editor' \in SUBSET Nat /\ nav' \in [index : Nat, id : Nat, draft : SUBSET Nat]
        /\ nav'.draft = {} /\ editor' = IF nav.index # 0 THEN nav.draft ELSE editor
    BY <2>1, ResetKept DEF KeptInv
  <2>3. NothingLost'
    BY <1>1, <2>1, <2>2, HeldNext, NothingLostStep DEF KeptInv
  <2> QED
    BY <1>1, <2>2, <2>3 DEF KeptInv
<1>4. CASE ~NothingQueued
  <2>1. PICK index \in 1 .. Len(Pending) :
          /\ nav' = [index |-> index, id |-> Pending[index].id,
                     draft |-> IF nav.index = 0 THEN editor ELSE nav.draft]
          /\ editor' = Pending[index].text
          /\ gone' = IF nav.index = 0 THEN gone ELSE gone \cup (editor \ Messages(Pending))
    BY <1>2, <1>4, SMTT(60) DEF Navigate, Forget, KeptInv
  <2>2. Pending[index] \in Items
    BY <1>2
  <2>3. /\ editor' \in SUBSET Nat /\ nav' \in [index : Nat, id : Nat, draft : SUBSET Nat]
        /\ nav'.index # 0 /\ nav'.draft = IF nav.index = 0 THEN editor ELSE nav.draft
    BY <2>1, <2>2, SMTT(60) DEF KeptInv, Items
  <2>4. NothingLost'
    BY <1>1, <2>1, <2>3, HeldNext, NothingLostStep DEF KeptInv
  <2> QED
    BY <1>1, <2>3, <2>4, SMTT(60) DEF KeptInv
<1> QED
  BY <1>3, <1>4, SMTT(60)

\* The queue comes back into the editor.
LEMMA RestoredKept ==
  ASSUME KeptInv, Restored, UNCHANGED <<phase, line, said, typed>> PROVE KeptInv'
PROOF
<1>1. /\ editor' = Messages(Pending) \cup (IF nav.index # 0 THEN nav.draft ELSE editor)
      /\ gone' = (IF nav.index # 0 THEN gone \cup (editor \ Messages(Pending)) ELSE gone)
      /\ steering' = << >> /\ followUps' = << >> /\ nav' = NoNav
  BY DEF Restored, Forget
<1>2. NoNav \in [index : Nat, id : Nat, draft : SUBSET Nat] /\ NoNav.draft = {}
  BY DEF NoNav
<1>3. << >> \in Seq(Items)
  OBVIOUS
<1>4. Pending \in Seq(Items)
  BY PendingMessages DEF KeptInv
<1>5. Messages(Pending) \subseteq Nat
  <2>1. ASSUME NEW m, m \in Messages(Pending) PROVE m \in Nat
    <3>1. PICK i \in 1 .. Len(Pending) : m \in Pending[i].text
      BY <1>4, <2>1, InQueue
    <3>2. Pending[i] \in Items
      BY <1>4
    <3> QED
      BY <3>1, <3>2 DEF Items
  <2> QED
    BY <2>1
<1>6. editor' \in SUBSET Nat
  BY <1>1, <1>5 DEF KeptInv
<1>7. NothingLost'
  BY <1>1, HeldNext, NothingLostStep DEF KeptInv
<1> QED
  BY <1>1, <1>2, <1>3, <1>6, <1>7 DEF KeptInv

LEMMA SubmitKept == ASSUME KeptInv, Submit PROVE KeptInv'
PROOF
<1>1. /\ phase = "idle" /\ editor' = {}
      /\ UNCHANGED <<nav, steering, followUps, typed, gone>>
  BY DEF Submit, AtPrompt, queues
<1>2. line = {}
  BY <1>1 DEF KeptInv
<1>3. Messages(Pending') = Messages(Pending)
  BY <1>1 DEF Pending
<1>4. \/ phase' = "pre" /\ line' = editor /\ said' = said
      \/ phase' = "turn" /\ line' = {} /\ said' = said \cup editor
  BY DEF Submit, Begin, Say
<1>5. NothingLost'
  BY <1>1, <1>2, <1>3, <1>4 DEF KeptInv, NothingLost, Held
<1> QED
  BY <1>1, <1>4, <1>5 DEF KeptInv

\* A message typed or queued as a command: one more item at the end of a queue.
LEMMA AppendedKept ==
  ASSUME KeptInv, NEW item \in Items,
         \/ steering' = Append(steering, item) /\ UNCHANGED followUps
         \/ followUps' = Append(followUps, item) /\ UNCHANGED steering
  PROVE  /\ steering' \in Seq(Items) /\ followUps' \in Seq(Items)
         /\ Messages(Pending') = Messages(Pending) \cup item.text
PROOF
<1>1. steering' \in Seq(Items) /\ followUps' \in Seq(Items)
  <2>1. \A q \in Seq(Items) : Append(q, item) \in Seq(Items)
    OBVIOUS
  <2> QED
    BY <2>1 DEF KeptInv
<1>2. Messages(Pending) = Messages(steering) \cup Messages(followUps)
  BY PendingMessages DEF KeptInv
<1>3. Messages(Pending') = Messages(steering') \cup Messages(followUps')
  BY <1>1, PendingMessagesNext
<1>4. Messages(steering') \cup Messages(followUps')
        = Messages(steering) \cup Messages(followUps) \cup item.text
  BY MessagesAppend, ZenonT(60) DEF KeptInv
<1> QED
  BY <1>1, <1>2, <1>3, <1>4

\* The i-th item that is pending, by its place in its own queue.
LEMMA PendingItem ==
  ASSUME KeptInv, NEW i \in 1 .. Len(Pending)
  PROVE  /\ i - Len(steering) > 0 => /\ i - Len(steering) \in 1 .. Len(followUps)
                                     /\ Pending[i] = followUps[i - Len(steering)]
         /\ ~(i - Len(steering) > 0) => /\ i \in 1 .. Len(steering)
                                        /\ Pending[i] = steering[i]
PROOF
<1>1. Len(Pending) = Len(steering) + Len(followUps)
  BY DEF KeptInv, Pending
<1> QED
  BY <1>1 DEF KeptInv, Pending

\* One item gets another text.
LEMMA ReplacedKept ==
  ASSUME KeptInv, NEW i \in 1 .. Len(Pending), NEW text \in SUBSET Nat,
         IF i - Len(steering) > 0
         THEN followUps' = Replaced(followUps, i - Len(steering), text) /\ UNCHANGED steering
         ELSE steering' = Replaced(steering, i, text) /\ UNCHANGED followUps
  PROVE  /\ steering' \in Seq(Items) /\ followUps' \in Seq(Items)
         /\ Messages(Pending) \cup text \subseteq Messages(Pending') \cup Pending[i].text
PROOF
<1>1. ASSUME NEW q \in Seq(Items), NEW j \in 1 .. Len(q)
      PROVE  Replaced(q, j, text) \in Seq(Items)
  <2>1. ASSUME NEW k \in 1 .. Len(q) PROVE q[k] \in Items /\ [q[k] EXCEPT !.text = text] \in Items
    <3>1. q[k] \in Items
      OBVIOUS
    <3> QED
      BY <3>1 DEF Items
  <2>2. Replaced(q, j, text) = [k \in 1 .. Len(q) |-> IF k = j THEN [q[k] EXCEPT !.text = text] ELSE q[k]]
    BY DEF Replaced
  <2> QED
    BY <2>1, <2>2, SMTT(60)
<1>2. Messages(Pending) = Messages(steering) \cup Messages(followUps)
  BY PendingMessages DEF KeptInv
<1>3. CASE i - Len(steering) > 0
  <2>1. followUps' \in Seq(Items) /\ steering' = steering
    BY <1>1, <1>3, PendingItem DEF KeptInv
  <2>2. Messages(Pending') = Messages(steering) \cup Messages(followUps')
    BY <2>1, PendingMessagesNext DEF KeptInv
  <2>3. Messages(followUps) \cup text \subseteq Messages(followUps') \cup Pending[i].text
    BY <1>3, PendingItem, MessagesReplaced, ZenonT(60) DEF KeptInv
  <2> QED
    BY <1>2, <2>1, <2>2, <2>3 DEF KeptInv
<1>4. CASE ~(i - Len(steering) > 0)
  <2>1. steering' \in Seq(Items) /\ followUps' = followUps
    BY <1>1, <1>4, PendingItem DEF KeptInv
  <2>2. Messages(Pending') = Messages(steering') \cup Messages(followUps)
    BY <2>1, PendingMessagesNext DEF KeptInv
  <2>3. Messages(steering) \cup text \subseteq Messages(steering') \cup Pending[i].text
    BY <1>4, PendingItem, MessagesReplaced DEF KeptInv
  <2> QED
    BY <1>2, <2>1, <2>2, <2>3 DEF KeptInv
<1> QED
  BY <1>3, <1>4

LEMMA QueueInputKept ==
  ASSUME KeptInv, NEW kind \in {"steering", "follow-up"}, QueueInput(kind) PROVE KeptInv'
PROOF
<1>1. UNCHANGED <<phase, line, said, typed>> /\ editor # {}
  BY DEF QueueInput, control
<1>2. Len(Pending) \in Nat
  BY PendingMessages DEF KeptInv
<1>3. CASE nav.index \in 1 .. Len(Pending)
  <2> DEFINE i == nav.index
  <2>1. /\ IF i - Len(steering) > 0
           THEN followUps' = Replaced(followUps, i - Len(steering), editor) /\ UNCHANGED steering
           ELSE steering' = Replaced(steering, i, editor) /\ UNCHANGED followUps
        /\ Reset(TRUE, {})
        /\ gone' = gone \cup (Pending[i].text \ editor)
    BY <1>3 DEF QueueInput
  <2>2. /\ steering' \in Seq(Items) /\ followUps' \in Seq(Items)
        /\ Messages(Pending) \cup editor \subseteq Messages(Pending') \cup Pending[i].text
    BY <1>3, <2>1, ReplacedKept DEF KeptInv
  <2>3. editor \subseteq Messages(Pending')
    <3>1. ASSUME NEW q \in Seq(Items), NEW j \in 1 .. Len(q)
          PROVE  editor \subseteq Messages(Replaced(q, j, editor))
      BY <3>1, TextReplaced DEF KeptInv
    <3>2. Messages(Pending') = Messages(steering') \cup Messages(followUps')
      BY <2>2, PendingMessagesNext
    <3> QED
      BY <1>3, <2>1, <3>1, <3>2, PendingItem DEF KeptInv
  <2>4. /\ editor' \in SUBSET Nat /\ nav' \in [index : Nat, id : Nat, draft : SUBSET Nat]
        /\ nav'.draft = {} /\ editor' = nav.draft
    <3>1. nav.index # 0
      BY <1>2, <1>3
    <3> QED
      BY <2>1, <3>1, ResetKept
  <2>5. NothingLost'
    BY <1>1, <2>1, <2>2, <2>3, <2>4, HeldNext, NothingLostStep
  <2> QED
    BY <1>1, <2>2, <2>4, <2>5 DEF KeptInv
<1>4. CASE nav.index \notin 1 .. Len(Pending)
  <2> DEFINE item == [id |-> CHOOSE message \in editor : TRUE, text |-> editor]
  <2>1. item \in Items
    BY <1>1 DEF KeptInv, Items
  <2>2. /\ \/ steering' = Append(steering, item) /\ UNCHANGED followUps
           \/ followUps' = Append(followUps, item) /\ UNCHANGED steering
        /\ Reset(FALSE, {})
        /\ gone' = gone \cup (nav.draft \ Messages(Pending))
    BY <1>4 DEF QueueInput, Forget
  <2>3. /\ steering' \in Seq(Items) /\ followUps' \in Seq(Items)
        /\ Messages(Pending') = Messages(Pending) \cup editor
    BY <2>1, <2>2, AppendedKept
  <2>4. /\ editor' = {} /\ nav' \in [index : Nat, id : Nat, draft : SUBSET Nat] /\ nav'.draft = {}
    BY <2>2, ResetKept
  <2>5. NothingLost'
    BY <1>1, <2>2, <2>3, <2>4, HeldNext, NothingLostStep
  <2> QED
    BY <1>1, <2>3, <2>4, <2>5 DEF KeptInv
<1> QED
  BY <1>3, <1>4

LEMMA QueueByCommandKept ==
  ASSUME KeptInv, NEW kind \in {"steering", "follow-up"}, QueueByCommand(kind) PROVE KeptInv'
PROOF
<1> DEFINE item == [id |-> typed', text |-> {typed'}]
<1>1. /\ typed' = typed + 1
      /\ \/ steering' = Append(steering, item) /\ UNCHANGED followUps
         \/ followUps' = Append(followUps, item) /\ UNCHANGED steering
      /\ UNCHANGED <<phase, line, editor, nav, said, gone>>
  BY DEF QueueByCommand, control, input
<1>2. item \in Items
  BY <1>1 DEF KeptInv, Items
<1>3. /\ steering' \in Seq(Items) /\ followUps' \in Seq(Items)
      /\ Messages(Pending') = Messages(Pending) \cup {typed'}
  BY <1>1, <1>2, AppendedKept
<1>4. 1 .. typed' = 1 .. typed \cup {typed'}
  BY <1>1 DEF KeptInv
<1>5. NothingLost'
  BY <1>1, <1>3, <1>4 DEF KeptInv, NothingLost, Held
<1> QED
  BY <1>1, <1>3, <1>5 DEF KeptInv

LEMMA DropKept ==
  ASSUME KeptInv, NEW i \in Nat, Drop(i) PROVE KeptInv'
PROOF
<1>1. /\ i \in 1 .. Len(Pending)
      /\ IF i - Len(steering) > 0
         THEN followUps' = RemoveAt(followUps, i - Len(steering)) /\ UNCHANGED steering
         ELSE steering' = RemoveAt(steering, i) /\ UNCHANGED followUps
      /\ gone' = gone \cup Pending[i].text
      /\ UNCHANGED <<phase, line, editor, nav, said, typed>>
  <2>1. DOMAIN Pending = 1 .. Len(Pending)
    BY PendingMessages DEF KeptInv
  <2> QED
    BY <2>1 DEF Drop, control, input
<1>2. ASSUME NEW q \in Seq(Items), NEW j \in 1 .. Len(q)
      PROVE  RemoveAt(q, j) \in Seq(Items)
  <2>1. SubSeq(q, 1, j - 1) \in Seq(Items) /\ SubSeq(q, j + 1, Len(q)) \in Seq(Items)
    OBVIOUS
  <2> QED
    BY <2>1 DEF RemoveAt
<1>3. /\ steering' \in Seq(Items) /\ followUps' \in Seq(Items)
      /\ Messages(steering) \cup Messages(followUps)
           = Messages(steering') \cup Messages(followUps') \cup Pending[i].text
  <2>1. CASE i - Len(steering) > 0
    <3>1. i - Len(steering) \in 1 .. Len(followUps) /\ Pending[i] = followUps[i - Len(steering)]
      BY <1>1, <2>1, PendingItem
    <3> QED
      BY <1>1, <1>2, <2>1, <3>1, MessagesRemoved, SMTT(60) DEF KeptInv
  <2>2. CASE ~(i - Len(steering) > 0)
    <3>1. i \in 1 .. Len(steering) /\ Pending[i] = steering[i]
      BY <1>1, <2>2, PendingItem
    <3> QED
      BY <1>1, <1>2, <2>2, <3>1, MessagesRemoved DEF KeptInv
  <2> QED
    BY <2>1, <2>2
<1>4. /\ Messages(Pending) = Messages(steering) \cup Messages(followUps)
      /\ Messages(Pending') = Messages(steering') \cup Messages(followUps')
  BY <1>3, PendingMessages, PendingMessagesNext DEF KeptInv
<1>5. NothingLost'
  BY <1>1, <1>3, <1>4, HeldNext, NothingLostStep
<1> QED
  BY <1>1, <1>3, <1>5 DEF KeptInv

LEMMA EditKept ==
  ASSUME KeptInv, NEW i \in Nat, Edit(i) PROVE KeptInv'
PROOF
<1>1. /\ i \in 1 .. Len(Pending) /\ typed' = typed + 1
      /\ IF i - Len(steering) > 0
         THEN followUps' = Replaced(followUps, i - Len(steering), {typed'}) /\ UNCHANGED steering
         ELSE steering' = Replaced(steering, i, {typed'}) /\ UNCHANGED followUps
      /\ gone' = gone \cup Pending[i].text
      /\ UNCHANGED <<phase, line, editor, nav, said>>
  <2>1. DOMAIN Pending = 1 .. Len(Pending)
    BY PendingMessages DEF KeptInv
  <2> QED
    BY <2>1 DEF Edit, control, input
<1>2. {typed'} \in SUBSET Nat
  BY <1>1 DEF KeptInv
<1>3. /\ steering' \in Seq(Items) /\ followUps' \in Seq(Items)
      /\ Messages(Pending) \subseteq Messages(Pending') \cup Pending[i].text
  BY <1>1, <1>2, ReplacedKept
<1>4. typed' \in Messages(Pending')
  <2>1. ASSUME NEW q \in Seq(Items), NEW j \in 1 .. Len(q)
        PROVE  typed' \in Messages(Replaced(q, j, {typed'}))
    BY <1>2, <2>1, TextReplaced
  <2>2. Messages(Pending') = Messages(steering') \cup Messages(followUps')
    BY <1>3, PendingMessagesNext
  <2> QED
    BY <1>1, <2>1, <2>2, PendingItem DEF KeptInv
<1>5. 1 .. typed' = 1 .. typed \cup {typed'}
  BY <1>1, SMTT(60) DEF KeptInv
<1>6. NothingLost'
  BY <1>1, <1>3, <1>4, <1>5, ZenonT(60) DEF KeptInv, NothingLost, Held
<1> QED
  BY <1>1, <1>3, <1>6, SMTT(60) DEF KeptInv

LEMMA ClearQueuesKept ==
  ASSUME KeptInv, NEW kinds, ClearQueues(kinds) PROVE KeptInv'
PROOF
<1>1. /\ steering' = (IF "steering" \in kinds THEN << >> ELSE steering)
      /\ followUps' = (IF "follow-up" \in kinds THEN << >> ELSE followUps)
      /\ gone' = gone \cup (Messages(Pending) \ Messages(Pending'))
      /\ UNCHANGED <<phase, line, editor, nav, said, typed>>
  BY DEF ClearQueues, Pending, control, input
<1>2. << >> \in Seq(Items)
  OBVIOUS
<1>3. NothingLost'
  BY <1>1, HeldNext, NothingLostStep
<1> QED
  BY <1>1, <1>2, <1>3 DEF KeptInv

\* The position follows the item that was taken; what was shown of it is in what
\* was said or is left.
LEMMA FollowPositionKept ==
  ASSUME KeptInv, NEW left \in Seq(Items), FollowPosition(left)
  PROVE  /\ editor' \in SUBSET Nat
         /\ nav' \in [index : Nat, id : Nat, draft : SUBSET Nat]
         /\ nav'.index = 0 => nav'.draft = {}
         /\ gone \subseteq gone' /\ nav.draft \subseteq nav'.draft \cup editor'
         /\ editor \subseteq editor' \cup gone' \cup Messages(Pending) \cup nav.draft
PROOF
<1> DEFINE at == {i \in DOMAIN left : left[i].id = nav.id}
<1>1. CASE nav.index = 0
  BY <1>1 DEF FollowPosition, input, KeptInv
<1>2. CASE nav.index # 0 /\ at # {}
  <2> DEFINE first == CHOOSE i \in at : \A j \in at : i <= j
  <2>1. nav' = [nav EXCEPT !.index = first] /\ editor' = editor /\ gone' = gone
    BY <1>2 DEF FollowPosition
  <2>2. first \in at
    <3>1. at \subseteq Nat /\ at # {}
      BY <1>2
    <3>2. \E i \in at : \A j \in at : i <= j
      BY <3>1, Recursion!LeastNatural
    <3> QED
      BY <3>2
  <2> HIDE DEF first
  <2>3. first \in Nat /\ first # 0
    <3>1. at \subseteq DOMAIN left /\ DOMAIN left = 1 .. Len(left)
      OBVIOUS
    <3>2. first \in 1 .. Len(left)
      BY <2>2, <3>1
    <3> HIDE DEF at
    <3> QED
      BY <3>2
  <2> QED
    BY <2>1, <2>3 DEF KeptInv
<1>3. CASE nav.index # 0 /\ at = {}
  <2>1. /\ Reset(TRUE, editor)
        /\ gone' = gone \cup (editor \ (Messages(Pending) \cup nav.draft))
    BY <1>3 DEF FollowPosition
  <2>2. /\ editor' \in SUBSET Nat
        /\ nav' \in [index : Nat, id : Nat, draft : SUBSET Nat] /\ nav'.draft = {}
        /\ editor' = nav.draft
    BY <1>3, <2>1, ResetKept DEF KeptInv
  <2> QED
    BY <2>1, <2>2
<1> QED
  BY <1>1, <1>2, <1>3

LEMMA TakeKept == ASSUME KeptInv, Take PROVE KeptInv'
PROOF
<1> DEFINE queue == IF steering # << >> THEN steering ELSE followUps
<1>1. queue \in Seq(Items)
  BY DEF KeptInv
<1>2. UNCHANGED <<phase, line, typed>> /\ phase # "pre" /\ queue # << >>
  BY DEF Take, control, Pending, KeptInv
<1>3. Len(queue) \in Nat /\ Len(queue) # 0
  BY <1>1, <1>2
<1>4. PICK n \in {1, Len(queue)} :
        /\ Say(Messages(SubSeq(queue, 1, n)))
        /\ IF steering # << >> THEN steering' = SubSeq(queue, n + 1, Len(queue)) /\ UNCHANGED followUps
           ELSE followUps' = SubSeq(queue, n + 1, Len(queue)) /\ UNCHANGED steering
        /\ FollowPosition(IF steering # << >> THEN SubSeq(queue, n + 1, Len(queue)) \o followUps
                          ELSE SubSeq(queue, n + 1, Len(queue)))
  BY DEF Take
<1> DEFINE rest == SubSeq(queue, n + 1, Len(queue))
           left == IF steering # << >> THEN rest \o followUps ELSE rest
<1>5. n \in 0 .. Len(queue)
  BY <1>3
<1>6. rest \in Seq(Items) /\ Messages(queue) = Messages(SubSeq(queue, 1, n)) \cup Messages(rest)
  BY <1>1, <1>5, MessagesSplit
<1>7. left \in Seq(Items)
  BY <1>6 DEF KeptInv
<1>8. steering' \in Seq(Items) /\ followUps' \in Seq(Items)
  BY <1>4, <1>6 DEF KeptInv
<1>9. /\ Messages(Pending) = Messages(steering) \cup Messages(followUps)
      /\ Messages(Pending') = Messages(steering') \cup Messages(followUps')
  BY <1>8, PendingMessages, PendingMessagesNext DEF KeptInv
<1>10. said' = said \cup Messages(SubSeq(queue, 1, n))
  BY <1>4 DEF Say
<1>11. Messages(Pending) \subseteq Messages(Pending') \cup said'
  BY <1>4, <1>6, <1>9, <1>10
<1>12. FollowPosition(left)
  BY <1>4
<1> HIDE DEF left
<1>13. /\ editor' \in SUBSET Nat
       /\ nav' \in [index : Nat, id : Nat, draft : SUBSET Nat]
       /\ nav'.index = 0 => nav'.draft = {}
       /\ gone \subseteq gone' /\ nav.draft \subseteq nav'.draft \cup editor'
       /\ editor \subseteq editor' \cup gone' \cup Messages(Pending) \cup nav.draft
  BY <1>7, <1>12, FollowPositionKept
<1>14. NothingLost'
  BY <1>2, <1>10, <1>11, <1>13, HeldNext, NothingLostStep
<1> QED
  BY <1>2, <1>8, <1>13, <1>14 DEF KeptInv

LEMMA CrashKept == ASSUME KeptInv, Crash PROVE KeptInv'
PROOF
<1>1. /\ line' = {} /\ gone' = gone \cup line
      /\ UNCHANGED <<editor, nav, steering, followUps, said, typed>>
  BY DEF Crash, input, queues
<1>2. Messages(Pending') = Messages(Pending)
  BY <1>1 DEF Pending
<1>3. NothingLost'
  BY <1>1, <1>2, HeldNext, NothingLostStep
<1> QED
  BY <1>1, <1>3 DEF KeptInv

LEMMA PreEndsKept == ASSUME KeptInv, PreEnds PROVE KeptInv'
PROOF
<1>1. /\ line' = {} /\ said' = said \cup line
      /\ UNCHANGED <<editor, nav, steering, followUps, gone, typed>>
  BY DEF PreEnds, Say, input, queues
<1>2. Messages(Pending') = Messages(Pending)
  BY <1>1 DEF Pending
<1>3. NothingLost'
  BY <1>1, <1>2, HeldNext, NothingLostStep
<1> QED
  BY <1>1, <1>3 DEF KeptInv

LEMMA KeptStep == KeptInv /\ [Next]_vars => KeptInv'
PROOF
<1> SUFFICES ASSUME KeptInv, [Next]_vars PROVE KeptInv'
  OBVIOUS
<1>1. CASE Type \/ ClearBuffer \/ Submit
  BY <1>1, TypeKept, ClearBufferKept, SubmitKept
<1>2. CASE Restore \/ Abort
  <2>1. CASE Restored
    BY <1>2, <2>1, RestoredKept DEF Restore, Abort, control
  <2>2. CASE UNCHANGED <<input, queues, gone, said, typed, phase, line>>
    BY <2>2, KeptUnchanged
  <2> QED
    BY <1>2, <2>1, <2>2 DEF Restore, Abort
<1>3. CASE \E previous \in BOOLEAN : Navigate(previous)
  BY <1>3, NavigateKept
<1>4. CASE \E kind \in {"steering", "follow-up"} : QueueInput(kind) \/ QueueByCommand(kind)
  BY <1>4, QueueInputKept, QueueByCommandKept
<1>5. CASE \E i \in 1 .. MaxTyped : Drop(i) \/ Edit(i)
  BY <1>5, BoundAssumption, DropKept, EditKept
<1>6. CASE \E kinds \in (SUBSET {"steering", "follow-up"}) \ {{}} : ClearQueues(kinds)
  BY <1>6, ClearQueuesKept
<1>7. CASE Take \/ Crash \/ PreEnds
  BY <1>7, TakeKept, CrashKept, PreEndsKept
<1>8. CASE TurnEnds \/ RecoverEnds \/ Ends \/ Leave
  <2>1. UNCHANGED <<input, queues, said, typed, gone, line>> /\ phase' # "pre" /\ phase # "pre"
    BY <1>8, OperationsAssumption
       DEF TurnEnds, RecoverEnds, Ends, Leave, Becomes, told, Turn
  <2>2. line = {}
    BY <2>1 DEF KeptInv
  <2> QED
    BY <2>1, <2>2, KeptUnchanged
<1>9. CASE Bootstrap \/ \E kind \in Operations : Operate(kind)
  <2>1. UNCHANGED <<input, queues, said, typed, gone, line>> /\ phase # "pre"
    BY <1>9 DEF Bootstrap, Operate, told, AtPrompt
  <2>2. line = {}
    BY <2>1 DEF KeptInv
  <2> QED
    BY <2>1, <2>2, KeptUnchanged
<1>10. CASE New \/ (\E file \in Files : Switch(file)) \/ Quit \/ Close \/ UNCHANGED vars
  <2>1. UNCHANGED <<input, queues, said, typed, gone, line, phase>>
    BY <1>10 DEF New, Switch, Quit, Close, told, control, vars
  <2> QED
    BY <2>1, KeptUnchanged
<1> QED
  BY <1>1, <1>2, <1>3, <1>4, <1>5, <1>6, <1>7, <1>8, <1>9, <1>10 DEF Next, Proceed

\* A message that was typed is in the editor, in a draft, in the queue or in the
\* transcript, unless it was given up by name: for any number of messages, and any
\* order of aborts, restores, drains, commands and failures.
THEOREM Kept == Spec => []NothingLost
PROOF
<1>1. KeptInv => NothingLost
  BY DEF KeptInv
<1> QED
  BY <1>1, KeptInit, KeptStep, PTL DEF Spec

\* The items of messages up to the n-th.
ItemsOf(n) == [id : 1 .. n, text : SUBSET (1 .. n)]

LEMMA ItemsOfNat ==
  ASSUME NEW n \in Nat
  PROVE  ItemsOf(n) \subseteq Items /\ Seq(ItemsOf(n)) \subseteq Seq(Items)
PROOF
<1>1. ItemsOf(n) \subseteq Items
  BY DEF ItemsOf, Items
<1> QED
  BY <1>1

LEMMA ItemsOfMore ==
  ASSUME NEW n \in Nat
  PROVE  ItemsOf(n) \subseteq ItemsOf(n + 1) /\ Seq(ItemsOf(n)) \subseteq Seq(ItemsOf(n + 1))
PROOF
<1>1. 1 .. n \subseteq 1 .. n + 1
  OBVIOUS
<1>2. ItemsOf(n) \subseteq ItemsOf(n + 1)
  BY <1>1 DEF ItemsOf
<1> QED
  BY <1>2

\* The items of a queue hold different messages, but for those in a set.
Spread(queue, B) == \A i, j \in 1 .. Len(queue) : i < j => queue[i].text \cap queue[j].text \subseteq B

LEMMA SpreadAppend ==
  ASSUME NEW queue \in Seq(Items), NEW item \in Items, NEW B, Spread(queue, B),
         item.text \cap Messages(queue) \subseteq B
  PROVE  Spread(Append(queue, item), B)
PROOF
<1> DEFINE new == Append(queue, item)
           n == Len(queue)
<1>1. n \in Nat /\ Len(new) = n + 1 /\ new[n + 1] = item /\ \A i \in 1 .. n : new[i] = queue[i]
  OBVIOUS
<1> HIDE DEF new
<1>2. ASSUME NEW i \in 1 .. Len(new), NEW j \in 1 .. Len(new), i < j
      PROVE  new[i].text \cap new[j].text \subseteq B
  <2>1. i \in 1 .. n
    BY <1>1, <1>2
  <2>2. CASE j = n + 1
    <3>1. queue[i].text \subseteq Messages(queue)
      BY <2>1, InQueue
    <3> QED
      BY <1>1, <2>1, <2>2, <3>1
  <2>3. CASE j # n + 1
    <3>1. j \in 1 .. n
      BY <1>1, <2>3
    <3> QED
      BY <1>1, <1>2, <2>1, <3>1 DEF Spread
  <2> QED
    BY <2>2, <2>3
<1> QED
  BY <1>2 DEF Spread, new

\* What is left of a queue, and what was taken from it.
LEMMA SpreadSplit ==
  ASSUME NEW queue \in Seq(Items), NEW n \in 0 .. Len(queue), NEW B, Spread(queue, B)
  PROVE  /\ Spread(SubSeq(queue, n + 1, Len(queue)), B)
         /\ Messages(SubSeq(queue, 1, n)) \cap Messages(SubSeq(queue, n + 1, Len(queue))) \subseteq B
PROOF
<1> DEFINE a == SubSeq(queue, 1, n)
           b == SubSeq(queue, n + 1, Len(queue))
<1>1. Len(queue) \in Nat /\ n \in Nat /\ n <= Len(queue)
  OBVIOUS
<1>2. a \in Seq(Items) /\ Len(a) = n /\ \A i \in 1 .. n : a[i] = queue[i]
  OBVIOUS
<1>3. b \in Seq(Items) /\ Len(b) = Len(queue) - n /\ \A i \in 1 .. Len(queue) - n : b[i] = queue[n + i]
  OBVIOUS
<1> HIDE DEF a, b
<1>4. \A i \in 1 .. Len(b) : n + i \in 1 .. Len(queue) /\ b[i] = queue[n + i]
  BY <1>1, <1>3
<1>5. ASSUME NEW i \in 1 .. Len(b), NEW j \in 1 .. Len(b), i < j
      PROVE  b[i].text \cap b[j].text \subseteq B
  <2>1. n + i < n + j
    BY <1>1, <1>3, <1>5
  <2> QED
    BY <1>4, <2>1 DEF Spread
<1>6. ASSUME NEW m, m \in Messages(a), m \in Messages(b) PROVE m \in B
  <2>1. PICK i \in 1 .. n : m \in queue[i].text
    BY <1>2, <1>6, InQueue
  <2>2. PICK j \in 1 .. Len(b) : m \in queue[n + j].text
    BY <1>3, <1>4, <1>6, InQueue, SMTT(60)
  <2>3. i \in 1 .. Len(queue) /\ n + j \in 1 .. Len(queue) /\ i < n + j
    BY <1>1, <1>3, <1>4
  <2> QED
    BY <2>1, <2>2, <2>3 DEF Spread
<1> QED
  BY <1>5, <1>6 DEF Spread, a, b

LEMMA SpreadRemoved ==
  ASSUME NEW queue \in Seq(Items), NEW i \in 1 .. Len(queue), NEW B, Spread(queue, B)
  PROVE  Spread(RemoveAt(queue, i), B)
PROOF
<1> DEFINE new == RemoveAt(queue, i)
           at(j) == IF j < i THEN j ELSE j + 1
<1>1. Len(queue) \in Nat /\ i \in Nat /\ 1 <= i /\ i <= Len(queue)
  OBVIOUS
<1> DEFINE p == SubSeq(queue, 1, i - 1)
           r == SubSeq(queue, i + 1, Len(queue))
           l == i - 1
<1>2. p \in Seq(Items) /\ Len(p) = l /\ \A j \in 1 .. l : p[j] = queue[j]
  OBVIOUS
<1>3. r \in Seq(Items) /\ Len(r) = Len(queue) - i /\ \A j \in 1 .. Len(queue) - i : r[j] = queue[i + j]
  OBVIOUS
<1>7. new = p \o r
  BY DEF RemoveAt
<1> HIDE DEF p, r, new
<1>8. /\ Len(new) = Len(p) + Len(r)
      /\ \A j \in 1 .. Len(p) : new[j] = p[j]
      /\ \A j \in 1 .. Len(r) : new[Len(p) + j] = r[j]
  <2>1. p \in Seq(Items) /\ r \in Seq(Items)
    BY <1>2, <1>3
  <2>2. Len(p \o r) = Len(p) + Len(r)
    BY <2>1
  <2>3. \A j \in 1 .. Len(p) : (p \o r)[j] = p[j]
    BY <2>1
  <2>4. \A j \in 1 .. Len(r) : (p \o r)[Len(p) + j] = r[j]
    BY <2>1
  <2> QED
    BY <1>7, <2>2, <2>3, <2>4
<1>4. Len(new) = Len(queue) - 1
  BY <1>1, <1>2, <1>3, <1>8
<1>5. \A j \in 1 .. Len(new) : at(j) \in 1 .. Len(queue) /\ new[j] = queue[at(j)]
  <2> TAKE j \in 1 .. Len(new)
  <2>1. CASE j < i
    <3>1. j \in 1 .. i - 1
      BY <1>1, <1>4, <2>1
    <3>2. new[j] = p[j]
      BY <1>2, <1>8, <3>1
    <3> QED
      BY <1>1, <1>2, <1>4, <2>1, <3>1, <3>2
  <2>2. CASE ~(j < i)
    <3>1. j - l \in 1 .. Len(queue) - i /\ j = l + (j - l) /\ i + (j - l) = j + 1
      BY <1>1, <1>4, <2>2
    <3>2. new[j] = r[j - l]
      <4>1. j - l \in 1 .. Len(r) /\ Len(p) + (j - l) = j
        BY <1>2, <1>3, <3>1
      <4> QED
        BY <1>8, <4>1
    <3> QED
      BY <1>1, <1>3, <1>4, <2>2, <3>1, <3>2
  <2> QED
    BY <2>1, <2>2
<1>6. ASSUME NEW j \in 1 .. Len(new), NEW k \in 1 .. Len(new), j < k PROVE at(j) < at(k)
  BY <1>1, <1>4, <1>6
<1> HIDE DEF at
<1> QED
  BY <1>5, <1>6 DEF Spread, new

LEMMA SpreadReplaced ==
  ASSUME NEW queue \in Seq(Items), NEW i \in 1 .. Len(queue), NEW text \in SUBSET Nat,
         NEW B, Spread(queue, B), text \cap Messages(queue) \subseteq B
  PROVE  /\ Spread(Replaced(queue, i, text), B)
         /\ Messages(Replaced(queue, i, text)) \subseteq Messages(queue) \cup text
PROOF
<1> DEFINE new == Replaced(queue, i, text)
<1>1. DOMAIN queue = 1 .. Len(queue) /\ Len(queue) \in Nat /\ \A j \in 1 .. Len(queue) : queue[j] \in Items
  OBVIOUS
<1>2. DOMAIN new = 1 .. Len(queue) /\ Len(new) = Len(queue)
  BY <1>1 DEF Replaced
<1>3. \A j \in 1 .. Len(queue) : new[j] = IF j = i THEN [queue[j] EXCEPT !.text = text] ELSE queue[j]
  BY <1>1 DEF Replaced
<1>4. \A j \in 1 .. Len(queue) : new[j].text = IF j = i THEN text ELSE queue[j].text
  BY <1>1, <1>3 DEF Items
<1> HIDE DEF new
<1>5. \A j \in 1 .. Len(queue) : queue[j].text \subseteq Messages(queue)
  BY InQueue
<1>6. Spread(new, B)
  BY <1>2, <1>4, <1>5 DEF Spread
<1>7. Messages(new) \subseteq Messages(queue) \cup text
  BY <1>2, <1>4, <1>5 DEF Messages
<1> QED
  BY <1>6, <1>7 DEF new

LEMMA MessagesOf ==
  ASSUME NEW n \in Nat, NEW queue \in Seq(ItemsOf(n))
  PROVE  Messages(queue) \subseteq 1 .. n
PROOF
<1>1. \A i \in DOMAIN queue : queue[i] \in ItemsOf(n)
  OBVIOUS
<1> QED
  BY <1>1 DEF Messages, ItemsOf

\* The queues as they may become: one item more, one less, a part, or another
\* text in an item.
LEMMA QueueTypes ==
  ASSUME NEW n \in Nat, NEW queue \in Seq(ItemsOf(n))
  PROVE  /\ \A item \in ItemsOf(n) : Append(queue, item) \in Seq(ItemsOf(n))
         /\ \A i \in 1 .. Len(queue) : RemoveAt(queue, i) \in Seq(ItemsOf(n))
         /\ \A i \in 0 .. Len(queue) : SubSeq(queue, i + 1, Len(queue)) \in Seq(ItemsOf(n))
         /\ \A i \in 1 .. Len(queue), text \in SUBSET (1 .. n) :
              Replaced(queue, i, text) \in Seq(ItemsOf(n))
PROOF
<1>1. \A item \in ItemsOf(n) : Append(queue, item) \in Seq(ItemsOf(n))
  OBVIOUS
<1>2. \A i \in 0 .. Len(queue) : SubSeq(queue, i + 1, Len(queue)) \in Seq(ItemsOf(n))
  OBVIOUS
<1>3. ASSUME NEW i \in 1 .. Len(queue) PROVE RemoveAt(queue, i) \in Seq(ItemsOf(n))
  <2>1. /\ SubSeq(queue, 1, i - 1) \in Seq(ItemsOf(n))
        /\ SubSeq(queue, i + 1, Len(queue)) \in Seq(ItemsOf(n))
    OBVIOUS
  <2> QED
    BY <2>1 DEF RemoveAt
<1>4. ASSUME NEW i \in 1 .. Len(queue), NEW text \in SUBSET (1 .. n)
      PROVE  Replaced(queue, i, text) \in Seq(ItemsOf(n))
  <2>1. ASSUME NEW j \in 1 .. Len(queue)
        PROVE  queue[j] \in ItemsOf(n) /\ [queue[j] EXCEPT !.text = text] \in ItemsOf(n)
    <3>1. queue[j] \in ItemsOf(n)
      OBVIOUS
    <3> QED
      BY <3>1 DEF ItemsOf
  <2>2. Replaced(queue, i, text)
          = [j \in 1 .. Len(queue) |-> IF j = i THEN [queue[j] EXCEPT !.text = text] ELSE queue[j]]
    BY DEF Replaced
  <2> QED
    BY <2>1, <2>2
<1> QED
  BY <1>1, <1>2, <1>3, <1>4

-----------------------------------------------------------------------------
(* A message in two places was shown from the queue. *)

\* The messages are those typed so far.
Known ==
  /\ typed \in 0 .. MaxTyped
  /\ steering \in Seq(ItemsOf(typed)) /\ followUps \in Seq(ItemsOf(typed))
  /\ editor \subseteq 1 .. typed /\ nav.draft \subseteq 1 .. typed
  /\ line \subseteq 1 .. typed /\ said \subseteq 1 .. typed
  /\ gone \subseteq 1 .. typed /\ browsed \subseteq 1 .. typed

\* Six places, and no message in two of them that is not in B.
Apart(E, D, L, S, P, Q, B) ==
  \A m : m \notin B =>
    /\ m \in E => m \notin D \cup L \cup S \cup P \cup Q
    /\ m \in D => m \notin L \cup S \cup P \cup Q
    /\ m \in L => m \notin S \cup P \cup Q
    /\ m \in S => m \notin P \cup Q
    /\ m \in P => m \notin Q

SaidOnce ==
  /\ Apart(editor, nav.draft, line, said, Messages(steering), Messages(followUps), browsed)
  /\ Spread(steering, browsed) /\ Spread(followUps, browsed)
  /\ again \subseteq browsed

PlacesInv == KeptInv /\ Known /\ SaidOnce

LEMMA PlacesFacts ==
  ASSUME PlacesInv
  PROVE  /\ typed \in Nat
         /\ steering \in Seq(Items) /\ followUps \in Seq(Items)
         /\ Messages(steering) \subseteq 1 .. typed /\ Messages(followUps) \subseteq 1 .. typed
         /\ Messages(Pending) = Messages(steering) \cup Messages(followUps)
PROOF
<1>1. typed \in Nat
  BY BoundAssumption DEF PlacesInv, Known
<1>2. steering \in Seq(Items) /\ followUps \in Seq(Items)
  BY DEF PlacesInv, KeptInv
<1>3. steering \in Seq(ItemsOf(typed)) /\ followUps \in Seq(ItemsOf(typed))
  BY DEF PlacesInv, Known
<1> QED
  BY <1>1, <1>2, <1>3, MessagesOf, PendingMessages

LEMMA PlacesInit == Init => Known /\ SaidOnce
PROOF
<1> SUFFICES ASSUME Init PROVE Known /\ SaidOnce
  OBVIOUS
<1>1. << >> \in Seq(ItemsOf(0)) /\ Len(<< >>) = 0
  OBVIOUS
<1>2. Messages(<< >>) = {}
  BY DEF Messages
<1>3. nav.draft = {} /\ typed = 0 /\ steering = << >> /\ followUps = << >>
      /\ editor = {} /\ line = {} /\ said = {} /\ gone = {} /\ browsed = {} /\ again = {}
  BY DEF Init, NoNav
<1>4. Known
  BY <1>1, <1>3, BoundAssumption DEF Known
<1>5. SaidOnce
  BY <1>1, <1>2, <1>3 DEF SaidOnce, Spread, Apart
<1> QED
  BY <1>4, <1>5

LEMMA TypePlaced == ASSUME PlacesInv, Type PROVE Known' /\ SaidOnce'
PROOF
<1>1. /\ typed < MaxTyped /\ typed' = typed + 1 /\ editor' = editor \cup {typed'}
      /\ UNCHANGED <<line, nav, steering, followUps, said, again, gone, browsed>>
  BY DEF Type, control, queues, told
<1>2. typed' \notin 1 .. typed /\ 1 .. typed' = 1 .. typed \cup {typed'}
  BY <1>1, PlacesFacts
<1>3. Seq(ItemsOf(typed)) \subseteq Seq(ItemsOf(typed'))
  BY <1>1, PlacesFacts, ItemsOfMore
<1>4. Known'
  BY <1>1, <1>2, <1>3, PlacesFacts, BoundAssumption, SMTT(60) DEF PlacesInv, Known
<1>5. SaidOnce'
  <2>1. Apart(editor', nav.draft, line, said, Messages(steering), Messages(followUps), browsed)
    BY <1>1, <1>2, PlacesFacts DEF PlacesInv, Known, SaidOnce, Apart
  <2> QED
    BY <1>1, <2>1 DEF PlacesInv, SaidOnce
<1> QED
  BY <1>4, <1>5

LEMMA ClearBufferPlaced == ASSUME PlacesInv, ClearBuffer PROVE Known' /\ SaidOnce'
PROOF
<1>1. /\ editor' = {} /\ gone' = gone \cup (editor \ Messages(Pending))
      /\ UNCHANGED <<line, nav, steering, followUps, said, typed, again, browsed>>
  BY DEF ClearBuffer, Forget, control, queues
<1>2. Known'
  BY <1>1 DEF PlacesInv, Known
<1>3. Apart(editor', nav.draft, line, said, Messages(steering), Messages(followUps), browsed)
  BY <1>1 DEF PlacesInv, SaidOnce, Apart
<1> QED
  BY <1>1, <1>2, <1>3 DEF PlacesInv, SaidOnce

LEMMA NavigatePlaced ==
  ASSUME PlacesInv, NEW previous \in BOOLEAN, Navigate(previous) PROVE Known' /\ SaidOnce'
PROOF
<1>1. UNCHANGED <<line, steering, followUps, said, typed, again>>
  BY DEF Navigate, control, queues, NothingQueued
<1>2. Pending \in Seq(Items)
  BY PendingMessages DEF PlacesInv, KeptInv
<1>3. CASE NothingQueued /\ UNCHANGED <<browsed, upset>>
  <2>1. Reset(TRUE, editor) /\ gone' = (IF nav.index # 0 THEN gone \cup (editor \ Messages(Pending)) ELSE gone)
    BY <1>3 DEF NothingQueued, Forget
  <2>2. nav'.draft = {} /\ editor' = IF nav.index # 0 THEN nav.draft ELSE editor
    BY <2>1, ResetKept DEF PlacesInv, KeptInv
  <2>3. Known'
    BY <1>1, <1>3, <2>1, <2>2 DEF PlacesInv, Known
  <2>4. Apart(editor', nav'.draft, line, said, Messages(steering), Messages(followUps), browsed)
    BY <2>2 DEF PlacesInv, SaidOnce, Apart
  <2> QED
    BY <1>1, <1>3, <2>3, <2>4 DEF PlacesInv, SaidOnce
<1>4. CASE ~(NothingQueued /\ UNCHANGED <<browsed, upset>>)
  <2>1. PICK index \in 1 .. Len(Pending) :
          /\ nav' = [index |-> index, id |-> Pending[index].id,
                     draft |-> IF nav.index = 0 THEN editor ELSE nav.draft]
          /\ editor' = Pending[index].text
          /\ gone' = IF nav.index = 0 THEN gone ELSE gone \cup (editor \ Messages(Pending))
          /\ browsed' = browsed \cup Pending[index].text
    BY <1>2, <1>4, SMTT(60) DEF Navigate, Forget, PlacesInv, KeptInv
  <2>2. editor' \subseteq 1 .. typed /\ editor' \subseteq browsed'
    <3>1. Pending[index].text \subseteq Messages(Pending)
      BY <1>2, InQueue
    <3> QED
      BY <2>1, <3>1, PlacesFacts
  <2>3. nav'.draft = (IF nav.index = 0 THEN editor ELSE nav.draft) /\ browsed' = browsed \cup editor'
    BY <2>1
  <2>4. Known'
    BY <1>1, <2>1, <2>2, <2>3 DEF PlacesInv, Known
  <2>5. nav.index = 0 => nav.draft = {}
    BY DEF PlacesInv, KeptInv
  <2>6. Apart(editor', nav'.draft, line, said, Messages(steering), Messages(followUps), browsed')
    BY <2>2, <2>3, <2>5 DEF PlacesInv, SaidOnce, Apart
  <2>7. Spread(steering, browsed') /\ Spread(followUps, browsed') /\ again \subseteq browsed'
    BY <2>3 DEF PlacesInv, SaidOnce, Spread
  <2> QED
    BY <1>1, <2>4, <2>6, <2>7 DEF SaidOnce
<1> QED
  BY <1>3, <1>4

LEMMA RestoredPlaced ==
  ASSUME PlacesInv, Restored, UNCHANGED <<line, said, typed, again, browsed>>
  PROVE  Known' /\ SaidOnce'
PROOF
<1>1. /\ editor' = Messages(Pending) \cup (IF nav.index # 0 THEN nav.draft ELSE editor)
      /\ gone' = (IF nav.index # 0 THEN gone \cup (editor \ Messages(Pending)) ELSE gone)
      /\ steering' = << >> /\ followUps' = << >> /\ nav'.draft = {}
  BY DEF Restored, Forget, NoNav
<1>2. Messages(<< >>) = {} /\ << >> \in Seq(ItemsOf(typed)) /\ Spread(<< >>, browsed)
  BY DEF Messages, Spread
<1>3. Known'
  BY <1>1, <1>2, PlacesFacts DEF PlacesInv, Known
<1>4. Apart(editor', nav'.draft, line, said, {}, {}, browsed)
  BY <1>1, PlacesFacts DEF PlacesInv, SaidOnce, Apart
<1> QED
  BY <1>1, <1>2, <1>3, <1>4 DEF PlacesInv, SaidOnce

LEMMA SubmitPlaced == ASSUME PlacesInv, Submit PROVE Known' /\ SaidOnce'
PROOF
<1>1. /\ phase = "idle" /\ editor' = {}
      /\ UNCHANGED <<nav, steering, followUps, typed, gone, browsed>>
  BY DEF Submit, AtPrompt, queues
<1>2. line = {}
  BY <1>1 DEF PlacesInv, KeptInv
<1>3. \/ line' = editor /\ said' = said /\ again' = again
      \/ line' = {} /\ said' = said \cup editor /\ again' = again \cup (said \cap editor)
  BY DEF Submit, Begin, Say
<1>4. Known'
  BY <1>1, <1>2, <1>3 DEF PlacesInv, Known
<1>5. Apart(editor', nav.draft, line', said', Messages(steering), Messages(followUps), browsed)
  BY <1>1, <1>2, <1>3 DEF PlacesInv, SaidOnce, Apart
<1>6. again' \subseteq browsed
  BY <1>3 DEF PlacesInv, SaidOnce, Apart
<1> QED
  BY <1>1, <1>4, <1>5, <1>6 DEF PlacesInv, SaidOnce

LEMMA PreEndsPlaced == ASSUME PlacesInv, PreEnds PROVE Known' /\ SaidOnce'
PROOF
<1>1. /\ line' = {} /\ said' = said \cup line /\ again' = again \cup (said \cap line)
      /\ UNCHANGED <<editor, nav, steering, followUps, gone, typed, browsed>>
  BY DEF PreEnds, Say, input, queues
<1>2. Known'
  BY <1>1 DEF PlacesInv, Known
<1>3. Apart(editor, nav.draft, line', said', Messages(steering), Messages(followUps), browsed)
  BY <1>1 DEF PlacesInv, SaidOnce, Apart
<1>4. again' \subseteq browsed
  BY <1>1 DEF PlacesInv, SaidOnce, Apart
<1> QED
  BY <1>1, <1>2, <1>3, <1>4 DEF PlacesInv, SaidOnce

LEMMA CrashPlaced == ASSUME PlacesInv, Crash PROVE Known' /\ SaidOnce'
PROOF
<1>1. /\ line' = {} /\ gone' = gone \cup line
      /\ UNCHANGED <<editor, nav, steering, followUps, said, typed, again, browsed>>
  BY DEF Crash, input, queues
<1>2. Known'
  BY <1>1 DEF PlacesInv, Known
<1>3. Apart(editor, nav.draft, line', said, Messages(steering), Messages(followUps), browsed)
  BY <1>1 DEF PlacesInv, SaidOnce, Apart
<1> QED
  BY <1>1, <1>2, <1>3 DEF PlacesInv, SaidOnce

\* An item at the end of a queue, with what is nowhere else.
LEMMA AppendedPlaced ==
  ASSUME PlacesInv, NEW n \in Nat, typed <= n, NEW item \in ItemsOf(n), NEW E, NEW D,
         \/ steering' = Append(steering, item) /\ UNCHANGED followUps
         \/ followUps' = Append(followUps, item) /\ UNCHANGED steering,
         \A m \in item.text : m \notin browsed =>
           m \notin E \cup D \cup line \cup said \cup Messages(steering) \cup Messages(followUps),
         Apart(E, D, line, said, Messages(steering), Messages(followUps), browsed)
  PROVE  /\ steering' \in Seq(ItemsOf(n)) /\ followUps' \in Seq(ItemsOf(n))
         /\ Apart(E, D, line, said, Messages(steering'), Messages(followUps'), browsed)
         /\ Spread(steering', browsed) /\ Spread(followUps', browsed)
PROOF
<1>1. ItemsOf(typed) \subseteq ItemsOf(n)
  <2>1. 1 .. typed \subseteq 1 .. n
    BY PlacesFacts
  <2> QED
    BY <2>1 DEF ItemsOf
<1>2. steering \in Seq(ItemsOf(n)) /\ followUps \in Seq(ItemsOf(n)) /\ item \in Items
  BY <1>1, ItemsOfNat DEF PlacesInv, Known
<1>3. Spread(steering, browsed) /\ Spread(followUps, browsed)
  BY DEF PlacesInv, SaidOnce
<1>4. CASE steering' = Append(steering, item) /\ UNCHANGED followUps
  <2>1. Messages(steering') = Messages(steering) \cup item.text
    BY <1>2, <1>4, PlacesFacts, MessagesAppend
  <2>2. Spread(steering', browsed)
    BY <1>2, <1>3, <1>4, PlacesFacts, SpreadAppend
  <2>3. Apart(E, D, line, said, Messages(steering'), Messages(followUps), browsed)
    BY <2>1 DEF Apart
  <2> QED
    BY <1>2, <1>3, <1>4, <2>2, <2>3, QueueTypes
<1>5. CASE followUps' = Append(followUps, item) /\ UNCHANGED steering
  <2>1. Messages(followUps') = Messages(followUps) \cup item.text
    BY <1>2, <1>5, PlacesFacts, MessagesAppend
  <2>2. Spread(followUps', browsed)
    BY <1>2, <1>3, <1>5, PlacesFacts, SpreadAppend
  <2>3. Apart(E, D, line, said, Messages(steering), Messages(followUps'), browsed)
    BY <2>1 DEF Apart
  <2> QED
    BY <1>2, <1>3, <1>5, <2>2, <2>3, QueueTypes
<1> QED
  BY <1>4, <1>5

\* Another text in an item, of what is nowhere else.
LEMMA ReplacedPlaced ==
  ASSUME PlacesInv, NEW n \in Nat, typed <= n, NEW i \in 1 .. Len(Pending),
         NEW text \in SUBSET (1 .. n), NEW E, NEW D,
         IF i - Len(steering) > 0
         THEN followUps' = Replaced(followUps, i - Len(steering), text) /\ UNCHANGED steering
         ELSE steering' = Replaced(steering, i, text) /\ UNCHANGED followUps,
         \A m \in text : m \notin browsed =>
           m \notin E \cup D \cup line \cup said \cup Messages(steering) \cup Messages(followUps),
         Apart(E, D, line, said, Messages(steering), Messages(followUps), browsed)
  PROVE  /\ steering' \in Seq(ItemsOf(n)) /\ followUps' \in Seq(ItemsOf(n))
         /\ Apart(E, D, line, said, Messages(steering'), Messages(followUps'), browsed)
         /\ Spread(steering', browsed) /\ Spread(followUps', browsed)
PROOF
<1>1. ItemsOf(typed) \subseteq ItemsOf(n)
  <2>1. 1 .. typed \subseteq 1 .. n
    BY PlacesFacts
  <2> QED
    BY <2>1 DEF ItemsOf
<1>2. steering \in Seq(ItemsOf(n)) /\ followUps \in Seq(ItemsOf(n)) /\ text \in SUBSET Nat
  BY <1>1 DEF PlacesInv, Known
<1>3. Spread(steering, browsed) /\ Spread(followUps, browsed)
  BY DEF PlacesInv, SaidOnce
<1>i. KeptInv
  BY DEF PlacesInv
<1>4. CASE i - Len(steering) > 0
  <2> DEFINE j == i - Len(steering)
  <2>1. j \in 1 .. Len(followUps)
    BY <1>i, <1>4, PendingItem
  <2>2. followUps' = Replaced(followUps, j, text) /\ UNCHANGED steering
    BY <1>4
  <2> HIDE DEF j
  <2>3. text \cap Messages(followUps) \subseteq browsed
    OBVIOUS
  <2>4. /\ Spread(followUps', browsed)
        /\ Messages(followUps') \subseteq Messages(followUps) \cup text
    BY <1>2, <1>3, <2>1, <2>2, <2>3, PlacesFacts, SpreadReplaced
  <2>5. Apart(E, D, line, said, Messages(steering), Messages(followUps'), browsed)
    BY <2>4 DEF Apart
  <2>6. followUps' \in Seq(ItemsOf(n))
    BY <1>2, <2>1, <2>2, QueueTypes
  <2> QED
    BY <1>2, <1>3, <2>2, <2>4, <2>5, <2>6
<1>5. CASE ~(i - Len(steering) > 0)
  <2>1. i \in 1 .. Len(steering)
    BY <1>i, <1>5, PendingItem
  <2>2. steering' = Replaced(steering, i, text) /\ UNCHANGED followUps
    BY <1>5
  <2>3. text \cap Messages(steering) \subseteq browsed
    OBVIOUS
  <2>4. /\ Spread(steering', browsed)
        /\ Messages(steering') \subseteq Messages(steering) \cup text
    BY <1>2, <1>3, <2>1, <2>2, <2>3, PlacesFacts, SpreadReplaced
  <2>5. Apart(E, D, line, said, Messages(steering'), Messages(followUps), browsed)
    BY <2>4 DEF Apart
  <2>6. steering' \in Seq(ItemsOf(n))
    BY <1>2, <2>1, <2>2, QueueTypes
  <2> QED
    BY <1>2, <1>3, <2>2, <2>4, <2>5, <2>6
<1> QED
  BY <1>4, <1>5

LEMMA QueueInputPlaced ==
  ASSUME PlacesInv, NEW kind \in {"steering", "follow-up"}, QueueInput(kind)
  PROVE  Known' /\ SaidOnce'
PROOF
<1>1. UNCHANGED <<line, said, typed, again, browsed>> /\ editor # {}
  BY DEF QueueInput, control
<1>2. typed \in Nat /\ typed <= typed
  BY PlacesFacts
<1>3. CASE nav.index \in 1 .. Len(Pending)
  <2> DEFINE i == nav.index
  <2>1. /\ IF i - Len(steering) > 0
           THEN followUps' = Replaced(followUps, i - Len(steering), editor) /\ UNCHANGED steering
           ELSE steering' = Replaced(steering, i, editor) /\ UNCHANGED followUps
        /\ Reset(TRUE, {})
        /\ gone' = gone \cup (Pending[i].text \ editor)
    BY <1>3 DEF QueueInput
  <2>2. nav'.draft = {} /\ editor' = nav.draft
    <3>1. nav.index # 0
      BY <1>3, PlacesFacts, PendingMessages
    <3> QED
      BY <2>1, <3>1, ResetKept DEF PlacesInv
  <2>3. editor \in SUBSET (1 .. typed)
    BY DEF PlacesInv, Known
  <2>4. /\ Apart(nav.draft, {}, line, said, Messages(steering), Messages(followUps), browsed)
        /\ \A m \in editor : m \notin browsed =>
             m \notin nav.draft \cup {} \cup line \cup said \cup Messages(steering) \cup Messages(followUps)
    BY DEF PlacesInv, SaidOnce, Apart
  <2>5. /\ steering' \in Seq(ItemsOf(typed)) /\ followUps' \in Seq(ItemsOf(typed))
        /\ Apart(nav.draft, {}, line, said, Messages(steering'), Messages(followUps'), browsed)
        /\ Spread(steering', browsed) /\ Spread(followUps', browsed)
    BY <1>2, <1>3, <2>1, <2>3, <2>4, ReplacedPlaced, ZenonT(60)
  <2>6. Pending[i].text \subseteq 1 .. typed
    <3>1. Pending \in Seq(Items)
      BY PlacesFacts, PendingMessages
    <3>2. Pending[i].text \subseteq Messages(Pending)
      BY <1>3, <3>1, InQueue
    <3> QED
      BY <3>2, PlacesFacts
  <2>7. Known'
    BY <1>1, <2>1, <2>2, <2>5, <2>6 DEF PlacesInv, Known
  <2> QED
    BY <1>1, <2>2, <2>5, <2>7 DEF PlacesInv, SaidOnce
<1>4. CASE nav.index \notin 1 .. Len(Pending)
  <2> DEFINE item == [id |-> CHOOSE message \in editor : TRUE, text |-> editor]
  <2>1. item \in ItemsOf(typed) /\ item.text = editor
    BY <1>1 DEF PlacesInv, Known, ItemsOf
  <2>2. /\ \/ steering' = Append(steering, item) /\ UNCHANGED followUps
           \/ followUps' = Append(followUps, item) /\ UNCHANGED steering
        /\ Reset(FALSE, {})
        /\ gone' = gone \cup (nav.draft \ Messages(Pending))
    BY <1>4 DEF QueueInput, Forget
  <2> HIDE DEF item
  <2>3. editor' = {} /\ nav'.draft = {}
    BY <2>2, ResetKept DEF PlacesInv
  <2>4. /\ Apart({}, {}, line, said, Messages(steering), Messages(followUps), browsed)
        /\ \A m \in item.text : m \notin browsed =>
             m \notin {} \cup {} \cup line \cup said \cup Messages(steering) \cup Messages(followUps)
    BY <2>1 DEF PlacesInv, SaidOnce, Apart
  <2>5. /\ steering' \in Seq(ItemsOf(typed)) /\ followUps' \in Seq(ItemsOf(typed))
        /\ Apart({}, {}, line, said, Messages(steering'), Messages(followUps'), browsed)
        /\ Spread(steering', browsed) /\ Spread(followUps', browsed)
    BY <1>2, <2>1, <2>2, <2>4, AppendedPlaced
  <2>6. Known'
    BY <1>1, <2>2, <2>3, <2>5 DEF PlacesInv, Known
  <2> QED
    BY <1>1, <2>3, <2>5, <2>6 DEF PlacesInv, SaidOnce
<1> QED
  BY <1>3, <1>4

\* A message that is new is nowhere.
LEMMA NewMessage ==
  ASSUME PlacesInv, typed < MaxTyped, typed' = typed + 1
  PROVE  /\ typed' \in Nat /\ typed <= typed' /\ typed' \in 1 .. typed' /\ typed' \in 0 .. MaxTyped
         /\ 1 .. typed \subseteq 1 .. typed'
         /\ typed' \notin editor \cup nav.draft \cup line \cup said \cup Messages(steering) \cup Messages(followUps)
PROOF
<1>1. typed' \notin 1 .. typed
  BY PlacesFacts
<1> QED
  BY <1>1, PlacesFacts, BoundAssumption, SMTT(60) DEF PlacesInv, Known

LEMMA QueueByCommandPlaced ==
  ASSUME PlacesInv, NEW kind \in {"steering", "follow-up"}, QueueByCommand(kind)
  PROVE  Known' /\ SaidOnce'
PROOF
<1> DEFINE item == [id |-> typed', text |-> {typed'}]
<1>1. /\ typed < MaxTyped /\ typed' = typed + 1
      /\ \/ steering' = Append(steering, item) /\ UNCHANGED followUps
         \/ followUps' = Append(followUps, item) /\ UNCHANGED steering
      /\ UNCHANGED <<line, editor, nav, said, again, gone, browsed>>
  BY DEF QueueByCommand, control, input
<1>2. item \in ItemsOf(typed') /\ item.text = {typed'}
  BY <1>1, NewMessage DEF ItemsOf
<1> HIDE DEF item
<1>3. /\ steering' \in Seq(ItemsOf(typed')) /\ followUps' \in Seq(ItemsOf(typed'))
      /\ Apart(editor, nav.draft, line, said, Messages(steering'), Messages(followUps'), browsed)
      /\ Spread(steering', browsed) /\ Spread(followUps', browsed)
  <2>1. Apart(editor, nav.draft, line, said, Messages(steering), Messages(followUps), browsed)
    BY DEF PlacesInv, SaidOnce
  <2>2. \A m \in item.text : m \notin browsed =>
          m \notin editor \cup nav.draft \cup line \cup said \cup Messages(steering) \cup Messages(followUps)
    BY <1>1, <1>2, NewMessage
  <2> QED
    BY <1>1, <1>2, <2>1, <2>2, NewMessage, AppendedPlaced
<1>4. Known'
  BY <1>1, <1>3, NewMessage DEF PlacesInv, Known
<1> QED
  BY <1>1, <1>3, <1>4 DEF PlacesInv, SaidOnce

LEMMA EditPlaced ==
  ASSUME PlacesInv, NEW i \in Nat, Edit(i) PROVE Known' /\ SaidOnce'
PROOF
<1>1. /\ i \in 1 .. Len(Pending) /\ typed < MaxTyped /\ typed' = typed + 1
      /\ IF i - Len(steering) > 0
         THEN followUps' = Replaced(followUps, i - Len(steering), {typed'}) /\ UNCHANGED steering
         ELSE steering' = Replaced(steering, i, {typed'}) /\ UNCHANGED followUps
      /\ gone' = gone \cup Pending[i].text
      /\ UNCHANGED <<line, editor, nav, said, again, browsed>>
  <2>1. DOMAIN Pending = 1 .. Len(Pending)
    BY PlacesFacts, PendingMessages
  <2> QED
    BY <2>1 DEF Edit, control, input
<1>2. {typed'} \in SUBSET (1 .. typed')
  BY <1>1, NewMessage
<1>3. /\ steering' \in Seq(ItemsOf(typed')) /\ followUps' \in Seq(ItemsOf(typed'))
      /\ Apart(editor, nav.draft, line, said, Messages(steering'), Messages(followUps'), browsed)
      /\ Spread(steering', browsed) /\ Spread(followUps', browsed)
  <2>1. Apart(editor, nav.draft, line, said, Messages(steering), Messages(followUps), browsed)
    BY DEF PlacesInv, SaidOnce
  <2>2. \A m \in {typed'} : m \notin browsed =>
          m \notin editor \cup nav.draft \cup line \cup said \cup Messages(steering) \cup Messages(followUps)
    BY <1>1, NewMessage
  <2> QED
    BY <1>1, <1>2, <2>1, <2>2, NewMessage, ReplacedPlaced, SMTT(60)
<1>4. Pending[i].text \subseteq 1 .. typed
  <2>1. Pending \in Seq(Items)
    BY PlacesFacts, PendingMessages
  <2>2. Pending[i].text \subseteq Messages(Pending)
    BY <1>1, <2>1, InQueue
  <2> QED
    BY <2>2, PlacesFacts
<1>5. Known'
  BY <1>1, <1>3, <1>4, NewMessage DEF PlacesInv, Known
<1> QED
  BY <1>1, <1>3, <1>5 DEF PlacesInv, SaidOnce

LEMMA DropPlaced ==
  ASSUME PlacesInv, NEW i \in Nat, Drop(i) PROVE Known' /\ SaidOnce'
PROOF
<1>1. /\ i \in 1 .. Len(Pending)
      /\ IF i - Len(steering) > 0
         THEN followUps' = RemoveAt(followUps, i - Len(steering)) /\ UNCHANGED steering
         ELSE steering' = RemoveAt(steering, i) /\ UNCHANGED followUps
      /\ gone' = gone \cup Pending[i].text
      /\ UNCHANGED <<line, editor, nav, said, typed, again, browsed>>
  <2>1. DOMAIN Pending = 1 .. Len(Pending)
    BY PlacesFacts, PendingMessages
  <2> QED
    BY <2>1 DEF Drop, control, input
<1>2. /\ steering \in Seq(ItemsOf(typed)) /\ followUps \in Seq(ItemsOf(typed))
      /\ Spread(steering, browsed) /\ Spread(followUps, browsed) /\ KeptInv
  BY DEF PlacesInv, Known, SaidOnce
<1>3. /\ steering' \in Seq(ItemsOf(typed)) /\ followUps' \in Seq(ItemsOf(typed))
      /\ Messages(steering') \subseteq Messages(steering)
      /\ Messages(followUps') \subseteq Messages(followUps)
      /\ Spread(steering', browsed) /\ Spread(followUps', browsed)
  <2>1. CASE i - Len(steering) > 0
    <3> DEFINE j == i - Len(steering)
    <3>1. j \in 1 .. Len(followUps)
      BY <1>1, <1>2, <2>1, PendingItem
    <3>2. followUps' = RemoveAt(followUps, j) /\ UNCHANGED steering
      BY <1>1, <2>1
    <3> HIDE DEF j
    <3>3. Messages(followUps') \subseteq Messages(followUps) /\ Spread(followUps', browsed)
      BY <1>2, <3>1, <3>2, PlacesFacts, MessagesRemoved, SpreadRemoved
    <3>4. followUps' \in Seq(ItemsOf(typed))
      BY <1>2, <3>1, <3>2, PlacesFacts, QueueTypes
    <3> QED
      BY <1>2, <3>2, <3>3, <3>4
  <2>2. CASE ~(i - Len(steering) > 0)
    <3>1. i \in 1 .. Len(steering)
      BY <1>1, <1>2, <2>2, PendingItem
    <3>2. steering' = RemoveAt(steering, i) /\ UNCHANGED followUps
      BY <1>1, <2>2
    <3>3. Messages(steering') \subseteq Messages(steering) /\ Spread(steering', browsed)
      BY <1>2, <3>1, <3>2, PlacesFacts, MessagesRemoved, SpreadRemoved
    <3>4. steering' \in Seq(ItemsOf(typed))
      BY <1>2, <3>1, <3>2, PlacesFacts, QueueTypes
    <3> QED
      BY <1>2, <3>2, <3>3, <3>4
  <2> QED
    BY <2>1, <2>2
<1>4. Pending[i].text \subseteq 1 .. typed
  <2>1. Pending \in Seq(Items)
    BY PlacesFacts, PendingMessages
  <2>2. Pending[i].text \subseteq Messages(Pending)
    BY <1>1, <2>1, InQueue
  <2> QED
    BY <2>2, PlacesFacts
<1>5. Known'
  BY <1>1, <1>3, <1>4 DEF PlacesInv, Known
<1>6. Apart(editor, nav.draft, line, said, Messages(steering'), Messages(followUps'), browsed)
  BY <1>3 DEF PlacesInv, SaidOnce, Apart
<1> QED
  BY <1>1, <1>3, <1>5, <1>6 DEF PlacesInv, SaidOnce

LEMMA ClearQueuesPlaced ==
  ASSUME PlacesInv, NEW kinds, ClearQueues(kinds) PROVE Known' /\ SaidOnce'
PROOF
<1>1. /\ steering' = (IF "steering" \in kinds THEN << >> ELSE steering)
      /\ followUps' = (IF "follow-up" \in kinds THEN << >> ELSE followUps)
      /\ gone' = gone \cup (Messages(Pending) \ Messages(steering' \o followUps'))
      /\ UNCHANGED <<line, editor, nav, said, typed, again, browsed>>
  BY DEF ClearQueues, control, input
<1>2. Messages(<< >>) = {} /\ << >> \in Seq(ItemsOf(typed)) /\ Spread(<< >>, browsed)
  BY DEF Messages, Spread
<1>3. /\ Messages(steering') \subseteq Messages(steering)
      /\ Messages(followUps') \subseteq Messages(followUps)
      /\ steering' \in Seq(ItemsOf(typed)) /\ followUps' \in Seq(ItemsOf(typed))
      /\ Spread(steering', browsed) /\ Spread(followUps', browsed)
  BY <1>1, <1>2 DEF PlacesInv, Known, SaidOnce
<1>4. Known'
  BY <1>1, <1>3, PlacesFacts DEF PlacesInv, Known
<1>5. Apart(editor, nav.draft, line, said, Messages(steering'), Messages(followUps'), browsed)
  BY <1>3 DEF PlacesInv, SaidOnce, Apart
<1> QED
  BY <1>1, <1>3, <1>4, <1>5 DEF PlacesInv, SaidOnce

LEMMA TakePlaced == ASSUME PlacesInv, Take PROVE Known' /\ SaidOnce'
PROOF
<1> DEFINE queue == IF steering # << >> THEN steering ELSE followUps
<1>1. /\ queue \in Seq(Items) /\ queue \in Seq(ItemsOf(typed)) /\ Spread(queue, browsed)
      /\ KeptInv /\ Spread(steering, browsed) /\ Spread(followUps, browsed)
      /\ steering \in Seq(ItemsOf(typed)) /\ followUps \in Seq(ItemsOf(typed))
  BY PlacesFacts DEF PlacesInv, Known, SaidOnce
<1>2. UNCHANGED <<line, typed, browsed>> /\ queue # << >>
  BY <1>1 DEF Take, control, Pending
<1>3. Len(queue) \in Nat /\ Len(queue) # 0
  BY <1>1, <1>2
<1>4. PICK n \in {1, Len(queue)} :
        /\ Say(Messages(SubSeq(queue, 1, n)))
        /\ IF steering # << >> THEN steering' = SubSeq(queue, n + 1, Len(queue)) /\ UNCHANGED followUps
           ELSE followUps' = SubSeq(queue, n + 1, Len(queue)) /\ UNCHANGED steering
        /\ FollowPosition(IF steering # << >> THEN SubSeq(queue, n + 1, Len(queue)) \o followUps
                          ELSE SubSeq(queue, n + 1, Len(queue)))
  BY DEF Take
<1> DEFINE taken == SubSeq(queue, 1, n)
           rest == SubSeq(queue, n + 1, Len(queue))
           left == IF steering # << >> THEN rest \o followUps ELSE rest
<1>5. n \in 0 .. Len(queue)
  BY <1>3
<1>6. /\ Messages(queue) = Messages(taken) \cup Messages(rest)
      /\ Messages(taken) \cap Messages(rest) \subseteq browsed
      /\ Spread(rest, browsed) /\ rest \in Seq(ItemsOf(typed)) /\ rest \in Seq(Items)
  BY <1>1, <1>5, PlacesFacts, MessagesSplit, SpreadSplit, QueueTypes
<1>7. /\ queue = IF steering # << >> THEN steering ELSE followUps
      /\ IF steering # << >> THEN steering' = rest /\ UNCHANGED followUps
         ELSE followUps' = rest /\ UNCHANGED steering
      /\ said' = said \cup Messages(taken) /\ again' = again \cup (said \cap Messages(taken))
      /\ FollowPosition(left)
  BY <1>4 DEF Say
<1>8. left \in Seq(Items)
  BY <1>6, PlacesFacts
<1>9. \/ editor' = editor /\ nav'.draft = nav.draft /\ gone' = gone
      \/ /\ editor' = nav.draft /\ nav'.draft = {}
         /\ gone' = gone \cup (editor \ (Messages(Pending) \cup nav.draft))
  <2> DEFINE at == {i \in DOMAIN left : left[i].id = nav.id}
  <2>0. nav \in [index : Nat, id : Nat, draft : SUBSET Nat]
    BY <1>1 DEF KeptInv
  <2> HIDE DEF left
  <2>1. CASE nav.index = 0
    BY <1>7, <2>1 DEF FollowPosition, input
  <2>2. CASE nav.index # 0 /\ at # {}
    <3>1. PICK k : nav' = [nav EXCEPT !.index = k] /\ editor' = editor /\ gone' = gone
      BY <1>7, <2>2 DEF FollowPosition
    <3> QED
      BY <2>0, <3>1
  <2>3. CASE nav.index # 0 /\ at = {}
    <3>1. /\ Reset(TRUE, editor)
          /\ gone' = gone \cup (editor \ (Messages(Pending) \cup nav.draft))
      BY <1>7, <2>3 DEF FollowPosition
    <3> QED
      BY <1>1, <2>3, <3>1, ResetKept DEF KeptInv
  <2> QED
    BY <2>1, <2>2, <2>3
<1> HIDE DEF left, rest, taken, queue
<1>10. Known'
  <2>1. Messages(taken) \subseteq 1 .. typed
    BY <1>6, <1>7, PlacesFacts
  <2> QED
    BY <1>1, <1>2, <1>6, <1>7, <1>9, <2>1 DEF PlacesInv, Known
<1>11. Apart(editor', nav'.draft, line, said', Messages(steering'), Messages(followUps'), browsed)
  <2>1. Apart(editor', nav'.draft, line, said, Messages(steering), Messages(followUps), browsed)
    BY <1>9 DEF PlacesInv, SaidOnce, Apart
  <2>2. CASE steering # << >>
    BY <1>6, <1>7, <2>1, <2>2 DEF Apart
  <2>3. CASE ~(steering # << >>)
    BY <1>6, <1>7, <2>1, <2>3 DEF Apart
  <2> QED
    BY <2>2, <2>3
<1>12. again' \subseteq browsed
  BY <1>6, <1>7 DEF PlacesInv, SaidOnce, Apart
<1> QED
  BY <1>1, <1>2, <1>6, <1>7, <1>10, <1>11, <1>12 DEF SaidOnce

LEMMA PlacesUnchanged ==
  ASSUME PlacesInv, UNCHANGED <<input, queues, said, typed, gone, again, browsed, line>>
  PROVE  Known' /\ SaidOnce'
PROOF
<1>1. UNCHANGED <<editor, nav, steering, followUps, said, typed, gone, again, browsed, line>>
  BY DEF input, queues
<1>2. Known'
  BY <1>1 DEF PlacesInv, Known
<1>3. SaidOnce'
  BY <1>1 DEF PlacesInv, SaidOnce
<1> QED
  BY <1>2, <1>3

LEMMA PlacesStep == PlacesInv /\ [Next]_vars => PlacesInv'
PROOF
<1> SUFFICES ASSUME PlacesInv, [Next]_vars PROVE PlacesInv'
  OBVIOUS
<1> SUFFICES Known' /\ SaidOnce'
  BY KeptStep DEF PlacesInv
<1>1. CASE Type \/ ClearBuffer \/ Submit
  BY <1>1, TypePlaced, ClearBufferPlaced, SubmitPlaced
<1>2. CASE Restore \/ Abort
  <2>1. UNCHANGED <<line, said, typed, again, browsed>>
    BY <1>2 DEF Restore, Abort, control
  <2>2. CASE Restored
    BY <2>1, <2>2, RestoredPlaced
  <2>3. CASE UNCHANGED <<input, queues, gone>>
    BY <2>1, <2>3, PlacesUnchanged
  <2> QED
    BY <1>2, <2>2, <2>3 DEF Restore, Abort
<1>3. CASE \E previous \in BOOLEAN : Navigate(previous)
  BY <1>3, NavigatePlaced
<1>4. CASE \E kind \in {"steering", "follow-up"} : QueueInput(kind) \/ QueueByCommand(kind)
  BY <1>4, QueueInputPlaced, QueueByCommandPlaced
<1>5. CASE \E i \in 1 .. MaxTyped : Drop(i) \/ Edit(i)
  BY <1>5, BoundAssumption, DropPlaced, EditPlaced
<1>6. CASE \E kinds \in (SUBSET {"steering", "follow-up"}) \ {{}} : ClearQueues(kinds)
  BY <1>6, ClearQueuesPlaced
<1>7. CASE Take \/ Crash \/ PreEnds
  BY <1>7, TakePlaced, CrashPlaced, PreEndsPlaced
<1>8. CASE TurnEnds \/ RecoverEnds \/ Ends \/ Leave
  <2>1. UNCHANGED <<input, queues, said, typed, gone, again, browsed, line>>
    BY <1>8 DEF TurnEnds, RecoverEnds, Ends, Leave, told
  <2> QED
    BY <2>1, PlacesUnchanged
<1>9. CASE Bootstrap \/ \E kind \in Operations : Operate(kind)
  <2>1. UNCHANGED <<input, queues, said, typed, gone, again, browsed, line>>
    BY <1>9 DEF Bootstrap, Operate, told
  <2> QED
    BY <2>1, PlacesUnchanged
<1>10. CASE New \/ (\E file \in Files : Switch(file)) \/ Quit \/ Close \/ UNCHANGED vars
  <2>1. UNCHANGED <<input, queues, said, typed, gone, again, browsed, line>>
    BY <1>10 DEF New, Switch, Quit, Close, told, control, vars
  <2> QED
    BY <2>1, PlacesUnchanged
<1> QED
  BY <1>1, <1>2, <1>3, <1>4, <1>5, <1>6, <1>7, <1>8, <1>9, <1>10 DEF Next, Proceed

-----------------------------------------------------------------------------
(* The position and the item it shows. *)

\* An edit goes to the item that is shown, unless /queue changed the queue since.
PositionShown == nav.index \in 1 .. Len(Pending) => upset \/ Pending[nav.index].id = nav.id

\* No position, or nothing queued and none shown.
LEMMA NoPosition == ASSUME nav' = NoNav PROVE PositionShown'
PROOF
<1>1. nav'.index = 0
  BY DEF NoNav
<1>2. 0 \notin 1 .. Len(Pending')
  OBVIOUS
<1> QED
  BY <1>1, <1>2 DEF PositionShown

LEMMA PositionUnchanged ==
  ASSUME PositionShown, UNCHANGED <<nav, queues, upset>> PROVE PositionShown'
PROOF
  BY DEF PositionShown, Pending, queues

\* /queue changed the queue.
LEMMA PositionUpset ==
  ASSUME nav' = nav, upset' = (nav.index # 0) PROVE PositionShown'
PROOF
<1>1. 0 \notin 1 .. Len(Pending')
  OBVIOUS
<1> QED
  BY <1>1 DEF PositionShown

LEMMA NavigateShown ==
  ASSUME KeptInv, NEW previous \in BOOLEAN, Navigate(previous) PROVE PositionShown'
PROOF
<1>1. CASE NothingQueued
  BY <1>1, NoPosition DEF NothingQueued, Reset
<1>2. CASE ~NothingQueued
  <2>1. PICK index, draft : nav' = [index |-> index, id |-> Pending[index].id, draft |-> draft]
    BY <1>2, SMTT(60) DEF Navigate
  <2>2. Pending' = Pending
    BY <1>2 DEF Navigate, Pending, queues
  <2>3. nav'.id = Pending'[nav'.index].id
    BY <2>1, <2>2
  <2> QED
    BY <2>3 DEF PositionShown
<1> QED
  BY <1>1, <1>2

\* An item with another text keeps its name and its place.
LEMMA ReplacedIds ==
  ASSUME NEW queue \in Seq(Items), NEW i \in 1 .. Len(queue), NEW text \in SUBSET Nat
  PROVE  /\ Len(Replaced(queue, i, text)) = Len(queue)
         /\ \A j \in 1 .. Len(queue) : Replaced(queue, i, text)[j].id = queue[j].id
PROOF
<1> DEFINE new == Replaced(queue, i, text)
<1>1. DOMAIN queue = 1 .. Len(queue) /\ Len(queue) \in Nat
  OBVIOUS
<1>2. DOMAIN new = 1 .. Len(queue) /\ Len(new) = Len(queue)
  BY <1>1 DEF Replaced
<1>3. ASSUME NEW j \in 1 .. Len(queue) PROVE new[j].id = queue[j].id
  <2>1. queue[j] \in Items
    OBVIOUS
  <2>2. new[j] = IF j = i THEN [queue[j] EXCEPT !.text = text] ELSE queue[j]
    BY <1>1 DEF Replaced
  <2> QED
    BY <2>1, <2>2 DEF Items
<1> QED
  BY <1>2, <1>3

LEMMA EditShown ==
  ASSUME KeptInv, PositionShown, NEW i \in Nat, Edit(i) PROVE PositionShown'
PROOF
<1>1. /\ i \in 1 .. Len(Pending)
      /\ IF i - Len(steering) > 0
         THEN followUps' = Replaced(followUps, i - Len(steering), {typed'}) /\ UNCHANGED steering
         ELSE steering' = Replaced(steering, i, {typed'}) /\ UNCHANGED followUps
      /\ UNCHANGED <<nav, upset>> /\ typed' = typed + 1
  <2>1. DOMAIN Pending = 1 .. Len(Pending)
    BY PendingMessages DEF KeptInv
  <2> QED
    BY <2>1 DEF Edit, input
<1>2. {typed'} \in SUBSET Nat
  BY <1>1 DEF KeptInv
<1>3. steering' \in Seq(Items) /\ followUps' \in Seq(Items)
  BY <1>1, <1>2, ReplacedKept
<1>4. ASSUME NEW q \in Seq(Items), NEW k \in 1 .. Len(q)
      PROVE  /\ Len(Replaced(q, k, {typed'})) = Len(q)
             /\ \A j \in 1 .. Len(q) : Replaced(q, k, {typed'})[j].id = q[j].id
  BY <1>2, <1>4, ReplacedIds
<1>5. /\ Len(steering') = Len(steering) /\ Len(followUps') = Len(followUps)
      /\ \A j \in 1 .. Len(steering) : steering'[j].id = steering[j].id
      /\ \A j \in 1 .. Len(followUps) : followUps'[j].id = followUps[j].id
  <2>1. steering \in Seq(Items) /\ followUps \in Seq(Items)
    BY DEF KeptInv
  <2>2. CASE i - Len(steering) > 0
    <3>1. i - Len(steering) \in 1 .. Len(followUps) /\ steering' = steering
      BY <1>1, <2>2, PendingItem
    <3>2. followUps' = Replaced(followUps, i - Len(steering), {typed'})
      BY <1>1, <2>2
    <3> QED
      BY <1>4, <2>1, <3>1, <3>2
  <2>3. CASE ~(i - Len(steering) > 0)
    <3>1. i \in 1 .. Len(steering) /\ followUps' = followUps
      BY <1>1, <2>3, PendingItem
    <3>2. steering' = Replaced(steering, i, {typed'})
      BY <1>1, <2>3
    <3> QED
      BY <1>4, <2>1, <3>1, <3>2
  <2> QED
    BY <2>2, <2>3
<1>6. /\ Len(Pending) = Len(steering) + Len(followUps) /\ Len(Pending') = Len(Pending)
      /\ Len(steering) \in Nat /\ Len(followUps) \in Nat
  <2>1. Len(steering) \in Nat /\ Len(followUps) \in Nat
    BY DEF KeptInv
  <2>2. Len(Pending) = Len(steering) + Len(followUps)
    BY DEF Pending, KeptInv
  <2>3. Len(Pending') = Len(steering') + Len(followUps')
    BY <1>3 DEF Pending
  <2> QED
    BY <1>5, <2>1, <2>2, <2>3
<1>7. ASSUME NEW j \in 1 .. Len(Pending) PROVE Pending'[j].id = Pending[j].id
  <2>1. CASE j <= Len(steering)
    <3>1. Pending[j] = steering[j] /\ Pending'[j] = steering'[j]
      BY <1>3, <1>5, <1>6, <2>1 DEF Pending, KeptInv
    <3> QED
      BY <1>5, <1>6, <2>1, <3>1
  <2>2. CASE j > Len(steering)
    <3>1. j - Len(steering) \in 1 .. Len(followUps)
      BY <1>6, <2>2
    <3>2. Pending[j] = followUps[j - Len(steering)] /\ Pending'[j] = followUps'[j - Len(steering)]
      BY <1>3, <1>5, <1>6, <2>2, SMTT(60) DEF Pending, KeptInv
    <3> QED
      BY <1>5, <3>1, <3>2
  <2> QED
    BY <1>6, <2>1, <2>2
<1> QED
  BY <1>1, <1>6, <1>7 DEF PositionShown

LEMMA TakeShown == ASSUME KeptInv, PositionShown, Take PROVE PositionShown'
PROOF
<1> DEFINE queue == IF steering # << >> THEN steering ELSE followUps
<1>1. PICK n \in {1, Len(queue)} :
        /\ IF steering # << >> THEN steering' = SubSeq(queue, n + 1, Len(queue)) /\ UNCHANGED followUps
           ELSE followUps' = SubSeq(queue, n + 1, Len(queue)) /\ UNCHANGED steering
        /\ FollowPosition(IF steering # << >> THEN SubSeq(queue, n + 1, Len(queue)) \o followUps
                          ELSE SubSeq(queue, n + 1, Len(queue)))
  BY DEF Take
<1>2. queue \in Seq(Items) /\ queue # << >>
  BY DEF KeptInv, Take, Pending
<1>3. Len(queue) \in Nat /\ n \in 1 .. Len(queue)
  BY <1>1, <1>2
<1> DEFINE rest == SubSeq(queue, n + 1, Len(queue))
           left == IF steering # << >> THEN rest \o followUps ELSE rest
<1>4. rest \in Seq(Items)
  BY <1>2, <1>3
<1>5. left = Pending' /\ left \in Seq(Items)
  <2>1. CASE steering # << >>
    <3>1. steering' = rest /\ followUps' = followUps /\ left = rest \o followUps
      BY <1>1, <2>1
    <3>2. followUps \in Seq(Items)
      BY DEF KeptInv
    <3>3. rest \o followUps \in Seq(Items)
      BY <1>4, <3>2
    <3> QED
      BY <3>1, <3>3 DEF Pending
  <2>2. CASE steering = << >>
    <3>1. followUps' = rest /\ steering' = << >> /\ left = rest
      BY <1>1, <2>2
    <3>2. << >> \o rest = rest
      BY <1>4
    <3> QED
      BY <1>4, <3>1, <3>2 DEF Pending
  <2> QED
    BY <2>1, <2>2, SMTT(60)
<1>6. FollowPosition(left)
  BY <1>1
<1> HIDE DEF left
<1> DEFINE at == {i \in DOMAIN left : left[i].id = nav.id}
<1>7. CASE nav.index = 0
  <2>1. nav' = nav /\ 0 \notin 1 .. Len(Pending')
    BY <1>6, <1>7 DEF FollowPosition, input
  <2> QED
    BY <1>7, <2>1 DEF PositionShown
<1>8. CASE nav.index # 0 /\ at # {}
  <2> DEFINE first == CHOOSE i \in at : \A j \in at : i <= j
  <2>1. nav' = [nav EXCEPT !.index = first]
    BY <1>6, <1>8 DEF FollowPosition
  <2>2. first \in at
    <3>1. DOMAIN left = 1 .. Len(left)
      BY <1>5
    <3>2. at \subseteq Nat /\ at # {}
      BY <1>8, <3>1
    <3>3. \E i \in at : \A j \in at : i <= j
      BY <3>2, Recursion!LeastNatural
    <3> QED
      BY <3>3
  <2> HIDE DEF first
  <2>3. left[first].id = nav.id
    BY <2>2
  <2>4. nav'.index = first /\ nav'.id = nav.id
    BY <2>1 DEF KeptInv
  <2> QED
    BY <1>5, <2>3, <2>4 DEF PositionShown
<1>9. CASE nav.index # 0 /\ at = {}
  BY <1>6, <1>9, NoPosition DEF FollowPosition, Reset
<1> QED
  BY <1>7, <1>8, <1>9

LEMMA ShownStep == KeptInv /\ PositionShown /\ [Next]_vars => PositionShown'
PROOF
<1> SUFFICES ASSUME KeptInv, PositionShown, [Next]_vars PROVE PositionShown'
  OBVIOUS
<1>1. CASE Type \/ ClearBuffer \/ Submit
  BY <1>1, PositionUnchanged DEF Type, ClearBuffer, Submit, told
<1>2. CASE Restore \/ Abort
  <2>1. CASE Restored
    BY <2>1, NoPosition DEF Restored
  <2>2. CASE UNCHANGED <<input, queues, upset>>
    BY <2>2, PositionUnchanged DEF input
  <2> QED
    BY <1>2, <2>1, <2>2 DEF Restore, Abort
<1>3. CASE \E previous \in BOOLEAN : Navigate(previous)
  BY <1>3, NavigateShown
<1>4. CASE \E kind \in {"steering", "follow-up"} : QueueInput(kind)
  BY <1>4, NoPosition DEF QueueInput, Reset
<1>5. CASE \/ \E kind \in {"steering", "follow-up"} : QueueByCommand(kind)
           \/ \E i \in 1 .. MaxTyped : Drop(i)
           \/ \E kinds \in (SUBSET {"steering", "follow-up"}) \ {{}} : ClearQueues(kinds)
  BY <1>5, PositionUpset DEF QueueByCommand, Drop, ClearQueues, input
<1>6. CASE \E i \in 1 .. MaxTyped : Edit(i)
  BY <1>6, BoundAssumption, EditShown
<1>7. CASE Take
  BY <1>7, TakeShown
<1>8. CASE Crash \/ PreEnds \/ TurnEnds \/ RecoverEnds \/ Ends \/ Leave
  BY <1>8, PositionUnchanged DEF Crash, PreEnds, TurnEnds, RecoverEnds, Ends, Leave, input, told
<1>9. CASE \/ Bootstrap \/ (\E kind \in Operations : Operate(kind))
           \/ New \/ (\E file \in Files : Switch(file)) \/ Quit \/ Close \/ UNCHANGED vars
  BY <1>9, PositionUnchanged DEF Bootstrap, Operate, New, Switch, Quit, Close, input, told, vars
<1> QED
  BY <1>1, <1>2, <1>3, <1>4, <1>5, <1>6, <1>7, <1>8, <1>9 DEF Next, Proceed

-----------------------------------------------------------------------------
(* What is typed is kept. *)

SessionIds == Files \cup Ids \cup {""}

\* The phases, the flags, and what the events speak of.
PhaseOK == phase \in {"boot", "idle", "left"} \cup Turn \cup Operations
FlagsOK == /\ running \in BOOLEAN /\ abort \in BOOLEAN /\ pressed \in BOOLEAN
           /\ quitting \in BOOLEAN /\ upset \in BOOLEAN
SessionsOK ==
  /\ session \in [id : SessionIds, path : SessionIds]
  /\ runtime \in [started : BOOLEAN, closed : BOOLEAN]
  /\ events \in [open : Int, id : SessionIds]

LEMMA PhaseStep == PhaseOK /\ [Next]_vars => PhaseOK'
PROOF
<1> SUFFICES ASSUME PhaseOK, [Next]_vars PROVE PhaseOK'
  OBVIOUS
<1>1. ASSUME phase' = phase \/ phase' \in {"idle", "left"} \cup Turn \cup Operations PROVE PhaseOK'
  BY <1>1 DEF PhaseOK
<1>2. CASE Bootstrap \/ Submit \/ Proceed \/ Crash \/ Leave \/ \E kind \in Operations : Operate(kind)
  BY <1>1, <1>2, SMTT(60) DEF Bootstrap, Submit, Proceed, PreEnds, TurnEnds, RecoverEnds, Ends, Crash, Leave,
                    Operate, Becomes, Begin, Turn
<1>3. CASE \/ Type \/ ClearBuffer \/ Restore \/ Abort
           \/ \E previous \in BOOLEAN : Navigate(previous)
           \/ \E kind \in {"steering", "follow-up"} : QueueInput(kind) \/ QueueByCommand(kind)
  BY <1>1, <1>3 DEF Type, ClearBuffer, Restore, Abort, Navigate, QueueInput, QueueByCommand, control
<1>4. CASE \/ \E i \in 1 .. MaxTyped : Drop(i) \/ Edit(i)
           \/ \E kinds \in (SUBSET {"steering", "follow-up"}) \ {{}} : ClearQueues(kinds)
           \/ Take \/ New \/ (\E file \in Files : Switch(file)) \/ Quit \/ Close \/ UNCHANGED vars
  BY <1>1, <1>4 DEF Drop, Edit, ClearQueues, Take, New, Switch, Quit, Close, vars, control
<1> QED
  BY <1>2, <1>3, <1>4 DEF Next

LEMMA FlagsStep == FlagsOK /\ [Next]_vars => FlagsOK'
PROOF
<1> SUFFICES ASSUME FlagsOK, [Next]_vars PROVE FlagsOK'
  OBVIOUS
<1>1. Busy \in BOOLEAN
  BY DEF Busy
<1>2. ASSUME NEW next, Begin(next) \/ Becomes(next), upset' = upset PROVE FlagsOK'
  BY <1>2 DEF Begin, Becomes, FlagsOK
<1>3. CASE Bootstrap \/ Submit \/ Proceed \/ Crash \/ Leave \/ \E kind \in Operations : Operate(kind)
  BY <1>2, <1>3 DEF Bootstrap, Submit, Proceed, PreEnds, TurnEnds, RecoverEnds, Ends, Crash, Leave,
                    Operate, told
<1>4. CASE Abort \/ Quit \/ Close
  BY <1>1, <1>4 DEF Abort, Quit, Close, FlagsOK, told
<1>5. CASE \/ Type \/ ClearBuffer \/ Restore
           \/ \E previous \in BOOLEAN : Navigate(previous)
           \/ \E kind \in {"steering", "follow-up"} : QueueInput(kind) \/ QueueByCommand(kind)
  BY <1>5, ZenonT(60) DEF Type, ClearBuffer, Restore, Navigate, QueueInput, QueueByCommand, control, told, FlagsOK
<1>6. CASE \/ \E i \in 1 .. MaxTyped : Drop(i) \/ Edit(i)
           \/ \E kinds \in (SUBSET {"steering", "follow-up"}) \ {{}} : ClearQueues(kinds)
           \/ Take \/ New \/ (\E file \in Files : Switch(file)) \/ UNCHANGED vars
  BY <1>6, ZenonT(60) DEF Drop, Edit, ClearQueues, Take, New, Switch, vars, control, told, FlagsOK
<1> QED
  BY <1>3, <1>4, <1>5, <1>6 DEF Next

\* Loading a file.
LEMMA LoadTypes ==
  ASSUME NEW file \in Files, NEW id \in SessionIds, NEW before \in [open : Int, id : SessionIds],
         Load(file, id, before)
  PROVE  SessionsOK'
PROOF
<1>1. file \in SessionIds
  BY DEF SessionIds
<1>2. session' \in [id : SessionIds, path : SessionIds]
  BY <1>1 DEF Load
<1>3. runtime' \in [started : BOOLEAN, closed : BOOLEAN]
  <2>1. \A a, b \in BOOLEAN : [started |-> a, closed |-> b] \in [started : BOOLEAN, closed : BOOLEAN]
    OBVIOUS
  <2>2. \/ runtime' = [started |-> TRUE, closed |-> FALSE]
        \/ runtime' = [started |-> FALSE, closed |-> FALSE]
    BY DEF Load
  <2> QED
    BY <2>1, <2>2
<1>4. session'.id \in SessionIds
  BY <1>2
<1>5. events' \in [open : Int, id : SessionIds]
  BY <1>4 DEF Load, Opened
<1> QED
  BY <1>2, <1>3, <1>5 DEF SessionsOK

LEMMA SessionsStep == SessionsOK /\ [Next]_vars => SessionsOK'
PROOF
<1> SUFFICES ASSUME SessionsOK, [Next]_vars PROVE SessionsOK'
  OBVIOUS
<1>1. \A id \in Ids : id \in SessionIds
  BY DEF SessionIds
<1>2. \A id \in SessionIds : Fresh(id) \in [id : SessionIds, path : SessionIds]
  BY DEF Fresh
<1>3. /\ \A id \in SessionIds : Opened(events, id) \in [open : Int, id : SessionIds]
      /\ Shut(events) \in [open : Int, id : SessionIds]
  BY DEF SessionsOK, Opened, Shut
<1>4. ASSUME UNCHANGED sessions PROVE SessionsOK'
  BY <1>4 DEF SessionsOK, sessions
<1>5. CASE Bootstrap
  <2>1. PICK id \in Ids :
          \/ \E file \in Files : Load(file, id, events)
          \/ /\ session' = Fresh(id) /\ events' = Opened(events, id)
             /\ runtime' = [started |-> TRUE, closed |-> FALSE]
          \/ UNCHANGED sessions
    BY <1>5 DEF Bootstrap
  <2>2. CASE \E file \in Files : Load(file, id, events)
    BY <1>1, <2>2, LoadTypes DEF SessionsOK
  <2>3. CASE /\ session' = Fresh(id) /\ events' = Opened(events, id)
             /\ runtime' = [started |-> TRUE, closed |-> FALSE]
    BY <1>1, <1>2, <1>3, <2>3 DEF SessionsOK
  <2> QED
    BY <1>4, <2>1, <2>2, <2>3
<1>6. CASE New
  <2>1. PICK id \in Ids : session' = Fresh(id) /\ events' = [events EXCEPT !.id = id]
    BY <1>6 DEF New
  <2>2. events' \in [open : Int, id : SessionIds] /\ runtime' = runtime
    BY <1>1, <1>6, <2>1 DEF New, SessionsOK
  <2> QED
    BY <1>1, <1>2, <2>1, <2>2 DEF SessionsOK
<1>7. ASSUME NEW file \in Files, Switch(file) PROVE SessionsOK'
  <2> DEFINE before == IF runtime.started /\ ~runtime.closed THEN Shut(events) ELSE events
  <2>1. Load(file, session.id, before)
    BY <1>7 DEF Switch
  <2>2. before \in [open : Int, id : SessionIds] /\ session.id \in SessionIds
    BY <1>3 DEF SessionsOK
  <2> HIDE DEF before
  <2> QED
    BY <2>1, <2>2, LoadTypes
<1>8. CASE Leave
  <2>1. /\ session' = session
        /\ \/ runtime' = [runtime EXCEPT !.closed = TRUE] /\ events' = Shut(events)
           \/ runtime' = runtime /\ events' = events
    BY <1>8 DEF Leave
  <2>2. [runtime EXCEPT !.closed = TRUE] \in [started : BOOLEAN, closed : BOOLEAN]
    BY DEF SessionsOK
  <2> QED
    BY <1>3, <2>1, <2>2 DEF SessionsOK
<1>9. CASE \/ Type \/ ClearBuffer \/ Restore \/ Abort \/ Submit
           \/ \E previous \in BOOLEAN : Navigate(previous)
           \/ \E kind \in {"steering", "follow-up"} : QueueInput(kind) \/ QueueByCommand(kind)
  BY <1>4, <1>9 DEF Type, ClearBuffer, Restore, Abort, Submit, Navigate, QueueInput, QueueByCommand
<1>10. CASE \/ \E i \in 1 .. MaxTyped : Drop(i) \/ Edit(i)
            \/ \E kinds \in (SUBSET {"steering", "follow-up"}) \ {{}} : ClearQueues(kinds)
            \/ Take \/ Proceed \/ Crash \/ (\E kind \in Operations : Operate(kind))
            \/ Quit \/ Close \/ UNCHANGED vars
  BY <1>4, <1>10 DEF Drop, Edit, ClearQueues, Take, Proceed, PreEnds, TurnEnds, RecoverEnds, Ends,
                     Crash, Operate, Quit, Close, vars
<1> QED
  BY <1>5, <1>6, <1>7, <1>8, <1>9, <1>10 DEF Next

KeepingInv == PlacesInv /\ PositionShown /\ PhaseOK /\ FlagsOK /\ SessionsOK

LEMMA KeepingInit == Init => KeepingInv
PROOF
<1> SUFFICES ASSUME Init PROVE KeepingInv
  OBVIOUS
<1>1. PlacesInv
  BY KeptInit, PlacesInit DEF PlacesInv
<1>2. PositionShown
  <2>1. nav.index = 0
    BY DEF Init, NoNav
  <2>2. 0 \notin 1 .. Len(Pending)
    OBVIOUS
  <2> QED
    BY <2>1, <2>2 DEF PositionShown
<1>3. PhaseOK /\ FlagsOK
  BY DEF Init, PhaseOK, FlagsOK
<1>4. SessionsOK
  <2>1. "" \in SessionIds /\ NoSession \in [id : SessionIds, path : SessionIds]
    BY DEF SessionIds, NoSession
  <2>2. session = NoSession
    BY DEF Init
  <2>3. runtime \in [started : BOOLEAN, closed : BOOLEAN]
    BY DEF Init
  <2>4. events \in [open : Int, id : SessionIds]
    <3>1. events = [open |-> 0, id |-> ""]
      BY DEF Init
    <3>2. 0 \in Int
      OBVIOUS
    <3> QED
      BY <2>1, <3>1, <3>2
  <2> QED
    BY <2>1, <2>2, <2>3, <2>4 DEF SessionsOK
<1> QED
  BY <1>1, <1>2, <1>3, <1>4 DEF KeepingInv

LEMMA KeepingStep == KeepingInv /\ [Next]_vars => KeepingInv'
PROOF
<1> SUFFICES ASSUME KeepingInv, [Next]_vars PROVE KeepingInv'
  OBVIOUS
<1>1. PlacesInv' /\ PositionShown'
  BY PlacesStep, ShownStep DEF KeepingInv, PlacesInv
<1>2. PhaseOK' /\ FlagsOK' /\ SessionsOK'
  BY PhaseStep, FlagsStep, SessionsStep DEF KeepingInv
<1> QED
  BY <1>1, <1>2 DEF KeepingInv

LEMMA KeepingTypes == KeepingInv => TypeOK
PROOF
<1> SUFFICES ASSUME KeepingInv PROVE TypeOK
  OBVIOUS
<1>1. PhaseOK /\ FlagsOK /\ SessionsOK /\ Known /\ KeptInv
  BY DEF KeepingInv, PlacesInv
<1>2. {running, abort, pressed, quitting, upset} \subseteq BOOLEAN
  BY <1>1 DEF FlagsOK
<1>3. again \subseteq 1 .. typed
  BY <1>1 DEF KeepingInv, PlacesInv, SaidOnce, Known
<1>4. {line, editor, nav.draft, said, again, gone, browsed} \subseteq SUBSET (1 .. typed)
  BY <1>1, <1>3 DEF Known
<1>5. {steering, followUps} \subseteq Seq([id : 1 .. typed, text : SUBSET (1 .. typed)])
  BY <1>1 DEF Known, ItemsOf
<1> QED
  BY <1>1, <1>2, <1>4, <1>5 DEF TypeOK, PhaseOK, SessionsOK, SessionIds, Known, KeptInv

\* What is typed is kept; it is said once, unless a position of the queue showed
\* it and it was sent from there; and an edit goes to the item that is shown,
\* unless /queue changed the queue since: for any number of messages, operations
\* and sessions.
THEOREM MessagesKept == Spec => []MessagesAreKept
PROOF
<1>1. KeepingInv => MessagesAreKept
  <2> SUFFICES ASSUME KeepingInv PROVE MessagesAreKept
    OBVIOUS
  <2>1. NothingLost /\ again \subseteq browsed /\ PositionShown
    BY DEF KeepingInv, PlacesInv, KeptInv, SaidOnce
  <2> QED
    BY <2>1, KeepingTypes DEF MessagesAreKept, PositionShown
<1> QED
  BY <1>1, KeepingInit, KeepingStep, PTL DEF Spec
=============================================================================
