---------------------------- MODULE ModesProofs ----------------------------
(***************************************************************************)
(* Theorems about the modes of the program, for any lists, backlogs,       *)
(* answers and bounds.  In every mode the steps of the others stutter.     *)
(* The invariants of cards-filter and of the listings are in modules of    *)
(* their own; that of the modes that create cards comes first here.        *)
(***************************************************************************)
EXTENDS Modes, CardsFilterProofs, ListingProofs

InEntry == pc \in {"parent", "reply", "responsible", "task", "link", "tag"}
AtTask == pc \in {"task", "link", "tag"}
InTask == pc \in {"link", "tag"}

CreationTypeInv ==
    /\ pc \in {"file", "user", "entry", "parent", "reply", "responsible", "task", "link",
               "tag", "done"}
    /\ backlog \in Backlogs
    /\ pc \notin {"file", "done"} => backlog # Unreadable
    /\ i \in Nat \ {0} /\ j \in Nat \ {0} /\ k \in Nat \ {0}
    /\ backlog # Unreadable => i <= Len(backlog) + 1
    /\ InEntry => i <= Len(backlog)
    /\ pc \in {"parent", "reply", "responsible"} => j = 1
    /\ pc \in {"parent", "reply"} => entry.parent \in Parents
    /\ AtTask => entry.tasks # Missing /\ j <= Len(entry.tasks) + 1
    /\ InTask => j <= Len(entry.tasks) /\ k <= Len(entry.tags) + 1
    /\ me \in {Me, None}
    /\ assignee \in Users \cup {Me, None}
    /\ success \in Nat /\ errors \in Nat
    /\ clock \in Nat

\* A card of the server.
NewFields == {"entry", "task", "assignee", "sprint", "parent", "tags", "title"}

CardsInv ==
    /\ cards \in Seq(Range(cards))
    /\ \A c \in DOMAIN cards : cards[c] = [f \in NewFields |-> cards[c][f]]
    /\ child \in 0..Len(cards)
    /\ InTask => Len(cards) >= 1 /\ child \in {0, Len(cards)}

\* The exit status, and where the modes that create no cards are.
ExitInv ==
    /\ exit \in {Running, Success, Failure, Terminated}
    /\ mode \notin CreationModes => backlog = Unreadable /\ pc = "file"
    /\ mode \in CreationModes =>
          /\ pc = "done" <=> exit # Running
          /\ exit = Success => backlog # Unreadable /\ errors = 0
          /\ exit \in {Success, Failure} /\ backlog # Unreadable => i = Len(backlog) + 1

\* What parent card p has said, now or until it was replaced at the given time or
\* later.
WasParent(p, card, time) ==
    \/ card = parents[p]
    \/ \E r \in replaced : r.parent = p /\ r.card = card /\ r.at >= time

\* An entry of the cache says what the parent card said when its answer was sent.
CacheInv ==
    /\ parents \in [Parents -> ParentCards]
    /\ delays \in [Parents -> Nat]
    /\ cache.enabled \/ DOMAIN cache.entries = {}
    /\ \A r \in replaced : r.at \in Nat
    /\ cache = [enabled |-> cache.enabled, entries |-> cache.entries]
    /\ DOMAIN cache.entries \subseteq Parents
    /\ \A p \in DOMAIN cache.entries :
          LET e == cache.entries[p]
          IN  /\ e.value \in ParentCards
              /\ e.timestamp \in Nat /\ e.timestamp <= clock /\ delays[p] <= e.timestamp
              /\ WasParent(p, e.value, e.timestamp - delays[p])

\* So does an answer under way.
ReplyInv ==
    pc = "reply" =>
        /\ reply.card \in ParentCards
        /\ reply.at \in Nat /\ reply.at <= clock
        /\ WasParent(entry.parent, reply.card, reply.at)

\* What has been read belongs to the entry.
ReadInv ==
    /\ read \in ParentCards \cup {None}
    /\ InEntry /\ read # None => entry.parent \in Parents /\ WasParent(entry.parent, read, 0)
    /\ AtTask => assignee \in {None, Me, entry.responsible}

\* No card belongs to a task that is still to come, and the one being made is the
\* last one.
PlaceInv ==
    /\ \A c \in DOMAIN cards :
          /\ cards[c].entry \in 1..i /\ cards[c].task \in Nat
          /\ cards[c].entry = i =>
                 /\ pc \in {"task", "link", "tag", "done"}
                 /\ pc = "task" => cards[c].task < j
                 /\ InTask => cards[c].task <= j
    /\ InTask => CardsFor(i, j) = {Len(cards)}

\* The entries without tasks so far, the tasks that have been dealt with, and the
\* cards that exist but are not counted yet.
EntriesWithout == {e \in 1..(i - 1) : backlog[e].tasks = Missing}
TasksOf(e) == IF backlog[e].tasks = Missing THEN {} ELSE DOMAIN backlog[e].tasks
TasksOver == UNION {{e} \X TasksOf(e) : e \in 1..(i - 1)}
TasksDone == TasksOver \cup (IF InEntry THEN {i} \X (1..(j - 1)) ELSE {})
Uncounted == IF InTask THEN 1 ELSE 0

\* The counters are right until an exception ends it all.
CountInv ==
    backlog # Unreadable /\ exit # Terminated =>
        /\ IsFiniteSet(EntriesWithout) /\ IsFiniteSet(TasksDone)
        /\ success + errors = Cardinality(EntriesWithout) + Cardinality(TasksDone)
        /\ success + Uncounted <= Len(cards)
        /\ Len(cards) <= success + errors + Uncounted
        /\ errors = 0 =>
              /\ EntriesWithout = {}
              /\ \A e, t : <<e, t>> \in TasksDone => \E c \in DOMAIN cards : CardsFor(e, t) = {c}

---------------------------------------------------------------------------
(* The backlog and the cards. *)

LEMMA Backlog ==
  ASSUME backlog \in Backlogs, backlog # Unreadable
  PROVE  /\ Len(backlog) \in Nat /\ DOMAIN backlog = 1..Len(backlog)
         /\ \A e \in 1..Len(backlog) :
               /\ backlog[e].parent \in Parents \cup {None, Malformed}
               /\ backlog[e].tasks # Missing =>
                     /\ Len(backlog[e].tasks) \in Nat
                     /\ DOMAIN backlog[e].tasks = 1..Len(backlog[e].tasks)
               /\ Len(backlog[e].tags) \in Nat
               /\ DOMAIN backlog[e].tags = 1..Len(backlog[e].tags)
<1>1. backlog \in Seq(Range(backlog)) /\ Len(backlog) \in Nat /\ DOMAIN backlog = 1..Len(backlog)
  BY CreationAssumption, LenProperties
<1>2. ASSUME NEW e \in 1..Len(backlog)
      PROVE  /\ backlog[e].parent \in Parents \cup {None, Malformed}
             /\ backlog[e].tasks = Missing \/ backlog[e].tasks \in Seq({"good", "bad"})
             /\ backlog[e].tags \in Seq(Range(backlog[e].tags))
  <2>1. backlog[e] \in Range(backlog)
    BY <1>1 DEF Range
  <2> QED BY <2>1, CreationAssumption
<1> QED BY <1>1, <1>2, LenProperties

\* The card that a create request makes, and what later requests make of it.
LEMMA NewCardFields ==
  LET card == NewCard
  IN  /\ card = [f \in NewFields |-> card[f]]
      /\ card.entry = i /\ card.task = j /\ card.assignee = assignee
      /\ card.parent = None /\ card.tags = {} /\ card.title = None
BY DEF NewCard, NewFields

LEMMA ChangedFields ==
  ASSUME NEW card, card = [f \in NewFields |-> card[f]], NEW v
  PROVE  /\ LET new == [card EXCEPT !.parent = v]
            IN  /\ new = [f \in NewFields |-> new[f]]
                /\ \A f \in NewFields : new[f] = IF f = "parent" THEN v ELSE card[f]
         /\ LET new == [card EXCEPT !.tags = @ \cup {v}]
            IN  /\ new = [f \in NewFields |-> new[f]]
                /\ \A f \in NewFields : new[f] = IF f = "tags" THEN card.tags \cup {v} ELSE card[f]
         /\ LET new == [card EXCEPT !.title = v]
            IN  /\ new = [f \in NewFields |-> new[f]]
                /\ \A f \in NewFields : new[f] = IF f = "title" THEN v ELSE card[f]
BY DEF NewFields

LEMMA AppendCard ==
  ASSUME NEW s, s \in Seq(Range(s)), NEW card
  PROVE  LET t == Append(s, card)
         IN  /\ t \in Seq(Range(t))
             /\ Len(s) \in Nat /\ DOMAIN s = 1..Len(s)
             /\ Len(t) = Len(s) + 1 /\ DOMAIN t = 1..(Len(s) + 1)
             /\ \A c \in 1..Len(s) : t[c] = s[c]
             /\ t[Len(s) + 1] = card
<1> DEFINE t == Append(s, card)
           S == Range(s) \cup {card}
<1>1. s \in Seq(S)
  BY SeqMonotonic
<1>2. /\ t \in Seq(S) /\ Len(t) = Len(s) + 1 /\ Len(s) \in Nat
      /\ \A c \in 1..Len(s) : t[c] = s[c]
      /\ t[Len(s) + 1] = card
  BY <1>1, AppendProperties, LenProperties
<1> HIDE DEF t, S
<1>3. DOMAIN t = 1..Len(t) /\ t \in [1..Len(t) -> Range(t)]
  BY <1>2, LenProperties DEF Range
<1>4. t \in Seq(Range(t))
  <2>1. Len(t) \in Nat
    BY <1>2
  <2> QED BY <1>3, <2>1, IsASeq
<1> QED BY <1>2, <1>3, <1>4, LenProperties DEF t

LEMMA ReplaceCard ==
  ASSUME NEW s, s \in Seq(Range(s)), NEW card, NEW n \in DOMAIN s
  PROVE  LET t == [s EXCEPT ![n] = card]
         IN  /\ t \in Seq(Range(t))
             /\ Len(s) \in Nat /\ DOMAIN s = 1..Len(s)
             /\ Len(t) = Len(s) /\ DOMAIN t = 1..Len(s)
             /\ \A c \in DOMAIN s : t[c] = IF c = n THEN card ELSE s[c]
<1> DEFINE t == [s EXCEPT ![n] = card]
<1>1. Len(s) \in Nat /\ DOMAIN s = 1..Len(s)
  BY LenProperties
<1>2. DOMAIN t = 1..Len(s) /\ \A c \in DOMAIN s : t[c] = IF c = n THEN card ELSE s[c]
  BY <1>1
<1>3. t \in [1..Len(s) -> Range(t)]
  <2>1. t = [c \in 1..Len(s) |-> t[c]]
    BY <1>1, LenProperties
  <2>2. \A c \in 1..Len(s) : t[c] \in Range(t)
    BY <1>2 DEF Range
  <2> HIDE DEF t
  <2> QED BY <2>1, <2>2
<1> HIDE DEF t
<1>4. t \in Seq(Range(t))
  BY <1>1, <1>3, IsASeq
<1>5. Len(t) = Len(s)
  BY <1>1, <1>2, <1>4, LenProperties
<1> QED BY <1>1, <1>2, <1>4, <1>5 DEF t

---------------------------------------------------------------------------
(* Steps. *)

\* A request that changes a card changes the last one, and only in one field.
LEMMA ChildChanges ==
  ASSUME CreationTypeInv, CardsInv, InTask, NEW changed, ChangeChild(changed)
  PROVE  \/ cards' = cards
         \/ /\ child = Len(cards) /\ child \in DOMAIN cards
            /\ cards' = [cards EXCEPT ![child] = changed]
<1>1. Len(cards) \in Nat /\ DOMAIN cards = 1..Len(cards)
  BY LenProperties DEF CardsInv
<1>2. child \in DOMAIN cards => child = Len(cards)
  BY <1>1 DEF CardsInv
<1> QED BY <1>2 DEF ChangeChild

\* What a step makes of the cards on the server.
LEMMA ServerStep ==
  ASSUME CreationTypeInv, CardsInv, CreationNext
  PROVE  \/ cards' = cards
         \/ pc = "task" /\ cards' = Append(cards, NewCard)
         \/ /\ InTask /\ pc' \in {"link", "tag", "task"}
            /\ child = Len(cards) /\ child \in DOMAIN cards
            /\ UNCHANGED <<backlog, i, child, parents, replaced>>
            /\ \E card :
                  /\ cards' = [cards EXCEPT ![child] = card]
                  /\ card = [f \in NewFields |-> card[f]]
                  /\ card.entry = cards[child].entry /\ card.task = cards[child].task
                  /\ card.assignee = cards[child].assignee
                  /\ card.parent \in {cards[child].parent, entry.parent}
                  /\ card.tags \subseteq cards[child].tags \cup {entry.tags[n] : n \in DOMAIN entry.tags}
                  /\ card.title \in {cards[child].title,
                                     [product |-> ProductCode, work |-> WorkCode, id |-> child]}
<1> DEFINE old == cards[child]
<1>1. child \in DOMAIN cards => old = [f \in NewFields |-> old[f]]
  BY DEF CardsInv
<1>2. CASE LinkToParent
  <2> DEFINE new == [old EXCEPT !.parent = entry.parent]
  <2>1. InTask /\ ChangeChild(new) /\ pc' = "tag"
        /\ UNCHANGED <<backlog, i, child, parents, replaced>>
    BY <1>2 DEF LinkToParent, InTask, ChangeChild, locals
  <2>2. \/ cards' = cards
        \/ /\ child = Len(cards) /\ child \in DOMAIN cards
           /\ cards' = [cards EXCEPT ![child] = new]
    BY <2>1, ChildChanges
  <2>3. child \in DOMAIN cards =>
           /\ new = [f \in NewFields |-> new[f]]
           /\ \A f \in NewFields : new[f] = IF f = "parent" THEN entry.parent ELSE old[f]
    BY <1>1, ChangedFields
  <2> HIDE DEF new
  <2> QED BY <2>1, <2>2, <2>3 DEF NewFields
<1>3. CASE AddTag
  <2> DEFINE new == [old EXCEPT !.tags = @ \cup {entry.tags[k]}]
  <2>1. InTask /\ ChangeChild(new) /\ pc' = "tag"
        /\ UNCHANGED <<backlog, i, child, parents, replaced>>
    BY <1>3 DEF AddTag, InTask, ChangeChild, locals
  <2>2. \/ cards' = cards
        \/ /\ child = Len(cards) /\ child \in DOMAIN cards
           /\ cards' = [cards EXCEPT ![child] = new]
    BY <2>1, ChildChanges
  <2>3. child \in DOMAIN cards =>
           /\ new = [f \in NewFields |-> new[f]]
           /\ \A f \in NewFields :
                 new[f] = IF f = "tags" THEN old.tags \cup {entry.tags[k]} ELSE old[f]
    BY <1>1, ChangedFields
  <2>4. k \in DOMAIN entry.tags
    <3>1. backlog # Unreadable /\ i \in 1..Len(backlog) /\ k \in Nat /\ 1 <= k
          /\ k <= Len(entry.tags) /\ backlog \in Backlogs
      BY <1>3 DEF AddTag, CreationTypeInv, InEntry
    <3>2. Len(entry.tags) \in Nat /\ DOMAIN entry.tags = 1..Len(entry.tags)
      BY <3>1, Backlog
    <3> QED BY <3>1, <3>2
  <2> HIDE DEF new
  <2> QED BY <2>1, <2>2, <2>3, <2>4 DEF NewFields
<1>4. CASE UpdateTitle
  <2> DEFINE title == [product |-> ProductCode, work |-> WorkCode, id |-> child]
             new == [old EXCEPT !.title = title]
  <2>1. InTask /\ ChangeChild(new) /\ pc' = "task"
        /\ UNCHANGED <<backlog, i, child, parents, replaced>>
    BY <1>4 DEF UpdateTitle, TaskDone, InTask, ChangeChild, locals
  <2>2. \/ cards' = cards
        \/ /\ child = Len(cards) /\ child \in DOMAIN cards
           /\ cards' = [cards EXCEPT ![child] = new]
    BY <2>1, ChildChanges
  <2>3. child \in DOMAIN cards =>
           /\ new = [f \in NewFields |-> new[f]]
           /\ \A f \in NewFields : new[f] = IF f = "title" THEN title ELSE old[f]
    BY <1>1, ChangedFields
  <2> HIDE DEF new
  <2> QED BY <2>1, <2>2, <2>3 DEF NewFields
<1>5. CASE CardCreated \/ CardNotCreated
  BY <1>5 DEF CardCreated, CardNotCreated, Creating
<1>6. CASE ~(LinkToParent \/ AddTag \/ UpdateTitle \/ CardCreated \/ CardNotCreated)
  BY <1>6 DEF CreationNext, CreationStep, ReadBacklog, CurrentUser, NextEntry, Throw,
        ParentFromCache, AskForParent, ParentReply, Responsible, EndEntry, KeepTitle, Summary,
        EditParent, TimePasses, server
<1> QED BY <1>2, <1>3, <1>4, <1>5, <1>6

LEMMA CardsStep ==
  ASSUME CreationTypeInv, CardsInv, CreationNext
  PROVE  CardsInv'
<1> DEFINE n == Len(cards)
<1>1. /\ n \in Nat /\ DOMAIN cards = 1..n /\ cards \in Seq(Range(cards)) /\ child \in 0..n
      /\ \A c \in DOMAIN cards : cards[c] = [f \in NewFields |-> cards[c][f]]
  BY LenProperties DEF CardsInv
<1>2. /\ cards' \in Seq(Range(cards'))
      /\ \A c \in DOMAIN cards' : cards'[c] = [f \in NewFields |-> cards'[c][f]]
      /\ Len(cards') = n \/ (pc = "task" /\ Len(cards') = n + 1 /\ cards' = Append(cards, NewCard))
  <2>1. CASE cards' = cards
    BY <1>1, <2>1
  <2>2. CASE pc = "task" /\ cards' = Append(cards, NewCard)
    <3> DEFINE card == NewCard
    <3>1. card = [f \in NewFields |-> card[f]]
      BY NewCardFields
    <3> HIDE DEF card
    <3>2. /\ cards' \in Seq(Range(cards'))
          /\ Len(cards') = n + 1 /\ DOMAIN cards' = 1..(n + 1)
          /\ \A c \in 1..n : cards'[c] = cards[c]
          /\ cards'[n + 1] = card
      BY <1>1, <2>2, AppendCard DEF card
    <3>3. ASSUME NEW c \in 1..(n + 1) PROVE cards'[c] = [f \in NewFields |-> cards'[c][f]]
      <4>1. c \in 1..n \/ c = n + 1
        BY <1>1
      <4>2. CASE c \in 1..n
        <5>1. cards[c] = [f \in NewFields |-> cards[c][f]] /\ cards'[c] = cards[c]
          BY <1>1, <3>2, <4>2
        <5> QED BY <5>1
      <4>3. CASE c = n + 1
        BY <3>1, <3>2, <4>3
      <4> QED BY <4>1, <4>2, <4>3
    <3> QED BY <2>2, <3>2, <3>3
  <2>3. ASSUME child \in DOMAIN cards,
               NEW card, cards' = [cards EXCEPT ![child] = card],
               card = [f \in NewFields |-> card[f]]
        PROVE  /\ cards' \in Seq(Range(cards'))
               /\ \A c \in DOMAIN cards' : cards'[c] = [f \in NewFields |-> cards'[c][f]]
               /\ Len(cards') = n
    <3>1. /\ cards' \in Seq(Range(cards')) /\ Len(cards') = n /\ DOMAIN cards' = 1..n
          /\ \A c \in DOMAIN cards : cards'[c] = IF c = child THEN card ELSE cards[c]
      BY ZenonT(60), <1>1, <2>3, ReplaceCard
    <3>2. ASSUME NEW c \in 1..n PROVE cards'[c] = [f \in NewFields |-> cards'[c][f]]
      <4>1. cards[c] = [f \in NewFields |-> cards[c][f]]
        BY <1>1
      <4>2. cards'[c] = card \/ cards'[c] = cards[c]
        BY <1>1, <3>1
      <4> QED BY <2>3, <4>1, <4>2
    <3> QED BY <3>1, <3>2
  <2> QED BY <2>1, <2>2, <2>3, ServerStep
<1>3. /\ child' \in 0..Len(cards')
      /\ InTask' => Len(cards') >= 1 /\ child' \in {0, Len(cards')}
  <2>1. CASE CardCreated
    <3>1. Len(cards') = n + 1 /\ child' \in {n + 1, 0}
      <4>1. cards' = Append(cards, NewCard) /\ child' \in {n + 1, 0}
        BY <2>1 DEF CardCreated
      <4> QED BY <1>1, <4>1, AppendCard
    <3> QED BY <1>1, <3>1
  <2>2. CASE LinkToParent \/ AddTag \/ UpdateTitle
    <3>1. child' = child /\ InTask
      BY <2>2 DEF LinkToParent, AddTag, UpdateTitle, TaskDone, ChangeChild, InTask, locals
    <3> QED BY <1>1, <1>2, <3>1 DEF CardsInv, InTask
  <2>3. CASE ~(CardCreated \/ LinkToParent \/ AddTag \/ UpdateTitle)
    <3>1. child' = child
      BY <2>3 DEF CreationNext, CreationStep, ReadBacklog, CurrentUser, NextEntry, Throw,
        ParentFromCache, AskForParent, ParentReply, Responsible, EndEntry, KeepTitle, Summary,
        EditParent, TimePasses, CardNotCreated, locals
    <3>2. InTask' => InTask /\ cards' = cards
      BY <2>3 DEF CreationNext, CreationStep, ReadBacklog, CurrentUser, NextEntry, Throw,
        ParentFromCache, AskForParent, ParentReply, Responsible, EndEntry, KeepTitle,
        TaskDone, Summary, EditParent, TimePasses, CardNotCreated, Creating, InTask, server
    <3>3. child' \in 0..Len(cards')
      BY <1>1, <1>2, <3>1
    <3>4. InTask' => Len(cards') >= 1 /\ child' \in {0, Len(cards')}
      <4>1. InTask => n >= 1 /\ child \in {0, n}
        BY DEF CardsInv
      <4>2. cards' = cards => Len(cards') = n
        OBVIOUS
      <4> QED BY <3>1, <3>2, <4>1, <4>2
    <3> QED BY <3>3, <3>4
  <2> QED BY <2>1, <2>2, <2>3
<1> QED BY <1>2, <1>3 DEF CardsInv

LEMMA CreationTypeStep ==
  ASSUME CreationTypeInv, CreationNext
  PROVE  CreationTypeInv'
<1>1. backlog' = backlog /\ backlog \in Backlogs
  BY DEF CreationTypeInv, CreationNext, CreationStep, ReadBacklog, CurrentUser, NextEntry,
         Throw, ParentFromCache, AskForParent, ParentReply, Responsible, EndEntry, CardCreated,
         CardNotCreated, Creating, LinkToParent, AddTag, UpdateTitle, TaskDone, ChangeChild,
         KeepTitle, Summary, EditParent, TimePasses
<1>2. backlog # Unreadable =>
         /\ Len(backlog) \in Nat
         /\ \A e \in 1..Len(backlog) :
               /\ backlog[e].parent \in Parents \cup {None, Malformed}
               /\ backlog[e].tasks # Missing => Len(backlog[e].tasks) \in Nat
               /\ Len(backlog[e].tags) \in Nat
  BY <1>1, Backlog
<1> USE <1>1, <1>2 DEF CreationTypeInv, InEntry, AtTask, InTask, position, locals, counts
<1>3. CASE ReadBacklog
  BY <1>3 DEF ReadBacklog
<1>4. CASE CurrentUser
  BY <1>4 DEF CurrentUser
<1>5. CASE NextEntry
  BY <1>5 DEF NextEntry, entry
<1>6. CASE Throw
  BY <1>6 DEF Throw
<1>7. CASE ParentFromCache \/ AskForParent \/ ParentReply
  <2>1. CASE ParentFromCache
    BY <2>1 DEF ParentFromCache, entry
  <2>2. CASE AskForParent
    BY <2>2 DEF AskForParent, entry
  <2>3. CASE ParentReply
    BY <2>3 DEF ParentReply, entry
  <2> QED BY <1>7, <2>1, <2>2, <2>3
<1>8. CASE Responsible
  <2>1. assignee' \in Users \cup {Me, None}
    BY <1>8 DEF Responsible, FindResponsible
  <2> QED BY <1>8, <2>1 DEF Responsible, entry
<1>9. CASE EndEntry
  BY <1>9 DEF EndEntry
<1>10. CASE CardCreated
  BY <1>10 DEF CardCreated, Creating, FollowUp, entry
<1>11. CASE CardNotCreated
  BY <1>11 DEF CardNotCreated, Creating, entry
<1>12. CASE LinkToParent
  BY <1>12 DEF LinkToParent, ChangeChild, entry
<1>13. CASE AddTag
  <2>1. /\ pc = "tag" /\ k <= Len(entry.tags) /\ k' = k + 1
        /\ UNCHANGED <<pc, backlog, i, j, me, assignee, success, errors, clock>>
    BY <1>13 DEF AddTag, ChangeChild
  <2> QED BY <2>1 DEF entry
<1>14. CASE UpdateTitle
  <2>1. /\ pc = "tag" /\ pc' = "task" /\ j' = j + 1 /\ success' = success + 1
        /\ UNCHANGED <<backlog, i, k, me, assignee, errors, clock>>
    BY <1>14 DEF UpdateTitle, TaskDone, ChangeChild
  <2> QED BY <2>1 DEF entry
<1>15. CASE KeepTitle
  BY <1>15 DEF KeepTitle, TaskDone, entry
<1>16. CASE Summary
  BY <1>16 DEF Summary
<1>17. CASE \E p \in Parents : EditParent(p)
  BY <1>17 DEF EditParent, entry
<1>18. CASE TimePasses
  BY <1>18 DEF TimePasses, entry
<1> QED BY <1>3, <1>4, <1>5, <1>6, <1>7, <1>8, <1>9, <1>10, <1>11, <1>12, <1>13, <1>14,
           <1>15, <1>16, <1>17, <1>18
        DEF CreationNext, CreationStep

LEMMA ExitStep ==
  ASSUME CreationTypeInv, ExitInv, mode \in CreationModes, exit = Running, CreationNext,
         mode' = mode
  PROVE  ExitInv'
<1>1. mode' \in CreationModes /\ pc # "done"
  BY DEF ExitInv
<1>2. CASE ReadBacklog
  BY <1>1, <1>2 DEF ReadBacklog, ExitInv, Running, Success, Failure, Terminated
<1>3. CASE Throw
  BY <1>1, <1>3 DEF Throw, ExitInv, Running, Success, Failure, Terminated
<1>4. CASE Summary
  <2>1. i = Len(backlog) + 1 /\ backlog # Unreadable
    <3>1. backlog # Unreadable /\ backlog \in Backlogs /\ i > Len(backlog)
          /\ i <= Len(backlog) + 1 /\ i \in Nat
      BY <1>4 DEF Summary, CreationTypeInv
    <3>2. Len(backlog) \in Nat
      BY <3>1, Backlog
    <3> QED BY <3>1, <3>2
  <2>2. /\ pc' = "done" /\ exit' = (IF errors > 0 THEN Failure ELSE Success)
        /\ UNCHANGED <<backlog, i, errors>>
    BY <1>4 DEF Summary, position, counts
  <2>3. ~(errors > 0) => errors = 0
    BY DEF CreationTypeInv
  <2> QED BY <1>1, <2>1, <2>2, <2>3 DEF ExitInv, Running, Success, Failure, Terminated
<1>5. CASE ~(ReadBacklog \/ Throw \/ Summary)
  <2>1. exit' = Running /\ pc' # "done"
    BY <1>1, <1>5 DEF CreationNext, CreationStep, CurrentUser, NextEntry,
         ParentFromCache, AskForParent, ParentReply, Responsible, EndEntry, CardCreated,
         CardNotCreated, Creating, LinkToParent, AddTag, UpdateTitle, TaskDone, ChangeChild,
         KeepTitle, EditParent, TimePasses, FollowUp
  <2> QED BY <1>1, <2>1 DEF ExitInv, Running, Success, Failure, Terminated
<1> QED BY <1>2, <1>3, <1>4, <1>5

---------------------------------------------------------------------------
(* The parent cards and the cache. *)

\* Edits keep what a parent card was.
LEMMA EditKeeps ==
  ASSUME CacheInv, clock \in Nat, NEW q \in Parents, EditParent(q)
  PROVE  /\ parents' \in [Parents -> ParentCards]
         /\ \A r \in replaced' : r.at \in Nat
         /\ \A card : \A p \in Parents, time \in Nat :
               time <= clock /\ WasParent(p, card, time) => WasParent(p, card, time)'
<1>1. PICK said \in ParentCards : parents' = [parents EXCEPT ![q] = said]
  BY DEF EditParent
<1> DEFINE was == [parent |-> q, card |-> parents[q], at |-> clock]
<1>2. replaced' = replaced \cup {was} /\ clock' = clock
  BY DEF EditParent
<1>3. parents' \in [Parents -> ParentCards] /\ \A p \in Parents \ {q} : parents'[p] = parents[p]
  BY <1>1 DEF CacheInv
<1>4. was.parent = q /\ was.card = parents[q] /\ was.at = clock
  OBVIOUS
<1> HIDE DEF was
<1>5. \A r \in replaced' : r.at \in Nat
  BY <1>2, <1>4 DEF CacheInv
<1>6. ASSUME NEW p \in Parents, NEW card, NEW time \in Nat,
             time <= clock, WasParent(p, card, time)
      PROVE  WasParent(p, card, time)'
  <2>1. CASE card = parents[p] /\ p # q
    BY <1>3, <2>1 DEF WasParent
  <2>2. CASE card = parents[p] /\ p = q
    BY <1>2, <1>4, <1>6, <2>2 DEF WasParent
  <2>3. CASE card # parents[p]
    BY <1>2, <1>6, <2>3 DEF WasParent
  <2> QED BY <2>1, <2>2, <2>3
<1> QED BY <1>3, <1>5, <1>6

\* Each entry was what the card said at a time that is past.
LEMMA EntriesArePast ==
  ASSUME CacheInv, clock \in Nat, NEW p \in DOMAIN cache.entries
  PROVE  LET time == cache.entries[p].timestamp - delays[p]
         IN  p \in Parents /\ time \in Nat /\ time <= clock
                /\ WasParent(p, cache.entries[p].value, time)
<1> DEFINE s == cache.entries[p].timestamp
           d == delays[p]
<1>1. p \in Parents /\ s \in Nat /\ d \in Nat /\ d <= s /\ s <= clock
      /\ WasParent(p, cache.entries[p].value, s - d)
  BY DEF CacheInv
<1>2. s - d \in Nat /\ s - d <= clock
  <2> HIDE DEF s, d
  <2> QED BY <1>1
<1> QED BY <1>1, <1>2

\* Storing an answer keeps the entries good: the time at which the card said so is
\* that of the entry, less what the answer took.
LEMMA PutKeeps ==
  ASSUME CacheInv, clock \in Nat, NEW p \in Parents, NEW card \in ParentCards,
         NEW at \in Nat, at <= clock, WasParent(p, card, at),
         cache' = Put(cache, p, card, clock),
         delays' = [delays EXCEPT ![p] = clock - at],
         UNCHANGED <<parents, replaced, clock>>
  PROVE  CacheInv'
<1> DEFINE new == [value |-> card, timestamp |-> clock]
           entries == [q \in DOMAIN cache.entries \cup {p} |->
                          IF q = p THEN new ELSE cache.entries[q]]
           trimmed == Trim(entries, clock)
           Good(f) ==
             /\ DOMAIN f \subseteq Parents
             /\ \A q \in DOMAIN f :
                   LET e == f[q]
                   IN  /\ e.value \in ParentCards
                       /\ e.timestamp \in Nat /\ e.timestamp <= clock
                       /\ delays'[q] <= e.timestamp
                       /\ WasParent(q, e.value, e.timestamp - delays'[q])
<1>1. /\ delays \in [Parents -> Nat] /\ DOMAIN cache.entries \subseteq Parents
      /\ cache = [enabled |-> cache.enabled, entries |-> cache.entries]
  BY DEF CacheInv
<1>2. clock - at \in Nat /\ clock - at <= clock /\ clock - (clock - at) = at /\ clock <= clock
  OBVIOUS
<1>3. delays' \in [Parents -> Nat] /\ delays'[p] = clock - at
      /\ \A q \in Parents \ {p} : delays'[q] = delays[q]
  BY <1>1, <1>2
<1>4. Good(entries)
  <2>1. DOMAIN entries = DOMAIN cache.entries \cup {p}
    OBVIOUS
  <2>2. ASSUME NEW q \in DOMAIN entries
        PROVE  LET e == entries[q]
               IN  /\ e.value \in ParentCards
                   /\ e.timestamp \in Nat /\ e.timestamp <= clock
                   /\ delays'[q] <= e.timestamp
                   /\ WasParent(q, e.value, e.timestamp - delays'[q])
    <3>1. CASE q = p
      <4>1. entries[q].value = card /\ entries[q].timestamp = clock
        BY <3>1
      <4> HIDE DEF entries
      <4> QED BY <1>2, <1>3, <3>1, <4>1
    <3>2. CASE q # p
      <4>1. entries[q] = cache.entries[q] /\ q \in DOMAIN cache.entries
        BY <2>1, <3>2
      <4>2. delays'[q] = delays[q]
        BY <1>1, <1>3, <3>2, <4>1
      <4> HIDE DEF entries
      <4> QED BY <4>1, <4>2 DEF CacheInv
    <3> QED BY <3>1, <3>2
  <2> HIDE DEF entries
  <2> QED BY <1>1, <2>1, <2>2
<1>5. Good(trimmed)
  <2>1. \A f, S : Good(f) /\ S \subseteq DOMAIN f => Good(Restrict(f, S))
    <3> TAKE f, S
    <3>1. DOMAIN Restrict(f, S) = S /\ \A q \in S : Restrict(f, S)[q] = f[q]
      BY DEF Restrict
    <3> QED BY <3>1
  <2> HIDE DEF Good, entries
  <2> QED BY <1>4, <2>1 DEF Trim, CleanupExpired
<1>6. CASE cache.enabled
  <2>1. cache' = [cache EXCEPT !.entries = trimmed]
    BY <1>6 DEF Put
  <2> HIDE DEF trimmed, entries
  <2>2. cache' = [enabled |-> cache.enabled, entries |-> trimmed]
    BY <1>1, <2>1
  <2>3. /\ cache'.entries = trimmed
        /\ cache' = [enabled |-> cache'.enabled, entries |-> cache'.entries]
    BY <2>2
  <2>4. parents' \in [Parents -> ParentCards] /\ \A r \in replaced' : r.at \in Nat
    BY DEF CacheInv
  <2>5. cache'.enabled
    BY <1>6, <2>2
  <2>6. \A q, said, time : WasParent(q, said, time)' = WasParent(q, said, time)
    BY DEF WasParent
  <2> QED BY <1>3, <1>5, <2>3, <2>4, <2>5, <2>6 DEF CacheInv
<1>7. CASE ~cache.enabled
  <2>1. cache' = cache
    BY <1>7 DEF Put
  <2>2. Good(cache.entries)
    <3>1. p \notin DOMAIN cache.entries
      BY <1>7 DEF CacheInv
    <3> QED BY <1>1, <1>3, <3>1 DEF CacheInv
  <2> QED BY <1>1, <1>3, <2>1, <2>2 DEF CacheInv, WasParent
<1> QED BY <1>6, <1>7

LEMMA CacheStep ==
  ASSUME CreationTypeInv, CacheInv, ReplyInv, ReadInv, CreationNext
  PROVE  CacheInv' /\ ReplyInv' /\ ReadInv'
<1>1. /\ clock \in Nat
      /\ pc \in {"parent", "reply"} => entry.parent \in Parents
      /\ \A r \in replaced : r.at \in Nat
  BY DEF CreationTypeInv, CacheInv
<1>2. CASE \E q \in Parents : EditParent(q)
  <2>1. PICK q \in Parents : EditParent(q)
    BY <1>2
  <2>2. /\ UNCHANGED <<cache, clock, pc, backlog, i, read, assignee, reply, delays>>
    BY <2>1 DEF EditParent, position, locals
  <2>3. /\ parents' \in [Parents -> ParentCards]
        /\ \A r \in replaced' : r.at \in Nat
        /\ \A card : \A p \in Parents, time \in Nat :
              time <= clock /\ WasParent(p, card, time) => WasParent(p, card, time)'
    BY <1>1, <2>1, EditKeeps
  <2>4. InEntry' = InEntry /\ AtTask' = AtTask /\ entry' = entry
    BY <2>2 DEF InEntry, AtTask, entry
  <2>5. CacheInv'
    <3>1. ASSUME NEW p \in DOMAIN cache.entries
          PROVE  WasParent(p, cache.entries[p].value,
                           cache.entries[p].timestamp - delays[p])'
      BY <1>1, <2>2, <2>3, EntriesArePast
    <3> QED BY <2>2, <2>3, <3>1 DEF CacheInv
  <2>6. ReplyInv'
    BY <1>1, <2>2, <2>3, <2>4 DEF ReplyInv
  <2>7. ReadInv'
    <3>1. 0 \in Nat /\ 0 <= clock
      BY <1>1
    <3> QED BY <2>2, <2>3, <2>4, <3>1 DEF ReadInv
  <2> QED BY <2>5, <2>6, <2>7
<1>3. CASE TimePasses
  <2>1. /\ UNCHANGED <<cache, pc, backlog, i, read, assignee, parents, replaced, reply, delays>>
        /\ clock' = clock + 1
    BY <1>3 DEF TimePasses, position, locals, server
  <2>2. \A time \in Nat : time <= clock => time <= clock'
    BY <1>1, <2>1
  <2>3. CacheInv'
    BY <2>1, <2>2 DEF CacheInv, WasParent
  <2>4. ReplyInv'
    BY <2>1, <2>2 DEF ReplyInv, WasParent, entry
  <2>5. ReadInv'
    BY <2>1 DEF ReadInv, InEntry, AtTask, entry, WasParent
  <2> QED BY <2>3, <2>4, <2>5
<1>4. CASE ParentFromCache
  <2> DEFINE p == entry.parent
             e == cache.entries[p]
  <2>1. /\ UNCHANGED <<cache, clock, parents, replaced, delays, backlog, i>>
        /\ pc' = "responsible" /\ pc = "parent" /\ p \in DOMAIN cache.entries
        /\ read' = e.value
    BY <1>4 DEF ParentFromCache, server, position, Hit
  <2>2. CacheInv' /\ ReplyInv'
    BY <2>1 DEF CacheInv, ReplyInv, WasParent
  <2>3. ReadInv'
    <3>1. WasParent(p, e.value, e.timestamp - delays[p]) /\ e.timestamp - delays[p] \in Nat
      BY <1>1, <2>1, EntriesArePast
    <3>2. e.value \in ParentCards
      BY <2>1 DEF CacheInv
    <3>3. entry' = entry /\ ~AtTask'
      BY <2>1 DEF entry, AtTask
    <3> HIDE DEF e
    <3>4. WasParent(p, e.value, 0)
      BY <1>1, <3>1 DEF WasParent
    <3> QED BY <1>1, <2>1, <3>2, <3>3, <3>4 DEF ReadInv, WasParent
  <2> QED BY <2>2, <2>3
<1>5. CASE AskForParent
  <2> DEFINE p == entry.parent
             rest == Restrict(cache.entries, DOMAIN cache.entries \ {p})
  <2>1. /\ UNCHANGED <<clock, parents, replaced, delays, backlog, i, read, assignee>>
        /\ pc = "parent" /\ pc' = "reply"
        /\ reply' = [card |-> parents[p], at |-> clock]
        /\ cache' = AfterGet(cache, p, clock)
    BY <1>5 DEF AskForParent, position, locals
  <2>2. CacheInv'
    <3>1. CASE cache' = cache
      BY <2>1, <3>1 DEF CacheInv, WasParent
    <3>2. CASE cache' = [cache EXCEPT !.entries = rest]
      <4>1. DOMAIN rest \subseteq DOMAIN cache.entries
            /\ \A q \in DOMAIN rest : rest[q] = cache.entries[q]
        BY DEF Restrict
      <4> HIDE DEF rest
      <4>2. cache' = [enabled |-> cache.enabled, entries |-> rest]
        BY <3>2 DEF CacheInv
      <4>3. cache'.enabled = cache.enabled /\ cache'.entries = rest
        BY <4>2
      <4>4. \A q, said, time : WasParent(q, said, time)' = WasParent(q, said, time)
        BY <2>1 DEF WasParent
      <4>5. /\ cache'.enabled \/ DOMAIN cache'.entries = {}
            /\ cache' = [enabled |-> cache'.enabled, entries |-> cache'.entries]
            /\ DOMAIN cache'.entries \subseteq DOMAIN cache.entries
            /\ \A q \in DOMAIN cache'.entries : cache'.entries[q] = cache.entries[q]
        BY <4>1, <4>2, <4>3 DEF CacheInv
      <4> QED BY <2>1, <4>4, <4>5 DEF CacheInv
    <3> QED BY <2>1, <3>1, <3>2 DEF AfterGet
  <2>3. entry' = entry /\ InEntry /\ InEntry' /\ ~AtTask'
    BY <2>1 DEF entry, InEntry, AtTask
  <2>4. ReplyInv'
    <3>1. p \in Parents /\ parents[p] \in ParentCards /\ clock <= clock
      BY <1>1, <2>1 DEF CacheInv
    <3>2. reply'.card = parents[p] /\ reply'.at = clock
      BY <2>1
    <3> QED BY <1>1, <2>1, <2>3, <3>1, <3>2 DEF ReplyInv, WasParent
  <2>5. ReadInv'
    BY <2>1, <2>3 DEF ReadInv, WasParent
  <2> QED BY <2>2, <2>4, <2>5
<1>6. CASE ParentReply
  <2> DEFINE p == entry.parent
  <2>1. /\ UNCHANGED <<clock, parents, replaced, backlog, i, assignee>>
        /\ pc = "reply" /\ pc' = "responsible"
    BY <1>6 DEF ParentReply, position
  <2>2. /\ p \in Parents
        /\ reply.card \in ParentCards /\ reply.at \in Nat /\ reply.at <= clock
        /\ WasParent(p, reply.card, reply.at)
    BY <1>1, <2>1 DEF ReplyInv
  <2>3. \/ /\ read' = reply.card
           /\ cache' = Put(cache, p, reply.card, clock)
           /\ delays' = [delays EXCEPT ![p] = clock - reply.at]
        \/ read' = None /\ UNCHANGED <<cache, delays>>
    BY <1>6 DEF ParentReply
  <2>4. CacheInv'
    <3>1. CASE UNCHANGED <<cache, delays>>
      BY <2>1, <3>1 DEF CacheInv, WasParent
    <3>2. CASE /\ cache' = Put(cache, p, reply.card, clock)
               /\ delays' = [delays EXCEPT ![p] = clock - reply.at]
      <4> HIDE DEF p
      <4> QED BY <1>1, <2>1, <2>2, <3>2, PutKeeps
    <3> QED BY <2>3, <3>1, <3>2
  <2>5. ReadInv'
    <3>1. entry' = entry /\ ~AtTask'
      BY <2>1 DEF entry, AtTask
    <3>2. WasParent(p, reply.card, 0)
      BY <1>1, <2>2 DEF WasParent
    <3> QED BY <2>1, <2>2, <2>3, <3>1, <3>2 DEF ReadInv, WasParent
  <2>6. ReplyInv'
    BY <2>1 DEF ReplyInv
  <2> QED BY <2>4, <2>5, <2>6
<1>7. CASE ~(\/ \E q \in Parents : EditParent(q)
             \/ TimePasses \/ ParentFromCache \/ AskForParent \/ ParentReply)
  <2>1. UNCHANGED <<cache, clock, parents, replaced, delays, backlog>> /\ pc' # "reply"
    BY <1>7 DEF CreationNext, CreationStep, ReadBacklog, CurrentUser, NextEntry, Throw,
        Responsible, EndEntry, CardCreated, CardNotCreated, Creating, LinkToParent, AddTag,
        UpdateTitle, TaskDone, ChangeChild, KeepTitle, Summary, FollowUp, server
  <2>2. CacheInv' /\ ReplyInv'
    BY <2>1 DEF CacheInv, ReplyInv, WasParent
  <2>3. ReadInv'
    <3>1. CASE NextEntry
      BY <3>1 DEF NextEntry, ReadInv, AtTask
    <3>2. CASE Responsible
      <4>1. read' = read /\ (i' = i \/ (~InEntry' /\ ~AtTask'))
        BY <2>1, <3>2 DEF Responsible, InEntry, AtTask
      <4>2. assignee' \in {None, Me, entry.responsible}
        BY <3>2 DEF Responsible, FindResponsible, CreationTypeInv
      <4>3. InEntry
        BY <3>2 DEF Responsible, InEntry
      <4> QED BY <2>1, <4>1, <4>2, <4>3 DEF ReadInv, WasParent, entry
    <3>3. CASE ~(NextEntry \/ Responsible)
      <4>1. UNCHANGED <<read, assignee>> /\ (AtTask' => AtTask /\ i' = i) /\ (InEntry' => AtTask')
        BY <1>7, <3>3 DEF CreationNext, CreationStep, ReadBacklog, CurrentUser, Throw,
          EndEntry, CardCreated, CardNotCreated, Creating, LinkToParent, AddTag,
          UpdateTitle, TaskDone, ChangeChild, KeepTitle, Summary, locals, position, AtTask,
          InEntry, FollowUp
      <4> QED BY <2>1, <4>1 DEF ReadInv, WasParent, entry, InEntry, AtTask
    <3> QED BY <3>1, <3>2, <3>3
  <2> QED BY <2>2, <2>3
<1> QED BY <1>2, <1>3, <1>4, <1>5, <1>6, <1>7

---------------------------------------------------------------------------
(* What the cards say. *)

\* Work codes of a parent card are not forgotten.
LEMMA CodesStay ==
  ASSUME CacheInv, CreationNext, NEW p
  PROVE  CodesOf(p) \subseteq CodesOf(p)'
<1>1. CASE \E q \in Parents : EditParent(q)
  <2>1. PICK q \in Parents : EditParent(q)
    BY <1>1
  <2> DEFINE was == [parent |-> q, card |-> parents[q], at |-> clock]
  <2>2. /\ replaced' = replaced \cup {was}
        /\ \A o \in Parents \ {q} : parents'[o] = parents[o]
    BY <2>1 DEF EditParent, CacheInv
  <2>3. was.parent = q /\ was.card = parents[q]
    OBVIOUS
  <2> HIDE DEF was
  <2>4. ASSUME NEW o \in Parents \cap {p} PROVE parents[o].code \in CodesOf(p)'
    <3>1. CASE o = q
      <4>1. was \in {s \in replaced' : s.parent = p}
        BY <2>2, <2>3, <2>4, <3>1
      <4>2. was.card.code \in {r.card.code : r \in {s \in replaced' : s.parent = p}}
        BY <4>1
      <4> QED BY <2>3, <3>1, <4>2 DEF CodesOf
    <3>2. CASE o # q
      BY <2>2, <2>4, <3>2 DEF CodesOf
    <3> QED BY <3>1, <3>2
  <2>5. {r.card.code : r \in {s \in replaced : s.parent = p}} \subseteq CodesOf(p)'
    BY <2>2 DEF CodesOf
  <2> QED BY <2>4, <2>5 DEF CodesOf
<1>2. CASE ~ \E q \in Parents : EditParent(q)
  <2>1. UNCHANGED <<parents, replaced>>
    BY <1>2 DEF CreationNext, CreationStep, ReadBacklog, CurrentUser, NextEntry, Throw,
        ParentFromCache, AskForParent, ParentReply, Responsible, EndEntry, CardCreated,
        CardNotCreated, Creating, LinkToParent, AddTag, UpdateTitle, TaskDone, ChangeChild,
        KeepTitle, Summary, TimePasses, server
  <2> QED BY <2>1 DEF CodesOf
<1> QED BY <1>1, <1>2

\* The work code of a title.
LEMMA TitleCode ==
  ASSUME InEntry, ReadInv
  PROVE  /\ WorkCode = Default \/ WorkCode \in CodesOf(entry.parent)
         /\ ProductCode \in {entry.role, WorkCode}
<1>1. ASSUME read # None PROVE read.code \in CodesOf(entry.parent)
  <2> DEFINE p == entry.parent
  <2>1. p \in Parents /\ WasParent(p, read, 0)
    BY <1>1 DEF ReadInv
  <2> HIDE DEF p
  <2>2. read = parents[p] => read.code \in CodesOf(p)
    BY <2>1 DEF CodesOf
  <2>3. ASSUME NEW r \in replaced, r.parent = p, r.card = read PROVE read.code \in CodesOf(p)
    <3>1. r \in {s \in replaced : s.parent = p}
      BY <2>3
    <3>2. r.card.code \in {s.card.code : s \in {o \in replaced : o.parent = p}}
      BY <3>1
    <3> QED BY <2>3, <3>2 DEF CodesOf
  <2>4. read.code \in CodesOf(p)
    BY <2>1, <2>2, <2>3 DEF WasParent
  <2> QED BY <2>4 DEF p
<1> QED BY <1>1 DEF WorkCode, ProductCode

\* A card says what its own entry says.
Own(c, card) ==
    LET own == backlog[card.entry]
    IN  /\ card.parent \in {None, own.parent}
        /\ card.tags \subseteq {own.tags[n] : n \in DOMAIN own.tags}
        /\ card.assignee \in {None, Me, own.responsible}
        /\ card.title # None =>
              /\ card.title.id = c
              /\ card.title.work = Default \/ card.title.work \in CodesOf(own.parent)
              /\ card.title.product \in {own.role, card.title.work}

LEMMA OwnDataStep ==
  ASSUME CreationTypeInv, CardsInv, CacheInv, ReadInv, PlaceInv, OwnData, CreationNext
  PROVE  OwnData'
<1> DEFINE n == Len(cards)
<1>1. n \in Nat /\ DOMAIN cards = 1..n /\ cards \in Seq(Range(cards))
  BY LenProperties DEF CardsInv
<1>2. backlog' = backlog
  BY DEF CreationNext, CreationStep, ReadBacklog, CurrentUser, NextEntry,
         Throw, ParentFromCache, AskForParent, ParentReply, Responsible, EndEntry, CardCreated,
         CardNotCreated, Creating, LinkToParent, AddTag, UpdateTitle, TaskDone, ChangeChild,
         KeepTitle, Summary, EditParent, TimePasses
<1>3. \A c \in DOMAIN cards : Own(c, cards[c])
  BY DEF OwnData, Own
<1>4. SUFFICES ASSUME NEW c \in DOMAIN cards'
               PROVE  \E card : card = cards'[c] /\ Own(c, card)
  <2> SUFFICES ASSUME NEW c \in DOMAIN cards'
               PROVE  Own(c, cards[c])'
    BY DEF OwnData, Own
  <2>1. PICK card : card = cards'[c] /\ Own(c, card)
    BY <1>4
  <2>2. PICK own : own = backlog[card.entry]
    OBVIOUS
  <2>3. CodesOf(own.parent) \subseteq CodesOf(own.parent)'
    BY CodesStay
  <2>4. own = backlog'[cards'[c].entry]
    BY <1>2, <2>1, <2>2
  <2>5. /\ card.parent \in {None, own.parent}
        /\ card.tags \subseteq {own.tags[m] : m \in DOMAIN own.tags}
        /\ card.assignee \in {None, Me, own.responsible}
        /\ card.title # None =>
              /\ card.title.id = c
              /\ card.title.work = Default \/ card.title.work \in CodesOf(own.parent)'
              /\ card.title.product \in {own.role, card.title.work}
    BY <2>1, <2>2, <2>3 DEF Own
  <2>6. card = cards'[c]
    BY <2>1
  <2> QED BY SMTT(30), <2>4, <2>5, <2>6 DEF Own, CodesOf
<1>6. CASE cards' = cards
  BY <1>3, <1>6
<1>7. CASE pc = "task" /\ cards' = Append(cards, NewCard)
  <2> DEFINE card == NewCard
  <2>1. /\ card.entry = i /\ card.assignee = assignee
        /\ card.parent = None /\ card.tags = {} /\ card.title = None
    BY NewCardFields
  <2>2. assignee \in {None, Me, backlog[i].responsible}
    BY <1>7 DEF ReadInv, AtTask, entry
  <2>3. Own(n + 1, card)
    BY <2>1, <2>2 DEF Own
  <2> HIDE DEF card
  <2>4. /\ DOMAIN cards' = 1..(n + 1) /\ cards'[n + 1] = card
        /\ \A d \in 1..n : cards'[d] = cards[d]
    BY <1>1, <1>7, AppendCard DEF card
  <2>5. c \in 1..n \/ c = n + 1
    BY <1>1, <2>4
  <2> QED BY <1>1, <1>3, <2>3, <2>4, <2>5
<1>8. ASSUME InTask, child = Len(cards), child \in DOMAIN cards,
             NEW card, cards' = [cards EXCEPT ![child] = card],
             card.entry = cards[child].entry,
             card.assignee = cards[child].assignee,
             card.parent \in {cards[child].parent, entry.parent},
             card.tags \subseteq cards[child].tags \cup {entry.tags[m] : m \in DOMAIN entry.tags},
             card.title \in {cards[child].title,
                             [product |-> ProductCode, work |-> WorkCode, id |-> child]}
      PROVE  Own(c, cards'[c])
  <2>1. \A d \in DOMAIN cards : cards'[d] = IF d = child THEN card ELSE cards[d]
    BY <1>8
  <2>2. DOMAIN cards' = DOMAIN cards
    BY <1>8
  <2>3. cards[child].entry = i
    <3>1. child \in CardsFor(i, j)
      BY <1>8 DEF PlaceInv
    <3> QED BY <3>1 DEF CardsFor
  <2>4. Own(child, cards[child])
    BY <1>3, <1>8
  <2>5. Own(child, card)
    <3> DEFINE title == [product |-> ProductCode, work |-> WorkCode, id |-> child]
    <3>1. title.id = child /\ title.work = WorkCode /\ title.product = ProductCode
      OBVIOUS
    <3>2. /\ WorkCode = Default \/ WorkCode \in CodesOf(backlog[i].parent)
          /\ ProductCode \in {backlog[i].role, WorkCode}
      BY <1>8, TitleCode DEF InEntry, InTask, entry
    <3> HIDE DEF title
    <3>3. card.title = cards[child].title \/ card.title = title
      BY <1>8 DEF title
    <3>4. card.entry = i
      BY <1>8, <2>3
    <3>5. /\ card.parent \in {None, backlog[i].parent}
          /\ card.tags \subseteq {backlog[i].tags[m] : m \in DOMAIN backlog[i].tags}
          /\ card.assignee \in {None, Me, backlog[i].responsible}
      BY <1>8, <2>3, <2>4 DEF Own, entry
    <3>6. card.title # None =>
              /\ card.title.id = child
              /\ card.title.work = Default \/ card.title.work \in CodesOf(backlog[i].parent)
              /\ card.title.product \in {backlog[i].role, card.title.work}
      BY <2>3, <2>4, <3>1, <3>2, <3>3 DEF Own
    <3> QED BY <3>4, <3>5, <3>6 DEF Own
  <2> QED BY <1>3, <2>1, <2>2, <2>5
<1> QED BY <1>6, <1>7, <1>8, ServerStep

---------------------------------------------------------------------------
(* Which card belongs to which task. *)

\* Cards keep their task; a new one gets the current one.
LEMMA TasksStay ==
  ASSUME CreationTypeInv, CardsInv, CreationNext
  PROVE  /\ Len(cards) \in Nat /\ DOMAIN cards = 1..Len(cards)
         /\ \A c \in DOMAIN cards :
               cards'[c].entry = cards[c].entry /\ cards'[c].task = cards[c].task
         /\ \/ DOMAIN cards' = DOMAIN cards /\ Len(cards') = Len(cards)
            \/ /\ pc = "task" /\ Len(cards') = Len(cards) + 1
               /\ DOMAIN cards' = 1..(Len(cards) + 1)
               /\ cards'[Len(cards) + 1].entry = i /\ cards'[Len(cards) + 1].task = j
<1> DEFINE n == Len(cards)
<1>1. n \in Nat /\ DOMAIN cards = 1..n /\ cards \in Seq(Range(cards))
  BY LenProperties DEF CardsInv
<1>2. CASE cards' = cards
  BY <1>1, <1>2
<1>3. CASE pc = "task" /\ cards' = Append(cards, NewCard)
  <2> DEFINE card == NewCard
  <2>1. card.entry = i /\ card.task = j
    BY NewCardFields
  <2> HIDE DEF card
  <2>2. /\ DOMAIN cards' = 1..(n + 1) /\ cards'[n + 1] = card /\ Len(cards') = n + 1
        /\ \A d \in 1..n : cards'[d] = cards[d]
    BY <1>1, <1>3, AppendCard DEF card
  <2> QED BY <1>1, <1>3, <2>1, <2>2
<1>4. ASSUME child \in DOMAIN cards,
             NEW card, cards' = [cards EXCEPT ![child] = card],
             card.entry = cards[child].entry, card.task = cards[child].task
      PROVE  /\ \A c \in DOMAIN cards :
                    cards'[c].entry = cards[c].entry /\ cards'[c].task = cards[c].task
             /\ DOMAIN cards' = DOMAIN cards /\ Len(cards') = n
  <2>1. /\ DOMAIN cards' = 1..n /\ Len(cards') = n
        /\ \A d \in DOMAIN cards : cards'[d] = IF d = child THEN card ELSE cards[d]
    BY <1>1, <1>4, ReplaceCard
  <2> QED BY <1>1, <1>4, <2>1
<1> QED BY <1>1, <1>2, <1>3, <1>4, ServerStep

\* Who has which cards after a step.
LEMMA CardsForStep ==
  ASSUME CreationTypeInv, CardsInv, CreationNext
  PROVE  /\ \A e, t : Len(cards') = Len(cards) => CardsFor(e, t)' = CardsFor(e, t)
         /\ \A e, t : e # i \/ t # j => CardsFor(e, t)' = CardsFor(e, t)
         /\ Len(cards') # Len(cards) => CardsFor(i, j) \cup {Len(cards')}
                                         = {c \in DOMAIN cards' : cards'[c].entry = i /\ cards'[c].task = j}
<1> DEFINE n == Len(cards)
<1>1. /\ n \in Nat /\ DOMAIN cards = 1..n
      /\ \A c \in DOMAIN cards :
               cards'[c].entry = cards[c].entry /\ cards'[c].task = cards[c].task
      /\ \/ DOMAIN cards' = DOMAIN cards /\ Len(cards') = n
         \/ /\ Len(cards') = n + 1 /\ DOMAIN cards' = 1..(n + 1)
            /\ cards'[n + 1].entry = i /\ cards'[n + 1].task = j
  BY TasksStay
<1> HIDE DEF n
<1>2. \A c : c \in 1..(n + 1) <=> c \in 1..n \/ c = n + 1
  BY <1>1
<1>3. CASE DOMAIN cards' = DOMAIN cards /\ Len(cards') = n
  <2>1. \A e, t : CardsFor(e, t)' = CardsFor(e, t)
    BY <1>1, <1>3 DEF CardsFor
  <2> QED BY <1>3, <2>1 DEF n
<1>4. CASE /\ Len(cards') = n + 1 /\ DOMAIN cards' = 1..(n + 1)
           /\ cards'[n + 1].entry = i /\ cards'[n + 1].task = j
  <2>1. ASSUME NEW e, NEW t, e # i \/ t # j PROVE CardsFor(e, t)' = CardsFor(e, t)
    BY <1>1, <1>2, <1>4, <2>1 DEF CardsFor
  <2>2. CardsFor(i, j) \cup {n + 1}
           = {c \in DOMAIN cards' : cards'[c].entry = i /\ cards'[c].task = j}
    BY <1>1, <1>2, <1>4 DEF CardsFor
  <2>3. n + 1 # n
    BY <1>1
  <2> QED BY <1>4, <2>1, <2>2, <2>3 DEF n
<1> QED BY <1>1, <1>3, <1>4

LEMMA PlaceStep ==
  ASSUME CreationTypeInv, CardsInv, PlaceInv, CreationNext
  PROVE  PlaceInv'
<1> DEFINE n == Len(cards)
           Placed == \A c \in DOMAIN cards' :
                        /\ cards'[c].entry \in 1..i' /\ cards'[c].task \in Nat
                        /\ cards'[c].entry = i' =>
                               /\ pc' \in {"task", "link", "tag", "done"}
                               /\ pc' = "task" => cards'[c].task < j'
                               /\ InTask' => cards'[c].task <= j'
<1>1. /\ n \in Nat /\ DOMAIN cards = 1..n
      /\ \A c \in DOMAIN cards :
               cards'[c].entry = cards[c].entry /\ cards'[c].task = cards[c].task
      /\ \/ DOMAIN cards' = DOMAIN cards /\ Len(cards') = n
         \/ /\ pc = "task" /\ Len(cards') = n + 1
            /\ DOMAIN cards' = 1..(n + 1)
            /\ cards'[n + 1].entry = i /\ cards'[n + 1].task = j
  BY TasksStay
<1>2. \A c \in 1..(n + 1) : c \in 1..n \/ c = n + 1
  BY <1>1
<1>3. i \in Nat /\ j \in Nat /\ i >= 1 /\ j >= 1
  BY DEF CreationTypeInv
<1>4. \A c \in DOMAIN cards :
          /\ cards[c].entry \in 1..i /\ cards[c].task \in Nat
          /\ cards[c].entry = i =>
                 /\ pc \in {"task", "link", "tag", "done"}
                 /\ pc = "task" => cards[c].task < j
                 /\ InTask => cards[c].task <= j
  BY DEF PlaceInv
<1>5. CASE CardCreated
  <2>1. pc = "task" /\ i' = i /\ j' = j /\ pc' \in {"link", "tag"} /\ Len(cards') = n + 1
    <3>1. cards' = Append(cards, NewCard) /\ cards \in Seq(Range(cards))
      BY <1>5 DEF CardCreated, CardsInv
    <3>2. Len(cards') = n + 1
      BY <3>1, AppendCard
    <3> QED BY <1>5, <3>2 DEF CardCreated, Creating, FollowUp
  <2>4. n \in Nat /\ n + 1 # n
    <3>1. n \in Nat
      BY <1>1
    <3> HIDE DEF n
    <3> QED BY <3>1
  <2>2. Placed
    <3>1. InTask' /\ pc' # "task" /\ DOMAIN cards' = 1..(n + 1)
      BY <1>1, <2>1, <2>4 DEF InTask
    <3>2. cards'[n + 1].entry = i /\ cards'[n + 1].task = j
      BY <1>1, <2>1, <2>4
    <3> HIDE DEF n
    <3>3. \A c \in 1..n : cards'[c].entry \in 1..i /\ cards'[c].task \in Nat
                           /\ (cards'[c].entry = i => cards'[c].task < j)
      BY <1>1, <1>4, <2>1
    <3>4. \A c \in 1..n : cards'[c].entry \in 1..i /\ cards'[c].task \in Nat
                           /\ (cards'[c].entry = i => cards'[c].task <= j)
      BY <1>3, <3>3
    <3>5. i \in 1..i /\ j \in Nat /\ j <= j
      BY <1>3
    <3> QED BY <1>2, <2>1, <3>1, <3>2, <3>4, <3>5
  <2>3. CardsFor(i, j)' = {Len(cards')}
    <3>1. CardsFor(i, j) = {}
      <4>1. ASSUME NEW c \in DOMAIN cards, cards[c].entry = i PROVE cards[c].task # j
        BY <1>3, <1>4, <2>1, <4>1
      <4> QED BY <4>1 DEF CardsFor
    <3>2. Len(cards') # n
      BY <2>1, <2>4
    <3>3. {c \in DOMAIN cards' : cards'[c].entry = i' /\ cards'[c].task = j'} = {Len(cards')}
      BY <2>1, <3>1, <3>2, CardsForStep
    <3> QED BY <3>3 DEF CardsFor
  <2> QED BY <2>2, <2>3 DEF PlaceInv
<1>6. CASE CardNotCreated
  <2>1. pc = "task" /\ i' = i /\ j' = j + 1 /\ pc' = "task" /\ ~InTask'
    BY <1>6 DEF CardNotCreated, Creating, InTask
  <2>2. Placed
    BY <1>1, <1>2, <1>3, <1>4, <2>1
  <2> QED BY <2>1, <2>2 DEF PlaceInv
<1>7. CASE LinkToParent \/ AddTag
  <2>1. InTask /\ InTask' /\ i' = i /\ j' = j /\ pc # "task"
        /\ pc' = "tag"
    BY <1>7 DEF LinkToParent, AddTag, ChangeChild, InTask
  <2>2. Placed
    BY <1>1, <1>3, <1>4, <2>1 DEF InTask
  <2>3. CardsFor(i, j) = {n} /\ Len(cards') = n
    BY <1>1, <2>1 DEF PlaceInv
  <2>4. {c \in DOMAIN cards' : cards'[c].entry = i' /\ cards'[c].task = j'} = {Len(cards')}
    BY <1>1, <2>1, <2>3 DEF CardsFor
  <2>5. CardsFor(i, j)' = {Len(cards')}
    BY <2>4 DEF CardsFor
  <2> QED BY <2>2, <2>5 DEF PlaceInv
<1>8. CASE UpdateTitle \/ KeepTitle
  <2>1. InTask /\ ~InTask' /\ i' = i /\ j' = j + 1 /\ pc' = "task" /\ pc # "task"
    BY <1>8 DEF UpdateTitle, KeepTitle, TaskDone, ChangeChild, InTask
  <2>2. Placed
    BY <1>1, <1>3, <1>4, <2>1
  <2> QED BY <2>1, <2>2 DEF PlaceInv
<1>9. CASE EndEntry \/ Responsible
  <2>1. /\ ~InTask' /\ UNCHANGED <<j, cards>>
        /\ \/ i' = i + 1 /\ pc' = "entry"
           \/ i' = i /\ pc' = "task" /\ pc = "responsible"
    BY <1>9 DEF EndEntry, Responsible, InTask, server
  <2>2. Placed
    BY <1>3, <1>4, <2>1
  <2> QED BY <2>1, <2>2 DEF PlaceInv
<1>10. CASE ~(CardCreated \/ CardNotCreated \/ LinkToParent \/ AddTag \/ UpdateTitle \/ KeepTitle
              \/ EndEntry \/ Responsible)
  <2>1. /\ UNCHANGED <<i, cards>>
        /\ \/ pc' = pc /\ j' = j
           \/ pc \in {"file", "user", "entry", "parent", "reply"} /\ pc' # "task" /\ ~InTask'
           \/ pc' = "done"
    BY <1>10 DEF CreationNext, CreationStep, ReadBacklog, CurrentUser, NextEntry, Throw,
        ParentFromCache, AskForParent, ParentReply, Summary, EditParent, TimePasses,
        server, position, InTask
  <2>2. Placed
    BY <1>4, <2>1 DEF InTask
  <2>3. InTask' => InTask /\ j' = j
    BY <2>1 DEF InTask
  <2> QED BY <2>1, <2>2, <2>3 DEF PlaceInv, CardsFor
<1> QED BY <1>5, <1>6, <1>7, <1>8, <1>9, <1>10

---------------------------------------------------------------------------
(* Counting. *)

LEMMA DonePairs ==
  ASSUME NEW e, NEW t
  PROVE  <<e, t>> \in TasksDone
            <=> ((e \in 1..(i - 1) /\ t \in TasksOf(e)) \/ (InEntry /\ e = i /\ t \in 1..(j - 1)))
BY DEF TasksDone, TasksOver

\* What a step makes of the entries and tasks that are behind.
LEMMA EntriesBehind ==
  ASSUME CreationTypeInv, backlog # Unreadable, UNCHANGED backlog, i' = i + 1
  PROVE  /\ EntriesWithout' = EntriesWithout \cup (IF entry.tasks = Missing THEN {i} ELSE {})
         /\ TasksOver' = TasksOver \cup ({i} \X TasksOf(i))
         /\ i \notin EntriesWithout
<1>1. i \in Nat /\ i >= 1
  BY DEF CreationTypeInv
<1>2. 1..(i' - 1) = (1..(i - 1)) \cup {i} /\ i \notin 1..(i - 1)
  BY <1>1
<1>3. EntriesWithout' = EntriesWithout \cup (IF entry.tasks = Missing THEN {i} ELSE {})
  <2>1. EntriesWithout' = {e \in 1..(i' - 1) : backlog[e].tasks = Missing}
    BY DEF EntriesWithout
  <2> QED BY <1>2, <2>1 DEF EntriesWithout, entry
<1>4. TasksOver' = TasksOver \cup ({i} \X TasksOf(i))
  <2>1. TasksOver' = UNION {{e} \X TasksOf(e) : e \in 1..(i' - 1)}
    BY DEF TasksOver, TasksOf
  <2> QED BY <1>2, <2>1 DEF TasksOver
<1> QED BY <1>2, <1>3, <1>4 DEF EntriesWithout

LEMMA TaskCounted ==
  ASSUME CreationTypeInv, backlog # Unreadable, UNCHANGED <<backlog, i>>,
         AtTask, j' = j + 1, pc' = "task"
  PROVE  /\ EntriesWithout' = EntriesWithout
         /\ TasksDone' = TasksDone \cup {<<i, j>>} /\ <<i, j>> \notin TasksDone
<1>1. i \in Nat /\ j \in Nat /\ i >= 1 /\ j >= 1 /\ InEntry /\ InEntry'
  BY DEF CreationTypeInv, InEntry, AtTask
<1>2. 1..(j' - 1) = (1..(j - 1)) \cup {j} /\ j \notin 1..(j - 1) /\ i \notin 1..(i - 1)
  BY <1>1
<1>3. EntriesWithout' = EntriesWithout /\ TasksOver' = TasksOver
  BY DEF EntriesWithout, TasksOver, TasksOf
<1>4. TasksDone' = TasksDone \cup {<<i, j>>}
  <2>1. TasksDone' = TasksOver \cup ({i} \X (1..(j' - 1)))
    BY <1>1, <1>3 DEF TasksDone
  <2>2. TasksDone = TasksOver \cup ({i} \X (1..(j - 1)))
    BY <1>1 DEF TasksDone
  <2> QED BY <1>2, <2>1, <2>2
<1> QED BY <1>2, <1>3, <1>4, DonePairs

\* The steps that count nothing and create nothing.
Uneventful ==
    /\ UNCHANGED <<backlog, success, errors>> /\ Uncounted' = Uncounted
    /\ EntriesWithout' = EntriesWithout /\ TasksDone' = TasksDone
    /\ Len(cards') = Len(cards) /\ DOMAIN cards' = DOMAIN cards

LEMMA StepsThatCount ==
  ASSUME CreationTypeInv, CardsInv, CreationNext, exit' # Terminated, backlog # Unreadable
  PROVE  \/ Uneventful
         \/ CardCreated \/ CardNotCreated \/ UpdateTitle \/ KeepTitle
         \/ Responsible /\ entry.tasks = Missing
<1>1. i \in Nat /\ j \in Nat /\ i >= 1 /\ j >= 1
  BY DEF CreationTypeInv
<1>2. 1..(1 - 1) = {}
  OBVIOUS
<1>3. CASE NextEntry
  <2>1. ~InEntry /\ j' = 1 /\ InEntry' /\ UNCHANGED <<backlog, i, cards, success, errors>>
        /\ ~InTask /\ ~InTask'
    BY <1>3 DEF NextEntry, InEntry, InTask, server, counts
  <2>2. EntriesWithout' = EntriesWithout /\ TasksOver' = TasksOver
    BY <2>1 DEF EntriesWithout, TasksOver, TasksOf
  <2>3. TasksDone = TasksOver
    BY <2>1 DEF TasksDone
  <2>4. TasksDone' = TasksOver' \cup ({i'} \X (1..(1 - 1)))
    BY <2>1 DEF TasksDone
  <2>5. TasksDone' = TasksDone
    BY <1>2, <2>2, <2>3, <2>4
  <2> QED BY <2>1, <2>2, <2>5 DEF Uneventful, Uncounted
<1>4. CASE EndEntry
  <2>1. /\ InEntry /\ ~InEntry' /\ i' = i + 1 /\ j > Len(entry.tasks)
        /\ UNCHANGED <<backlog, cards, success, errors>> /\ ~InTask /\ ~InTask'
        /\ entry.tasks # Missing /\ j <= Len(entry.tasks) + 1 /\ i <= Len(backlog)
    BY <1>4 DEF EndEntry, InEntry, InTask, server, counts, CreationTypeInv, AtTask
  <2>2. Len(entry.tasks) \in Nat /\ DOMAIN entry.tasks = 1..Len(entry.tasks)
    <3>1. Len(backlog) \in Nat /\ backlog \in Backlogs
      BY Backlog DEF CreationTypeInv
    <3>2. i \in 1..Len(backlog)
      BY <1>1, <2>1, <3>1
    <3> QED BY <2>1, <3>1, <3>2, Backlog DEF entry
  <2>3. TasksOf(i) = 1..(j - 1)
    <3>1. j - 1 = Len(entry.tasks)
      BY <1>1, <2>1, <2>2
    <3> QED BY <2>1, <2>2, <3>1 DEF TasksOf, entry
  <2>4. EntriesWithout' = EntriesWithout /\ TasksOver' = TasksOver \cup ({i} \X TasksOf(i))
    BY <2>1, EntriesBehind
  <2>5. TasksDone' = TasksOver' /\ TasksDone = TasksOver \cup ({i} \X (1..(j - 1)))
    BY <2>1 DEF TasksDone
  <2> QED BY <2>1, <2>3, <2>4, <2>5 DEF Uneventful, Uncounted
<1>5. CASE LinkToParent \/ AddTag
  <2>1. /\ InEntry /\ InEntry' /\ InTask /\ InTask'
        /\ UNCHANGED <<backlog, i, j, success, errors>>
    BY <1>5 DEF LinkToParent, AddTag, ChangeChild, InEntry, InTask
  <2>2. Len(cards') = Len(cards) /\ DOMAIN cards' = DOMAIN cards
    BY <2>1, TasksStay DEF InTask
  <2>3. EntriesWithout' = EntriesWithout /\ TasksDone' = TasksDone
    BY <2>1 DEF EntriesWithout, TasksDone, TasksOver, TasksOf
  <2> QED BY <2>1, <2>2, <2>3 DEF Uneventful, Uncounted
<1>6. CASE Responsible /\ entry.tasks # Missing
  <2>1. /\ InEntry /\ InEntry' /\ ~InTask /\ ~InTask'
        /\ UNCHANGED <<backlog, i, j, cards, success, errors>>
    BY <1>6 DEF Responsible, InEntry, InTask, server
  <2>2. EntriesWithout' = EntriesWithout /\ TasksDone' = TasksDone
    BY <2>1 DEF EntriesWithout, TasksDone, TasksOver, TasksOf
  <2> QED BY <2>1, <2>2 DEF Uneventful, Uncounted
<1>7. CASE \/ ReadBacklog \/ CurrentUser \/ ParentFromCache \/ AskForParent \/ ParentReply \/ Summary
           \/ \E p \in Parents : EditParent(p)
           \/ TimePasses
  <2>1. /\ InEntry' = InEntry /\ InTask' = InTask
        /\ UNCHANGED <<backlog, i, j, cards, success, errors>>
    BY <1>7 DEF ReadBacklog, CurrentUser, ParentFromCache, AskForParent, ParentReply, Summary,
          EditParent, TimePasses, InEntry, InTask, server, counts, position
  <2>2. EntriesWithout' = EntriesWithout /\ TasksDone' = TasksDone
    BY <2>1 DEF EntriesWithout, TasksDone, TasksOver, TasksOf
  <2> QED BY <2>1, <2>2 DEF Uneventful, Uncounted
<1>8. ~Throw
  BY DEF Throw
<1> QED BY <1>3, <1>4, <1>5, <1>6, <1>7, <1>8 DEF CreationNext, CreationStep

LEMMA CountStep ==
  ASSUME CreationTypeInv, CardsInv, PlaceInv, CountInv, exit = Running, CreationNext
  PROVE  CountInv'
<1> SUFFICES ASSUME backlog' # Unreadable, exit' # Terminated
             PROVE  CountInv'
  BY DEF CountInv
<1> DEFINE w == Cardinality(EntriesWithout)
           d == Cardinality(TasksDone)
           n == Len(cards)
<1>1. UNCHANGED backlog /\ backlog # Unreadable /\ exit # Terminated
  BY SMTT(30) DEF CreationNext, CreationStep, ReadBacklog, CurrentUser, NextEntry,
         Throw, ParentFromCache, AskForParent, ParentReply, Responsible, EndEntry, CardCreated,
         CardNotCreated, Creating, LinkToParent, AddTag, UpdateTitle, TaskDone, ChangeChild,
         KeepTitle, Summary, EditParent, TimePasses, Running, Terminated
<1>2. /\ IsFiniteSet(EntriesWithout) /\ IsFiniteSet(TasksDone)
      /\ success + errors = w + d
      /\ success + Uncounted <= n
      /\ n <= success + errors + Uncounted
      /\ errors = 0 =>
              /\ EntriesWithout = {}
              /\ \A e, t : <<e, t>> \in TasksDone => \E c \in DOMAIN cards : CardsFor(e, t) = {c}
  BY <1>1 DEF CountInv
<1>3. /\ w \in Nat /\ d \in Nat /\ n \in Nat /\ success \in Nat /\ errors \in Nat
      /\ DOMAIN cards = 1..n
  BY <1>2, FS_CardinalityType, TasksStay DEF CreationTypeInv
<1>4. CASE Uneventful
  <2>1. \A e, t : CardsFor(e, t)' = CardsFor(e, t)
    BY <1>4, CardsForStep DEF Uneventful
  <2>2. /\ UNCHANGED <<success, errors>> /\ Uncounted' = Uncounted
        /\ EntriesWithout' = EntriesWithout /\ TasksDone' = TasksDone
        /\ Len(cards') = n /\ DOMAIN cards' = DOMAIN cards
    BY <1>4 DEF Uneventful
  <2> HIDE DEF n
  <2> QED BY <1>2, <2>1, <2>2 DEF CountInv
<1>5. CASE CardCreated
  <2>1. /\ UNCHANGED <<i, j, success, errors>> /\ AtTask /\ AtTask' /\ ~InTask /\ InTask'
        /\ InEntry /\ InEntry'
        /\ cards' = Append(cards, NewCard) /\ cards \in Seq(Range(cards))
    BY <1>5 DEF CardCreated, Creating, FollowUp, AtTask, InTask, InEntry, CardsInv
  <2>2. Len(cards') = n + 1 /\ DOMAIN cards' = 1..(n + 1)
    BY <2>1, AppendCard
  <2>3. EntriesWithout' = EntriesWithout /\ TasksDone' = TasksDone
    BY <1>1, <2>1 DEF EntriesWithout, TasksDone, TasksOver, TasksOf
  <2>4. <<i, j>> \notin TasksDone
    <3>1. i \notin 1..(i - 1) /\ j \notin 1..(j - 1)
      BY DEF CreationTypeInv
    <3> QED BY <3>1, DonePairs
  <2>5. ASSUME errors = 0, NEW e, NEW t, <<e, t>> \in TasksDone
        PROVE  \E c \in DOMAIN cards' : CardsFor(e, t)' = {c}
    <3>1. PICK c \in DOMAIN cards : CardsFor(e, t) = {c}
      BY <1>2, <2>5
    <3>2. CardsFor(e, t)' = CardsFor(e, t)
      BY <2>4, <2>5, CardsForStep
    <3>3. c \in DOMAIN cards'
      BY <1>3, <2>2
    <3> QED BY <3>1, <3>2, <3>3
  <2>6. success + 1 <= Len(cards') /\ Len(cards') <= success + errors + 1
    <3>1. Uncounted = 0
      BY <2>1 DEF Uncounted
    <3> HIDE DEF n
    <3> QED BY <1>2, <1>3, <2>2, <3>1
  <2>7. Uncounted' = 1
    BY <2>1 DEF Uncounted
  <2> QED BY <1>2, <2>1, <2>3, <2>5, <2>6, <2>7 DEF CountInv
<1>6. ASSUME Responsible, entry.tasks = Missing PROVE CountInv'
  <2>1. /\ i' = i + 1 /\ j = 1 /\ errors' = errors + 1 /\ UNCHANGED <<success, cards>>
        /\ InEntry /\ ~InEntry' /\ ~InTask /\ ~InTask'
    BY <1>6 DEF Responsible, InEntry, InTask, server, CreationTypeInv
  <2>2. /\ EntriesWithout' = EntriesWithout \cup {i} /\ i \notin EntriesWithout
        /\ TasksOver' = TasksOver \cup ({i} \X TasksOf(i))
    BY <1>1, <1>6, <2>1, EntriesBehind
  <2>3. TasksDone' = TasksDone
    <3>1. TasksOf(i) = {}
      BY <1>6 DEF TasksOf, entry
    <3>2. TasksDone' = TasksOver' /\ TasksDone = TasksOver \cup ({i} \X (1..(1 - 1)))
      BY <2>1 DEF TasksDone
    <3>3. 1..(1 - 1) = {}
      OBVIOUS
    <3> QED BY <2>2, <3>1, <3>2, <3>3
  <2>4. IsFiniteSet(EntriesWithout)' /\ Cardinality(EntriesWithout') = w + 1
    BY <1>2, <2>2, FS_AddElement
  <2>5. success' + errors' = (w + 1) + d
    <3> HIDE DEF w, d, n
    <3> QED BY <1>2, <1>3, <2>1
  <2>6. success' + 0 <= Len(cards') /\ Len(cards') <= success' + errors' + 0
    <3>1. Uncounted = 0
      BY <2>1 DEF Uncounted
    <3> HIDE DEF w, d
    <3> QED BY <1>2, <1>3, <2>1, <3>1
  <2>7. Uncounted' = 0 /\ errors' # 0
    BY <1>3, <2>1 DEF Uncounted
  <2> QED BY <1>2, <2>3, <2>4, <2>5, <2>6, <2>7 DEF CountInv
<1>7. CASE CardNotCreated
  <2>1. /\ UNCHANGED <<i, success>> /\ errors' = errors + 1 /\ j' = j + 1
        /\ pc = "task" /\ pc' = "task"
        /\ cards' = cards \/ cards' = Append(cards, NewCard)
        /\ cards \in Seq(Range(cards))
    BY <1>7 DEF CardNotCreated, Creating, CardsInv
  <2>2. Len(cards') \in {n, n + 1}
    BY <2>1, AppendCard
  <2>3. EntriesWithout' = EntriesWithout /\ TasksDone' = TasksDone \cup {<<i, j>>}
        /\ <<i, j>> \notin TasksDone
    BY <1>1, <2>1, TaskCounted DEF AtTask
  <2>4. IsFiniteSet(TasksDone)' /\ Cardinality(TasksDone') = d + 1
    BY <1>2, <2>3, FS_AddElement
  <2>5. success' + errors' = w + (d + 1)
    <3> HIDE DEF w, d, n
    <3> QED BY <1>2, <1>3, <2>1
  <2>6. success' + 0 <= Len(cards') /\ Len(cards') <= success' + errors' + 0
    <3>1. Uncounted = 0
      BY <2>1 DEF Uncounted, InTask
    <3> HIDE DEF w, d, n
    <3> QED BY <1>2, <1>3, <2>1, <2>2, <3>1
  <2>7. Uncounted' = 0 /\ errors' # 0
    BY <1>3, <2>1 DEF Uncounted, InTask
  <2> QED BY <1>2, <2>3, <2>4, <2>5, <2>6, <2>7 DEF CountInv
<1>8. CASE UpdateTitle \/ KeepTitle
  <2>1. /\ UNCHANGED <<i, errors>> /\ success' = success + 1 /\ j' = j + 1
        /\ pc = "tag" /\ pc' = "task" /\ InTask
    BY <1>8 DEF UpdateTitle, KeepTitle, TaskDone, ChangeChild, InTask
  <2>2. Len(cards') = n /\ DOMAIN cards' = DOMAIN cards
    BY <2>1, TasksStay
  <2>3. EntriesWithout' = EntriesWithout /\ TasksDone' = TasksDone \cup {<<i, j>>}
        /\ <<i, j>> \notin TasksDone
    BY <1>1, <2>1, TaskCounted DEF AtTask
  <2>4. IsFiniteSet(TasksDone)' /\ Cardinality(TasksDone') = d + 1
    BY <1>2, <2>3, FS_AddElement
  <2>5. success' + errors' = w + (d + 1)
    <3> HIDE DEF w, d, n
    <3> QED BY <1>2, <1>3, <2>1
  <2>6. success' + 0 <= Len(cards') /\ Len(cards') <= success' + errors' + 0
    <3>1. Uncounted = 1
      BY <2>1 DEF Uncounted
    <3> HIDE DEF w, d, n
    <3> QED BY <1>2, <1>3, <2>1, <2>2, <3>1
  <2>7. Uncounted' = 0
    BY <2>1 DEF Uncounted, InTask
  <2>8. ASSUME errors = 0, NEW e, NEW t, <<e, t>> \in TasksDone'
        PROVE  \E c \in DOMAIN cards' : CardsFor(e, t)' = {c}
    <3>1. CardsFor(e, t)' = CardsFor(e, t)
      BY <2>2, CardsForStep
    <3>2. CASE <<e, t>> \in TasksDone
      BY <1>2, <2>2, <2>8, <3>1, <3>2
    <3>3. CASE <<e, t>> = <<i, j>>
      <4>1. e = i /\ t = j
        BY <3>3
      <4>2. CardsFor(i, j) = {n}
        BY <2>1 DEF PlaceInv
      <4>3. n >= 1
        BY <2>1 DEF CardsInv
      <4> HIDE DEF n
      <4>4. n \in DOMAIN cards'
        BY <1>3, <2>2, <4>3
      <4> QED BY <3>1, <4>1, <4>2, <4>4
    <3> QED BY <2>3, <2>8, <3>2, <3>3
  <2> QED BY <1>2, <2>1, <2>3, <2>4, <2>5, <2>6, <2>7, <2>8 DEF CountInv
<1> QED BY <1>1, <1>4, <1>5, <1>6, <1>7, <1>8, StepsThatCount

---------------------------------------------------------------------------
(* The inductive invariant, and what follows from it. *)

CreationInv ==
    /\ CreationTypeInv
    /\ ExitInv
    /\ CardsInv
    /\ CacheInv
    /\ ReplyInv
    /\ ReadInv
    /\ PlaceInv
    /\ OwnData
    /\ CountInv

LEMMA CreationInvInit ==
  ASSUME CreationInit, mode \notin CreationModes => backlog = Unreadable
  PROVE  CreationInv
<1>1. /\ backlog \in Backlogs /\ pc = "file" /\ exit = Running
      /\ i = 1 /\ j = 1 /\ k = 1
      /\ me = None /\ read = None /\ assignee = None /\ child = 0
      /\ success = 0 /\ errors = 0 /\ clock = 0 /\ replaced = {} /\ cards = <<>>
      /\ parents \in [Parents -> ParentCards] /\ delays \in [Parents -> Nat]
  BY DEF CreationInit
<1>2. ~InEntry /\ ~AtTask /\ ~InTask
  BY <1>1 DEF InEntry, AtTask, InTask
<1>3. cards \in Seq(Range(cards)) /\ Len(cards) = 0 /\ DOMAIN cards = {}
  BY <1>1
<1>4. CreationTypeInv
  <2>1. backlog # Unreadable => Len(backlog) \in Nat
    BY <1>1, Backlog
  <2> QED BY <1>1, <1>2, <2>1 DEF CreationTypeInv
<1>5. ExitInv
  BY <1>1 DEF ExitInv, Running, Success, Failure, Terminated
<1>6. CardsInv
  BY <1>1, <1>2, <1>3 DEF CardsInv
<1>7. CacheInv
  <2>1. PICK enabled \in BOOLEAN : cache = EmptyCache(enabled)
    BY DEF CreationInit
  <2>2. cache = [enabled |-> cache.enabled, entries |-> cache.entries] /\ cache.entries = <<>>
    BY <2>1 DEF EmptyCache
  <2>3. DOMAIN cache.entries = {}
    BY <2>2
  <2> QED BY <1>1, <2>2, <2>3 DEF CacheInv
<1>8. ReplyInv /\ ReadInv
  BY <1>1, <1>2 DEF ReplyInv, ReadInv
<1>9. PlaceInv /\ OwnData
  BY <1>2, <1>3 DEF PlaceInv, OwnData
<1>10. CountInv
  <2>1. 1..(i - 1) = {}
    BY <1>1
  <2>2. EntriesWithout = {} /\ TasksDone = {} /\ Uncounted = 0
    BY <1>2, <2>1 DEF EntriesWithout, TasksDone, TasksOver, Uncounted
  <2> QED BY <1>1, <1>3, <2>2, FS_EmptySet DEF CountInv
<1> QED BY <1>4, <1>5, <1>6, <1>7, <1>8, <1>9, <1>10 DEF CreationInv

LEMMA CreationInvNext ==
  ASSUME CreationInv, mode \in CreationModes, mode' = mode, exit = Running, CreationNext
  PROVE  CreationInv'
BY CreationTypeStep, ExitStep, CardsStep, CacheStep, PlaceStep, OwnDataStep, CountStep
   DEF CreationInv

\* A step of another mode.
LEMMA CreationInvStays ==
  ASSUME CreationInv, UNCHANGED <<mode, creationVars>>,
         exit' \in {Running, Success, Failure, Terminated},
         mode \in CreationModes => exit' = exit
  PROVE  CreationInv'
<1>1. /\ UNCHANGED <<backlog, pc, i, j, k, me, read, assignee, child, success, errors>>
      /\ UNCHANGED <<cache, cards, parents, replaced, reply, delays, clock>>
  BY DEF creationVars, position, locals, counts, server
<1>2. UNCHANGED <<InEntry, AtTask, InTask, entry>>
  BY <1>1 DEF InEntry, AtTask, InTask, entry
<1>3. CreationTypeInv' /\ CardsInv' /\ ReadInv'
  BY <1>1, <1>2 DEF CreationInv, CreationTypeInv, CardsInv, ReadInv, WasParent
<1>4. CacheInv' /\ ReplyInv'
  BY <1>1, <1>2 DEF CreationInv, CacheInv, ReplyInv, WasParent
<1>5. PlaceInv' /\ OwnData'
  BY SMTT(30), <1>1, <1>2 DEF CreationInv, PlaceInv, CardsFor, OwnData, CodesOf
<1>6. ExitInv'
  BY <1>1 DEF CreationInv, ExitInv
<1>7. CountInv'
  <2> SUFFICES ASSUME backlog # Unreadable, exit' # Terminated
               PROVE  CountInv'
    BY <1>1 DEF CountInv
  <2>1. exit' = exit
    BY DEF CreationInv, ExitInv
  <2>2. UNCHANGED <<EntriesWithout, TasksDone, Uncounted>>
    BY <1>1, <1>2 DEF EntriesWithout, TasksDone, TasksOver, TasksOf, Uncounted
  <2>3. \A e, t : CardsFor(e, t)' = CardsFor(e, t)
    BY <1>1 DEF CardsFor
  <2> QED BY <1>1, <2>1, <2>2, <2>3 DEF CreationInv, CountInv
<1> QED BY <1>3, <1>4, <1>5, <1>6, <1>7 DEF CreationInv

LEMMA CreationInvType ==
  ASSUME CreationInv
  PROVE  CreationTypeOK
<1>1. backlog # Unreadable => Len(backlog) \in Nat
  BY Backlog DEF CreationInv, CreationTypeInv
<1>2. backlog # Unreadable => i \in 1..(Len(backlog) + 1)
  BY <1>1 DEF CreationInv, CreationTypeInv
<1>3. pc \in {"task", "link", "tag"} =>
          /\ Len(entry.tasks) \in Nat /\ Len(entry.tags) \in Nat
          /\ j <= Len(entry.tasks) + 1
          /\ pc # "task" => k <= Len(entry.tags) + 1
  <2> SUFFICES ASSUME pc \in {"task", "link", "tag"}
               PROVE  /\ Len(entry.tasks) \in Nat /\ Len(entry.tags) \in Nat
                      /\ j <= Len(entry.tasks) + 1
                      /\ pc # "task" => k <= Len(entry.tags) + 1
    OBVIOUS
  <2>1. /\ backlog # Unreadable /\ backlog \in Backlogs /\ i <= Len(backlog) /\ i \in Nat \ {0}
        /\ entry.tasks # Missing /\ j <= Len(entry.tasks) + 1
        /\ pc # "task" => k <= Len(entry.tags) + 1
    BY DEF CreationInv, CreationTypeInv, InEntry, AtTask, InTask
  <2>2. i \in 1..Len(backlog)
    BY <1>1, <2>1
  <2> QED BY <2>1, <2>2, Backlog DEF entry
<1>4. j \in Nat \ {0} /\ k \in Nat \ {0}
  BY DEF CreationInv, CreationTypeInv
<1>5. pc \in {"task", "link", "tag"} => j \in 1..(Len(entry.tasks) + 1)
  BY <1>3, <1>4
<1>6. pc \in {"link", "tag"} => k \in 1..(Len(entry.tags) + 1)
  BY <1>3, <1>4
<1>7. pc = "reply" => reply.card \in ParentCards /\ reply.at \in 0..clock
  BY DEF CreationInv, CreationTypeInv, ReplyInv
<1> QED BY <1>2, <1>5, <1>6, <1>7
        DEF CreationInv, CreationTypeInv, ExitInv, CardsInv, ReadInv, CacheInv, CreationTypeOK

\* At the end everything is behind.
LEMMA AtTheEnd ==
  ASSUME CreationInv, mode \in CreationModes, exit \in {Success, Failure}, backlog # Unreadable
  PROVE  /\ Len(backlog) \in Nat /\ DOMAIN backlog = 1..Len(backlog) /\ i = Len(backlog) + 1
         /\ i - 1 = Len(backlog) /\ ~InEntry /\ ~InTask
         /\ exit # Terminated
<1>1. Len(backlog) \in Nat /\ DOMAIN backlog = 1..Len(backlog)
  BY Backlog DEF CreationInv, CreationTypeInv
<1>2. i = Len(backlog) + 1 /\ pc = "done" /\ exit # Terminated
  BY DEF CreationInv, ExitInv, Running, Success, Failure, Terminated
<1> QED BY <1>1, <1>2 DEF InEntry, InTask

LEMMA CreationInvExitZero ==
  ASSUME CreationInv
  PROVE  ExitZeroMeansAllCreated
<1> SUFFICES ASSUME mode \in CreationModes, exit = Success, NEW e \in DOMAIN backlog
             PROVE  /\ backlog[e].tasks # Missing
                    /\ \A t \in DOMAIN backlog[e].tasks : Cardinality(CardsFor(e, t)) = 1
  BY DEF ExitZeroMeansAllCreated
<1>1. backlog # Unreadable /\ errors = 0
  BY DEF CreationInv, ExitInv
<1>2. e \in 1..(i - 1) /\ exit # Terminated
  BY <1>1, AtTheEnd
<1>3. /\ EntriesWithout = {}
      /\ \A d, t : <<d, t>> \in TasksDone => \E c \in DOMAIN cards : CardsFor(d, t) = {c}
  BY <1>1, <1>2 DEF CreationInv, CountInv
<1>4. backlog[e].tasks # Missing
  BY <1>2, <1>3 DEF EntriesWithout
<1>5. ASSUME NEW t \in DOMAIN backlog[e].tasks
      PROVE  Cardinality(CardsFor(e, t)) = 1
  <2>1. <<e, t>> \in TasksDone
    BY <1>2, <1>4, DonePairs DEF TasksOf
  <2>2. PICK c \in DOMAIN cards : CardsFor(e, t) = {c}
    BY <1>3, <2>1
  <2> QED BY <2>2, FS_Singleton
<1> QED BY <1>4, <1>5

LEMMA CreationInvSummary ==
  ASSUME CreationInv
  PROVE  SummaryAddsUp
<1> SUFFICES ASSUME mode \in CreationModes, exit \in {Success, Failure}, backlog # Unreadable
             PROVE  /\ success <= Len(cards)
                    /\ Len(cards) <= success + errors
                    /\ success + errors =
                          Cardinality({e \in DOMAIN backlog : backlog[e].tasks = Missing})
                            + Cardinality(UNION {{e} \X DOMAIN backlog[e].tasks :
                                  e \in {d \in DOMAIN backlog : backlog[d].tasks # Missing}})
  BY DEF SummaryAddsUp
<1>1. DOMAIN backlog = 1..(i - 1) /\ ~InEntry /\ ~InTask /\ exit # Terminated
  BY AtTheEnd
<1>2. Uncounted = 0
  BY <1>1 DEF Uncounted
<1>3. EntriesWithout = {e \in DOMAIN backlog : backlog[e].tasks = Missing}
  BY <1>1 DEF EntriesWithout
<1>4. TasksDone = UNION {{e} \X DOMAIN backlog[e].tasks :
                            e \in {d \in DOMAIN backlog : backlog[d].tasks # Missing}}
  <2> DEFINE with == {d \in DOMAIN backlog : backlog[d].tasks # Missing}
  <2>1. TasksDone = UNION {{e} \X TasksOf(e) : e \in DOMAIN backlog}
    BY <1>1 DEF TasksDone, TasksOver
  <2>2. ASSUME NEW x
        PROVE  x \in UNION {{e} \X TasksOf(e) : e \in DOMAIN backlog}
                 <=> x \in UNION {{e} \X DOMAIN backlog[e].tasks : e \in with}
    <3>1. ASSUME NEW e \in DOMAIN backlog, x \in {e} \X TasksOf(e)
          PROVE  e \in with /\ x \in {e} \X DOMAIN backlog[e].tasks
      BY <3>1 DEF TasksOf
    <3>2. ASSUME NEW e \in with, x \in {e} \X DOMAIN backlog[e].tasks
          PROVE  e \in DOMAIN backlog /\ x \in {e} \X TasksOf(e)
      BY <3>2 DEF TasksOf
    <3> HIDE DEF with
    <3> QED BY <3>1, <3>2
  <2> HIDE DEF with
  <2>3. TasksDone = UNION {{e} \X DOMAIN backlog[e].tasks : e \in with}
    BY <2>1, <2>2
  <2> QED BY <2>3 DEF with
<1>5. /\ success + errors = Cardinality(EntriesWithout) + Cardinality(TasksDone)
      /\ success + 0 <= Len(cards)
      /\ Len(cards) <= success + errors + 0
  BY <1>1, <1>2 DEF CreationInv, CountInv
<1>6. success \in Nat /\ errors \in Nat /\ Len(cards) \in Nat
  BY LenProperties DEF CreationInv, CreationTypeInv, CardsInv
<1>7. success <= Len(cards) /\ Len(cards) <= success + errors
  BY <1>5, <1>6
<1> QED BY <1>3, <1>4, <1>5, <1>7

LEMMA SettledCards ==
  ASSUME CreationInv, CreationNext, NEW c \in DOMAIN cards, cards'[c] # cards[c]
  PROVE  c = Len(cards) /\ cards[c].entry = i /\ cards[c].task = j
<1>1. cards \in Seq(Range(cards)) /\ Len(cards) \in Nat /\ DOMAIN cards = 1..Len(cards)
  BY LenProperties DEF CreationInv, CardsInv
<1>2. ~(cards' = Append(cards, NewCard))
  BY <1>1, AppendCard
<1>3. InTask /\ c = Len(cards)
  <2>1. InTask /\ child = Len(cards) /\ \E card : cards' = [cards EXCEPT ![child] = card]
    BY <1>2, ServerStep DEF CreationInv
  <2> QED BY <1>1, <2>1
<1>4. CardsFor(i, j) = {Len(cards)}
  BY <1>3 DEF CreationInv, PlaceInv
<1> QED BY <1>3, <1>4 DEF CardsFor

\* What an entry of a backlog is based on: an answer under way says what the card
\* said when it was sent, an entry of the cache what it said before the answer came.
LEMMA ParentRead ==
  ASSUME CreationInv, CreationNext, pc = "parent" \/ pc = "reply", pc' = "responsible",
         read' # None
  PROVE  \/ read' = parents[entry.parent]
         \/ \E r \in replaced : /\ r.parent = entry.parent
                                /\ r.card = read'
                                /\ clock - r.at <= MaxAge(entry.parent)
<1> DEFINE p == entry.parent
           e == cache.entries[p]
<1>1. ParentFromCache \/ ParentReply
  BY DEF CreationNext, CreationStep, ReadBacklog, CurrentUser, NextEntry, AskForParent,
         Throw, Responsible, EndEntry, CardCreated, CardNotCreated, Creating, LinkToParent,
         AddTag, UpdateTitle, TaskDone, KeepTitle, Summary, EditParent, TimePasses
<1>2. /\ clock \in Nat /\ Ttl \in Nat /\ \A r \in replaced : r.at \in Nat
      /\ pc = "reply" => p \in Parents
      /\ delays \in [Parents -> Nat]
  BY CacheAssumption DEF CreationInv, CacheInv, CreationTypeInv
<1>3. CASE ParentReply
  <2>1. /\ pc = "reply" /\ read' = reply.card
        /\ delays' = [delays EXCEPT ![p] = clock - reply.at]
    BY <1>3 DEF ParentReply
  <2>2. reply.at \in Nat /\ WasParent(p, reply.card, reply.at)
    BY <2>1 DEF CreationInv, ReplyInv
  <2>3. delays'[p] = clock - reply.at
    BY <1>2, <2>1
  <2> HIDE DEF p
  <2>4. ASSUME NEW r \in replaced, r.at >= reply.at
        PROVE  clock - r.at <= delays'[p] + 0
    <3>1. r.at \in Nat
      BY <1>2
    <3> QED BY <1>2, <2>2, <2>3, <2>4, <3>1
  <2> QED BY <2>1, <2>2, <2>4 DEF WasParent, MaxAge, p
<1>4. CASE ParentFromCache
  <2>1. /\ pc = "parent" /\ delays' = delays
        /\ p \in DOMAIN cache.entries /\ read' = e.value /\ ~(clock - e.timestamp > Ttl)
    BY <1>4 DEF ParentFromCache, Hit, IsExpired, server
  <2>2. /\ e.timestamp \in Nat /\ p \in Parents /\ delays[p] \in Nat
        /\ WasParent(p, e.value, e.timestamp - delays[p])
    BY <2>1 DEF CreationInv, CacheInv
  <2> HIDE DEF e, p
  <2>3. ASSUME NEW r \in replaced, r.at >= e.timestamp - delays[p]
        PROVE  clock - r.at <= delays[p] + Ttl
    <3>1. r.at \in Nat
      BY <1>2
    <3> QED BY <1>2, <2>1, <2>2, <2>3, <3>1
  <2> QED BY <2>1, <2>2, <2>3 DEF WasParent, MaxAge, p
<1> QED BY <1>1, <1>3, <1>4

---------------------------------------------------------------------------
(* The modes. *)

\* Each step belongs to the mode that runs.
LEMMA ModeOfStep ==
  ASSUME [Next]_allVars
  PROVE  /\ mode' = mode
         /\ \/ mode \in CreationModes /\ exit = Running /\ CreationNext
                 /\ UNCHANGED <<listingVars, filterVars, lookupVars>>
            \/ mode \in ListingModes /\ exit = Running /\ ListingNext
                 /\ UNCHANGED <<creationVars, filterVars, lookupVars>>
            \/ mode \in FilterModes /\ exit = Running /\ FilterStep
                 /\ UNCHANGED <<creationVars, listingVars, lookupVars>>
            \/ mode \in LookupModes /\ exit = Running /\ LookupStep
                 /\ UNCHANGED <<creationVars, listingVars, filterVars>>
            \/ UNCHANGED <<exit, creationVars, listingVars, filterVars, lookupVars>>
BY DEF Next, allVars, InCreation, InListing, InFilter, InLookup, Ended

LEMMA ModesDisjoint ==
  /\ CreationModes \cap ListingModes = {} /\ CreationModes \cap FilterModes = {}
  /\ CreationModes \cap LookupModes = {} /\ ListingModes \cap FilterModes = {}
  /\ ListingModes \cap LookupModes = {} /\ FilterModes \cap LookupModes = {}
BY DEF CreationModes, ListingModes, FilterModes, LookupModes

---------------------------------------------------------------------------
(* backlog and create. *)

\* Every mode ends with one of the exit statuses.
LEMMA ExitStatus ==
  ASSUME [Next]_allVars, exit \in {Running, Success, Failure, Terminated}
  PROVE  exit' \in {Running, Success, Failure, Terminated}
<1>1. ASSUME CreationNext PROVE exit' \in {exit, Running, Success, Failure, Terminated}
  BY <1>1 DEF CreationNext, CreationStep, ReadBacklog, CurrentUser, NextEntry,
         Throw, ParentFromCache, AskForParent, ParentReply, Responsible, EndEntry, CardCreated,
         CardNotCreated, Creating, LinkToParent, AddTag, UpdateTitle, TaskDone, ChangeChild,
         KeepTitle, Summary, EditParent, TimePasses
<1>2. ASSUME ListingNext PROVE exit' \in {exit, Running, Success, Failure, Terminated}
  BY <1>2 DEF ListingNext, ListingStep, ReadPage, ReadNothing, EndListing, CardUpdated,
         CardAppears, CardVanishes
<1>3. ASSUME FilterStep PROVE exit' \in {exit, Running, Success, Failure, Terminated}
  BY <1>3 DEF FilterStep, FilterFetch, EndFilter
<1>4. ASSUME LookupStep PROVE exit' \in {exit, Running, Success, Failure, Terminated}
  BY <1>4 DEF LookupStep, NotANumber, NotFound, CardFound, UserFound
<1> QED BY <1>1, <1>2, <1>3, <1>4, ModeOfStep

LEMMA CreationInvariant == Spec => []CreationInv
<1>1. Init => CreationInv
  BY CreationInvInit DEF Init
<1>2. CreationInv /\ [Next]_allVars => CreationInv'
  <2> SUFFICES ASSUME CreationInv, [Next]_allVars
               PROVE  CreationInv'
    OBVIOUS
  <2>1. exit \in {Running, Success, Failure, Terminated}
    BY DEF CreationInv, ExitInv
  <2>2. CASE mode \in CreationModes /\ exit = Running /\ CreationNext
    BY <2>2, ModeOfStep, CreationInvNext
  <2>3. CASE UNCHANGED creationVars /\ (mode \in CreationModes => exit' = exit)
    BY <2>1, <2>3, ModeOfStep, ExitStatus, CreationInvStays
  <2> QED BY <2>2, <2>3, ModeOfStep, ModesDisjoint
<1> QED BY <1>1, <1>2, PTL DEF Spec

\* The types, and the position in the backlog, which never runs past the entry,
\* the task or the tag.
THEOREM CreationTypes == Spec => []CreationTypeOK
<1>1. CreationInv => CreationTypeOK
  BY CreationInvType
<1> QED BY <1>1, CreationInvariant, PTL

\* handle_backlog and handle_create_card: after exit status 0 every task of the
\* backlog is exactly one card, whatever answers were lost or did not parse.
THEOREM ExitZeroIsAllCreated == Spec => []ExitZeroMeansAllCreated
<1>1. CreationInv => ExitZeroMeansAllCreated
  BY CreationInvExitZero
<1> QED BY <1>1, CreationInvariant, PTL

\* handle_backlog: the summary counts every task and every entry without tasks once,
\* and a card it does not count hides behind one of its errors.
THEOREM TheSummaryAddsUp == Spec => []SummaryAddsUp
<1>1. CreationInv => SummaryAddsUp
  BY CreationInvSummary
<1> QED BY <1>1, CreationInvariant, PTL

\* process_backlog_entry and create_single_task: no card carries anything of another
\* entry or task, for any backlog and whatever is edited and fails meanwhile.
THEOREM CardsCarryTheirOwnData == Spec => []OwnData
<1>1. CreationInv => OwnData
  BY DEF CreationInv
<1> QED BY <1>1, CreationInvariant, PTL

\* A step that changes what these modes own is one of theirs.
LEMMA CreationChange ==
  ASSUME [Next]_allVars
  PROVE  CreationNext \/ UNCHANGED creationVars
BY ModeOfStep

\* create_single_task: once its task is over a card is never changed again.
THEOREM SettledCardsStay == Spec => SettledStays
<1>1. CreationInv /\ [Next]_allVars =>
        [\A c \in DOMAIN cards :
            cards'[c] # cards[c] => c = Len(cards) /\ cards[c].entry = i /\ cards[c].task = j]_creationVars
  BY CreationChange, SettledCards
<1> QED BY <1>1, CreationInvariant, PTL DEF Spec, SettledStays

\* fetch_parent_card_info: what an entry of a backlog is based on was replaced no
\* longer ago than the answer it came with took, and the time-to-live when it comes
\* from the cache.
THEOREM ParentsAreFresh == Spec => ParentNotStale
<1>1. CreationInv /\ [Next]_allVars =>
        [(pc = "parent" \/ pc = "reply") /\ pc' = "responsible" /\ read' # None =>
            \/ read' = parents[entry.parent]
            \/ \E r \in replaced : /\ r.parent = entry.parent
                                   /\ r.card = read'
                                   /\ clock - r.at <= MaxAge(entry.parent)]_creationVars
  BY CreationChange, ParentRead
<1> QED BY <1>1, CreationInvariant, PTL DEF Spec, ParentNotStale

---------------------------------------------------------------------------
(* cards-filter. *)

LEMMA FetchStep ==
  ASSUME [Next]_allVars
  PROVE  Fetch!Next \/ UNCHANGED fetchVars
BY ModeOfStep DEF FilterStep, FilterFetch, EndFilter, filterVars

LEMMA FetchInvariant == Spec => []FetchInv
<1>1. Init => FetchInv
  BY FetchInvInit DEF Init, FilterInit
<1>2. FetchInv /\ [Next]_allVars => FetchInv'
  BY FetchStep, FetchInvNext
<1> QED BY <1>1, <1>2, PTL DEF Spec

\* The types of the fetch.
THEOREM FetchTypes == Spec => []FetchTypeOK
<1>1. FetchInv => FetchTypeOK
  BY FetchInvType
<1> QED BY <1>1, FetchInvariant, PTL

\* get_all_cards_batched: when no request fails and the filters exclude nothing,
\* every card of the server is returned, however the tasks interleave and
\* wherever the list ends within a batch.
THEOREM FetchGetsAll == Spec => []FetchComplete
<1>1. FetchInv => FetchComplete
  BY FetchInvComplete
<1> QED BY <1>1, FetchInvariant, PTL

\* get_all_cards_batched: no request begins further behind the end of the list
\* than one batch and a page.
THEOREM FetchWastesLittle == Spec => []FetchBoundedWaste
<1>1. FetchInv => FetchBoundedWaste
  BY FetchInvWaste
<1> QED BY <1>1, FetchInvariant, PTL

\* handle_cards_filter: a result that fits into one page is what the filters of a
\* well-formed argument ask for, in the server's order, for any list, any cards and
\* any filters; the last of the filters with the same key counts.
THEOREM SmallResultsAreAsTyped == Spec => []SmallResultIsWhatWasTyped
<1>1. Init => SmallInv
  BY SmallInvInit DEF Init
<1>2. FetchInv /\ SmallInv /\ [Next]_allVars => SmallInv'
  <2> SUFFICES ASSUME FetchInv, SmallInv, [Next]_allVars
               PROVE  SmallInv'
    OBVIOUS
  <2>1. filters' = filters
    BY ModeOfStep DEF FilterStep, FilterFetch, EndFilter, filterVars
  <2> QED BY <2>1, FetchStep, SmallInvNext
<1>3. FetchInv /\ SmallInv => SmallResultIsWhatWasTyped
  BY SmallInvResult
<1> QED BY <1>1, <1>2, <1>3, FetchInvariant, PTL DEF Spec

\* get_all_cards_batched implements PagedRead: its cards are those of the server
\* from the first on, in order, without gap or duplicate, until a task has thrown.
THEOREM FetchReadsInOrder == Spec => FetchInOrder
<1>1. Init => Fetch!Abstract!Init
  BY FetchInitRefines DEF Init, FilterInit
<1>2. FetchInv /\ FetchInv' /\ [Next]_allVars
        => [Fetch!Abstract!Next]_(Fetch!Abstract!vars)
  BY FetchStep, FetchStepRefines
<1> QED BY <1>1, <1>2, FetchInvariant, PTL
        DEF Spec, FetchInOrder, Fetch!InOrder, Fetch!Abstract!Spec

\* The exit status of cards-filter is that of the last request.
FilterExit == mode = "cards-filter" /\ exit = Success => last_status = 200

LEMMA FilterExitInvariant == Spec => []FilterExit
<1>1. Init => FilterExit
  BY DEF Init, CreationInit, FilterExit, Running, Success
<1>2. FilterExit /\ [Next]_allVars => FilterExit'
  <2> SUFFICES ASSUME FilterExit, [Next]_allVars, mode = "cards-filter", exit' = Success
               PROVE  last_status' = 200
    BY ModeOfStep DEF FilterExit
  <2>1. mode \in FilterModes
    BY DEF FilterModes
  <2>2. CASE exit = Running /\ FilterStep
    <3>1. CASE FilterFetch
      BY <2>2, <3>1 DEF FilterFetch, Running, Success
    <3>2. CASE EndFilter
      BY <3>2 DEF EndFilter, filterVars, fetchVars, Success, Failure
    <3> QED BY <2>2, <3>1, <3>2 DEF FilterStep
  <2>3. CASE UNCHANGED <<exit, filterVars>>
    BY <2>3 DEF FilterExit, filterVars, fetchVars
  <2> QED BY <2>1, <2>2, <2>3, ModeOfStep, ModesDisjoint
<1> QED BY <1>1, <1>2, PTL DEF Spec

\* handle_cards_filter: exit status 0 stands for the beginning of the list, without
\* a hole, whatever tasks threw.
THEOREM ExitZeroIsNoHole == Spec => []ExitZeroMeansNoHole
<1>1. FetchInv /\ FilterExit => ExitZeroMeansNoHole
  <2> SUFFICES ASSUME FetchInv, FilterExit, mode = "cards-filter", exit = Success,
                      Range(fetch_list) \subseteq matching
               PROVE  all_cards = SubSeq(fetch_list, 1, Len(all_cards))
    BY DEF ExitZeroMeansNoHole
  <2>1. Unfiltered /\ last_status = 200
    BY DEF FilterExit, Unfiltered, Fetch!Unfiltered, Fetch!Range, Range
  <2> QED BY <2>1, FetchInvBeginning
<1> QED BY <1>1, FetchInvariant, FilterExitInvariant, PTL

---------------------------------------------------------------------------
(* get-card and get-user. *)

\* A field is read in one way.
LEMMA OneReader ==
  ASSUME NEW f, NEW kind
  PROVE  /\ f \in NumberFields => ReadField(f, kind) = ReadNumber(kind)
         /\ f \in FlagFields => ReadField(f, kind) = ReadFlag(kind)
         /\ f \in TextFields => ReadField(f, kind) = ReadText(kind)
         /\ f \in DateFields => ReadField(f, kind) = ReadDate(kind)
         /\ f \in PlaceFields => ReadField(f, kind) = ReadPlace(kind)
         /\ f \in ObjectFields => ReadField(f, kind) = ReadObject(kind)
         /\ f \in ListFields => ReadField(f, kind) = ReadList(kind)
         /\ f \in StrictListFields => ReadField(f, kind) = ReadStrictList(kind)
         /\ f \in JsonFields => ReadField(f, kind) = ReadJson(kind)
BY DEF ReadField, NumberFields, FlagFields, TextFields, DateFields, PlaceFields,
       ObjectFields, ListFields, StrictListFields, JsonFields

\* What a field is in its proper form.
LEMMA OneForm ==
  ASSUME NEW f
  PROVE  /\ f \in NumberFields => Proper(f) = {"number"}
         /\ f \in FlagFields => Proper(f) = {"bool"}
         /\ f \in TextFields => Proper(f) = Strings
         /\ f \in DateFields => Proper(f) = {"stamp"}
         /\ f \in PlaceFields \cup ObjectFields => Proper(f) = {"object"}
         /\ f \in ListFields \cup StrictListFields => Proper(f) = {"array"}
         /\ f \in JsonFields => Proper(f) = Kinds \ {"absent", "null"}
BY DEF Proper, NumberFields, FlagFields, TextFields, DateFields, PlaceFields,
       ObjectFields, ListFields, StrictListFields, JsonFields

\* What a proper field of a card becomes, and which fields may throw.
LEMMA FieldsOfCards ==
  ASSUME NEW f \in CardFields, NEW kind
  PROVE  /\ kind \in Proper(f) => ReadField(f, kind) = "value"
         /\ ReadField(f, kind) = "throws" => f \in Fragile /\ kind \notin Proper(f)
<1>1. CASE f \in NumberFields
  BY <1>1, OneReader, OneForm DEF ReadNumber, ValueIf
<1>2. CASE f \in FlagFields
  BY <1>2, OneReader, OneForm DEF ReadFlag, ValueIf
<1>3. CASE f \in TextFields
  BY <1>3, OneReader, OneForm DEF ReadText, ValueIf, Strings
<1>4. CASE f \in DateFields
  BY <1>4, OneReader, OneForm DEF ReadDate, Fragile
<1>5. CASE f \in PlaceFields
  BY ZenonT(60), <1>5, OneReader, OneForm DEF ReadPlace, ValueIf, Fragile
<1>6. CASE f \in ObjectFields
  BY <1>6, OneReader, OneForm DEF ReadObject, ValueIf
<1>7. CASE f \in ListFields
  BY ZenonT(60), <1>7, OneReader, OneForm DEF ReadList, ValueIf
<1>8. CASE f \in StrictListFields
  BY ZenonT(60), <1>8, OneReader, OneForm DEF ReadStrictList, ValueIf, Fragile
<1>9. CASE f \in JsonFields
  BY <1>9, OneReader, OneForm DEF ReadJson, ValueIf
<1> QED BY <1>1, <1>2, <1>3, <1>4, <1>5, <1>6, <1>7, <1>8, <1>9 DEF CardFields

LEMMA FieldsOfUsers ==
  ASSUME NEW f \in UserFields, NEW user
  PROVE  /\ f \notin UserDates /\ user[f] \in ProperForUser(f) => UserFromJson(user)[f] = "value"
         /\ f \in UserDates => UserFromJson(user)[f] = "default"
BY DEF UserFields, UserFromJson, ProperForUser, UserNumbers, UserFlags, UserTexts, UserDates,
       ReadNumber, ReadFlag, ReadText, ValueIf, Strings

\* handle_get_card and handle_get_user: with exit status 0 every field that came in
\* its proper form is shown, unless one of the few fields that can throw has
\* hidden the whole card; but the dates of a user are never those of the answer.
THEOREM ShowsWhatWasSent == Spec => []ShownAsSent
<1>1. Init => ShownAsSent
  BY DEF Init, CreationInit, ShownAsSent, Running, Success
<1>2. ShownAsSent /\ [Next]_allVars => ShownAsSent'
  <2> SUFFICES ASSUME ShownAsSent, [Next]_allVars, exit' = Success, answer' # Garbled,
                      mode \in LookupModes
               PROVE  ShownAsSent'
    BY ModeOfStep DEF ShownAsSent, LookupModes
  <2>1. CASE exit = Running /\ LookupStep
    <3>1. CASE CardFound
      <4>1. answer' = answer /\ mode' = mode /\ mode = "get-card"
        BY <3>1, ModeOfStep DEF CardFound
      <4>2. CASE Throws(answer.fields)
        <5>1. shown' = EmptyCard
          BY <3>1, <4>2 DEF CardFound
        <5>2. \E f \in Fragile : answer.fields[f] \notin Proper(f)
          BY <4>2, FieldsOfCards DEF Throws
        <5> QED BY <4>1, <5>1, <5>2 DEF ShownAsSent
      <4>3. CASE ~Throws(answer.fields)
        <5>1. shown' = FromJson(answer.fields)
          BY <3>1, <4>1, <4>3 DEF CardFound
        <5>2. \A f \in CardFields : shown'[f] = ReadField(f, answer.fields[f])
          BY <5>1 DEF FromJson
        <5>3. \A f \in CardFields : answer.fields[f] \in Proper(f) => shown'[f] = "value"
          BY <5>2, FieldsOfCards
        <5> QED BY <4>1, <5>3 DEF ShownAsSent
      <4> QED BY <4>2, <4>3
    <3>2. CASE UserFound
      <4>1. answer' = answer /\ mode' = mode /\ mode = "get-user"
            /\ shown' = UserFromJson(answer.fields)
        BY <3>2, ModeOfStep DEF UserFound
      <4>2. UserDates \subseteq UserFields
        BY DEF UserFields
      <4> QED BY <4>1, <4>2, FieldsOfUsers DEF ShownAsSent
    <3>3. exit' = Failure \/ CardFound \/ UserFound
      BY <2>1 DEF LookupStep, NotANumber, NotFound
    <3> QED BY <3>1, <3>2, <3>3 DEF Failure, Success
  <2>2. CASE UNCHANGED <<exit, lookupVars>>
    BY <2>2, ModeOfStep DEF ShownAsSent, lookupVars
  <2> QED BY <2>1, <2>2, ModeOfStep, ModesDisjoint
<1> QED BY <1>1, <1>2, PTL DEF Spec

---------------------------------------------------------------------------
(* The calendar. *)

LEMMA Months ==
  /\ DaysBefore[1] = 0 /\ DaysBefore[2] = 31 /\ DaysBefore[3] = 59
  /\ DaysBefore[4] = 90 /\ DaysBefore[5] = 120 /\ DaysBefore[6] = 151
  /\ DaysBefore[7] = 181 /\ DaysBefore[8] = 212 /\ DaysBefore[9] = 243
  /\ DaysBefore[10] = 273 /\ DaysBefore[11] = 304 /\ DaysBefore[12] = 334
BY DEF DaysBefore

LEMMA MonthsAre ==
  \A m \in 1..12 : m \in {1, 2, 3, 4, 5, 6, 7, 8, 9, 10, 11, 12}
OBVIOUS

LEMMA Leaps ==
  \A y \in Int : LeapsBefore(y) \in Int
BY DEF LeapsBefore

LEMMA DaysBeforeType ==
  \A m \in 1..12 : DaysBefore[m] \in Int /\ DaysBefore[m] >= 0
BY Months, MonthsAre

LEMMA DayNumberType ==
  ASSUME NEW y \in Int, NEW m \in 1..12, NEW d \in Int
  PROVE  DayNumber(y, m, d) \in Int
BY Leaps, DaysBeforeType, 1970 \in Int DEF DayNumber

\* The first day of a month.
LEMMA FirstDay ==
  ASSUME NEW y \in Int, NEW m \in 1..12
  PROVE  /\ DayNumber(y, 1, 1) \in Int /\ DayNumber(y, m, 1) \in Int
         /\ DaysBefore[m] \in Int
         /\ DayNumber(y, m, 1) = DayNumber(y, 1, 1) + DaysBefore[m]
                                    + (IF m > 2 /\ IsLeap(y) THEN 1 ELSE 0)
<1>1. DayNumber(y, 1, 1) \in Int /\ DayNumber(y, m, 1) \in Int
  BY DayNumberType, 1 \in 1..12, 1 \in Int
<1>2. LeapsBefore(y) \in Int /\ LeapsBefore(1970) \in Int
  BY Leaps, 1970 \in Int
<1>3. DaysBefore[m] \in Int /\ DaysBefore[1] = 0
  BY DaysBeforeType, Months
<1> QED BY <1>1, <1>2, <1>3 DEF DayNumber

LEMMA LaterDay ==
  ASSUME NEW y \in Int, NEW m \in 1..12, NEW d \in Int
  PROVE  DayNumber(y, m, d) = DayNumber(y, m, 1) + d - 1
<1>1. LeapsBefore(y) \in Int /\ LeapsBefore(1970) \in Int /\ DaysBefore[m] \in Int
  BY Leaps, DaysBeforeType, 1970 \in Int
<1> QED BY <1>1 DEF DayNumber

\* A year has 365 days, or 366.
LEMMA YearLength ==
  ASSUME NEW y \in Int
  PROVE  DayNumber(y + 1, 1, 1) = DayNumber(y, 1, 1) + 365 + (IF IsLeap(y) THEN 1 ELSE 0)
<1>1. LeapsBefore(y + 1) = LeapsBefore(y) + (IF IsLeap(y) THEN 1 ELSE 0)
  <2>1. /\ y \div 4 = ((y - 1) \div 4) + (IF y % 4 = 0 THEN 1 ELSE 0)
        /\ y \div 100 = ((y - 1) \div 100) + (IF y % 100 = 0 THEN 1 ELSE 0)
        /\ y \div 400 = ((y - 1) \div 400) + (IF y % 400 = 0 THEN 1 ELSE 0)
    OBVIOUS
  <2>2. (y + 1) - 1 = y
    OBVIOUS
  <2>3. (y % 100 = 0 => y % 4 = 0) /\ (y % 400 = 0 => y % 100 = 0)
    OBVIOUS
  <2>4. /\ (y - 1) \div 4 \in Int /\ (y - 1) \div 100 \in Int /\ (y - 1) \div 400 \in Int
    OBVIOUS
  <2> QED BY <2>1, <2>2, <2>3, <2>4 DEF LeapsBefore, IsLeap
<1>2. LeapsBefore(y) \in Int /\ LeapsBefore(1970) \in Int /\ DaysBefore[1] = 0
  BY Leaps, Months, 1970 \in Int
<1> QED BY <1>1, <1>2 DEF DayNumber

LEMMA DaysInType ==
  \A y, m : DaysIn(y, m) \in Int /\ DaysIn(y, m) >= 28
BY DEF DaysIn

\* A later year begins when an earlier one is over.
LEMMA YearsGrow ==
  ASSUME NEW y \in Int, NEW z \in Int, y < z
  PROVE  DayNumber(y + 1, 1, 1) <= DayNumber(z, 1, 1)
<1>1. LeapsBefore(y + 1) - LeapsBefore(z) <= 365 * (z - (y + 1))
  BY DEF LeapsBefore
<1>2. /\ LeapsBefore(y + 1) \in Int /\ LeapsBefore(z) \in Int /\ LeapsBefore(1970) \in Int
      /\ DaysBefore[1] = 0
  BY Leaps, Months, 1970 \in Int
<1> QED BY <1>1, <1>2 DEF DayNumber

\* A month has the days that the calendar says.
LEMMA MonthLength ==
  ASSUME NEW y \in Int, NEW m \in 1..12
  PROVE  DayNumber(y, m, 1) + DaysIn(y, m)
            = IF m < 12 THEN DayNumber(y, m + 1, 1) ELSE DayNumber(y + 1, 1, 1)
<1>1. /\ DayNumber(y, 1, 1) \in Int
      /\ DayNumber(y, m, 1) = DayNumber(y, 1, 1) + DaysBefore[m]
                                 + (IF m > 2 /\ IsLeap(y) THEN 1 ELSE 0)
  BY FirstDay
<1>2. CASE m = 12
  BY <1>1, <1>2, YearLength, Months DEF DaysIn
<1>3. CASE m # 12
  <2>1. m + 1 \in 1..12 /\ m \in {1, 2, 3, 4, 5, 6, 7, 8, 9, 10, 11}
    BY <1>3
  <2>2. DayNumber(y, m + 1, 1) = DayNumber(y, 1, 1) + DaysBefore[m + 1]
                                   + (IF m + 1 > 2 /\ IsLeap(y) THEN 1 ELSE 0)
    BY <2>1, FirstDay
  <2>3. DaysBefore[m] + DaysIn(y, m) + (IF m > 2 /\ IsLeap(y) THEN 1 ELSE 0)
           = DaysBefore[m + 1] + (IF m + 1 > 2 /\ IsLeap(y) THEN 1 ELSE 0)
    <3>1. CASE m \in {1, 2, 3}
      BY <3>1, Months DEF DaysIn
    <3>2. CASE m \in {4, 5, 6, 7, 8, 9, 10, 11}
      <4>1. DaysBefore[m] + DaysIn(y, m) = DaysBefore[m + 1] /\ m > 2 /\ m + 1 > 2
        BY <3>2, Months DEF DaysIn
      <4>2. DaysBefore[m] \in Int /\ DaysBefore[m + 1] \in Int /\ DaysIn(y, m) \in Int
        BY <2>1, DaysBeforeType DEF DaysIn
      <4> QED BY <4>1, <4>2
    <3> QED BY <2>1, <3>1, <3>2
  <2>4. DaysBefore[m] \in Int /\ DaysBefore[m + 1] \in Int /\ DaysIn(y, m) \in Int
    BY <2>1, DaysBeforeType DEF DaysIn
  <2> QED BY <1>1, <1>3, <2>1, <2>2, <2>3, <2>4
<1> QED BY <1>2, <1>3

\* A later month of the year begins when an earlier one is over.
LEMMA MonthsGrow ==
  ASSUME NEW y \in Int, NEW m \in 1..12, NEW q \in 1..12, m < q
  PROVE  DayNumber(y, m + 1, 1) <= DayNumber(y, q, 1)
<1>1. m + 1 \in 1..12
  OBVIOUS
<1>2. /\ DayNumber(y, 1, 1) \in Int /\ DaysBefore[q] \in Int
      /\ DayNumber(y, q, 1) = DayNumber(y, 1, 1) + DaysBefore[q]
                                 + (IF q > 2 /\ IsLeap(y) THEN 1 ELSE 0)
  BY FirstDay
<1>3. /\ DaysBefore[m + 1] \in Int
      /\ DayNumber(y, m + 1, 1) = DayNumber(y, 1, 1) + DaysBefore[m + 1]
                                     + (IF m + 1 > 2 /\ IsLeap(y) THEN 1 ELSE 0)
  BY <1>1, FirstDay
<1>4. DaysBefore[m + 1] <= DaysBefore[q]
  BY <1>1, Months, MonthsAre
<1> QED BY <1>2, <1>3, <1>4

\* The days of a month are those from its first to the next month's.
LEMMA DayInMonth ==
  ASSUME NEW y \in Int, NEW m \in 1..12, NEW d \in Int, 1 <= d, d <= DaysIn(y, m)
  PROVE  /\ DayNumber(y, m, 1) <= DayNumber(y, m, d)
         /\ DayNumber(y, m, d) < DayNumber(y, m, 1) + DaysIn(y, m)
         /\ DayNumber(y, m, d) \in Int /\ DayNumber(y, m, 1) \in Int
         /\ DaysIn(y, m) \in Int
<1>1. DaysIn(y, m) \in Int
  BY DEF DaysIn
<1>2. DayNumber(y, m, d) = DayNumber(y, m, 1) + d - 1
  BY LaterDay
<1>3. DayNumber(y, m, 1) \in Int /\ DayNumber(y, m, d) \in Int
  BY DayNumberType, 1 \in Int
<1> QED BY <1>1, <1>2, <1>3

\* A day lies within its year.
LEMMA DayInYear ==
  ASSUME NEW y \in Int, NEW m \in 1..12, NEW d \in Int, 1 <= d, d <= DaysIn(y, m)
  PROVE  DayNumber(y, 1, 1) <= DayNumber(y, m, d) /\ DayNumber(y, m, d) < DayNumber(y + 1, 1, 1)
<1>1. /\ DayNumber(y, m, 1) <= DayNumber(y, m, d)
      /\ DayNumber(y, m, d) < DayNumber(y, m, 1) + DaysIn(y, m)
      /\ DayNumber(y, m, d) \in Int /\ DayNumber(y, m, 1) \in Int /\ DaysIn(y, m) \in Int
  BY DayInMonth
<1>2. DayNumber(y, 1, 1) <= DayNumber(y, m, 1)
  <2>1. DayNumber(y, m, 1) = DayNumber(y, 1, 1) + DaysBefore[m]
                                + (IF m > 2 /\ IsLeap(y) THEN 1 ELSE 0)
    BY FirstDay
  <2>2. DaysBefore[m] \in Int /\ DaysBefore[m] >= 0
    BY DaysBeforeType
  <2>3. DayNumber(y, 1, 1) \in Int
    BY DayNumberType, 1 \in 1..12, 1 \in Int
  <2> QED BY <2>1, <2>2, <2>3
<1>3. DayNumber(y, 1, 1) \in Int /\ DayNumber(y + 1, 1, 1) \in Int
  BY FirstDay, y + 1 \in Int
<1>4. DayNumber(y, m, 1) + DaysIn(y, m) <= DayNumber(y + 1, 1, 1)
  <2>1. CASE m = 12
    BY <1>1, <1>3, <2>1, MonthLength
  <2>2. CASE m # 12
    <3>1. DayNumber(y, m + 1, 1) <= DayNumber(y, 12, 1)
      BY <2>2, MonthsGrow
    <3>2. DayNumber(y, m, 1) + DaysIn(y, m) = DayNumber(y, m + 1, 1)
      BY <2>2, MonthLength
    <3>3. DayNumber(y, 12, 1) + DaysIn(y, 12) = DayNumber(y + 1, 1, 1)
      BY MonthLength
    <3>4. DayNumber(y, 12, 1) \in Int /\ DaysIn(y, 12) = 31
      BY FirstDay DEF DaysIn
    <3> QED BY <1>1, <1>3, <3>1, <3>2, <3>3, <3>4
  <2> QED BY <2>1, <2>2
<1> QED BY <1>1, <1>2, <1>3, <1>4

\* In no other year,
LEMMA OneYear ==
  ASSUME NEW y \in Int, NEW z \in Int, NEW n \in Int,
         DayNumber(y, 1, 1) <= n, n < DayNumber(y + 1, 1, 1),
         DayNumber(z, 1, 1) <= n, n < DayNumber(z + 1, 1, 1)
  PROVE  z = y
<1>1. \A x \in Int : DayNumber(x, 1, 1) \in Int
  BY DayNumberType, 1 \in 1..12, 1 \in Int
<1>2. DayNumber(y + 1, 1, 1) \in Int /\ DayNumber(z + 1, 1, 1) \in Int
  BY <1>1
<1>3. z < y => DayNumber(z + 1, 1, 1) <= DayNumber(y, 1, 1)
  BY YearsGrow
<1>4. y < z => DayNumber(y + 1, 1, 1) <= DayNumber(z, 1, 1)
  BY YearsGrow
<1> QED BY <1>1, <1>2, <1>3, <1>4

\* and in no other month of the year.
LEMMA OneMonth ==
  ASSUME NEW y \in Int, NEW m \in 1..12, NEW q \in 1..12, NEW n \in Int,
         DayNumber(y, m, 1) <= n, m = 12 \/ n < DayNumber(y, m + 1, 1),
         DayNumber(y, q, 1) <= n, q = 12 \/ n < DayNumber(y, q + 1, 1)
  PROVE  q = m
<1>1. \A x \in 1..12 : DayNumber(y, x, 1) \in Int
  BY DayNumberType, 1 \in Int
<1>2. ~(q < m)
  <2>1. CASE q < m
    <3>1. DayNumber(y, q + 1, 1) <= DayNumber(y, m, 1) /\ q + 1 \in 1..12 /\ q # 12
      BY <2>1, MonthsGrow
    <3>2. DayNumber(y, q + 1, 1) \in Int
      BY <1>1, <3>1
    <3> QED BY <1>1, <3>1, <3>2
  <2> QED BY <2>1
<1>3. ~(m < q)
  <2>1. CASE m < q
    <3>1. DayNumber(y, m + 1, 1) <= DayNumber(y, q, 1) /\ m + 1 \in 1..12 /\ m # 12
      BY <2>1, MonthsGrow
    <3>2. DayNumber(y, m + 1, 1) \in Int
      BY <1>1, <3>1
    <3> QED BY <1>1, <3>1, <3>2
  <2> QED BY <2>1
<1> QED BY <1>2, <1>3

\* The years that gmtime looks through.
Years == (FirstYear - 1)..(LastYear + 1)
InRange(y) == y \in Years

\* Minute w of a day.
Time(y, m, d, w) ==
    [year |-> y, month |-> m, day |-> d, hour |-> w \div 60, minute |-> w % 60]

\* The instant is on day n at minute w.
IsAt(instant, n, w) ==
    /\ instant \in Int /\ w \in 0..1439
    /\ instant \div 1440 = n /\ instant % 1440 = w

\* gmtime finds the day.
LEMMA GmtimeOf ==
  ASSUME NEW y \in Int, InRange(y), NEW m \in 1..12,
         NEW d \in Int, 1 <= d, d <= DaysIn(y, m),
         NEW instant, NEW w, IsAt(instant, DayNumber(y, m, d), w)
  PROVE  Gmtime(instant) = Time(y, m, d, w)
<1> DEFINE number == instant \div 1440
           InYear(z) == DayNumber(z, 1, 1) <= number /\ number < DayNumber(z + 1, 1, 1)
           year == CHOOSE z \in (FirstYear - 1)..(LastYear + 1) : InYear(z)
           InMonth(q) == /\ DayNumber(year, q, 1) <= number
                         /\ q = 12 \/ number < DayNumber(year, q + 1, 1)
           month == CHOOSE q \in 1..12 : InMonth(q)
<1>1. number = DayNumber(y, m, d) /\ instant % 1440 = w /\ number \in Int
  <2>1. DayNumber(y, m, d) \in Int
    BY DayNumberType
  <2> QED BY <2>1 DEF IsAt
<1>2. Gmtime(instant)
         = [year |-> year, month |-> month, day |-> 1 + number - DayNumber(year, month, 1),
            hour |-> (instant % 1440) \div 60, minute |-> (instant % 1440) % 60]
  BY DEF Gmtime
<1> HIDE DEF number, year, month
<1>3. year = y
  <2>1. InYear(y)
    BY <1>1, DayInYear
  <2>2. \A z \in Years : z \in Int
    BY CardDateAssumption DEF Years
  <2>3. \A z \in Years : InYear(z) => z = y
    BY <1>1, <2>1, <2>2, OneYear
  <2> HIDE DEF InYear
  <2> QED BY <2>1, <2>3 DEF year, Years, InRange
<1>4. month = m
  <2>1. InMonth(m)
    <3>1. /\ DayNumber(y, m, 1) <= number
          /\ number < DayNumber(y, m, 1) + DaysIn(y, m)
      BY <1>1, DayInMonth
    <3> QED BY <1>3, <3>1, MonthLength
  <2>2. ASSUME NEW q \in 1..12, InMonth(q)
        PROVE  q = m
    <3>1. /\ DayNumber(y, q, 1) <= number
          /\ q = 12 \/ number < DayNumber(y, q + 1, 1)
      BY <1>3, <2>2
    <3>2. /\ DayNumber(y, m, 1) <= number
          /\ m = 12 \/ number < DayNumber(y, m + 1, 1)
      BY <1>3, <2>1
    <3>3. number \in Int
      BY <1>1
    <3> HIDE DEF InMonth
    <3> QED BY <3>1, <3>2, <3>3, OneMonth
  <2> HIDE DEF InMonth
  <2> QED BY <2>1, <2>2 DEF month
<1>5. 1 + number - DayNumber(y, m, 1) = d
  <2>1. number = DayNumber(y, m, 1) + d - 1
    BY <1>1, LaterDay
  <2>2. DayNumber(y, m, 1) \in Int
    BY DayInMonth
  <2> QED BY <1>1, <2>1, <2>2
<1> QED BY <1>1, <1>2, <1>3, <1>4, <1>5 DEF Time

\* A day of the calendar, and its number.
IsDate(t) ==
    /\ t = [year |-> t.year, month |-> t.month, day |-> t.day]
    /\ t.year \in Int /\ t.month \in 1..12
    /\ t.day \in Int /\ 1 <= t.day /\ t.day <= DaysIn(t.year, t.month)

NumberOf(t) == DayNumber(t.year, t.month, t.day)

\* A day on the wall is a day of the count.
LEMMA NextDayIs ==
  ASSUME NEW t, IsDate(t)
  PROVE  /\ IsDate(NextDay(t)) /\ NumberOf(NextDay(t)) = NumberOf(t) + 1
         /\ t.year <= NextDay(t).year /\ NextDay(t).year <= t.year + 1
<1> DEFINE y == t.year
           m == t.month
           d == t.day
           n == NextDay(t)
<1>1. /\ y \in Int /\ m \in 1..12 /\ d \in Int /\ 1 <= d /\ d <= DaysIn(y, m)
      /\ t = [year |-> y, month |-> m, day |-> d]
  BY DEF IsDate
<1>2. DayNumber(y, m, 1) \in Int /\ DayNumber(y, m, d) = DayNumber(y, m, 1) + d - 1
  <2>1. DayNumber(y, m, 1) \in Int
    BY <1>1, DayNumberType, 1 \in Int
  <2>2. DayNumber(y, m, d) = DayNumber(y, m, 1) + d - 1
    BY <1>1, LaterDay
  <2> QED BY <2>1, <2>2
<1>3. DaysIn(y, m) \in Int
  BY DaysInType
<1>4. CASE d < DaysIn(y, m)
  <2>1. n = [year |-> y, month |-> m, day |-> d + 1]
    BY <1>1, <1>4 DEF NextDay
  <2>2. DayNumber(y, m, d + 1) = DayNumber(y, m, 1) + (d + 1) - 1
    BY <1>1, LaterDay, d + 1 \in Int
  <2> QED BY <1>1, <1>2, <1>3, <1>4, <2>1, <2>2 DEF IsDate, NumberOf
<1>5. CASE d = DaysIn(y, m) /\ m < 12
  <2>1. n = [year |-> y, month |-> m + 1, day |-> 1]
    BY <1>1, <1>3, <1>5 DEF NextDay
  <2>2. m + 1 \in 1..12 /\ DaysIn(y, m + 1) \in Int /\ 1 <= DaysIn(y, m + 1)
    BY <1>1, <1>5, DaysInType
  <2>3. DayNumber(y, m, 1) + DaysIn(y, m) = DayNumber(y, m + 1, 1)
    BY <1>1, <1>5, MonthLength
  <2>4. NumberOf(n) = NumberOf(t) + 1
    BY <1>1, <1>2, <1>3, <1>5, <2>1, <2>3 DEF NumberOf
  <2>5. IsDate(n)
    BY <1>1, <2>1, <2>2 DEF IsDate
  <2> QED BY <1>1, <2>1, <2>4, <2>5
<1>6. CASE d = DaysIn(y, m) /\ m = 12
  <2>1. n = [year |-> y + 1, month |-> 1, day |-> 1]
    BY <1>1, <1>3, <1>6 DEF NextDay
  <2>2. DaysIn(y + 1, 1) \in Int /\ 1 <= DaysIn(y + 1, 1)
    BY DaysInType
  <2>3. DayNumber(y, m, 1) + DaysIn(y, m) = DayNumber(y + 1, 1, 1)
    BY <1>1, <1>6, MonthLength
  <2>4. NumberOf(n) = NumberOf(t) + 1
    BY <1>1, <1>2, <1>3, <1>6, <2>1, <2>3 DEF NumberOf
  <2>5. IsDate(n)
    BY <1>1, <2>1, <2>2 DEF IsDate
  <2> QED BY <1>1, <2>1, <2>4, <2>5
<1> QED BY <1>1, <1>3, <1>4, <1>5, <1>6

LEMMA DayBeforeIs ==
  ASSUME NEW t, IsDate(t)
  PROVE  /\ IsDate(DayBefore(t)) /\ NumberOf(DayBefore(t)) = NumberOf(t) - 1
         /\ t.year - 1 <= DayBefore(t).year /\ DayBefore(t).year <= t.year
<1> DEFINE y == t.year
           m == t.month
           d == t.day
           b == DayBefore(t)
<1>1. /\ y \in Int /\ m \in 1..12 /\ d \in Int /\ 1 <= d /\ d <= DaysIn(y, m)
      /\ t = [year |-> y, month |-> m, day |-> d]
  BY DEF IsDate
<1>2. DayNumber(y, m, 1) \in Int /\ DayNumber(y, m, d) = DayNumber(y, m, 1) + d - 1
  <2>1. DayNumber(y, m, 1) \in Int
    BY <1>1, DayNumberType, 1 \in Int
  <2>2. DayNumber(y, m, d) = DayNumber(y, m, 1) + d - 1
    BY <1>1, LaterDay
  <2> QED BY <2>1, <2>2
<1>3. DaysIn(y, m) \in Int
  BY DaysInType
<1>4. CASE d > 1
  <2>1. b = [year |-> y, month |-> m, day |-> d - 1]
    BY <1>1, <1>4 DEF DayBefore
  <2>2. DayNumber(y, m, d - 1) = DayNumber(y, m, 1) + (d - 1) - 1
    BY <1>1, LaterDay, d - 1 \in Int
  <2> QED BY <1>1, <1>2, <1>3, <1>4, <2>1, <2>2 DEF IsDate, NumberOf
<1>5. CASE d = 1 /\ m > 1
  <2> DEFINE q == m - 1
             e == DaysIn(y, q)
  <2>1. q \in 1..12 /\ q < 12 /\ q + 1 = m /\ e \in Int /\ 1 <= e
    BY <1>1, <1>5, DaysInType
  <2>2. b = [year |-> y, month |-> q, day |-> e]
    BY <1>1, <1>5 DEF DayBefore
  <2> HIDE DEF q, e
  <2>3. DayNumber(y, q, e) = DayNumber(y, q, 1) + e - 1 /\ DayNumber(y, q, 1) \in Int
    <3>1. DayNumber(y, q, e) = DayNumber(y, q, 1) + e - 1
      BY <1>1, <2>1, LaterDay
    <3>2. DayNumber(y, q, 1) \in Int
      BY <1>1, <2>1, DayNumberType, 1 \in Int
    <3> QED BY <3>1, <3>2
  <2>4. DayNumber(y, q, 1) + e = DayNumber(y, m, 1)
    <3>1. DayNumber(y, q, 1) + DaysIn(y, q) = DayNumber(y, q + 1, 1)
      BY <1>1, <2>1, MonthLength
    <3> QED BY <2>1, <3>1 DEF e
  <2>5. NumberOf(b) = NumberOf(t) - 1
    BY <1>1, <1>2, <1>5, <2>1, <2>2, <2>3, <2>4 DEF NumberOf
  <2>6. IsDate(b)
    BY <1>1, <2>1, <2>2 DEF IsDate, e
  <2> QED BY <1>1, <2>2, <2>5, <2>6
<1>6. CASE d = 1 /\ m = 1
  <2>1. b = [year |-> y - 1, month |-> 12, day |-> 31]
    BY <1>1, <1>6 DEF DayBefore
  <2>2. DaysIn(y - 1, 12) = 31
    BY DEF DaysIn
  <2>3. DayNumber(y - 1, 12, 31) = DayNumber(y - 1, 12, 1) + 31 - 1
        /\ DayNumber(y - 1, 12, 1) \in Int
    <3>1. y - 1 \in Int /\ 12 \in 1..12
      BY <1>1
    <3>2. DayNumber(y - 1, 12, 31) = DayNumber(y - 1, 12, 1) + 31 - 1
      BY <3>1, LaterDay, 31 \in Int
    <3>3. DayNumber(y - 1, 12, 1) \in Int
      BY <3>1, DayNumberType, 1 \in Int
    <3> QED BY <3>2, <3>3
  <2>4. DayNumber(y - 1, 12, 1) + DaysIn(y - 1, 12) = DayNumber(y, 1, 1)
    <3>1. y - 1 \in Int /\ (y - 1) + 1 = y /\ 12 \in 1..12
      BY <1>1
    <3>2. DayNumber(y - 1, 12, 1) + DaysIn(y - 1, 12) = DayNumber((y - 1) + 1, 1, 1)
      BY <3>1, MonthLength
    <3> QED BY <3>1, <3>2
  <2>5. NumberOf(b) = NumberOf(t) - 1
    BY <1>1, <1>2, <1>6, <2>1, <2>2, <2>3, <2>4 DEF NumberOf
  <2>6. IsDate(b)
    BY <1>1, <2>1, <2>2 DEF IsDate
  <2> QED BY <1>1, <2>1, <2>5, <2>6
<1> QED BY <1>1, <1>4, <1>5, <1>6

\* parse and toIso8601 show the time in Greenwich.
LEMMA StampInGreenwich ==
  ASSUME NEW s, IsStamp(s)
  PROVE  ToIso8601(Parse(s)) = InGreenwich(s)
<1> DEFINE today == [year |-> s.year, month |-> s.month, day |-> s.day]
           h == s.hour
           mm == s.minute
           sign == s.zone.sign
           zh == s.zone.hours
           zm == s.zone.minutes
           o == zh * 60 + zm
           off == sign * o
           minutes == h * 60 + mm - off
           date == IF minutes < 0 THEN DayBefore(today)
                   ELSE IF minutes >= 1440 THEN NextDay(today) ELSE today
           w == minutes % 1440
<1>0. /\ s.year \in FirstYear..LastYear /\ s.month \in 1..12
      /\ s.day \in 1..DaysIn(s.year, s.month)
      /\ h \in 0..23 /\ mm \in 0..59 /\ sign \in -1..1
      /\ zh \in 0..23 /\ zm \in 0..59
  BY DEF IsStamp
<1>7. Timegm(s) = NumberOf(today) * 1440 + h * 60 + mm /\ OffsetMinutes(s.zone) = off
  BY DEF Timegm, OffsetMinutes, NumberOf
<1>10. InGreenwich(s)
         = Time(date.year, date.month, date.day, w)
  BY DEF InGreenwich, Time
<1>11. o \in 0..1439
  <2> HIDE DEF zh, zm
  <2> QED BY <1>0
<1>3. IsDate(today) /\ today.year = s.year
  <2>1. DaysIn(s.year, s.month) \in Int /\ s.year \in Int
    BY <1>0, DaysInType, CardDateAssumption
  <2> QED BY <1>0, <2>1 DEF IsDate
<1> HIDE DEF today, h, mm, sign, o
<1>1. off \in Int /\ off \in -1439..1439
  <2>1. CASE sign = 0
    BY <1>11, <2>1
  <2>2. CASE sign = 1
    BY <1>11, <2>2
  <2>3. CASE sign = -1
    BY <1>11, <2>3
  <2>4. sign = 0 \/ sign = 1 \/ sign = -1
    BY <1>0
  <2> QED BY <2>1, <2>2, <2>3, <2>4
<1> HIDE DEF off
<1>2. minutes \in Int /\ minutes \in -1439..2878
  <2>1. h \in Int /\ 0 <= h /\ h <= 23 /\ mm \in Int /\ 0 <= mm /\ mm <= 59
    BY <1>0
  <2>2. off \in Int /\ -1439 <= off /\ off <= 1439
    BY <1>1
  <2>3. minutes \in Int /\ -1439 <= minutes /\ minutes <= 2878
    BY ONLY <2>1, <2>2
  <2> HIDE DEF minutes
  <2> QED BY ONLY <2>3
<1>4. NumberOf(today) \in Int
  <2>1. today.year \in Int /\ today.month \in 1..12 /\ today.day \in Int
    BY <1>3 DEF IsDate
  <2> QED BY <2>1, DayNumberType DEF NumberOf
<1>5. Parse(s) = NumberOf(today) * 1440 + minutes /\ Parse(s) \in Int
  BY <1>0, <1>1, <1>4, <1>7 DEF Parse
<1> HIDE DEF minutes
<1>6. /\ w \in 0..1439
      /\ IsDate(date) /\ NumberOf(date) * 1440 + w = NumberOf(today) * 1440 + minutes
      /\ InRange(date.year)
  <2>0. /\ s.year \in Int /\ FirstYear \in Int /\ LastYear \in Int
        /\ FirstYear <= s.year /\ s.year <= LastYear
    BY <1>0, CardDateAssumption
  <2>1. CASE minutes < 0
    <3>1. date = DayBefore(today) /\ w = minutes + 1440
      BY <1>2, <2>1
    <3>2. IsDate(date) /\ NumberOf(date) = NumberOf(today) - 1
          /\ s.year - 1 <= date.year /\ date.year <= s.year
      BY <1>3, <2>1, DayBeforeIs
    <3>3. date.year \in Int
      BY <3>2 DEF IsDate
    <3> HIDE DEF date, w, minutes
    <3> QED BY <1>2, <1>3, <1>4, <2>0, <2>1, <3>1, <3>2, <3>3 DEF InRange, Years
  <2>2. CASE minutes >= 1440
    <3>1. date = NextDay(today) /\ w = minutes - 1440
      BY <1>2, <2>2
    <3>2. IsDate(date) /\ NumberOf(date) = NumberOf(today) + 1
          /\ s.year <= date.year /\ date.year <= s.year + 1
      BY <1>3, <2>0, <2>2, <3>1, NextDayIs
    <3>3. date.year \in Int
      BY <3>2 DEF IsDate
    <3> HIDE DEF date, w, minutes
    <3> QED BY <1>2, <1>3, <1>4, <2>0, <2>2, <3>1, <3>2, <3>3 DEF InRange, Years
  <2>3. CASE minutes \in 0..1439
    <3>1. date = today /\ w = minutes
      BY <2>3
    <3> HIDE DEF date, w, minutes
    <3> QED BY <1>2, <1>3, <1>4, <2>0, <2>3, <3>1 DEF InRange, Years
  <2>4. minutes < 0 \/ minutes >= 1440 \/ minutes \in 0..1439
    <3> HIDE DEF minutes
    <3> QED BY <1>2
  <2> HIDE DEF date, w, minutes
  <2> QED BY <2>1, <2>2, <2>3, <2>4
<1> HIDE DEF date, w
<1>8. NumberOf(date) \in Int
  <2>1. date.year \in Int /\ date.month \in 1..12 /\ date.day \in Int
    BY <1>6 DEF IsDate
  <2> QED BY <2>1, DayNumberType DEF NumberOf
<1>9. Parse(s) = NumberOf(date) * 1440 + w
  BY <1>5, <1>6
<1>12. IsAt(Parse(s), NumberOf(date), w)
  BY SMTT(30), <1>5, <1>6, <1>8, <1>9 DEF IsAt
<1>13. /\ date.year \in Int /\ date.month \in 1..12 /\ date.day \in Int
       /\ 1 <= date.day /\ date.day <= DaysIn(date.year, date.month)
       /\ InRange(date.year) /\ IsAt(Parse(s), DayNumber(date.year, date.month, date.day), w)
  BY <1>6, <1>12 DEF IsDate, NumberOf
<1>14. Gmtime(Parse(s)) = Time(date.year, date.month, date.day, w)
  BY <1>13, GmtimeOf
<1> QED BY <1>10, <1>14 DEF ToIso8601

\* CardFound: what is printed as "created" is the instant the server meant, in UTC,
\* for every stamp of the calendar, whatever its zone, across the ends of days, months
\* and years and in leap years.
THEOREM PrintsTheInstant == Spec => []PrintedInstant
<1> DEFINE Inv == /\ PrintedInstant
                  /\ mode = "get-card" => answer \in CardAnswers \cup {Garbled}
<1>1. Init => Inv
  BY DEF Init, LookupInit, PrintedInstant
<1>2. Inv /\ [Next]_allVars => Inv'
  <2> SUFFICES ASSUME Inv, [Next]_allVars
               PROVE  Inv'
    OBVIOUS
  <2>1. mode' = mode /\ answer' = answer
    BY ModeOfStep DEF LookupStep, NotANumber, NotFound, CardFound, UserFound, lookupVars
  <2>2. CASE created' = created
    BY <2>1, <2>2 DEF PrintedInstant
  <2>3. CASE CardFound
    <3>1. CASE shown'["created"] = "value"
      <4>1. answer # Garbled
        <5>1. EmptyCard["created"] = "default"
          BY DEF EmptyCard, CardFields, DateFields
        <5> QED BY <2>3, <3>1, <5>1 DEF CardFound
      <4>2. IsStamp(answer.stamp)
        BY <2>3, <4>1, LookupAssumption DEF CardFound
      <4>3. created' = ToIso8601(Parse(answer.stamp))
        BY <2>3, <3>1 DEF CardFound
      <4> QED BY <2>1, <4>2, <4>3, StampInGreenwich DEF PrintedInstant
    <3>2. CASE shown'["created"] # "value"
      <4>1. created' = None
        BY <2>3, <3>2 DEF CardFound
      <4> QED BY <2>1, <4>1 DEF PrintedInstant
    <3> QED BY <3>1, <3>2
  <2> QED BY <2>2, <2>3, ModeOfStep
          DEF LookupStep, NotANumber, NotFound, UserFound, lookupVars
<1> QED BY <1>1, <1>2, PTL DEF Spec

---------------------------------------------------------------------------
(* cards-list, users-list and boards-list. *)

LEMMA ListingInvariant == Spec => []ListingInv
<1>1. Init => ListingInv
  BY ListingInvInit DEF Init
<1>2. ListingInv /\ [Next]_allVars => ListingInv'
  <2> SUFFICES ASSUME ListingInv, [Next]_allVars
               PROVE  ListingInv'
    OBVIOUS
  <2>1. mode' = mode /\ (ListingNext \/ UNCHANGED listingVars)
    BY ModeOfStep
  <2> QED BY <2>1, ListingInvNext
<1> QED BY <1>1, <1>2, PTL DEF Spec

\* The types of the listing; and the capped reader keeps within max_requests.
THEOREM ListingTypes == Spec => []ListingTypeOK
<1>1. ListingInv => ListingTypeOK
  BY ListingInvType
<1> QED BY <1>1, ListingInvariant, PTL

\* handle_cards_list and paginate_with_offset_limit: a list that stays as it is is
\* read to its end, to the cap or to the page with the item that does not parse,
\* in order, whatever its length and the size of a page.
THEOREM ListingReadsAll == Spec => []ReadsAll
<1>1. ListingInv => ReadsAll
  BY ListingInvReadsAll
<1> QED BY <1>1, ListingInvariant, PTL

\* handle_cards_list: of the cards that nobody touches no more are missed than have
\* been deleted, however many cards are updated or appear between the pages.
THEOREM ListingMissesFew == Spec => []MissesFew
<1>1. ListingInv => MissesFew
  BY ListingInvMissesFew
<1> QED BY <1>1, ListingInvariant, PTL

\* handle_cards_list: no more cards are listed twice than updates and new cards have
\* come between the pages.
THEOREM ListingRepeatsFew == Spec => []RepeatsFew
<1>1. ListingInv => RepeatsFew
  BY ListingInvRepeatsFew
<1> QED BY <1>1, ListingInvariant, PTL
=============================================================================
