---------------------------- MODULE CardCreation ----------------------------
(***************************************************************************)
(* handle_backlog and handle_create_card.  A card is made by several        *)
(* requests (create, link to the parent, one per tag, title with the work   *)
(* code), each of which may fail, and from what was read before: who the    *)
(* current user is, the parent card (through the cache), the responsible.   *)
(*                                                                         *)
(* One action per request.  The server (external) may refuse it, carry it   *)
(* out while the answer is lost (status -1), or answer something that does  *)
(* not parse.  Other people edit the parent cards meanwhile.                *)
(***************************************************************************)
EXTENDS CommandLine, Cache, Sequences

CONSTANTS
    Backlogs,     \* what the backlog file may contain
    Unreadable,   \* a file without a backlog, or not readable; an empty title
    Malformed,    \* a "parent" that is not a number
    Missing,      \* no "tasks" array
    Default,      \* the default product ("CAD") and work code ("A")
    Me,           \* the user whose token is used
    Users,        \* the users the server knows
    Parents,      \* ids of parent cards
    ParentCards,  \* what a parent card may say: its sprint and its work code
    MaxFaults,    \* bound: requests that do not simply succeed
    MaxEdits,     \* bound: edits of parent cards
    MaxClock      \* bound: time

\* A backlog is a list of entries; an entry has a list of tasks or none.
ASSUME CreationAssumption ==
    \A b \in Backlogs \ {Unreadable} :
        /\ b \in Seq(Range(b))
        /\ \A e \in Range(b) :
              /\ e.parent \in Parents \cup {None, Malformed}
              /\ e.tasks = Missing \/ e.tasks \in Seq({"good", "bad"})
              /\ e.tags \in Seq(Range(e.tags))

VARIABLES
    backlog,   \* the parsed file, or the single task of handle_create_card
    pc,        \* the request that comes next
    i, j, k,   \* the current entry, its current task, the task's current tag
    me,        \* current_user_id
    read,      \* the parent card as fetch_parent_card_info has seen it
    assignee,  \* responsible_user_id
    child,     \* child_card_id; 0 when the answer did not parse
    success,   \* success_count, total_success
    errors,    \* error_count, total_errors
    cache,     \* Api_cache::card_cache()
    cards,     \* the server's new cards; a card's id is its position
    parents,   \* the server's parent cards
    replaced,  \* history: former contents of parent cards
    reply,     \* the parent card on its way from the server, or None
    delays,    \* history: how long the answer took that each parent was last read from
    clock, faults

position == <<i, j, k>>
locals == <<me, read, assignee, child>>
counts == <<success, errors>>
server == <<cards, parents, replaced, reply, delays>>
creationVars == <<backlog, pc, position, locals, counts, cache, server, clock, faults>>

CreationModes == {"backlog", "create"}

entry == backlog[i]

\* What the code makes of the parent card; a card without a work code in its
\* title still gives its sprint.
SprintNumber == IF read = None THEN None ELSE read.sprint
WorkCode == IF read = None \/ read.code = None THEN Default ELSE read.code
ProductCode == IF entry.role # None THEN entry.role ELSE WorkCode

\* n more requests went wrong.
Faulty(n) ==
    /\ faults + n <= MaxFaults
    /\ faults' = faults + n

CreationInit ==
    /\ exit = Running
    /\ backlog \in Backlogs
    /\ mode = "create" /\ backlog # Unreadable =>
          /\ Len(backlog) = 1
          /\ backlog[1].responsible = None
          /\ backlog[1].parent # Malformed
          /\ backlog[1].tasks = <<"good">>
    /\ pc = "file"
    /\ i = 1 /\ j = 1 /\ k = 1
    /\ me = None /\ read = None /\ assignee = None /\ child = 0
    /\ success = 0 /\ errors = 0
    /\ \E enabled \in BOOLEAN : cache = EmptyCache(enabled)
    /\ cards = <<>>
    /\ parents \in [Parents -> ParentCards]
    /\ replaced = {}
    /\ reply = None
    /\ delays = [p \in Parents |-> 0]
    /\ clock = 0
    /\ faults = 0

\* The backlog file is read and validated, or the arguments are.
ReadBacklog ==
    /\ pc = "file"
    /\ pc' = IF backlog = Unreadable THEN "done" ELSE "user"
    /\ exit' = IF backlog = Unreadable THEN Failure ELSE Running
    /\ UNCHANGED <<backlog, position, locals, counts, cache, server, clock, faults>>

\* get_current_user; without an answer the cards get no default responsible.
CurrentUser ==
    /\ pc = "user"
    /\ \/ me' = Me /\ Faulty(0)
       \/ me' = None /\ Faulty(1)
    /\ pc' = "entry"
    /\ UNCHANGED <<exit, backlog, position, read, assignee, child, counts, cache,
                   server, clock>>

\* Mutants: what was read for one entry is kept for the next; so is the task.
NextEntryKeepsRead ==
    /\ pc = "entry"
    /\ i <= Len(backlog)
    /\ entry.parent # Malformed
    /\ j' = 1
    /\ pc' = IF entry.parent = None THEN "responsible" ELSE "parent"
    /\ UNCHANGED <<exit, backlog, i, k, locals, counts, cache, server, clock, faults>>

NextEntryKeepsTask ==
    /\ pc = "entry"
    /\ i <= Len(backlog)
    /\ entry.parent # Malformed
    /\ read' = None
    /\ pc' = IF entry.parent = None THEN "responsible" ELSE "parent"
    /\ UNCHANGED <<exit, backlog, position, me, assignee, child, counts, cache, server,
                   clock, faults>>

\* process_backlog_entry begins with locals of its own.
NextEntry ==
    /\ pc = "entry"
    /\ i <= Len(backlog)
    /\ entry.parent # Malformed
    /\ j' = 1
    /\ read' = None
    /\ pc' = IF entry.parent = None THEN "responsible" ELSE "parent"
    /\ UNCHANGED <<exit, backlog, i, k, me, assignee, child, counts, cache, server,
                   clock, faults>>

\* std::stoll on the parent, outside of any try block, or a task that is no object
\* or whose title or size is of another type: an exception leaves main.  (Without a
\* title, a task makes a card with an empty one.)
Throw ==
    /\ \/ pc = "entry" /\ i <= Len(backlog) /\ entry.parent = Malformed
       \/ pc = "task" /\ j <= Len(entry.tasks) /\ entry.tasks[j] = "bad"
    /\ pc' = "done"
    /\ exit' = Terminated
    /\ UNCHANGED <<backlog, position, locals, counts, cache, server, clock, faults>>

\* fetch_parent_card_info and get_card: from the cache ...
ParentFromCache ==
    /\ pc = "parent"
    /\ Hit(cache, entry.parent, clock)
    /\ read' = cache.entries[entry.parent].value
    /\ pc' = "responsible"
    /\ UNCHANGED <<exit, backlog, position, me, assignee, child, counts, cache, server,
                   clock, faults>>

\* ... or from the server.  The cache is asked when the request begins and the card
\* is what the server reads some time later; as what has expired stays expired, this
\* is one step.  The answer takes any time: nothing limits it.
AskForParent ==
    /\ pc = "parent"
    /\ ~Hit(cache, entry.parent, clock)
    /\ cache' = AfterGet(cache, entry.parent, clock)
    /\ reply' = [card |-> parents[entry.parent], at |-> clock]
    /\ pc' = "reply"
    /\ UNCHANGED <<exit, backlog, position, locals, counts, cards, parents, replaced,
                   delays, clock, faults>>

\* The answer arrives, and its age in the cache counts from now on; or the request
\* fails, which is ignored: the entry goes on with the defaults.
ParentReply ==
    /\ pc = "reply"
    /\ \/ /\ read' = reply.card
          /\ cache' = Put(cache, entry.parent, reply.card, clock)
          /\ delays' = [delays EXCEPT ![entry.parent] = clock - reply.at]
          /\ Faulty(0)
       \/ /\ read' = None
          /\ UNCHANGED <<cache, delays>>
          /\ Faulty(1)
    /\ reply' = None
    /\ pc' = "responsible"
    /\ UNCHANGED <<exit, backlog, position, me, assignee, child, counts, cards, parents,
                   replaced, clock>>

\* find_responsible_user_id: a user who is not found, or a list of users that
\* could not be read to its end, leaves the current user.
FindResponsible ==
    \/ entry.responsible \in Users /\ assignee' = entry.responsible /\ Faulty(0)
    \/ entry.responsible \in Users /\ assignee' = me /\ Faulty(1)
    \/ entry.responsible \notin Users /\ assignee' = me /\ Faulty(0)

\* That an entry has no tasks is only found out now.
Responsible ==
    /\ pc = "responsible"
    /\ FindResponsible
    /\ IF entry.tasks = Missing
       THEN errors' = errors + 1 /\ i' = i + 1 /\ pc' = "entry"
       ELSE UNCHANGED <<errors, i>> /\ pc' = "task"
    /\ UNCHANGED <<exit, backlog, j, k, me, read, child, success, cache, server, clock>>

EndEntry ==
    /\ pc = "task"
    /\ j > Len(entry.tasks)
    /\ i' = i + 1
    /\ pc' = "entry"
    /\ UNCHANGED <<exit, backlog, j, k, locals, counts, cache, server, clock, faults>>

\* The card the server makes of a create request.
NewCard ==
    [entry |-> i, task |-> j, assignee |-> assignee, sprint |-> SprintNumber,
     parent |-> None, tags |-> {}, title |-> None]

\* The first request after the creation that the card needs.
FollowUp == IF entry.parent # None THEN "link" ELSE "tag"

Creating ==
    /\ pc = "task"
    /\ j <= Len(entry.tasks)
    /\ entry.tasks[j] = "good"
    /\ UNCHANGED <<exit, backlog, i, me, read, assignee, success, cache, parents,
                   replaced, reply, delays, clock>>

\* Mutant: the previous card's id stays when the body does not parse.
CardCreatedStaleId ==
    /\ Creating
    /\ cards' = Append(cards, NewCard)
    /\ \/ child' = Len(cards) + 1 /\ Faulty(0)
       \/ child' = child /\ Faulty(1)
    /\ pc' = FollowUp
    /\ k' = 1
    /\ UNCHANGED <<j, errors>>

\* A success status; its body may not parse, which leaves an empty card.
CardCreated ==
    /\ Creating
    /\ cards' = Append(cards, NewCard)
    /\ \/ child' = Len(cards) + 1 /\ Faulty(0)
       \/ child' = 0 /\ Faulty(1)
    /\ pc' = FollowUp
    /\ k' = 1
    /\ UNCHANGED <<j, errors>>

\* Mutant: the failure is not counted.
CardNotCreatedUncounted ==
    /\ Creating
    /\ cards' \in {cards, Append(cards, NewCard)}
    /\ Faulty(1)
    /\ j' = j + 1
    /\ UNCHANGED <<pc, k, child, errors>>

\* Any other status: refused, or carried out without an answer.
CardNotCreated ==
    /\ Creating
    /\ cards' \in {cards, Append(cards, NewCard)}
    /\ Faulty(1)
    /\ errors' = errors + 1
    /\ j' = j + 1
    /\ UNCHANGED <<pc, k, child>>

\* A request that changes the child card, when it gets through; no result of it
\* is looked at.  There is no card 0.
ChangeChild(changed) ==
    /\ \/ /\ child \in DOMAIN cards
          /\ cards' = [cards EXCEPT ![child] = changed]
          /\ Faulty(0)
       \/ /\ child \in DOMAIN cards
          /\ cards' = cards
          /\ Faulty(1)
       \/ /\ child \notin DOMAIN cards
          /\ cards' = cards
          /\ Faulty(0)
    /\ UNCHANGED <<exit, backlog, i, locals, errors, cache, parents, replaced, reply,
                   delays, clock>>

LinkToParent ==
    /\ pc = "link"
    /\ ChangeChild([cards[child] EXCEPT !.parent = entry.parent])
    /\ pc' = "tag"
    /\ UNCHANGED <<j, k, success>>

\* Mutant: the loop does not advance.
AddTagForEver ==
    /\ pc = "tag"
    /\ k <= Len(entry.tags)
    /\ ChangeChild([cards[child] EXCEPT !.tags = @ \cup {entry.tags[k]}])
    /\ UNCHANGED <<pc, j, k, success>>

AddTag ==
    /\ pc = "tag"
    /\ k <= Len(entry.tags)
    /\ ChangeChild([cards[child] EXCEPT !.tags = @ \cup {entry.tags[k]}])
    /\ k' = k + 1
    /\ UNCHANGED <<pc, j, success>>

\* handle_create_card retitles only a card with a parent.
UpdatesTitle == mode = "backlog" \/ entry.parent # None

TaskDone ==
    /\ pc = "tag"
    /\ k > Len(entry.tags)
    /\ success' = success + 1
    /\ j' = j + 1
    /\ pc' = "task"

UpdateTitle ==
    /\ TaskDone
    /\ UpdatesTitle
    /\ ChangeChild([cards[child] EXCEPT
                        !.title = [product |-> ProductCode, work |-> WorkCode, id |-> child]])
    /\ UNCHANGED k

KeepTitle ==
    /\ TaskDone
    /\ ~UpdatesTitle
    /\ UNCHANGED <<exit, backlog, i, k, locals, errors, cache, server, clock, faults>>

\* Mutant: errors do not show in the exit status.
SummaryAlwaysGood ==
    /\ pc = "entry"
    /\ i > Len(backlog)
    /\ pc' = "done"
    /\ exit' = Success
    /\ UNCHANGED <<backlog, position, locals, counts, cache, server, clock, faults>>

Summary ==
    /\ pc = "entry"
    /\ i > Len(backlog)
    /\ pc' = "done"
    /\ exit' = IF errors > 0 THEN Failure ELSE Success
    /\ UNCHANGED <<backlog, position, locals, counts, cache, server, clock, faults>>

\* Somebody edits a parent card (external).
EditParent(p) ==
    /\ exit = Running
    /\ Cardinality(replaced) < MaxEdits
    /\ \E card \in ParentCards \ {parents[p]} : parents' = [parents EXCEPT ![p] = card]
    /\ replaced' = replaced \cup {[parent |-> p, card |-> parents[p], at |-> clock]}
    /\ UNCHANGED <<exit, backlog, pc, position, locals, counts, cache, cards, reply,
                   delays, clock, faults>>

\* Time passes, during a request or between two.
TimePasses ==
    /\ exit = Running
    /\ clock < MaxClock
    /\ clock' = clock + 1
    /\ UNCHANGED <<exit, backlog, pc, position, locals, counts, cache, server, faults>>

CreationStep ==
    \/ ReadBacklog \/ CurrentUser
    \/ NextEntry \/ Throw
    \/ ParentFromCache \/ AskForParent \/ ParentReply
    \/ Responsible
    \/ EndEntry
    \/ CardCreated \/ CardNotCreated
    \/ LinkToParent \/ AddTag \/ UpdateTitle \/ KeepTitle
    \/ Summary

CreationNext ==
    \/ CreationStep
    \/ \E p \in Parents : EditParent(p)
    \/ TimePasses
---------------------------------------------------------------------------
(* Properties. *)

\* The types; the position never runs past the entry, the task or the tag.
CreationTypeOK ==
    /\ exit \in {Running, Success, Failure, Terminated}
    /\ pc \in {"file", "user", "entry", "parent", "reply", "responsible", "task", "link",
               "tag", "done"}
    /\ pc = "reply" => reply.card \in ParentCards /\ reply.at \in 0..clock
    /\ mode \in CreationModes => (pc = "done" <=> exit # Running)
    /\ backlog # Unreadable => i \in 1..(Len(backlog) + 1)
    /\ pc \in {"task", "link", "tag"} => j \in 1..(Len(entry.tasks) + 1)
    /\ pc \in {"link", "tag"} => k \in 1..(Len(entry.tags) + 1)
    /\ me \in {Me, None}
    /\ assignee \in Users \cup {Me, None}
    /\ read \in ParentCards \cup {None}
    /\ child \in 0..Len(cards)
    /\ DOMAIN cache.entries \subseteq Parents

\* The cards made for one task of one entry.
CardsFor(e, t) == {c \in DOMAIN cards : cards[c].entry = e /\ cards[c].task = t}

\* Exit status 0 means what a script takes it to mean: every task of the backlog
\* has become a card, exactly one, although answers were lost or did not parse.
ExitZeroMeansAllCreated ==
    mode \in CreationModes /\ exit = Success =>
        \A e \in DOMAIN backlog :
            /\ backlog[e].tasks # Missing
            /\ \A t \in DOMAIN backlog[e].tasks : Cardinality(CardsFor(e, t)) = 1

\* The summary adds up: every task and every entry without tasks is counted
\* once, no counted card is missing on the server, and a card the summary does
\* not count can only hide behind one of its errors (a lost answer).
SummaryAddsUp ==
    mode \in CreationModes /\ exit \in {Success, Failure} /\ backlog # Unreadable =>
        /\ success <= Len(cards)
        /\ Len(cards) <= success + errors
        /\ success + errors =
              Cardinality({e \in DOMAIN backlog : backlog[e].tasks = Missing})
                + Cardinality(UNION {{e} \X DOMAIN backlog[e].tasks :
                      e \in {d \in DOMAIN backlog : backlog[d].tasks # Missing}})

\* The work codes a parent card has had during the run.
CodesOf(p) ==
    {parents[q].code : q \in Parents \cap {p}} \cup {r.card.code : r \in {s \in replaced : s.parent = p}}

\* Nothing leaks from one entry or task into another: a card's parent, tags,
\* responsible and work code are those of its own entry or the defaults, and its
\* title carries its own id.
OwnData ==
    \A c \in DOMAIN cards :
        LET card == cards[c]
            own == backlog[card.entry]
        IN  /\ card.parent \in {None, own.parent}
            /\ card.tags \subseteq {own.tags[n] : n \in DOMAIN own.tags}
            /\ card.assignee \in {None, Me, own.responsible}
            /\ card.title # None =>
                  /\ card.title.id = c
                  /\ card.title.work = Default \/ card.title.work \in CodesOf(own.parent)
                  /\ card.title.product \in {own.role, card.title.work}

\* Once its task is over a card is never changed again, whatever id the answers
\* to later requests carry or fail to carry.
SettledStays ==
    [][\A c \in DOMAIN cards :
          cards'[c] # cards[c] => c = Len(cards) /\ cards[c].entry = i /\ cards[c].task = j]_creationVars

\* An answer is as old as its way took; from the cache, the time-to-live older.
MaxAge(p) == delays'[p] + (IF pc = "parent" THEN Ttl ELSE 0)

\* An entry is never based on a parent card that was replaced longer ago than its
\* answer took to arrive and, if it comes from the cache, the time-to-live on top: an
\* entry of the cache ages from its arrival, not from the server's read.
ParentNotStale ==
    [][(pc = "parent" \/ pc = "reply") /\ pc' = "responsible" /\ read' # None =>
          \/ read' = parents[entry.parent]
          \/ \E r \in replaced : /\ r.parent = entry.parent
                                 /\ r.card = read'
                                 /\ clock - r.at <= MaxAge(entry.parent)]_creationVars
=============================================================================
