---------------------------- MODULE ApprovalScreen ----------------------------
(***************************************************************************)
(* The session's screen (run of crates/closedshell/src/tui.rs): one loop   *)
(* that tails the audit log, asks the daemon for its rules and its pending *)
(* approvals, draws, and acts on one key.  Meanwhile requests are parked,  *)
(* other screens decide, the log grows and the daemon may stop; and the    *)
(* human types: the terminal keeps a key until the loop reads it, and a    *)
(* frame until the next one is drawn.                                      *)
(*                                                                         *)
(* The daemon handles a request atomically, as EnforcingProxy's Resolve    *)
(* and DeleteRule do; here it is its two lists.  A line of the log has two *)
(* halves, which a reader may see apart; written and offset count halves.  *)
(* Time is left open: a poll may be due or not, and may time out.  Colours *)
(* and layout, scrolling, the filter and the text of a search are left     *)
(* out; a rule is one line of its tab.                                     *)
(***************************************************************************)
EXTENDS Naturals, Sequences, SequencesExt

CONSTANTS
  MaxEntries,   \* bound on the requests that are parked
  MaxWaiting,   \* bound on the keys that wait to be read
  MaxLines      \* bound on the lines of the log

ASSUME ScreenAssumption ==
  /\ MaxEntries \in Nat
  /\ MaxWaiting \in Nat
  /\ MaxLines \in Nat

VARIABLES
  pending,   \* the daemon's pending approvals, oldest first
  parked,    \* those ever parked, numbered by created_at
  rules,     \* the daemon's rules, in order
  granted,   \* how many were ever added; they are numbered
  up,        \* the daemon answers
  written,   \* how much of the log is written
  pc,        \* where the loop is
  seen,      \* App.pending_approvals
  policy,    \* App.rules
  ui,        \* App: the tab, the overlay, the selections (from 1)
  offset,    \* App.log_offset
  activity,  \* App.activity: lines of the log
  torn,      \* history: lines of which a poll read only the first half
  waiting,   \* for each key that waits to be read, the frame at which it was typed
  act        \* history: the request that the last key sent

daemon == <<pending, parked, rules, granted, up>>
lists  == <<seen, policy>>
tail   == <<offset, activity, torn>>
vars   == <<daemon, written, pc, lists, ui, tail, waiting, act>>

Entry  == 1 .. MaxEntries
Item   == Nat \ {0}   \* an entry or a rule
NoItem == 0
Tab    == {"live", "policy", "approvals"}
Over   == {"none", "help", "search"}
Place  == {"log", "read", "rules", "approvals", "key", "edit", "quit"}
Frame  == [tab: Tab, over: Over, pos: Item, list: Seq(Item)]
Request == [kind: {"approve", "deny", "delete_rule"}, item: Item]
FirstUi   == [tab |-> "live", over |-> "none", approval |-> 1, rule |-> 1]
LiveFrame == [tab |-> "live", over |-> "none", pos |-> 1, list |-> <<>>]
NoAct  == [kind |-> "none", item |-> NoItem]

TypeOK ==
  /\ pending \in Seq(Entry)
  /\ parked \subseteq Entry
  /\ rules \in Seq(Item)
  /\ granted \in Nat
  /\ up \in BOOLEAN
  /\ written \in 0 .. 2 * MaxLines
  /\ pc \in Place
  /\ seen \in Seq(Entry)
  /\ policy \in Seq(Item)
  /\ ui \in [tab: Tab, over: Over, approval: Item, rule: Item]
  /\ offset \in 0 .. written
  /\ activity \in Seq(1 .. MaxLines)
  /\ torn \subseteq 1 .. MaxLines
  /\ waiting \in Seq(Frame) /\ Len(waiting) <= MaxWaiting
  /\ act \in Request \cup {NoAct}

Init ==
  /\ pending = <<>>
  /\ parked = {}
  /\ rules = <<>>
  /\ granted = 0
  /\ up = TRUE
  /\ written = 0
  /\ pc = "log"
  /\ seen = <<>>
  /\ policy = <<>>
  /\ ui = FirstUi
  /\ offset = 0
  /\ activity = <<>>
  /\ torn = {}
  /\ waiting = <<>>
  /\ act = NoAct
-----------------------------------------------------------------------------
(***************************************************************************)
(* The daemon and the other screens.                                       *)
(***************************************************************************)
screen == <<pc, lists, ui, tail, waiting, act>>

\* Mutant of Rank: the newest first.
RankFirst(e) == 1

\* list_pending sorts by created_at.
Rank(e) == CHOOSE k \in 1 .. Len(pending) + 1 : \A j \in DOMAIN pending : pending[j] < e <=> j < k

\* enqueue: the stamp is older than the insertion, which a younger request may pass.
Park(e) ==
  /\ up
  /\ e \notin parked
  /\ parked' = parked \cup {e}
  /\ pending' = InsertAt(pending, Rank(e), e)
  /\ UNCHANGED <<rules, granted, up, written, screen>>

Without(list, i) ==
  IF i \in ToSet(list) THEN RemoveAt(list, CHOOSE k \in DOMAIN list : list[k] = i) ELSE list

\* What the daemon does with a request.
Handled(kind, i) ==
  /\ pending' = IF kind = "delete_rule" THEN pending ELSE Without(pending, i)
  /\ granted' = IF kind = "approve" /\ i \in ToSet(pending) THEN granted + 1 ELSE granted
  /\ rules' = CASE granted' # granted -> Append(rules, granted')
                [] kind = "delete_rule" -> Without(rules, i)
                [] OTHER -> rules

OtherScreen(kind, i) ==
  /\ up
  /\ Handled(kind, i)
  /\ UNCHANGED <<parked, up, written, screen>>

\* The daemon ends: its socket is gone, or nobody listens.
DaemonEnds ==
  /\ up
  /\ up' = FALSE
  /\ UNCHANGED <<pending, parked, rules, granted, written, screen>>

\* A reader sees a line, half of one, or the second half.
WriteLog(n) ==
  /\ written + n <= 2 * MaxLines
  /\ written' = written + n
  /\ UNCHANGED <<daemon, screen>>
-----------------------------------------------------------------------------
(***************************************************************************)
(* The loop.                                                               *)
(***************************************************************************)
Step(here, there) == pc = here /\ pc' = there

\* poll_log: nothing to do if the file has not grown.
StatLog ==
  /\ Step("log", IF written > offset THEN "read" ELSE "rules")
  /\ act' = NoAct
  /\ UNCHANGED <<daemon, written, lists, ui, tail, waiting>>

\* Mutant of ReadFrom: the reader is not moved to the offset.
ReadFromStart == 0

ReadFrom == offset

Begun(halves) == (halves + 1) \div 2
Whole(halves) == halves \div 2

\* poll_log: up to the end of the file; the offset moves past half a line too,
\* and neither half can be parsed alone.
ReadLog ==
  /\ Step("read", "rules")
  /\ activity' = activity \o
       [k \in 1 .. Whole(written) - Begun(ReadFrom) |-> Begun(ReadFrom) + k]
  /\ torn' = torn \cup {n \in 1 .. MaxLines : 2 * n - 1 = written}
  /\ offset' = written
  /\ UNCHANGED <<daemon, written, lists, ui, waiting, act>>

\* poll_rules, if two seconds have gone by; it may fail.
PollRules ==
  /\ Step("rules", "approvals")
  /\ \/ up /\ policy' = rules
     \/ UNCHANGED policy
  /\ UNCHANGED <<daemon, written, seen, ui, tail, waiting, act>>

\* Mutant of AskPending: a list that is not empty is kept.
AskWhenEmpty ==
  /\ Step("approvals", "key")
  /\ up
  /\ seen' = IF seen = <<>> THEN pending ELSE seen
  /\ UNCHANGED <<daemon, written, policy, ui, tail, waiting, act>>

\* poll_approvals, if half a second has gone by; the selection stays.
AskPending ==
  /\ Step("approvals", "key")
  /\ up
  /\ seen' = pending
  /\ UNCHANGED <<daemon, written, policy, ui, tail, waiting, act>>

SkipPending ==
  /\ Step("approvals", "key")
  /\ UNCHANGED <<daemon, written, lists, ui, tail, waiting, act>>

\* What the terminal shows from here on, until the loop comes here again:
\* draw_rules_tab, draw_approvals, and an overlay over them.
Drawn ==
  CASE ui.tab = "policy" ->
         [tab |-> "policy", over |-> ui.over, pos |-> ui.rule, list |-> policy]
    [] ui.tab = "approvals" ->
         [tab |-> "approvals", over |-> ui.over, pos |-> ui.approval, list |-> seen]
    [] OTHER -> [LiveFrame EXCEPT !.over = ui.over]

\* The item that a frame marks.
Mark(f) == IF f.pos \in DOMAIN f.list THEN f.list[f.pos] ELSE NoItem

\* The human types a key.  One that is typed later, while the loop polls, is typed at
\* the same frame: it is one that this turn does not read.
Type ==
  /\ pc = "key"
  /\ Len(waiting) < MaxWaiting
  /\ waiting' = Append(waiting, Drawn)
  /\ UNCHANGED <<daemon, written, pc, lists, ui, tail, act>>

\* No key in 250 ms, or another event.
NoKey ==
  /\ Step("key", "log")
  /\ UNCHANGED <<daemon, written, lists, ui, tail, waiting, act>>

\* event::read.
Read(place) ==
  /\ waiting # <<>>
  /\ waiting' = Tail(waiting)
  /\ Step("key", place)

\* One that does nothing here.
Ignored ==
  /\ Read("log")
  /\ UNCHANGED <<daemon, written, lists, ui, tail, act>>

\* The help and the search take every key.
Reads == ui.over = "none"

\* q; what the screen knew goes with it.
Quit ==
  /\ Reads
  /\ Read("quit")
  /\ seen' = <<>>
  /\ policy' = <<>>
  /\ ui' = FirstUi
  /\ UNCHANGED <<daemon, written, tail, act>>

\* '?', '/' on the Live tab; Esc, or Enter in a search.
Overlay(o) ==
  /\ IF Reads THEN o = "help" \/ (o = "search" /\ ui.tab = "live") ELSE o = "none"
  /\ Read("log")
  /\ ui' = [ui EXCEPT !.over = o]
  /\ UNCHANGED <<daemon, written, lists, tail, act>>

SwitchTab(t) ==
  /\ Reads
  /\ Read("log")
  /\ ui' = [ui EXCEPT !.tab = t]
  /\ UNCHANGED <<daemon, written, lists, tail, act>>

\* Mutant of Up: it does not stop at the first.
UpFurther(i) == i - 1

Up(i) == IF i > 1 THEN i - 1 ELSE 1

Down(list, i) ==
  IF list = <<>> THEN i
  ELSE IF i + 1 < Len(list) THEN i + 1 ELSE Len(list)

\* j and k.
Select(down) ==
  /\ Reads
  /\ Read("log")
  /\ \/ /\ ui.tab = "approvals"
        /\ ui' = [ui EXCEPT !.approval = IF down THEN Down(seen, @) ELSE Up(@)]
     \/ /\ ui.tab = "policy"
        /\ ui' = [ui EXCEPT !.rule = IF down THEN Down(policy, @) ELSE Up(@)]
  /\ UNCHANGED <<daemon, written, lists, tail, act>>

\* ipc_send: the daemon handles the request, or nobody does.
Sent(kind, i) ==
  /\ act' = [kind |-> kind, item |-> i]
  /\ \/ up /\ Handled(kind, i)
     \/ UNCHANGED <<pending, rules, granted>>

\* y and n; the list is asked for again.
Decide(kind) ==
  /\ Reads
  /\ Read("log")
  /\ ui.tab = "approvals"
  /\ ui.approval \in DOMAIN seen
  /\ Sent(kind, seen[ui.approval])
  /\ seen' \in {seen, IF up THEN pending' ELSE seen}
  /\ UNCHANGED <<parked, up, written, policy, ui, tail>>

\* d; the rules are asked for again.
DeleteRule ==
  /\ Reads
  /\ Read("log")
  /\ ui.tab = "policy"
  /\ ui.rule \in DOMAIN policy
  /\ Sent("delete_rule", policy[ui.rule])
  /\ policy' \in {policy, IF up THEN rules' ELSE policy}
  /\ UNCHANGED <<parked, up, written, seen, ui, tail>>

\* e: the editor has the terminal until the human leaves it.
Edit ==
  /\ Reads
  /\ Read("edit")
  /\ ui.tab = "policy"
  /\ UNCHANGED <<daemon, written, lists, ui, tail, act>>

\* What the human wrote is not read: the rules are asked for, the file is removed.
\* Keys that waited may have been the editor's.
EditorExits ==
  /\ Step("edit", "log")
  /\ waiting' \in {waiting, <<>>}
  /\ \/ up /\ policy' = rules
     \/ UNCHANGED policy
  /\ UNCHANGED <<daemon, written, seen, ui, tail, act>>

Key ==
  \/ Ignored
  \/ Quit
  \/ \E o \in Over : Overlay(o)
  \/ \E t \in Tab : SwitchTab(t)
  \/ \E down \in BOOLEAN : Select(down)
  \/ \E kind \in {"approve", "deny"} : Decide(kind)
  \/ DeleteRule
  \/ Edit

Loop == StatLog \/ ReadLog \/ PollRules \/ AskPending \/ SkipPending \/ NoKey \/ EditorExits

Next ==
  \/ \E e \in Entry : Park(e)
  \/ \E kind \in {"approve", "deny"}, i \in ToSet(pending) : OtherScreen(kind, i)
  \/ \E i \in ToSet(rules) : OtherScreen("delete_rule", i)
  \/ DaemonEnds
  \/ \E n \in {1, 2} : WriteLog(n)
  \/ Type
  \/ Loop
  \/ Key

Spec == Init /\ [][Next]_vars

\* The loop turns, a key that waits is read, the human leaves the editor, and a poll succeeds again and again
\* while the daemon answers: half a second goes by.
FairSpec == Spec /\ WF_vars(Loop \/ Key) /\ SF_vars(AskPending)
-----------------------------------------------------------------------------
\* Nothing of a list has gone, and what has come is younger.
Kept(old, new) ==
  /\ ToSet(old) \subseteq ToSet(new)
  /\ \A n \in ToSet(new) \ ToSet(old), o \in ToSet(old) : o < n

(***************************************************************************)
(* What a key sends to the daemon concerns the item that the last frame    *)
(* marks, on its tab, with no overlay over it.  The human may have typed   *)
(* the key at an older frame: it concerns the item which that one marked   *)
(* if it marked one, the selection has not moved since, no item has gone   *)
(* from the list and no older one has come.  Otherwise the key decides on  *)
(* an item that the human did not see marked.                              *)
(***************************************************************************)
ActsOnFrame ==
  [][act' \notin {NoAct, act} =>
       LET saw == Head(waiting) IN
       /\ act'.item = Mark(Drawn)
       /\ Drawn.over = "none"
       /\ Drawn.tab = IF act'.kind = "delete_rule" THEN "policy" ELSE "approvals"
       /\ /\ Mark(saw) # NoItem
          /\ saw.tab = Drawn.tab
          /\ saw.pos = Drawn.pos
          /\ Kept(saw.list, Drawn.list)
          => act'.item = Mark(saw)]_vars

(***************************************************************************)
(* The activity list shows the lines of the log in order and once each,    *)
(* and every line up to the offset that no poll read in the middle of its  *)
(* write.                                                                  *)
(***************************************************************************)
TailComplete ==
  /\ \A i, j \in DOMAIN activity : i < j => activity[i] < activity[j]
  /\ \A n \in 1 .. MaxLines : 2 * n <= offset /\ n \notin torn => n \in ToSet(activity)

(***************************************************************************)
(* A request that stays parked comes up on the screen, whatever keys the   *)
(* human presses, unless the human leaves the screen or the daemon ends.   *)
(***************************************************************************)
ComesUp ==
  \A e \in Entry : e \in ToSet(pending) ~>
    \/ e \in ToSet(seen)
    \/ e \notin ToSet(pending)
    \/ ~up
    \/ pc = "quit"
=============================================================================
