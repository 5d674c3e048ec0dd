---------------------------- MODULE TabContract ----------------------------
(***************************************************************************)
(* What the tab tools promise of the open tabs, whatever happens inside a     *)
(* call: each call takes effect in one step between its request and its       *)
(* answer, and once at most.  A name stands for one tab from the step that     *)
(* opens it to the step that closes it, a tab that has left the table never    *)
(* comes back, and the tab in front stays there until a call asks for another  *)
(* one or it is closed.  A page tool works on the tab that was in front when   *)
(* it was requested.  The docstrings of open_tab, switch_tab and close_tab     *)
(* make the promise (server/multi_tab.py).                                  *)
(***************************************************************************)
EXTENDS Naturals, FiniteSets

CONSTANTS
  Agents,    \* calls that may be under way together
  TabNames,  \* names of tabs
  Tabs,      \* tabs
  NoTab,     \* no tab, no name
  MaxTabs    \* tabs that may be open together

VARIABLES
  table,   \* the tab each name stands for
  front,   \* the name of the tab in front, NoTab while there is none
  used,    \* tabs that are, or were, open, and those that failed to open
  asked    \* what each call asks for and has not been given

contract == <<table, front, used, asked>>

NoCall == [op |-> "none", name |-> NoTab, tab |-> NoTab]

OpenTabs == {n \in TabNames : table[n] # NoTab}

\* The tab a page tool works on.
Driven == IF front = NoTab THEN NoTab ELSE table[front]

\* Once the tab in front has closed, another one takes its place sooner or later.
Fronts == IF front # NoTab THEN {front} ELSE OpenTabs \cup {NoTab}

ContractInit ==
  /\ table = [n \in TabNames |-> NoTab] /\ front = NoTab /\ used = {}
  /\ asked = [a \in Agents |-> NoCall]

Requests == [op : {"open", "switch", "close"}, name : TabNames, tab : {NoTab}]
              \cup {[op |-> "page", name |-> NoTab, tab |-> Driven]}

Served(a) == asked' = [asked EXCEPT ![a] = NoCall]

Asks(a) ==
  /\ asked[a] = NoCall
  /\ asked'[a] \in Requests /\ asked' = [asked EXCEPT ![a] = asked'[a]]
  /\ UNCHANGED <<table, front, used>>

Opens(a) ==
  LET n == asked[a].name IN
  /\ asked[a].op = "open" /\ n \notin OpenTabs /\ Cardinality(OpenTabs) < MaxTabs
  /\ \E t \in Tabs \ used : table' = [table EXCEPT ![n] = t] /\ used' = used \cup {t}
  /\ front' = n /\ Served(a)

Switches(a) ==
  /\ asked[a].op = "switch" /\ asked[a].name \in OpenTabs
  /\ front' = asked[a].name /\ Served(a)
  /\ UNCHANGED <<table, used>>

\* The tab of a name leaves the table; f is in front until then.
Leaves(n, f) ==
  /\ n \in OpenTabs
  /\ table' = [table EXCEPT ![n] = NoTab] /\ front' = (IF f = n THEN NoTab ELSE f)
  /\ UNCHANGED used

Closes(a) == asked[a].op = "close" /\ Leaves(asked[a].name, front) /\ Served(a)

\* A call that looks for a tab, or for room for one, closes tabs that nobody used for long.
Expires(a) ==
  /\ asked[a].op \in {"open", "switch"}
  /\ \E n \in OpenTabs, f \in Fronts : Leaves(n, f)
  /\ UNCHANGED asked

MovesOn == front = NoTab /\ front' \in OpenTabs /\ UNCHANGED <<table, used, asked>>

\* A page tool is done, or a call has failed; a tab it was to open is given up.
Ends(a) ==
  /\ asked[a] # NoCall /\ Served(a)
  /\ front' \in Fronts /\ used \subseteq used' /\ used' \subseteq Tabs
  /\ UNCHANGED table

ContractNext ==
  \/ \E a \in Agents : Asks(a) \/ Opens(a) \/ Switches(a) \/ Closes(a) \/ Expires(a) \/ Ends(a)
  \/ MovesOn

ContractSpec == ContractInit /\ [][ContractNext]_contract
=============================================================================
