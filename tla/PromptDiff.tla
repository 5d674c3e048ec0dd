----------------------------- MODULE PromptDiff -----------------------------
(***************************************************************************)
(* core/serializer.py: what the agent reads of the page maps get_page_map      *)
(* answers one after another on a page, in full or as a diff against the map  *)
(* answered before.                                                         *)
(*                                                                         *)
(* A map is the data its sections are made of; equal data make equal lines.   *)
(* `notices` stands for the sections of warnings, barrier and diagnostics,    *)
(* which a diff neither compares nor shows.  The redaction and the security   *)
(* section of to_agent_prompt_secure are left out.                           *)
(***************************************************************************)
EXTENDS Integers, Sequences

CONSTANTS
  Lists,     \* lists of interactables, see Action
  Infos      \* pruned contexts

\* What a line shows of an interactable but its ref: role, name, affordance, value and options
\* on the one hand, "[via:...]" and "[CDP-detected]" on the other.
Action == [is : STRING, how : {"plain", "via", "cdp"}]

\* A bare e-commerce section renders no line; of images only the first five are shown, which
\* "some" and "more" have in common.
AnswerMap == [ecommerce : {"none", "bare", "full"}, actions : Lists, navigation : {"none", "hints"},
              info : Infos, images : {"none", "some", "more"}, marked : BOOLEAN,
              notices : {"none", "some"}]

ASSUME DiffAssumption == Lists \subseteq Seq(Action) /\ "none" \in Infos

VARIABLES
  answered,   \* the map answered last, which the cache holds
  view        \* what the agent has put together of the answers

dvars == <<answered, view>>

Compared == {"ecommerce", "actions", "navigation", "info", "images"}
Told == Compared \cup {"notices"}

\* [ref] and what the line shows; an element of a pruned region is marked.
ActionLines(m) == [i \in DOMAIN m.actions |-> <<i, m.actions[i].is, m.actions[i].how, m.marked>>]

NoLines == <<>>
LinesOf(data) == IF data = "none" THEN NoLines ELSE <<data>>

EcommerceLines(e) == IF e = "bare" THEN NoLines ELSE LinesOf(e)

\* to_agent_prompt: the sections with their lines.
Prompt(m) ==
  [s \in Told |->
     CASE s = "ecommerce" -> EcommerceLines(m.ecommerce)
       [] s = "actions" -> ActionLines(m)
       [] s = "images" -> IF m.images = "none" THEN NoLines ELSE <<"some">>
       [] OTHER -> LinesOf(m[s])]

\* Mutant of SameActions: elements are compared in pairs, whatever is left over.
SameActions_Zip(old, new) ==
  \A i \in DOMAIN old.actions \cap DOMAIN new.actions : old.actions[i].is = new.actions[i].is

\* _interactables_equal: neither refs, which are places, nor what names the source of an element's
\* name, its detection and its region is compared.
SameActions(old, new) ==
  /\ Len(old.actions) = Len(new.actions)
  /\ \A i \in DOMAIN old.actions : old.actions[i].is = new.actions[i].is

SameSection(s, old, new) == IF s = "actions" THEN SameActions(old, new) ELSE old[s] = new[s]

\* A section of a diff: new lines, or the marker of one whose data have not changed; one that
\* has no data is passed over.
Resent(lines) == [kept |-> FALSE, lines |-> lines]
Marker == [kept |-> TRUE, lines |-> NoLines]
LacksData(s, m) == IF s = "actions" THEN m.actions = <<>> ELSE m[s] = "none"

Section(s, old, new) ==
  CASE s = "notices" -> Resent(NoLines)
    [] s # "notices" /\ ~SameSection(s, old, new) -> Resent(Prompt(new)[s])
    [] OTHER -> IF LacksData(s, new) THEN Resent(NoLines) ELSE Marker

\* to_agent_prompt_diff: the sections; nothing at all but "Status: unchanged" when every one
\* that is compared is the same.
Diff(old, new) ==
  IF \A s \in Compared : SameSection(s, old, new) THEN [s \in Told |-> Marker]
  ELSE [s \in Told |-> Section(s, old, new)]

\* The agent keeps what is unchanged and, of what a diff never tells, what it was told last.
ReadAs(diff) == [s \in Told |-> IF diff[s].kept \/ s = "notices" THEN view[s] ELSE diff[s].lines]

-----------------------------------------------------------------------------
DiffInit == answered \in AnswerMap /\ view = Prompt(answered)

AnswerFull(m) == answered' = m /\ view' = Prompt(m)
AnswerDiff(m) == answered' = m /\ view' = ReadAs(Diff(answered, m))

\* Tier C.
BuiltAnew == \E m \in AnswerMap : AnswerFull(m)

\* Tier A: the cached map itself.
HitAgain == AnswerDiff(answered)

\* Tier B, rebuild_content_only: the interactables are the cached ones, without e-commerce data.  The
\* diff is not worth it when it saves less than a fifth.
ContentRebuilt ==
  \E m \in AnswerMap :
    /\ m.actions = answered.actions /\ m.ecommerce = "none"
    /\ AnswerDiff(m) \/ AnswerFull(m)

\* Tier A or B, and then a barrier was dismissed and the map built again; answered in full it
\* is as in tier C.
RebuiltAfterDismiss == \E m \in AnswerMap : AnswerDiff(m)

DiffNext == BuiltAnew \/ HitAgain \/ ContentRebuilt \/ RebuiltAfterDismiss

DiffSpec == DiffInit /\ [][DiffNext]_dvars

-----------------------------------------------------------------------------
\* "Changed sections are fully re-sent.  Unchanged sections get a compact marker": an agent
\* that reads diff after diff knows of every section that is compared what a full prompt of
\* the current map would say.  Of actions it knows the refs, and each one's role, name,
\* affordance, value and options; "[via:...]", "[CDP-detected]" and "[context pruned]" of
\* actions that are "unchanged" may be old.
DiffsAddUp ==
  \A s \in Compared :
    IF s = "actions"
      THEN [i \in DOMAIN view[s] |-> <<view[s][i][1], view[s][i][2]>>]
             = [i \in DOMAIN answered.actions |-> <<i, answered.actions[i].is>>]
      ELSE view[s] = Prompt(answered)[s]
=============================================================================
