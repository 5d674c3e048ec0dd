---------------------------- MODULE RefContract ----------------------------
(***************************************************************************)
(* What the browser tools promise the agent about refs, whatever happens     *)
(* inside a call: between two calls a ref is resolved in the map the agent    *)
(* was last shown or in none at all, a call keeps the map it began with, and  *)
(* after "refs expired" no ref is accepted until a map is shown again.        *)
(* The serializers and the error texts of server/__init__.py make the promise *)
(* (`_refs_expired_msg`, "No active Page Map. Call get_page_map first").      *)
(***************************************************************************)
CONSTANTS
  NoMap,    \* no map
  Maps,     \* page maps
  Loose     \* TRUE if a call that is told to be retried may leave a map that was not shown

VARIABLES
  shown,    \* the map the agent was last shown
  told,     \* what it was last told of its refs
  usable,   \* the map the next ref is resolved in, NoMap while a call is in progress
  working,  \* the map in which the call in progress resolves its refs
  busy      \* a call is in progress

contract == <<shown, told, usable, working, busy>>

ContractInit ==
  /\ shown = NoMap /\ told = "nothing" /\ usable = NoMap
  /\ working = NoMap /\ busy = FALSE

\* What may be resolved after the agent was shown map and told word.
Promised(map, word) ==
  CASE word = "expired" -> {NoMap}
    [] word = "retry" /\ Loose -> Maps \cup {NoMap}
    [] OTHER -> {NoMap, map}

CallBegins ==
  /\ ~busy /\ busy' = TRUE
  /\ usable' = NoMap
  /\ working' \in {NoMap, usable}
  /\ UNCHANGED <<shown, told>>

RefRefused ==
  /\ ~busy /\ usable = NoMap
  /\ told' = "expired"
  /\ UNCHANGED <<shown, usable, working, busy>>

\* The call is answered: a map is shown, or something is said of the refs, or nothing is.
CallEnds ==
  /\ busy /\ busy' = FALSE
  /\ working' = NoMap
  /\ \/ shown' \in Maps /\ told' = "shown"
     \/ shown' = shown /\ told' \in {told, "expired", "retry"}
  /\ usable' \in Promised(shown', told')

ContractNext == CallBegins \/ RefRefused \/ CallEnds

ContractSpec == ContractInit /\ [][ContractNext]_contract

=============================================================================
