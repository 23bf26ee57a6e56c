------------------------------ MODULE Overlay ------------------------------
(***************************************************************************)
(* The browser extension's search box on Jira pages: the content script    *)
(* (extension/src/content.ts), the overlay it owns (overlay.ts) and the    *)
(* service worker that asks the server (background.ts).  Input is          *)
(* debounced; a search that newer input makes useless is not stopped, its  *)
(* answer is dropped when it comes.  Answers come in any order.            *)
(***************************************************************************)
EXTENDS Naturals

CONSTANTS
  Inputs,      \* what can be typed, beside nothing
  Blank,
  MaxSearches   \* bound of the model

OverlayAssumption == Blank \notin Inputs /\ MaxSearches \in Nat

VARIABLES
  visible, input,  \* the overlay and its field
  debounceTimer,   \* the query of the timer, Blank without one
  search,          \* search[n]: the n-th runSearch
  inflight,        \* the search of the abort controller, 0 for undefined
  view,            \* what the overlay shows, and the query it is about
  typed            \* what was typed last, hidden since or not (auxiliary)

overlayVars == <<visible, input, debounceTimer, search, inflight, view, typed>>

Searches == 1 .. MaxSearches
NoSearch == [at |-> "no", query |-> Blank, aborted |-> FALSE]
Show(kind, query) == view' = [kind |-> kind, query |-> query]

OverlayInit ==
  /\ visible = FALSE /\ input = Blank /\ typed = Blank
  /\ debounceTimer = Blank /\ inflight = 0
  /\ search = [n \in Searches |-> NoSearch]
  /\ view = [kind |-> "nothing", query |-> Blank]

NothingAborted == search
Aborted == IF inflight = 0 THEN search ELSE [search EXCEPT ![inflight].aborted = TRUE]

\* scheduleSearch: what is shown stays until the timer fires.
Type(value) ==
  /\ visible
  /\ input' = value /\ typed' = value
  /\ search' = Aborted /\ inflight' = 0
  /\ debounceTimer' = value
  /\ IF value = Blank THEN Show("hint", Blank) ELSE UNCHANGED view
  /\ UNCHANGED visible

\* runSearch up to the message to the worker; a hidden overlay does not keep it back.
RunSearch(n) ==
  /\ debounceTimer # Blank
  /\ \A k \in Searches : search[k].at = "no" <=> k >= n
  /\ debounceTimer' = Blank
  /\ Show("searching", debounceTimer)
  /\ search' = [search EXCEPT ![n] = [at |-> "asked", query |-> debounceTimer, aborted |-> FALSE]]
  /\ inflight' = n
  /\ UNCHANGED <<visible, input, typed>>

\* What the worker or its loss can answer: hits, maybe none; 401; 429, another status,
\* no server, no settings, no worker.
Outcomes == {"hits", "signin", "error"}

DiscardedIfHidden(n) == search[n].aborted \/ ~visible
IsDiscarded(n) == search[n].aborted

Answer(n, outcome) ==
  /\ search[n].at = "asked"
  /\ search' = [search EXCEPT ![n].at = "answered"]
  /\ IF IsDiscarded(n) THEN UNCHANGED view ELSE Show(outcome, search[n].query)
  /\ UNCHANGED <<visible, input, debounceTimer, inflight, typed>>

\* hide(): the field and the view are emptied; the timer and the search go on.
Hide ==
  /\ visible' = FALSE /\ input' = Blank
  /\ Show("nothing", Blank)
  /\ UNCHANGED <<debounceTimer, search, inflight, typed>>

\* Cmd-K.
Toggle ==
  \/ visible /\ Hide
  \/ /\ ~visible /\ visible' = TRUE
     /\ UNCHANGED <<input, debounceTimer, search, inflight, view, typed>>

\* Enter or a click on a hit; Escape or a click beside the panel is Hide alone.
OpenHit == visible /\ view.kind = "hits" /\ Hide

OverlayNext ==
  \/ \E value \in Inputs \cup {Blank} : Type(value)
  \/ \E n \in Searches : RunSearch(n) \/ \E outcome \in Outcomes : Answer(n, outcome)
  \/ Toggle
  \/ OpenHit

OverlaySpec == OverlayInit /\ [][OverlayNext]_overlayVars

\* Whatever order answers come in, one that is shown is the answer to what was typed
\* last, except while the timer of newer input still runs; after the overlay was hidden
\* the field is empty and does not say what that was.
ShownAnswersLastTyped ==
  view.kind \in Outcomes => /\ view.query = typed \/ debounceTimer # Blank
                            /\ input \in {typed, Blank}

\* "Searching..." is shown only while an answer that will replace it is on its way:
\* dropped answers never leave it standing.
SearchingIsWaiting ==
  view.kind = "searching" => \/ debounceTimer # Blank
                             \/ \E n \in Searches : /\ search[n].at = "asked" /\ ~search[n].aborted
                                                    /\ search[n].query = view.query
=============================================================================
