------------------------------ MODULE MemoryPage ------------------------------
(***************************************************************************)
(* The memory page (components/memory/memory-browser.tsx and its parts):   *)
(* a search as the user types, and the dialog that deletes or forgets an   *)
(* entry.  A React effect is part of the change that triggers it.          *)
(*                                                                         *)
(* External: the memory service; the hook useMemoryEntries that lists the  *)
(* entries while nothing is searched for; other users.                     *)
(***************************************************************************)
EXTENDS Naturals

CONSTANTS
  Entries,        \* memory entries
  Queries,        \* what may be typed, "" among it
  Options,        \* strategies and type filters
  MaxChanges,     \* bound: changes of the query and of the options
  MaxMutations    \* bound: deletions and forgettings

(* What the search field holds at first. *)
NoQuery == ""

ASSUME MemoryAssumption ==
  NoQuery \in Queries /\ "naive" \in Options /\ {MaxChanges, MaxMutations} \subseteq Nat

CONSTANT None   \* no entry, no results, no action
ASSUME NoneAssumption ==
  /\ None \notin Entries \cup {"delete", "forget"}
  /\ None \notin [query : Queries, option : Options, found : SUBSET Entries]

VARIABLES
  stored,       \* what the memory service holds
  listed,       \* the entries of the last listing
  refetching,   \* is a listing under way?
  query, option,
  fetchId,      \* searchFetchIdRef
  timer,        \* the debounce: the number of the fetch it will make, or 0
  fetches,      \* searches under way
  results,      \* searchResults, and what was searched for
  searching, searchError,
  selected, dialogOpen, confirmAction,
  mutation,     \* the request of the dialog under way (deleting, forgetting)
  detailError,
  changes, mutations   \* counters for the bounds

search    == <<query, option, fetchId, timer, fetches, results, searching, searchError, changes>>
listing   == <<stored, listed, refetching>>
detail    == <<selected, dialogOpen, confirmAction, mutation, detailError, mutations>>
memoryVars == <<search, listing, detail>>

MemoryInit ==
  /\ stored = Entries /\ listed = Entries /\ refetching = FALSE
  /\ query = NoQuery /\ option = "naive"
  /\ fetchId = 0 /\ timer = 0 /\ fetches = {}
  /\ results = None /\ searching = FALSE /\ searchError = FALSE
  /\ selected = None /\ dialogOpen = FALSE /\ confirmAction = None
  /\ mutation = None /\ detailError = FALSE
  /\ changes = 0 /\ mutations = 0

-----------------------------------------------------------------------------
(* Search. *)

(* The effect on [query, executeSearch]: its clean-up drops the debounce,  *)
(* and a new number makes every earlier fetch stale.                       *)
SearchEffect(q) ==
  /\ fetchId' = fetchId + 1
  /\ searchError' = FALSE
  /\ IF q = NoQuery THEN results' = None /\ searching' = FALSE /\ timer' = 0
     ELSE searching' = TRUE /\ timer' = fetchId' /\ UNCHANGED results

SetQuery(q) ==
  /\ ~dialogOpen /\ q # query /\ query' = q
  /\ changes < MaxChanges /\ changes' = changes + 1
  /\ SearchEffect(q)
  /\ UNCHANGED <<option, fetches, listing, detail>>

(* handleStrategyChange, handleTypeFilterChange: a type filter makes the   *)
(* plain listing again as well.  Paging is left out.                       *)
SetOption(o) ==
  /\ ~dialogOpen /\ o # option /\ option' = o
  /\ changes < MaxChanges /\ changes' = changes + 1
  /\ SearchEffect(query)
  /\ refetching' \in {refetching, TRUE}
  /\ UNCHANGED <<query, fetches, stored, listed, detail>>

(* 300 ms later. *)
ExecuteSearch ==
  /\ timer # 0 /\ timer' = 0
  /\ fetches' = fetches \cup {[id |-> timer, query |-> query, option |-> option]}
  /\ UNCHANGED <<query, option, fetchId, results, searching, searchError, changes,
                 listing, detail>>

NeverStale(f) == FALSE

(* fetchId !== searchFetchIdRef.current. *)
Stale(f) == f.id # fetchId

SearchEnds(f) ==
  /\ fetches' = fetches \ {f}
  /\ IF Stale(f) THEN UNCHANGED <<results, searching, searchError>>
     ELSE /\ \/ /\ results' = [query |-> f.query, option |-> f.option, found |-> stored]
                /\ UNCHANGED searchError
             \/ searchError' = TRUE /\ UNCHANGED results
          /\ searching' = FALSE
  /\ UNCHANGED <<query, option, fetchId, timer, changes, listing, detail>>

-----------------------------------------------------------------------------
(* The entries and their dialog. *)

Displayed ==
  IF query = NoQuery THEN listed ELSE IF results = None THEN {} ELSE results.found

Select(e) ==
  /\ ~dialogOpen /\ e \in Displayed
  /\ selected' = e /\ dialogOpen' = TRUE
  /\ UNCHANGED <<search, listing, confirmAction, mutation, detailError, mutations>>

(* Also while its request is under way. *)
CloseDialog ==
  /\ dialogOpen /\ confirmAction = None
  /\ dialogOpen' = FALSE
  /\ UNCHANGED <<search, listing, selected, confirmAction, mutation, detailError, mutations>>

(* The two buttons are disabled while a request is under way. *)
Ask(action) ==
  /\ dialogOpen /\ confirmAction = None /\ mutation = None
  /\ confirmAction' = action
  /\ UNCHANGED <<search, listing, selected, dialogOpen, mutation, detailError, mutations>>

Dismiss ==
  /\ confirmAction # None /\ confirmAction' = None
  /\ UNCHANGED <<search, listing, selected, dialogOpen, mutation, detailError, mutations>>

(* handleDelete, handleForget. *)
Confirm ==
  /\ confirmAction # None /\ confirmAction' = None
  /\ mutations < MaxMutations /\ mutations' = mutations + 1
  /\ mutation' = [action |-> confirmAction, entry |-> selected, at |-> "server"]
  /\ detailError' = FALSE
  /\ UNCHANGED <<search, listing, selected, dialogOpen>>

(* An entry that is deleted or forgotten is found no more; one that is     *)
(* gone already, or a service that fails or is slow, is an error.          *)
ServeMutation(at) ==
  /\ mutation # None /\ mutation.at = "server"
  /\ \/ at = "ok" /\ mutation.entry \in stored /\ stored' = stored \ {mutation.entry}
     \/ at = "failed" /\ stored' \in {stored, stored \ {mutation.entry}}
  /\ mutation' = [mutation EXCEPT !.at = at]
  /\ UNCHANGED <<search, listed, refetching, selected, dialogOpen, confirmAction,
                 detailError, mutations>>

(* handleMutate lists the entries again, but does not search again.  The   *)
(* dialog is closed whatever entry it shows by now.                        *)
Mutated ==
  /\ mutation # None /\ mutation.at # "server" /\ mutation' = None
  /\ confirmAction' = None
  /\ IF mutation.at = "ok"
     THEN /\ dialogOpen' = FALSE /\ selected' = None /\ refetching' = TRUE
          /\ UNCHANGED detailError
     ELSE /\ detailError' = TRUE
          /\ UNCHANGED <<dialogOpen, selected, refetching>>
  /\ UNCHANGED <<search, stored, listed, mutations>>

(* useMemoryEntries. *)
List ==
  /\ refetching /\ refetching' = FALSE
  /\ listed' \in {stored, listed}
  /\ UNCHANGED <<search, stored, detail>>

MemoryNext ==
  \/ \E q \in Queries : SetQuery(q)
  \/ \E o \in Options : SetOption(o)
  \/ ExecuteSearch
  \/ \E f \in fetches : SearchEnds(f)
  \/ \E e \in Entries : Select(e)
  \/ CloseDialog \/ Dismiss \/ Confirm
  \/ \E a \in {"delete", "forget"} : Ask(a)
  \/ \E at \in {"ok", "failed"} : ServeMutation(at)
  \/ Mutated \/ List

-----------------------------------------------------------------------------
(* When the page neither searches nor shows an error, the results are      *)
(* those of the query and options shown, however many searches were        *)
(* overtaken by later ones and in whatever order they were answered.       *)
SearchIsCurrent ==
  query # NoQuery /\ ~searching /\ ~searchError =>
    results # None /\ results.query = query /\ results.option = option
=============================================================================
