------------------------------ MODULE CompareBasket -----------------------------
(* The basket of files to compare (web_interface/components/compare_routes.py). It is     *)
(* kept in the cookie of the browser: a request carries a copy, and its response          *)
(* replaces the cookie if the copy was changed. Requests of several tabs overlap.         *)
EXTENDS Inputs, Integers, FiniteSets

CONSTANTS Tabs, Selectable,     \* tabs of a browser, and files that can be put into the basket
          Cookies,              \* the baskets to begin with
          MaxTabRequests        \* bound: requests that are sent

VARIABLES cookie,       \* the basket; NoBasket if there is none
          tabs,         \* the request of a tab
          stored,       \* files in the database
          compared,     \* comparisons in the database
          toCompare,    \* comparisons the back end was asked for
          requests      \* how many requests were sent
basketVars == <<cookie, tabs, stored, compared, toCompare, requests>>

Basket(uids) == [kept |-> TRUE, uids |-> uids]
NoBasket == [kept |-> FALSE, uids |-> {}]
NoTask == [op |-> "none", uid |-> "none", basket |-> NoBasket, added |-> {}]

ASSUME BasketConstants ==
    Cookies \subseteq {NoBasket} \union {Basket(uids) : uids \in SUBSET Selectable}

BasketInit ==
    /\ cookie = NoBasket /\ tabs = [t \in Tabs |-> NoTask] /\ stored = Selectable
    /\ compared = {} /\ toCompare = {} /\ requests = 0
PickBasket == Choose("basket", Cookies) /\ cookie' = input'.arg /\ UNCHANGED <<tabs, stored, compared, toCompare, requests>>

Send(t, op, uid) ==
    /\ Given("basket") /\ tabs[t] = NoTask /\ requests < MaxTabRequests
    /\ tabs' = [tabs EXCEPT ![t] = [op |-> op, uid |-> uid, basket |-> cookie, added |-> {}]] /\ requests' = requests + 1
    /\ UNCHANGED <<input, cookie, stored, compared, toCompare>>
Handles(t, op) == tabs[t].op = op

\* get_comparison_uid_dict_from_session: an empty basket is put in the place of None
UidDict(t) == Basket(tabs[t].basket.uids)
\* The session counts as changed if its basket was, and always after add and remove_all.
Modified(t, basket) == basket # tabs[t].basket \/ tabs[t].op \in {"add", "remove_all"}
\* The response sets the cookie only if the session was changed. What other responses added
\* to the cookie meanwhile is noted for the requests that are still on their way.
Respond(t, basket) ==
    LET new == IF Modified(t, basket) THEN basket ELSE cookie
    IN  /\ cookie' = new
        /\ tabs' = [s \in Tabs |-> IF s = t THEN NoTask ELSE IF tabs[s] = NoTask THEN NoTask
                                   ELSE [tabs[s] EXCEPT !.added = @ \union (new.uids \ cookie.uids)]]
Unchanged == UNCHANGED <<input, stored, compared, toCompare, requests>>

ShowAnalysis(t) == Handles(t, "show") /\ Respond(t, UidDict(t)) /\ Unchanged
\* Mutant: the new file replaces the basket
AddKeepingOne(t) == Handles(t, "add") /\ Respond(t, Basket({tabs[t].uid})) /\ Unchanged

AddToCompareBasket(t) == Handles(t, "add") /\ Respond(t, Basket(UidDict(t).uids \union {tabs[t].uid})) /\ Unchanged
RemoveFromCompareBasket(t) == Handles(t, "remove") /\ Respond(t, Basket(UidDict(t).uids \ {tabs[t].uid})) /\ Unchanged
RemoveAllFromCompareBasket(t) == Handles(t, "remove_all") /\ Respond(t, Basket({})) /\ Unchanged

\* start_compare: the basket is emptied before the database is asked whether its files exist
StartCompareRequest(t) ==
    LET id == UidDict(t).uids
    IN  /\ tabs[t].op \in {"start", "redo"}
        /\ \/ Cardinality(id) < 2 /\ Respond(t, UidDict(t)) /\ UNCHANGED toCompare
           \/ Cardinality(id) >= 2 /\ Respond(t, NoBasket)
              /\ toCompare' = IF id \subseteq stored /\ (tabs[t].op = "redo" \/ id \notin compared) THEN toCompare \union {id} ELSE toCompare
        /\ UNCHANGED <<input, stored, compared, requests>>
\* start_text_file_comparison: the page that it redirects to looks at the MIME types
StartTextFileComparison(t) ==
    /\ Handles(t, "text")
    /\ Respond(t, IF Cardinality(UidDict(t).uids) = 2 THEN Basket({}) ELSE UidDict(t))
    /\ Unchanged
\* show_compare_result: without a result the page says that it has to wait
ShowCompareResult(id) == IF ~(id \subseteq stored) THEN "error" ELSE IF id \in compared THEN "result" ELSE "wait"

\* The back end compares what it was asked to; files are deleted, and their comparisons.
Compares == \E id \in toCompare :
    /\ toCompare' = toCompare \ {id} /\ compared' = (IF id \subseteq stored THEN compared \union {id} ELSE compared)
    /\ UNCHANGED <<input, cookie, tabs, stored, requests>>
DeleteFile == \E u \in stored :
    /\ Given("basket") /\ stored' = stored \ {u} /\ compared' = {id \in compared : u \notin id}
    /\ UNCHANGED <<input, cookie, tabs, toCompare, requests>>

BasketNext ==
    \/ \E t \in Tabs, op \in {"show", "remove_all", "start", "redo", "text"} : Send(t, op, "none")
    \/ \E t \in Tabs, op \in {"add", "remove"}, u \in Selectable : Send(t, op, u)
    \/ \E t \in Tabs : ShowAnalysis(t) \/ AddToCompareBasket(t) \/ RemoveFromCompareBasket(t) \/ RemoveAllFromCompareBasket(t)
                        \/ StartCompareRequest(t) \/ StartTextFileComparison(t)
    \/ Compares \/ DeleteFile

BasketSpec == input = Nothing /\ BasketInit /\ [][PickBasket \/ BasketNext]_<<input, basketVars>>

--------------------------------------------------------------------------------
Answered(t) == tabs[t] # NoTask /\ tabs'[t] = NoTask

\* A file leaves the basket because it was removed, or the basket was used or emptied by the
\* request that is answered, unless it was added while that request was on its way: then
\* any response that changes its own copy loses it, even that of a page that only shows an
\* analysis.
EntriesLostOnlyByOverlap ==
    [][\A u \in cookie.uids \ cookie'.uids : \E t \in Tabs :
        /\ Answered(t)
        /\ \/ u \in tabs[t].added
           \/ u \in tabs[t].basket.uids /\ (tabs[t].op \in {"remove_all", "start", "redo", "text"} \/ (tabs[t].op = "remove" /\ tabs[t].uid = u))]_basketVars

\* A request that uses up the basket leads to a comparison: for two text files a diff, for
\* two or more files a result that is there or that the back end was asked for, so that the
\* page which waits for it ends. Only if one of the files was deleted the selection is lost.
BasketIsUsedForAComparison ==
    [][\A t \in Tabs :
        LET id == tabs[t].basket.uids
        IN  (Answered(t) /\ id # {} /\ cookie'.uids = {} /\ tabs[t].op \in {"start", "redo", "text"} /\ id \cap cookie.uids # {}) =>
                \/ tabs[t].op = "text" /\ Cardinality(id) = 2
                \/ Cardinality(id) >= 2 /\ ShowCompareResult(id) = "error"
                \/ Cardinality(id) >= 2 /\ (ShowCompareResult(id) = "result" \/ id \in toCompare')]_basketVars

\* The compare basket keeps its entries until they are used for a comparison.
BasketIsKept ==
    /\ EntriesLostOnlyByOverlap
    /\ BasketIsUsedForAComparison
================================================================================
