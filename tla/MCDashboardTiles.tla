-------------------------- MODULE MCDashboardTiles -------------------------
(***************************************************************************)
(* An instance of DashboardTiles: two names per tile and lists of up to    *)
(* three elements, so that a list can be empty, full and one over; every   *)
(* kind of element the parsers tell apart.  One list varies at a time, the *)
(* others are empty or hold one plain element.                             *)
(***************************************************************************)
EXTENDS DashboardTilesProofs, SequencesExt

TwoNames == 2

FormHosts == [scheme : {"", "http", "https", "ws", "wss", "ftp"}, rest : Rests]

Junk == [object |-> FALSE]

State(id, state, attributes, name) ==
    [object |-> TRUE, entity_id |-> id, state |-> state, attributes |-> attributes,
     friendly_name |-> name]
States ==
    {Junk, State("light.hall", "on", "object", "Hall"),
     State("missing", "on", "object", "Core"), State("null", "off", "object", "Core"),
     State("update.core", "off", "text", "missing"),
     State("update.core", "on", "text", "missing"),
     State("update.core", "on", "falsy", "missing")}
    \cup {State("update.addon", "on", "object", n) : n \in {"missing", "null", "blank", "Addon"}}

Issues == {Junk} \cup
    [object : {TRUE}, issue_id : {"issue"}, ignored : {"missing", "null", "false", "true"},
     translation_key : {"missing", "blank", "key"}]

Entries ==
    {Junk} \cup
    [object : {TRUE}, entry_id : {"entry"}, state : {"setup_retry", "loaded", "list"},
     title : {"null", "Title"}, domain : {"missing", "domain"}]

AList(elements) == [list |-> TRUE, elements |-> elements]
NotAList == [list |-> FALSE, elements |-> <<>>]

ListsOf(kinds) == {NotAList} \cup {AList(s) : s \in BoundedSeq(kinds, 3)}

FewStates == {AList(<<>>), AList(<<State("update.core", "on", "object", "Core")>>)}
NoIssues == AList(<<>>)
NoEntries == AList(<<>>)

AnyAnswers ==
    [states : ListsOf(States), issues : {NoIssues}, entries : {NoEntries}] \cup
    [states : FewStates, issues : ListsOf(Issues), entries : {NoEntries}] \cup
    [states : FewStates, issues : {NoIssues}, entries : ListsOf(Entries)]
============================================================================
