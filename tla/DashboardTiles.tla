--------------------------- MODULE DashboardTiles --------------------------
(***************************************************************************)
(* What becomes of the text in the Settings form and of Home Assistant's   *)
(* three answers: a host is validated (schemas/ha_credential.py), turned   *)
(* into the WebSocket URL the fetch connects to and into the base of the   *)
(* tiles' deep links; the answers are parsed (_parse_* of client.py) and   *)
(* cut down to tiles (pages/ha_dashboard_tiles.py).                        *)
(*                                                                         *)
(* Text is abstracted to what the code tells apart.  A field of a JSON     *)
(* object is "missing", "null", "blank" (empty text) or some text; an      *)
(* element that is no object is [object |-> FALSE].                        *)
(***************************************************************************)
EXTENDS Naturals, Sequences, FiniteSets

CONSTANTS
    MaxTileNames,  \* _MAX_TILE_NAMES, 5 in the code
    Hosts,         \* what may be typed into the host field, stripped
    Answers        \* what Home Assistant may answer to the three commands

ASSUME MaxTileNamesAssumption == MaxTileNames \in Nat

VARIABLES
    stage,     \* "form", "rejected", "stored", "failed" or "shown"
    hostUrl,   \* the host in the form, then in the stored credential
    answers,   \* Home Assistant's answers to the last fetch
    socket,    \* the URL the last fetch connected to
    tiles      \* what the page shows

vars == <<stage, hostUrl, answers, socket, tiles>>

----------------------------------------------------------------------------
(* Hosts.  A host is [scheme, rest]; scheme "" is a text that does not     *)
(* begin with one.                                                         *)
PlaintextSchemes == {"http", "ws"}
AllowedSchemes == PlaintextSchemes \cup {"https", "wss"}

Rests == {"home", "home/path", "home?u=://", "", "//home", "["}

(* https is put before a text without "://".  urlsplit takes what follows  *)
(* the scheme up to the next delimiter for the netloc; an unbalanced       *)
(* bracket makes it raise ValueError.                                      *)
Separated(h) == h.scheme # "" \/ h.rest = "home?u=://"
Scheme(h) == IF Separated(h) THEN h.scheme ELSE "https"

Unsplittable(h) == h.rest = "["
Netloc(h) ==
    IF Scheme(h) # "" /\ h.rest \in {"home", "home/path", "home?u=://"} THEN "home" ELSE ""

Url(scheme, h, path) == [scheme |-> scheme, netloc |-> Netloc(h), path |-> path]

(* Mutant: an explicit ws:// is not taken for plaintext.                   *)
WebSocketUrlHttpOnly(h) ==
    Url(IF Scheme(h) = "http" THEN "ws" ELSE "wss", h, "/api/websocket")

WebSocketUrl(h) ==
    Url(IF Scheme(h) \in PlaintextSchemes THEN "ws" ELSE "wss", h, "/api/websocket")

DeepLink(h, path) ==
    Url(IF Scheme(h) \in PlaintextSchemes THEN "http" ELSE "https", h, path)

(* _strip_and_require_non_blank, then _require_connectable_scheme.         *)
Connectable(h) ==
    /\ h # [scheme |-> "", rest |-> ""]
    /\ ~Unsplittable(h)
    /\ Netloc(h) # "" /\ Scheme(h) \in AllowedSchemes

----------------------------------------------------------------------------
(* Parsing.  Falsy values are those `or` and `if` pass over; a parser      *)
(* either raises on its answer or keeps some of its elements.              *)
Falsy == {"missing", "null", "blank"}
UpdateIds == {"update.core", "update.addon"}
ErrorStates == {"setup_error", "setup_retry", "migration_error", "failed_unload"}

Or(value, default) == IF value \in Falsy THEN default ELSE value

(* A null entity_id has no startswith; attributes that are neither falsy   *)
(* nor an object have no get.                                              *)
IsUpdate(e) == e.object /\ e.entity_id \in UpdateIds /\ e.state = "on"
UpdateRaises(e) == \/ e.object /\ e.entity_id = "null"
                   \/ IsUpdate(e) /\ e.attributes = "text"
UpdateItem(e) ==
    [id |-> e.entity_id,
     name |-> IF e.attributes = "object" THEN Or(e.friendly_name, e.entity_id)
                                         ELSE e.entity_id]

(* ignored: any value that is not falsy.  Mutant: issue["translation_key"] *)
(* instead of get.                                                         *)
IsIssue(e) == e.object /\ e.ignored \in Falsy \cup {"false"}
IssueNeedsKey(e) == IsIssue(e) /\ e.translation_key = "missing"
IssueRaises(e) == FALSE

(* RepairIssue's default.  Mutant: the key is taken as it is.              *)
IssueItemAsIs(e) == [id |-> e.issue_id, name |-> e.translation_key]
IssueItem(e) == [id |-> e.issue_id, name |-> Or(e.translation_key, "Unknown issue")]

(* `state not in frozenset` hashes the state: a list in it raises.         *)
IsErrorEntry(e) == e.object /\ e.state \in ErrorStates
EntryRaises(e) == e.object /\ e.state = "list"
EntryItem(e) ==
    [id |-> e.entry_id, name |-> Or(e.title, Or(e.domain, "Unknown integration"))]

(* The answers are JSON: their lists are sequences, and `ignored` is one   *)
(* of the values told apart.                                               *)
IsSequence(s) == s \in Seq({s[i] : i \in DOMAIN s})

ASSUME AnswersAssumption ==
    \A a \in Answers :
        /\ IsSequence(a.states.elements)
        /\ IsSequence(a.issues.elements)
        /\ IsSequence(a.entries.elements)
        /\ \A i \in DOMAIN a.issues.elements :
             LET e == a.issues.elements[i]
             IN  e.object => e.ignored \in Falsy \cup {"false", "true"}

(* The loop of the parsers, after n elements: those at the positions of    *)
(* `kept` have been appended.                                              *)
Loop(elements, kept) ==
    LET upTo[n \in 0..Len(elements)] ==
            IF n = 0 THEN <<>>
            ELSE IF n \in kept THEN Append(upTo[n - 1], elements[n]) ELSE upTo[n - 1]
    IN  upTo

Keep(elements, kept) == Loop(elements, kept)[Len(elements)]

(* The three _parse_* functions, when they do not raise.                   *)
PendingUpdates(elements) ==
    LET kept == Keep(elements, {i \in DOMAIN elements : IsUpdate(elements[i])})
    IN  [i \in DOMAIN kept |-> UpdateItem(kept[i])]

RepairIssues(elements) ==
    LET kept == Keep(elements, {i \in DOMAIN elements : IsIssue(elements[i])})
    IN  [i \in DOMAIN kept |-> IssueItem(kept[i])]

IntegrationErrors(elements) ==
    LET kept == Keep(elements, {i \in DOMAIN elements : IsErrorEntry(elements[i])})
    IN  [i \in DOMAIN kept |-> EntryItem(kept[i])]

Summary(a) ==
    [updates |-> PendingUpdates(a.states.elements),
     repairs |-> RepairIssues(a.issues.elements),
     integrations |-> IntegrationErrors(a.entries.elements)]

(* Any of the three raising fails the whole fetch.                         *)
ParseFails(a) ==
    \/ ~a.states.list \/ ~a.issues.list \/ ~a.entries.list
    \/ \E i \in DOMAIN a.states.elements : UpdateRaises(a.states.elements[i])
    \/ \E i \in DOMAIN a.issues.elements : IssueRaises(a.issues.elements[i])
    \/ \E i \in DOMAIN a.entries.elements : EntryRaises(a.entries.elements[i])

----------------------------------------------------------------------------
(* Tiles.                                                                  *)
AtMost(n, m) == IF n <= m THEN n ELSE m
MoreThan(n, m) == IF n > m THEN n - m ELSE 0

(* Mutant: the remainder is counted from one name too few.                 *)
TileOffByOne(items, link) ==
    [count |-> Len(items),
     names |-> [i \in 1..AtMost(Len(items), MaxTileNames) |-> items[i].name],
     more |-> MoreThan(Len(items) + 1, MaxTileNames),
     link |-> link]

Tile(items, link) ==
    [count |-> Len(items),
     names |-> [i \in 1..AtMost(Len(items), MaxTileNames) |-> items[i].name],
     more |-> MoreThan(Len(items), MaxTileNames),
     link |-> link]

Tiles(s, h) ==
    [updates |-> Tile(s.updates, DeepLink(h, "/config/system/updates")),
     repairs |-> Tile(s.repairs, DeepLink(h, "/config/repairs")),
     integrations |-> Tile(s.integrations, DeepLink(h, "/config/integrations"))]

----------------------------------------------------------------------------
NoAnswers == [states |-> "none"]
NoUrl == [scheme |-> "none"]
NoTiles == [updates |-> "none"]

Init == /\ stage = "form" /\ hostUrl \in Hosts
        /\ answers = NoAnswers /\ socket = NoUrl /\ tiles = NoTiles

(* The form validates, so its host can be fetched from and stored.         *)
Submit ==
    /\ stage = "form"
    /\ stage' = IF Connectable(hostUrl) THEN "stored" ELSE "rejected"
    /\ UNCHANGED <<hostUrl, answers, socket, tiles>>

(* A tiles request with that host, whose exchange succeeds.                *)
ShowTiles ==
    /\ stage = "stored"
    /\ \E a \in Answers :
         /\ answers' = a
         /\ socket' = WebSocketUrl(hostUrl)
         /\ stage' = IF ParseFails(a) THEN "failed" ELSE "shown"
         /\ tiles' = IF ParseFails(a) THEN NoTiles ELSE Tiles(Summary(a), hostUrl)
    /\ UNCHANGED hostUrl

Next == Submit \/ ShowTiles

Spec == Init /\ [][Next]_vars

----------------------------------------------------------------------------
TileNames == {"updates", "repairs", "integrations"}

(* Every tile's deep link leads to the host whose WebSocket answered, by a *)
(* transport as secure as the one it answered on, and is a link at all:    *)
(* the two URLs are built separately, from whatever the validator let by.  *)
LinksReachTheAnsweringHost ==
    stage = "shown" => \A t \in TileNames :
        /\ tiles[t].link.netloc = socket.netloc /\ socket.netloc # ""
        /\ tiles[t].link.scheme = "https" <=> socket.scheme = "wss"

(* The list a tile is about; the positions in it of what it is to report,  *)
(* from what Home Assistant means by the elements rather than from how     *)
(* they are parsed; and the names that such an element offers.             *)
Elements(t) ==
    CASE t = "updates" -> answers.states.elements
      [] t = "repairs" -> answers.issues.elements
      [] t = "integrations" -> answers.entries.elements

IsReported(t, e) ==
    /\ e.object
    /\ CASE t = "updates" -> e.state = "on" /\ e.entity_id \in UpdateIds
         [] t = "repairs" -> e.ignored # "true"
         [] t = "integrations" -> e.state \in ErrorStates

Reported(t) == {i \in DOMAIN Elements(t) : IsReported(t, Elements(t)[i])}

Offered(t, e) ==
    (CASE t = "updates" -> {e.friendly_name, e.entity_id}
       [] t = "repairs" -> {e.translation_key}
       [] t = "integrations" -> {e.title, e.domain}) \ Falsy

(* A tile counts what Home Assistant reported, no more and no less, so it  *)
(* is "all clear" only if nothing was reported; it names as many as it may *)
(* and the names and "+N more" add up to the count; and the names are      *)
(* those of the first elements reported, in their order.                   *)
TilesAreTrue ==
    stage = "shown" => \A t \in TileNames :
        LET tile == tiles[t]
        IN  /\ tile.count = Cardinality(Reported(t))
            /\ Len(tile.names) + tile.more = tile.count
            /\ Len(tile.names) <= MaxTileNames
            /\ tile.more > 0 => Len(tile.names) = MaxTileNames
            /\ \A i \in Reported(t) :
                 LET k == Cardinality({j \in Reported(t) : j <= i})
                     offered == Offered(t, Elements(t)[i])
                 IN  k <= MaxTileNames /\ offered # {} => tile.names[k] \in offered

(* Nothing is shown without a name, whatever fields the elements lack      *)
(* (ha_summary.py:12-18).                                                  *)
NoNameIsBlank ==
    stage = "shown" => \A t \in TileNames :
        \A i \in DOMAIN tiles[t].names : tiles[t].names[i] \notin Falsy

(* Elements as Home Assistant sends them: objects with their identifiers,  *)
(* any optional field missing or null.                                     *)
WellFormed(a) ==
    /\ a.states.list /\ a.issues.list /\ a.entries.list
    /\ \A i \in DOMAIN a.states.elements :
         LET e == a.states.elements[i]
         IN  e.object /\ e.entity_id \notin Falsy /\ e.attributes # "text"
    /\ \A i \in DOMAIN a.issues.elements : a.issues.elements[i].object
    /\ \A i \in DOMAIN a.entries.elements :
         LET e == a.entries.elements[i] IN e.object /\ e.state # "list"

(* One odd but well-formed element never costs the user the whole page.    *)
WellFormedAnswersAreShown ==
    stage = "failed" => ~WellFormed(answers)
============================================================================
