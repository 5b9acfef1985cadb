------------------------ MODULE DashboardTilesProofs -----------------------
(***************************************************************************)
(* Theorems of DashboardTiles, for every set of hosts and of answers and   *)
(* every number of names a tile may show.                                  *)
(***************************************************************************)
EXTENDS DashboardTiles, FiniteSetTheorems, WellFoundedInduction, TLAPS

----------------------------------------------------------------------------
(* Induction over the natural numbers, stated with a set in place of the   *)
(* predicate that the library's theorems take: a least element exists      *)
(* because the intervals below the elements are ordered by inclusion.      *)
LEMMA LeastElement ==
    ASSUME NEW T, T \subseteq Nat, T # {}
    PROVE  \E x \in T : \A y \in T : ~(y < x)
<1> DEFINE Below == {0..(x - 1) : x \in T}
<1>1. Below \subseteq FiniteSubsetsOf(Nat) /\ Below # {}
    <2>1. \A x \in T : 0..(x - 1) \in SUBSET Nat /\ IsFiniteSet(0..(x - 1))
        BY FS_Interval
    <2> QED BY <2>1 DEF FiniteSubsetsOf
<1>2. PICK D \in Below : \A E \in Below : ~(<<E, D>> \in StrictSubsetOrdering(Nat))
    <2> HIDE DEF Below
    <2> QED BY <1>1, FS_StrictSubsetOrderingWellFounded, WFMin
<1>3. PICK x \in T : D = 0..(x - 1)
    OBVIOUS
<1>4. ASSUME NEW y \in T, y < x PROVE FALSE
    <2>1. /\ 0..(y - 1) \in SUBSET Nat /\ 0..(x - 1) \in SUBSET Nat
          /\ 0..(y - 1) \subseteq 0..(x - 1)
        BY <1>4
    <2>2. y \in 0..(x - 1) /\ y \notin 0..(y - 1)
        BY <1>4
    <2>3. <<0..(y - 1), D>> \in StrictSubsetOrdering(Nat)
        BY <2>1, <2>2, <1>3 DEF StrictSubsetOrdering
    <2> QED BY <1>2, <2>3
<1> QED BY <1>4

LEMMA SetInduction ==
    ASSUME NEW T, 0 \in T, \A n \in Nat : n \in T => n + 1 \in T
    PROVE  Nat \subseteq T
<1> SUFFICES ASSUME ~(Nat \subseteq T) PROVE FALSE
    OBVIOUS
<1>1. PICK x \in Nat \ T : \A y \in Nat \ T : ~(y < x)
    BY LeastElement
<1>2. x # 0 /\ x - 1 \in Nat /\ x - 1 \in T
    BY <1>1
<1> QED BY <1>1, <1>2

----------------------------------------------------------------------------
(* The loop of the parsers is the function that its definition says.       *)
IsLoop(f, s, kept, m) ==
    f = [n \in 0..m |-> IF n = 0 THEN <<>>
                        ELSE IF n \in kept THEN Append(f[n - 1], s[n]) ELSE f[n - 1]]

LEMMA LoopExists ==
    ASSUME NEW s, NEW kept, NEW m \in Nat
    PROVE  \E f : IsLoop(f, s, kept, m)
<1> DEFINE Body(f, n) == IF n = 0 THEN <<>>
                         ELSE IF n \in kept THEN Append(f[n - 1], s[n]) ELSE f[n - 1]
           T == {k \in Nat : \E f : f = [n \in 0..k |-> Body(f, n)]}
<1>1. 0 \in T
    <2> DEFINE g == [n \in 0..0 |-> <<>>]
    <2>1. g = [n \in 0..0 |-> Body(g, n)]
        OBVIOUS
    <2> QED BY <2>1
<1>2. ASSUME NEW k \in Nat, k \in T PROVE k + 1 \in T
    <2>1. PICK f : f = [n \in 0..k |-> Body(f, n)]
        BY <1>2
    <2> DEFINE g == [n \in 0..(k + 1) |->
                       IF n <= k THEN f[n]
                       ELSE IF n \in kept THEN Append(f[k], s[n]) ELSE f[k]]
    <2>2. ASSUME NEW n \in 0..(k + 1) PROVE g[n] = Body(g, n)
        <3>1. CASE n = 0
            <4>1. f[0] = Body(f, 0)  BY <2>1
            <4> QED BY <3>1, <4>1
        <3>2. CASE n # 0 /\ n <= k
            <4> DEFINE h == [i \in 0..k |-> Body(f, i)]
            <4>1. f[n] = Body(f, n)
                <5>1. h[n] = Body(f, n)  BY <3>2
                <5>2. f = h  BY <2>1
                <5> HIDE DEF h, Body
                <5> QED BY <5>1, <5>2
            <4>2. g[n] = f[n] /\ g[n - 1] = f[n - 1]  BY <3>2
            <4> HIDE DEF g
            <4> QED BY <3>2, <4>1, <4>2
        <3>3. CASE n = k + 1
            <4>1. g[n - 1] = f[k]  BY <3>3
            <4>2. g[n] = IF n \in kept THEN Append(f[k], s[n]) ELSE f[k]  BY <3>3
            <4> HIDE DEF g
            <4> QED BY <3>3, <4>1, <4>2
        <3> QED BY <3>1, <3>2, <3>3
    <2>3. g = [n \in 0..(k + 1) |-> Body(g, n)]
        <3>1. DOMAIN g = 0..(k + 1) /\ g = [n \in 0..(k + 1) |-> g[n]]
            OBVIOUS
        <3> HIDE DEF g, Body
        <3> QED BY <2>2, <3>1
    <2> HIDE DEF g, Body
    <2> QED BY <2>3
<1>3. m \in T
    <2> HIDE DEF T
    <2> QED BY <1>1, <1>2, SetInduction
<1> QED BY <1>3 DEF IsLoop

LEMMA LoopUnfolds ==
    ASSUME NEW s, NEW kept, Len(s) \in Nat
    PROVE  /\ Loop(s, kept)[0] = <<>>
           /\ \A n \in 1..Len(s) :
                 Loop(s, kept)[n] = IF n \in kept THEN Append(Loop(s, kept)[n - 1], s[n])
                                                  ELSE Loop(s, kept)[n - 1]
<1> DEFINE f == Loop(s, kept)
           Body(g, n) == IF n = 0 THEN <<>>
                         ELSE IF n \in kept THEN Append(g[n - 1], s[n]) ELSE g[n - 1]
           h == [n \in 0..Len(s) |-> Body(f, n)]
<1>1. f = CHOOSE g : IsLoop(g, s, kept, Len(s))
    BY DEF Loop, IsLoop
<1>2. f = h
    <2>1. \E g : IsLoop(g, s, kept, Len(s))
        BY LoopExists
    <2>2. IsLoop(f, s, kept, Len(s))
        <3> HIDE DEF f
        <3> QED BY <1>1, <2>1
    <2> HIDE DEF f
    <2> QED BY <2>2 DEF IsLoop
<1>3. f[0] = <<>> /\ \A n \in 1..Len(s) :
          f[n] = IF n \in kept THEN Append(f[n - 1], s[n]) ELSE f[n - 1]
    <2> HIDE DEF f
    <2>1. h[0] = <<>>
        OBVIOUS
    <2>2. ASSUME NEW n \in 1..Len(s)
          PROVE  h[n] = IF n \in kept THEN Append(f[n - 1], s[n]) ELSE f[n - 1]
        OBVIOUS
    <2> HIDE DEF h
    <2> QED BY <1>2, <2>1, <2>2
<1> QED BY <1>3 DEF f

(* What the loop has built after n elements: the kept ones among them,     *)
(* each at the position that the number of those before it gives it.       *)
First(kept, n) == kept \cap 1..n
Built(f, s, kept, n) ==
    /\ IsFiniteSet(First(kept, n))
    /\ Len(f) = Cardinality(First(kept, n))
    /\ \A j \in 1..Len(f) : \E i \in First(kept, n) : f[j] = s[i]
    /\ \A i \in First(kept, n) :
         /\ Cardinality(First(kept, i)) \in 1..Len(f)
         /\ f[Cardinality(First(kept, i))] = s[i]

LEMMA LoopBuilds ==
    ASSUME NEW S, NEW s \in Seq(S), NEW kept, kept \subseteq 1..Len(s), NEW n \in 0..Len(s)
    PROVE  Loop(s, kept)[n] \in Seq(S) /\ Built(Loop(s, kept)[n], s, kept, n)
<1> DEFINE f == Loop(s, kept)
           Good(k) == f[k] \in Seq(S) /\ Built(f[k], s, kept, k)
           T == {k \in Nat : k <= Len(s) => Good(k)}
<1>0. Len(s) \in Nat
    OBVIOUS
<1>1. 0 \in T
    <2>1. f[0] = <<>>
        BY <1>0, LoopUnfolds
    <2>2. First(kept, 0) = {}
        BY DEF First
    <2>3. IsFiniteSet({}) /\ Cardinality({}) = 0
        BY FS_EmptySet
    <2> HIDE DEF f
    <2>4. <<>> \in Seq(S) /\ Len(<<>>) = 0
        OBVIOUS
    <2>5. Built(<<>>, s, kept, 0)
        <3>1. First(kept, 0) = {} /\ 1..0 = {}
            BY <2>2
        <3> QED BY <2>3, <2>4, <3>1 DEF Built
    <2>6. Good(0)
        BY <2>1, <2>4, <2>5
    <2> HIDE DEF Good
    <2> QED BY <2>6
<1>2. ASSUME NEW k \in Nat, k \in T PROVE k + 1 \in T
    <2> SUFFICES ASSUME k + 1 <= Len(s) PROVE Good(k + 1)
        OBVIOUS
    <2>1. Good(k)
        BY <1>0, <1>2
    <2>2. f[k + 1] = IF k + 1 \in kept THEN Append(f[k], s[k + 1]) ELSE f[k]
        <3>1. k + 1 \in 1..Len(s) /\ (k + 1) - 1 = k
            BY <1>0
        <3> QED BY <1>0, <3>1, LoopUnfolds
    <2> HIDE DEF f
    <2>3. CASE k + 1 \notin kept
        <3>1. First(kept, k + 1) = First(kept, k)
            BY <2>3 DEF First
        <3> QED BY <2>1, <2>2, <2>3, <3>1 DEF Built
    <2>4. CASE k + 1 \in kept
        <3>1. First(kept, k + 1) = First(kept, k) \cup {k + 1} /\ k + 1 \notin First(kept, k)
            BY <2>4 DEF First
        <3>2. /\ IsFiniteSet(First(kept, k + 1))
              /\ Cardinality(First(kept, k + 1)) = Cardinality(First(kept, k)) + 1
            <4>1. IsFiniteSet(First(kept, k))
                BY <2>1 DEF Built
            <4> QED BY <3>1, <4>1, FS_AddElement
        <3>3. s[k + 1] \in S
            BY <1>0
        <3>4. /\ f[k + 1] \in Seq(S) /\ Len(f[k + 1]) = Len(f[k]) + 1
              /\ \A j \in 1..Len(f[k]) : f[k + 1][j] = f[k][j]
              /\ f[k + 1][Len(f[k]) + 1] = s[k + 1]
              /\ Len(f[k]) \in Nat
            BY <2>1, <2>2, <2>4, <3>3
        <3>5. Len(f[k + 1]) = Cardinality(First(kept, k + 1))
            BY <2>1, <3>2, <3>4 DEF Built
        <3>6. ASSUME NEW j \in 1..Len(f[k + 1])
              PROVE  \E i \in First(kept, k + 1) : f[k + 1][j] = s[i]
            <4>1. CASE j \in 1..Len(f[k])
                BY <2>1, <3>1, <3>4, <4>1 DEF Built
            <4>2. CASE j = Len(f[k]) + 1
                BY <3>1, <3>4, <4>2
            <4> QED BY <3>4, <4>1, <4>2
        <3>7. ASSUME NEW i \in First(kept, k + 1)
              PROVE  /\ Cardinality(First(kept, i)) \in 1..Len(f[k + 1])
                     /\ f[k + 1][Cardinality(First(kept, i))] = s[i]
            <4>1. CASE i \in First(kept, k)
                <5>1. /\ Cardinality(First(kept, i)) \in 1..Len(f[k])
                      /\ f[k][Cardinality(First(kept, i))] = s[i]
                    BY <2>1, <4>1 DEF Built
                <5> QED BY <3>4, <5>1
            <4>2. CASE i = k + 1
                BY <3>2, <3>4, <3>5, <4>2
            <4> QED BY <3>1, <4>1, <4>2
        <3> QED BY <3>2, <3>4, <3>5, <3>6, <3>7 DEF Built
    <2> QED BY <2>3, <2>4
<1>3. n \in T
    <2> HIDE DEF T
    <2> QED BY <1>0, <1>1, <1>2, SetInduction
<1> QED BY <1>0, <1>3

(* A parser keeps what it should, all of it and in the order it came.      *)
LEMMA KeepFacts ==
    ASSUME NEW S, NEW s \in Seq(S), NEW kept, kept \subseteq DOMAIN s
    PROVE  /\ Keep(s, kept) \in Seq(S)
           /\ IsFiniteSet(kept) /\ Len(Keep(s, kept)) = Cardinality(kept)
           /\ \A j \in DOMAIN Keep(s, kept) : \E i \in kept : Keep(s, kept)[j] = s[i]
           /\ \A i \in kept : /\ Cardinality(First(kept, i)) \in DOMAIN Keep(s, kept)
                             /\ Keep(s, kept)[Cardinality(First(kept, i))] = s[i]
<1>1. Len(s) \in Nat /\ kept \subseteq 1..Len(s) /\ Len(s) \in 0..Len(s)
    OBVIOUS
<1>2. Keep(s, kept) \in Seq(S) /\ Built(Keep(s, kept), s, kept, Len(s))
    BY <1>1, LoopBuilds DEF Keep
<1>3. First(kept, Len(s)) = kept
    BY <1>1 DEF First
<1>4. DOMAIN Keep(s, kept) = 1..Len(Keep(s, kept))
    BY <1>2
<1> QED BY <1>2, <1>3, <1>4 DEF Built

----------------------------------------------------------------------------
(* However many items there are, the names a tile shows and its "+N more"  *)
(* add up to its count, and the names are cut off at MaxTileNames exactly. *)
LEMMA TileAddsUp ==
    ASSUME NEW S, NEW items \in Seq(S), NEW link
    PROVE  LET tile == Tile(items, link)
           IN  /\ Len(tile.names) + tile.more = tile.count
               /\ Len(tile.names) <= MaxTileNames
               /\ tile.more > 0 => Len(tile.names) = MaxTileNames
<1> DEFINE shown == AtMost(Len(items), MaxTileNames)
<1> DEFINE names == [i \in 1..shown |-> items[i].name]
<1>1. Len(items) \in Nat /\ MaxTileNames \in Nat
    BY MaxTileNamesAssumption
<1>2. shown \in Nat
    BY <1>1 DEF AtMost
<1>3. Len(names) = shown
    BY <1>2
<1>4. Tile(items, link).names = names /\ Tile(items, link).count = Len(items)
      /\ Tile(items, link).more = MoreThan(Len(items), MaxTileNames)
    BY DEF Tile
<1> HIDE DEF names
<1> QED BY <1>1, <1>3, <1>4 DEF AtMost, MoreThan

(* A host the form accepts has a netloc and one of the four schemes.       *)
LEMMA AcceptedHosts ==
    ASSUME NEW h, Connectable(h)
    PROVE  Netloc(h) = "home" /\ Scheme(h) \in AllowedSchemes
BY DEF Connectable, Netloc

(* The two URLs built from an accepted host agree on netloc and security.  *)
LEMMA UrlsAgree ==
    ASSUME NEW h, NEW path, Connectable(h)
    PROVE  /\ DeepLink(h, path).netloc = WebSocketUrl(h).netloc
           /\ WebSocketUrl(h).netloc # ""
           /\ DeepLink(h, path).scheme = "https" <=> WebSocketUrl(h).scheme = "wss"
BY AcceptedHosts DEF DeepLink, WebSocketUrl, Url

----------------------------------------------------------------------------
(* What is shown was built from the host the last fetch connected to, and  *)
(* that host was accepted.                                                 *)
LinkInv ==
    /\ stage \in {"form", "rejected", "stored", "failed", "shown"}
    /\ stage \in {"stored", "failed", "shown"} => Connectable(hostUrl)
    /\ stage = "shown" => /\ socket = WebSocketUrl(hostUrl)
                          /\ \E s : tiles = Tiles(s, hostUrl)

(* The invariant is inductive.                                             *)
THEOREM LinkInvariance == Spec => []LinkInv
<1>1. Init => LinkInv
    BY DEF Init, LinkInv
<1>2. LinkInv /\ [Next]_vars => LinkInv'
    <2> SUFFICES ASSUME LinkInv, [Next]_vars PROVE LinkInv'
        OBVIOUS
    <2>1. CASE Submit
        BY <2>1 DEF Submit, LinkInv
    <2>2. CASE ShowTiles
        BY <2>2 DEF ShowTiles, LinkInv
    <2>3. CASE UNCHANGED vars
        BY <2>3 DEF vars, LinkInv
    <2> QED BY <2>1, <2>2, <2>3 DEF Next
<1> QED BY <1>1, <1>2, PTL DEF Spec

(* The deep links of a shown page lead to the host whose WebSocket         *)
(* answered, as securely, whatever was typed into the form.                *)
THEOREM LinksAreSound == Spec => []LinksReachTheAnsweringHost
<1>1. LinkInv => LinksReachTheAnsweringHost
    <2> SUFFICES ASSUME LinkInv, stage = "shown", NEW t \in TileNames
                 PROVE  /\ tiles[t].link.netloc = socket.netloc /\ socket.netloc # ""
                        /\ tiles[t].link.scheme = "https" <=> socket.scheme = "wss"
        BY DEF LinksReachTheAnsweringHost
    <2>1. Connectable(hostUrl) /\ socket = WebSocketUrl(hostUrl)
        BY DEF LinkInv
    <2>2. PICK s : tiles = Tiles(s, hostUrl)
        BY DEF LinkInv
    <2>3. \E path : tiles[t].link = DeepLink(hostUrl, path)
        BY <2>2 DEF Tiles, Tile, TileNames
    <2>4. PICK path : tiles[t].link = DeepLink(hostUrl, path)
        BY <2>3
    <2> QED BY <2>1, <2>4, UrlsAgree
<1> QED BY LinkInvariance, <1>1, PTL

----------------------------------------------------------------------------
(* What is shown, or failed, was made of one of the answers.               *)
AnswerInv ==
    /\ stage \in {"shown", "failed"} => answers \in Answers
    /\ stage = "failed" => ParseFails(answers)
    /\ stage = "shown" => \E h : tiles = Tiles(Summary(answers), h)

LEMMA AnswerInvariance == Spec => []AnswerInv
<1>1. Init => AnswerInv
    BY DEF Init, AnswerInv
<1>2. AnswerInv /\ [Next]_vars => AnswerInv'
    <2> SUFFICES ASSUME AnswerInv, [Next]_vars PROVE AnswerInv'
        OBVIOUS
    <2>1. CASE Submit
        BY <2>1 DEF Submit, AnswerInv
    <2>2. CASE ShowTiles
        BY <2>2 DEF ShowTiles, AnswerInv
    <2>3. CASE UNCHANGED vars
        BY <2>3 DEF vars, AnswerInv
    <2> QED BY <2>1, <2>2, <2>3 DEF Next
<1> QED BY <1>1, <1>2, PTL DEF Spec

LEMMA FunctionIsSequence ==
    ASSUME NEW n \in Nat, NEW T, NEW f \in [1..n -> T]
    PROVE  f \in Seq(T) /\ Len(f) = n
OBVIOUS

(* What a tile of the kept elements tells of them.                         *)
LEMMA TileTells ==
    ASSUME NEW s, IsSequence(s), NEW kept, kept \subseteq DOMAIN s, NEW link, NEW items,
           DOMAIN items = DOMAIN Keep(s, kept),
           items = [i \in DOMAIN items |-> items[i]]
    PROVE  LET tile == Tile(items, link)
           IN  /\ tile.count = Cardinality(kept)
               /\ Len(tile.names) + tile.more = tile.count
               /\ Len(tile.names) <= MaxTileNames
               /\ tile.more > 0 => Len(tile.names) = MaxTileNames
               /\ \A j \in DOMAIN tile.names : \E i \in kept :
                     /\ j \in DOMAIN items /\ tile.names[j] = items[j].name
                     /\ Keep(s, kept)[j] = s[i]
               /\ \A i \in kept :
                    LET k == Cardinality({j \in kept : j <= i})
                    IN  k <= MaxTileNames => /\ k \in DOMAIN items /\ Keep(s, kept)[k] = s[i]
                                             /\ tile.names[k] = items[k].name
<1> DEFINE k(i) == Cardinality({j \in kept : j <= i})
           tile == Tile(items, link)
<1>1. PICK S : s \in Seq(S)
    BY DEF IsSequence
<1>2. /\ Keep(s, kept) \in Seq(S) /\ Len(Keep(s, kept)) = Cardinality(kept)
      /\ \A j \in DOMAIN Keep(s, kept) : \E i \in kept : Keep(s, kept)[j] = s[i]
      /\ \A i \in kept : /\ Cardinality(First(kept, i)) \in DOMAIN Keep(s, kept)
                        /\ Keep(s, kept)[Cardinality(First(kept, i))] = s[i]
    BY <1>1, KeepFacts
<1>3. /\ DOMAIN items = 1..Cardinality(kept) /\ Cardinality(kept) \in Nat
      /\ items \in Seq({items[i] : i \in DOMAIN items}) /\ Len(items) = Cardinality(kept)
    <2>1. /\ DOMAIN items = 1..Len(Keep(s, kept)) /\ Len(Keep(s, kept)) \in Nat
        BY <1>2
    <2>2. items \in [1..Len(Keep(s, kept)) -> {items[i] : i \in DOMAIN items}]
        BY <2>1
    <2> QED BY <1>2, <2>1, <2>2, FunctionIsSequence
<1>4. /\ Len(tile.names) + tile.more = tile.count
      /\ Len(tile.names) <= MaxTileNames
      /\ tile.more > 0 => Len(tile.names) = MaxTileNames
    BY <1>3, TileAddsUp
<1>5. /\ tile.count = Cardinality(kept)
      /\ tile.names = [i \in 1..AtMost(Cardinality(kept), MaxTileNames) |-> items[i].name]
    BY <1>3 DEF Tile
<1> HIDE DEF tile
<1>6. /\ DOMAIN tile.names = 1..AtMost(Cardinality(kept), MaxTileNames)
      /\ \A j \in DOMAIN tile.names : tile.names[j] = items[j].name
    BY <1>5
<1>7. ASSUME NEW j \in DOMAIN tile.names
      PROVE  j \in DOMAIN items
    BY <1>3, <1>6, <1>7, MaxTileNamesAssumption DEF AtMost
<1>8. ASSUME NEW i \in kept, k(i) <= MaxTileNames
      PROVE  /\ k(i) \in DOMAIN items /\ Keep(s, kept)[k(i)] = s[i]
             /\ tile.names[k(i)] = items[k(i)].name
    <2>1. {j \in kept : j <= i} = First(kept, i)
        BY <1>1 DEF First
    <2>2. k(i) \in DOMAIN Keep(s, kept) /\ Keep(s, kept)[k(i)] = s[i]
        BY <1>2, <2>1
    <2> HIDE DEF k
    <2>3. k(i) \in DOMAIN tile.names
        BY <1>3, <1>6, <1>8, <2>2, MaxTileNamesAssumption DEF AtMost
    <2> QED BY <1>6, <2>2, <2>3
<1>9. ASSUME NEW j \in DOMAIN tile.names
      PROVE  \E i \in kept : /\ j \in DOMAIN items /\ tile.names[j] = items[j].name
                            /\ Keep(s, kept)[j] = s[i]
    BY <1>2, <1>6, <1>7
<1> QED BY <1>4, <1>5, <1>8, <1>9 DEF tile

(* What TilesAreTrue and NoNameIsBlank say of one tile.                    *)
TileIsTrue(t) ==
    LET tile == tiles[t]
    IN  /\ tile.count = Cardinality(Reported(t))
        /\ Len(tile.names) + tile.more = tile.count
        /\ Len(tile.names) <= MaxTileNames
        /\ tile.more > 0 => Len(tile.names) = MaxTileNames
        /\ \A i \in Reported(t) :
             LET k == Cardinality({j \in Reported(t) : j <= i})
                 offered == Offered(t, Elements(t)[i])
             IN  k <= MaxTileNames /\ offered # {} => tile.names[k] \in offered

NamesAreGiven(t) == \A i \in DOMAIN tiles[t].names : tiles[t].names[i] \notin Falsy

(* Each parser keeps what Home Assistant means by a pending update, a      *)
(* repair not ignored and an entry in an error state, and gives it a name  *)
(* that it offers, or else one of the code's own.                          *)
LEMMA PendingUpdatesTold ==
    ASSUME answers \in Answers, NEW link,
           tiles["updates"] = Tile(PendingUpdates(Elements("updates")), link)
    PROVE  TileIsTrue("updates") /\ NamesAreGiven("updates")
<1> DEFINE s == Elements("updates")
           kept == {i \in DOMAIN s : IsUpdate(s[i])}
           items == PendingUpdates(s)
           tile == tiles["updates"]
<1>1. IsSequence(s)
    BY AnswersAssumption DEF Elements
<1>2. kept = Reported("updates")
    <2>1. ASSUME NEW i \in DOMAIN s
          PROVE  IsUpdate(s[i]) <=> IsReported("updates", s[i])
        BY DEF IsUpdate, IsReported
    <2> QED BY <2>1 DEF Reported
<1>3. /\ DOMAIN items = DOMAIN Keep(s, kept) /\ items = [i \in DOMAIN items |-> items[i]]
      /\ \A j \in DOMAIN items : items[j] = UpdateItem(Keep(s, kept)[j])
    BY DEF PendingUpdates
<1>4. ASSUME NEW i \in kept
      PROVE  /\ UpdateItem(s[i]).name \notin Falsy
             /\ Offered("updates", s[i]) # {} => UpdateItem(s[i]).name \in Offered("updates", s[i])
    BY DEF IsUpdate, UpdateItem, Offered, Or, Falsy, UpdateIds
<1> HIDE DEF s, kept, items
<1>5. /\ tile.count = Cardinality(kept)
      /\ Len(tile.names) + tile.more = tile.count
      /\ Len(tile.names) <= MaxTileNames
      /\ tile.more > 0 => Len(tile.names) = MaxTileNames
      /\ \A j \in DOMAIN tile.names : \E i \in kept :
            /\ j \in DOMAIN items /\ tile.names[j] = items[j].name
            /\ Keep(s, kept)[j] = s[i]
      /\ \A i \in kept :
            LET k == Cardinality({j \in kept : j <= i})
            IN  k <= MaxTileNames => /\ k \in DOMAIN items /\ Keep(s, kept)[k] = s[i]
                                     /\ tile.names[k] = items[k].name
    <2>1. kept \subseteq DOMAIN s
        BY DEF kept
    <2>2. tile = Tile(items, link)
        BY DEF items, s
    <2> QED BY <1>1, <1>3, <2>1, <2>2, TileTells
<1> HIDE DEF tile
<1>6. NamesAreGiven("updates")
    BY <1>3, <1>4, <1>5 DEF NamesAreGiven, tile
<1>7. TileIsTrue("updates")
    BY <1>2, <1>3, <1>4, <1>5 DEF TileIsTrue, tile, s
<1> QED BY <1>6, <1>7

LEMMA RepairIssuesTold ==
    ASSUME answers \in Answers, NEW link,
           tiles["repairs"] = Tile(RepairIssues(Elements("repairs")), link)
    PROVE  TileIsTrue("repairs") /\ NamesAreGiven("repairs")
<1> DEFINE s == Elements("repairs")
           kept == {i \in DOMAIN s : IsIssue(s[i])}
           items == RepairIssues(s)
           tile == tiles["repairs"]
<1>1. IsSequence(s)
    BY AnswersAssumption DEF Elements
<1>2. kept = Reported("repairs")
    <2>1. ASSUME NEW i \in DOMAIN s
          PROVE  IsIssue(s[i]) <=> IsReported("repairs", s[i])
        BY AnswersAssumption DEF IsIssue, IsReported, Elements, Falsy
    <2> QED BY <2>1 DEF Reported
<1>3. /\ DOMAIN items = DOMAIN Keep(s, kept) /\ items = [i \in DOMAIN items |-> items[i]]
      /\ \A j \in DOMAIN items : items[j] = IssueItem(Keep(s, kept)[j])
    BY DEF RepairIssues
<1>4. ASSUME NEW i \in kept
      PROVE  /\ IssueItem(s[i]).name \notin Falsy
             /\ Offered("repairs", s[i]) # {} => IssueItem(s[i]).name \in Offered("repairs", s[i])
    BY DEF IsIssue, IssueItem, Offered, Or, Falsy, UpdateIds
<1> HIDE DEF s, kept, items
<1>5. /\ tile.count = Cardinality(kept)
      /\ Len(tile.names) + tile.more = tile.count
      /\ Len(tile.names) <= MaxTileNames
      /\ tile.more > 0 => Len(tile.names) = MaxTileNames
      /\ \A j \in DOMAIN tile.names : \E i \in kept :
            /\ j \in DOMAIN items /\ tile.names[j] = items[j].name
            /\ Keep(s, kept)[j] = s[i]
      /\ \A i \in kept :
            LET k == Cardinality({j \in kept : j <= i})
            IN  k <= MaxTileNames => /\ k \in DOMAIN items /\ Keep(s, kept)[k] = s[i]
                                     /\ tile.names[k] = items[k].name
    <2>1. kept \subseteq DOMAIN s
        BY DEF kept
    <2>2. tile = Tile(items, link)
        BY DEF items, s
    <2> QED BY <1>1, <1>3, <2>1, <2>2, TileTells
<1> HIDE DEF tile
<1>6. NamesAreGiven("repairs")
    BY <1>3, <1>4, <1>5 DEF NamesAreGiven, tile
<1>7. TileIsTrue("repairs")
    BY <1>2, <1>3, <1>4, <1>5 DEF TileIsTrue, tile, s
<1> QED BY <1>6, <1>7

LEMMA IntegrationErrorsTold ==
    ASSUME answers \in Answers, NEW link,
           tiles["integrations"] = Tile(IntegrationErrors(Elements("integrations")), link)
    PROVE  TileIsTrue("integrations") /\ NamesAreGiven("integrations")
<1> DEFINE s == Elements("integrations")
           kept == {i \in DOMAIN s : IsErrorEntry(s[i])}
           items == IntegrationErrors(s)
           tile == tiles["integrations"]
<1>1. IsSequence(s)
    BY AnswersAssumption DEF Elements
<1>2. kept = Reported("integrations")
    <2>1. ASSUME NEW i \in DOMAIN s
          PROVE  IsErrorEntry(s[i]) <=> IsReported("integrations", s[i])
        BY DEF IsErrorEntry, IsReported
    <2> QED BY <2>1 DEF Reported
<1>3. /\ DOMAIN items = DOMAIN Keep(s, kept) /\ items = [i \in DOMAIN items |-> items[i]]
      /\ \A j \in DOMAIN items : items[j] = EntryItem(Keep(s, kept)[j])
    BY DEF IntegrationErrors
<1>4. ASSUME NEW i \in kept
      PROVE  /\ EntryItem(s[i]).name \notin Falsy
             /\ Offered("integrations", s[i]) # {} => EntryItem(s[i]).name \in Offered("integrations", s[i])
    BY DEF IsErrorEntry, EntryItem, Offered, Or, Falsy, UpdateIds
<1> HIDE DEF s, kept, items
<1>5. /\ tile.count = Cardinality(kept)
      /\ Len(tile.names) + tile.more = tile.count
      /\ Len(tile.names) <= MaxTileNames
      /\ tile.more > 0 => Len(tile.names) = MaxTileNames
      /\ \A j \in DOMAIN tile.names : \E i \in kept :
            /\ j \in DOMAIN items /\ tile.names[j] = items[j].name
            /\ Keep(s, kept)[j] = s[i]
      /\ \A i \in kept :
            LET k == Cardinality({j \in kept : j <= i})
            IN  k <= MaxTileNames => /\ k \in DOMAIN items /\ Keep(s, kept)[k] = s[i]
                                     /\ tile.names[k] = items[k].name
    <2>1. kept \subseteq DOMAIN s
        BY DEF kept
    <2>2. tile = Tile(items, link)
        BY DEF items, s
    <2> QED BY <1>1, <1>3, <2>1, <2>2, TileTells
<1> HIDE DEF tile
<1>6. NamesAreGiven("integrations")
    BY <1>3, <1>4, <1>5 DEF NamesAreGiven, tile
<1>7. TileIsTrue("integrations")
    BY <1>2, <1>3, <1>4, <1>5 DEF TileIsTrue, tile, s
<1> QED BY <1>6, <1>7

(* Every tile of a shown page is one of the three above.                   *)
LEMMA ShownTilesTold ==
    ASSUME AnswerInv, stage = "shown", NEW t \in TileNames
    PROVE  TileIsTrue(t) /\ NamesAreGiven(t)
<1>1. PICK h : tiles = Tiles(Summary(answers), h)
    BY DEF AnswerInv
<1>2. answers \in Answers
    BY DEF AnswerInv
<1>3. CASE t = "updates"
    <2>1. tiles["updates"] =
            Tile(PendingUpdates(Elements("updates")), DeepLink(h, "/config/system/updates"))
        BY <1>1 DEF Tiles, Summary, Elements
    <2> QED BY <1>2, <1>3, <2>1, PendingUpdatesTold
<1>4. CASE t = "repairs"
    <2>1. tiles["repairs"] =
            Tile(RepairIssues(Elements("repairs")), DeepLink(h, "/config/repairs"))
        BY <1>1 DEF Tiles, Summary, Elements
    <2> QED BY <1>2, <1>4, <2>1, RepairIssuesTold
<1>5. CASE t = "integrations"
    <2>1. tiles["integrations"] =
            Tile(IntegrationErrors(Elements("integrations")),
                 DeepLink(h, "/config/integrations"))
        BY <1>1 DEF Tiles, Summary, Elements
    <2> QED BY <1>2, <1>5, <2>1, IntegrationErrorsTold
<1> QED BY <1>3, <1>4, <1>5 DEF TileNames

(* A tile counts what Home Assistant reported, and names the first of it   *)
(* in Home Assistant's order, however long its lists are.                  *)
THEOREM TilesTell == Spec => []TilesAreTrue
<1>1. AnswerInv => TilesAreTrue
    <2> SUFFICES ASSUME AnswerInv, stage = "shown", NEW t \in TileNames
                 PROVE  TileIsTrue(t)
        BY DEF TilesAreTrue, TileIsTrue
    <2> QED BY ShownTilesTold
<1> QED BY AnswerInvariance, <1>1, PTL

(* Nothing is shown without a name, whatever fields the elements lack.     *)
THEOREM NamesAreTold == Spec => []NoNameIsBlank
<1>1. AnswerInv => NoNameIsBlank
    <2> SUFFICES ASSUME AnswerInv, stage = "shown", NEW t \in TileNames
                 PROVE  NamesAreGiven(t)
        BY DEF NoNameIsBlank, NamesAreGiven
    <2> QED BY ShownTilesTold
<1> QED BY AnswerInvariance, <1>1, PTL

(* A fetch whose exchange succeeded fails only over an answer that Home    *)
(* Assistant does not send: no odd but well-formed element costs the user  *)
(* the page.                                                               *)
THEOREM OddAnswersAreShown == Spec => []WellFormedAnswersAreShown
<1>1. ASSUME NEW a, ParseFails(a) PROVE ~WellFormed(a)
    BY <1>1 DEF ParseFails, WellFormed, UpdateRaises, IsUpdate, IssueRaises, EntryRaises,
                Falsy
<1>2. AnswerInv => WellFormedAnswersAreShown
    BY <1>1 DEF AnswerInv, WellFormedAnswersAreShown
<1> QED BY AnswerInvariance, <1>2, PTL
============================================================================
