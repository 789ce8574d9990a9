-------------------------- MODULE MailSearchSafety --------------------------
(* What is read off a mail and what a query finds, for mails of any shape and *)
(* queries of any length, and the pages of a list of any size.                *)
EXTENDS MailSearchProps, MailPagesProps, Induction, SequenceTheorems,
        FiniteSetTheorems, TLAPS

-----------------------------------------------------------------------------
(* Least elements and walks                                                 *)

LEMMA LeastFacts ==
  ASSUME NEW S, S \subseteq Nat, 0 \notin S
  PROVE  /\ Least(S) \in Nat
         /\ Least(S) = 0 <=> S = {}
         /\ S # {} => Least(S) \in S /\ \A k \in S : Least(S) <= k
<1>1. CASE S = {}
  BY <1>1 DEF Least
<1>2. CASE S # {}
  <2>1. PICK m \in S : \A k \in S : m <= k
    BY <1>2, LeastExists
  <2>2. Min(S) \in S /\ \A k \in S : Min(S) <= k
    BY <2>1 DEF Min
  <2>3. QED
    BY <1>2, <2>2 DEF Least
<1>3. QED
  BY <1>1, <1>2

\* The least element does not change with what is added above it.
LEMMA LeastIs ==
  ASSUME NEW S, S \subseteq Nat, 0 \notin S, NEW m \in S, \A k \in S : m <= k
  PROVE  Least(S) = m
<1>1. /\ m \in Nat /\ Least(S) \in Nat
      /\ m <= Least(S) /\ Least(S) <= m
  BY LeastFacts
<1>2. QED
  BY <1>1

\* A walk is its start, and what each visit makes of the visits before it.
LEMMA WalkFacts ==
  ASSUME NEW n \in Nat, NEW start, NEW visit, Len(visit) = n
  PROVE  \E f : /\ WalkNodes(start, visit) = f[n]
                /\ f[0] = start
                /\ \A i \in 1 .. n : f[i] = visit[i][f[i - 1]]
<1> DEFINE f == CHOOSE f : Visits(f, n, start, visit)
<1>1. Visits(f, n, start, visit)
  BY WalkExists, Zenon
<1>2. WalkNodes(start, visit) = f[n]
  BY DEF WalkNodes, Visits
<1>3. f[0] = start /\ \A i \in 1 .. n : f[i] = visit[i][f[i - 1]]
  <2> HIDE DEF f
  <2> QED BY <1>1 DEF Visits
<1>4. QED
  BY <1>2, <1>3

-----------------------------------------------------------------------------
(* The tree of a mail                                                       *)

\* A part without a type is read as plain text.
Texts == STRING \cup {"text/plain"}

Nodes == [media : Texts, begins : Texts, disposition : STRING, cid : STRING,
          body : {"none", "empty", "text"}, words : {h.words : h \in Headers},
          shown : {h.shown : h \in Headers}, up : Nat]

\* The first node is the root, every other is part of one before it.
Tree(t) ==
  /\ t \in Seq(Nodes) /\ t # <<>>
  /\ \A i \in DOMAIN t : t[i].up < i /\ (i # 1 => t[i].up # 0)

TreeInv ==
  /\ nodes = <<>> \/ Tree(nodes)
  /\ open \in Seq(DOMAIN nodes)
  /\ outcome = "parsed" => nodes # <<>>

LEMMA TreeFacts ==
  ASSUME NEW t, Tree(t)
  PROVE  /\ Len(t) \in Nat \ {0} /\ DOMAIN t = 1 .. Len(t) /\ DOMAIN t \subseteq Nat
         /\ \A i \in DOMAIN t : t[i] \in Nodes
BY DEF Tree

\* A header that is read becomes the last node.
LEMMA TreeGrows ==
  ASSUME TreeInv, Reads, NEW h \in Headers
  PROVE  /\ Tree(Append(nodes, Node(h)))
         /\ Tree(Append(nodes, Node(Defaulted(h))))
         /\ DOMAIN Append(nodes, Node(h)) = 1 .. Len(nodes) + 1
<1> DEFINE Read(g) ==
             /\ g.media \in Texts /\ g.begins \in Texts /\ g.disposition \in STRING
             /\ g.cid \in STRING /\ g.body \in {"none", "empty", "text"}
             /\ g.words \in {f.words : f \in Headers}
             /\ g.shown \in {f.shown : f \in Headers}
<1>1. Read(h) /\ Read(Defaulted(h))
  <2>1. h \in [media : STRING, begins : STRING, disposition : STRING,
               cid : STRING, body : {"none", "empty", "text"}, words : {f.words : f \in Headers},
               shown : {f.shown : f \in Headers}]
    BY MimeAssumption
  <2> DEFINE d == [h EXCEPT !.media = "text/plain", !.begins = "text/plain"]
  <2>2. /\ d.media = "text/plain" /\ d.begins = "text/plain"
        /\ d.disposition = h.disposition /\ d.cid = h.cid
        /\ d.body = h.body /\ d.words = h.words /\ d.shown = h.shown
    BY <2>1
  <2>3. Read(h)
    BY <2>1 DEF Texts
  <2>4. Read(d)
    <3> HIDE DEF d
    <3> QED BY <2>2, <2>3 DEF Texts
  <2>5. Defaulted(h) = d \/ Defaulted(h) = h
    BY DEF Defaulted
  <2>6. QED
    BY <2>3, <2>4, <2>5
<1>2. /\ nodes \in Seq(Nodes) /\ Len(nodes) \in Nat /\ DOMAIN nodes = 1 .. Len(nodes)
      /\ \A i \in DOMAIN nodes : nodes[i].up < i /\ (i # 1 => nodes[i].up # 0)
  BY DEF TreeInv, Tree
<1>3. ASSUME NEW g, Read(g) PROVE Tree(Append(nodes, Node(g)))
  <2>1. /\ Node(g).up = IF open = <<>> THEN 0 ELSE Last(open)
        /\ Node(g).up \in 0 .. Len(nodes) /\ (nodes # <<>> => Node(g).up # 0)
    BY <1>2 DEF Node, Last, TreeInv, Reads
  <2>2. Node(g) \in Nodes
    BY <2>1, <1>2, <1>3 DEF Node, Nodes
  <2>3. /\ Append(nodes, Node(g)) \in Seq(Nodes) /\ Append(nodes, Node(g)) # <<>>
        /\ DOMAIN Append(nodes, Node(g)) = 1 .. Len(nodes) + 1
        /\ Append(nodes, Node(g))[Len(nodes) + 1] = Node(g)
        /\ \A i \in DOMAIN nodes : Append(nodes, Node(g))[i] = nodes[i]
    BY <1>2, <2>2
  <2>4. nodes = <<>> <=> Len(nodes) = 0
    BY <1>2
  <2>5. QED
    BY <1>2, <2>1, <2>3, <2>4 DEF Tree
<1>4. DOMAIN Append(nodes, Node(h)) = 1 .. Len(nodes) + 1
  BY <1>2
<1>5. QED
  BY <1>1, <1>3, <1>4

LEMMA TreeInvHolds == Spec => []TreeInv
<1>1. Init => TreeInv
  BY DEF Init, MimeInit, TreeInv
<1>2. ASSUME TreeInv, MimeNext PROVE TreeInv'
  <2>1. ASSUME NEW h \in Headers, ReadLeaf(h) PROVE TreeInv'
    <3>1. Tree(nodes') /\ nodes' # <<>> /\ open' = open
      BY <1>2, <2>1, TreeGrows DEF ReadLeaf, Tree
    <3>2. open \in Seq(DOMAIN nodes')
      <4>1. /\ nodes' = Append(nodes, Node(Defaulted(h))) /\ nodes \in Seq(Nodes)
            /\ open \in Seq(DOMAIN nodes)
        BY <1>2, <2>1 DEF ReadLeaf, TreeInv, Tree
      <4>2. DOMAIN nodes \subseteq DOMAIN nodes'
        BY <3>1, <4>1 DEF Tree
      <4>3. QED
        BY <4>1, <4>2
    <3>3. QED
      BY <3>1, <3>2 DEF TreeInv
  <2>2. ASSUME NEW h \in Headers, ReadMultipart(h) PROVE TreeInv'
    <3>1. /\ Tree(nodes') /\ nodes' # <<>> /\ DOMAIN nodes' = 1 .. Len(nodes) + 1
          /\ open' = Append(open, Len(nodes) + 1)
      BY <1>2, <2>2, TreeGrows DEF ReadMultipart, Tree
    <3>2. /\ open \in Seq(DOMAIN nodes) /\ DOMAIN nodes = 1 .. Len(nodes) /\ Len(nodes) \in Nat
      BY <1>2 DEF TreeInv, Tree
    <3>3. open \in Seq(DOMAIN nodes') /\ Len(nodes) + 1 \in DOMAIN nodes'
      BY <3>1, <3>2
    <3>4. open' \in Seq(DOMAIN nodes')
      BY <3>1, <3>3
    <3>5. QED
      BY <3>1, <3>4 DEF TreeInv
  <2>3. CASE EndOfParts
    <3>1. open' \in Seq(DOMAIN nodes) /\ nodes # <<>>
      BY <1>2, <2>3, SubSeqProperties DEF EndOfParts, TreeInv, Front
    <3>2. QED
      BY <1>2, <2>3, <3>1 DEF EndOfParts, TreeInv
  <2>4. CASE ParseFails
    BY <2>4 DEF ParseFails, TreeInv
  <2>5. QED
    BY <1>2, <2>1, <2>2, <2>3, <2>4 DEF MimeNext
<1>3. TreeInv /\ UNCHANGED mimeVars => TreeInv'
  BY DEF mimeVars, TreeInv
<1>4. TreeInv /\ [Next]_searchVars => TreeInv'
  BY <1>2, <1>3 DEF Next, Type, searchVars
<1>5. QED
  BY <1>1, <1>4, PTL DEF Spec

-----------------------------------------------------------------------------
(* Bodies                                                                   *)

LEMMA KindsDiffer ==
  /\ \A v \in Versions : MediaOf(v) \notin Multiparts
  /\ \A v, w \in Versions : MediaOf(v) = MediaOf(w) => v = w
BY DEF Versions, MediaOf, Multiparts, Alternative

LEMMA DirectPartFacts ==
  ASSUME NEW t, Tree(t), NEW a, NEW v
  PROVE  LET part == DirectPart(t, a, v) IN
         /\ part # 0 => part \in DOMAIN t /\ t[part].up = a
                        /\ InlineLeaf(t, part) /\ Spells(t[part], v)
         /\ part = 0 => \A i \in DOMAIN t : ~(t[i].up = a /\ InlineLeaf(t, i) /\ Spells(t[i], v))
<1> DEFINE S == {i \in DOMAIN t : t[i].up = a /\ InlineLeaf(t, i) /\ Spells(t[i], v)}
<1>1. S \subseteq Nat /\ 0 \notin S /\ DirectPart(t, a, v) = Least(S)
  BY TreeFacts DEF DirectPart
<1>2. Least(S) = 0 <=> S = {}
  BY <1>1, LeastFacts
<1>3. S # {} => Least(S) \in S
  BY <1>1, LeastFacts
<1>4. QED
  BY <1>1, <1>2, <1>3

\* A part gives a body where it is met.
LEMMA BodyAtFacts ==
  ASSUME NEW t, Tree(t), \A i \in DOMAIN t : Usual(t[i]), NEW v \in Versions
  PROVE  /\ \A i \in DOMAIN t :
              LET leaf == BodyAt(t, v, i) IN
              leaf # 0 => /\ leaf \in DOMAIN t /\ InlineLeaf(t, leaf) /\ Spells(t[leaf], v)
                          /\ MetAt(t, leaf) <= i
         /\ \A i \in DOMAIN t : InlineLeaf(t, i) /\ Spells(t[i], v) =>
              MetAt(t, i) \in DOMAIN t /\ BodyAt(t, v, MetAt(t, i)) # 0
<1>1. ASSUME NEW i \in DOMAIN t, BodyAt(t, v, i) # 0
      PROVE  LET leaf == BodyAt(t, v, i) IN
             /\ leaf \in DOMAIN t /\ InlineLeaf(t, leaf) /\ Spells(t[leaf], v)
             /\ MetAt(t, leaf) <= i
  <2>1. i \in Nat \ {0} /\ t[i].up \in Nat /\ t[i].up < i
    BY TreeFacts DEF Tree, Nodes
  <2>2. CASE t[i].media = Alternative
    <3>1. BodyAt(t, v, i) = DirectPart(t, i, v)
      BY <2>2 DEF BodyAt, InlineLeaf, IsLeaf, IsMultipart, Multiparts
    <3>2. QED
      BY <1>1, <2>1, <2>2, <3>1, DirectPartFacts DEF MetAt, InAlternative
  <2>3. CASE t[i].media # Alternative
    <3>1. BodyAt(t, v, i) = i /\ InlineLeaf(t, i)
          /\ (Spells(t[i], v) \/ t[i].media = MediaOf(v))
      BY <1>1, <2>3 DEF BodyAt
    <3>2. Spells(t[i], v)
      BY <3>1 DEF Usual
    <3>3. QED
      BY <2>1, <3>1, <3>2 DEF MetAt, InAlternative
  <2>4. QED
    BY <2>2, <2>3
<1>2. ASSUME NEW i \in DOMAIN t, InlineLeaf(t, i), Spells(t[i], v)
      PROVE  MetAt(t, i) \in DOMAIN t /\ BodyAt(t, v, MetAt(t, i)) # 0
  <2>1. /\ i \in Nat \ {0} /\ t[i].up \in Nat /\ t[i].up < i
        /\ DOMAIN t = 1 .. Len(t) /\ Len(t) \in Nat
    BY TreeFacts DEF Tree, Nodes
  <2>2. CASE t[i].up # 0 /\ t[t[i].up].media = Alternative
    <3>1. MetAt(t, i) = t[i].up /\ t[i].up \in DOMAIN t
      BY <2>1, <2>2 DEF MetAt, InAlternative
    <3>2. BodyAt(t, v, t[i].up) = DirectPart(t, t[i].up, v)
      BY <2>2 DEF BodyAt, InlineLeaf, IsLeaf, IsMultipart, Multiparts
    <3>3. QED
      BY <1>2, <3>1, <3>2, DirectPartFacts
  <2>3. CASE ~(t[i].up # 0 /\ t[t[i].up].media = Alternative)
    <3>1. MetAt(t, i) = i
      BY <2>3 DEF MetAt, InAlternative
    <3>2. t[i].media # Alternative /\ t[i].media = MediaOf(v)
      BY <1>2 DEF Usual, InlineLeaf, IsLeaf, IsMultipart, Multiparts
    <3>3. BodyAt(t, v, i) = i
      BY <1>2, <3>2 DEF BodyAt
    <3>4. QED
      BY <2>1, <3>1, <3>3
  <2>4. QED
    BY <2>2, <2>3
<1>3. QED
  BY <1>1, <1>2

\* Every version has the body that TabsHaveBodies says it has, in any tree.
LEMMA TabsOfTree ==
  ASSUME NEW t, Tree(t), \A i \in DOMAIN t : Usual(t[i]), NEW v \in Versions
  PROVE  LET leaf == GetBody(t, v)
         IN  /\ leaf # 0 => leaf \in DOMAIN t /\ InlineLeaf(t, leaf) /\ Spells(t[leaf], v)
             /\ leaf # 0 <=> v \in GetBodyVersions(t) /\ ~Hidden(t, v)
<1> DEFINE Stops == {i \in DOMAIN t : BodyAt(t, v, i) # 0 \/ Settles(t, i)}
           stop  == Least(Stops)
           taken == IF stop = 0 THEN 0 ELSE BodyAt(t, v, stop)
           leaf  == GetBody(t, v)
<1>1. /\ Stops \subseteq Nat /\ 0 \notin Stops
      /\ DOMAIN t = 1 .. Len(t) /\ Len(t) \in Nat \ {0} /\ 1 \in DOMAIN t /\ t[1].up = 0
  BY TreeFacts DEF Tree, Nodes
<1>2. /\ stop \in Nat
      /\ stop = 0 <=> Stops = {}
      /\ stop # 0 => stop \in Stops /\ \A k \in Stops : stop <= k
  BY <1>1, LeastFacts
<1>3. leaf = IF taken = 0 /\ InlineLeaf(t, 1) /\ Spells(t[1], v) THEN 1 ELSE taken
  BY DEF GetBody
<1>4. InlineLeaf(t, 1) /\ Spells(t[1], v) => MetAt(t, 1) = 1
  BY <1>1 DEF MetAt, InAlternative
<1>5. leaf # 0 => /\ leaf \in DOMAIN t /\ InlineLeaf(t, leaf) /\ Spells(t[leaf], v)
                  /\ \/ stop \in Stops /\ MetAt(t, leaf) <= stop
                     \/ MetAt(t, leaf) <= 1
  BY <1>1, <1>2, <1>3, <1>4, BodyAtFacts
<1>6. ASSUME leaf # 0 PROVE v \in GetBodyVersions(t) /\ ~Hidden(t, v)
  <2>1. v \in GetBodyVersions(t)
    BY <1>5, <1>6 DEF GetBodyVersions
  <2>2. ASSUME Hidden(t, v) PROVE FALSE
    <3>1. PICK a \in DOMAIN t : Settles(t, a) /\ a < MetAt(t, leaf)
      BY <1>5, <1>6, <2>2 DEF Hidden
    <3>2. MetAt(t, leaf) \in Nat
      BY <1>5, <1>6, BodyAtFacts, <1>1
    <3>3. a \in Stops /\ a >= 1 /\ a \in Nat
      BY <1>1, <3>1
    <3>4. QED
      BY <1>2, <1>5, <1>6, <3>1, <3>2, <3>3
  <2>3. QED
    BY <2>1, <2>2
<1>7. ASSUME leaf = 0, v \in GetBodyVersions(t) PROVE Hidden(t, v)
  <2>1. PICK i \in DOMAIN t : InlineLeaf(t, i) /\ Spells(t[i], v)
    BY <1>7 DEF GetBodyVersions
  <2>2. \A k \in DOMAIN t : InlineLeaf(t, k) /\ Spells(t[k], v) =>
          MetAt(t, k) \in Stops /\ BodyAt(t, v, MetAt(t, k)) # 0
    BY BodyAtFacts
  <2>3. stop \in Stops /\ taken = 0
    BY <1>1, <1>2, <1>3, <1>7, <2>1, <2>2
  <2>4. BodyAt(t, v, stop) = 0 /\ Settles(t, stop) /\ stop \in DOMAIN t
    BY <1>1, <2>3
  <2>5. DirectPart(t, stop, v) = 0
    BY <2>4 DEF BodyAt, Settles, InlineLeaf, IsLeaf, IsMultipart, Multiparts
  <2>6. \A k \in DOMAIN t : InlineLeaf(t, k) /\ Spells(t[k], v) => stop < MetAt(t, k)
    <3> SUFFICES ASSUME NEW k \in DOMAIN t, InlineLeaf(t, k), Spells(t[k], v)
                 PROVE  stop < MetAt(t, k)
      OBVIOUS
    <3>1. MetAt(t, k) \in Stops /\ BodyAt(t, v, MetAt(t, k)) # 0
      BY <2>2
    <3>2. MetAt(t, k) # stop /\ stop <= MetAt(t, k) /\ stop \in Nat /\ MetAt(t, k) \in Nat
      BY <1>1, <1>2, <2>3, <2>4, <3>1
    <3>3. QED
      BY <3>2
  <2>7. QED
    BY <2>4, <2>5, <2>6 DEF Hidden
<1>8. QED
  BY <1>5, <1>6, <1>7

\* Every tab a mail is listed with has a body of its kind, unless it is Hidden,
\* and no other has, for mails of any number of parts, nested in any way.
THEOREM TabsHaveBodiesHolds == Spec => []TabsHaveBodies
<1>1. TreeInv => TabsHaveBodies
  BY TabsOfTree DEF TreeInv, TabsHaveBodies, Parsed
<1>2. QED
  BY <1>1, TreeInvHolds, PTL

-----------------------------------------------------------------------------
(* Attachments                                                              *)

\* A function on the positions of a tree is as long as the tree.
LEMMA VisitFacts ==
  ASSUME NEW t, Tree(t), NEW S, NEW visit \in [DOMAIN t -> S]
  PROVE  Len(visit) = Len(t)
<1>1. Len(t) \in Nat /\ visit \in [1 .. Len(t) -> S]
  BY TreeFacts
<1>2. visit \in Seq(S)
  BY <1>1, SeqDef
<1>3. QED
  BY <1>1, <1>2, LenProperties

\* The list of attachments as far as the first i nodes have been visited ...
ListedTo(t, list, i) ==
  /\ list \in Seq(DOMAIN t)
  /\ \A k \in DOMAIN list : list[k] \in 1 .. i /\ AttachedAt(t, list[k])
  /\ \A j \in 1 .. i : AttachedAt(t, j) => \E k \in DOMAIN list : list[k] = j

\* ... and the search for the attachment of a number beside it.
FoundTo(t, visited, list, wanted) ==
  /\ visited \in [id : Nat, found : 0 .. Len(t)]
  /\ IF wanted < Len(list) THEN visited.found = list[wanted + 1]
     ELSE visited.found = 0 /\ visited.id = Len(list)

LEMMA AttachmentStep ==
  ASSUME NEW t, Tree(t), NEW wanted \in Nat, NEW i \in DOMAIN t, NEW list, NEW visited,
         ListedTo(t, list, i - 1), FoundTo(t, visited, list, wanted)
  PROVE  LET more == IF AttachedAt(t, i) THEN Append(list, i) ELSE list
             next == IF visited.found # 0 \/ ~AttachedAt(t, i) THEN visited
                     ELSE IF visited.id = wanted THEN [visited EXCEPT !.found = i]
                     ELSE [visited EXCEPT !.id = @ + 1]
         IN  ListedTo(t, more, i) /\ FoundTo(t, next, more, wanted)
<1>1. /\ i \in Nat \ {0} /\ DOMAIN t = 1 .. Len(t) /\ Len(t) \in Nat
      /\ list \in Seq(DOMAIN t) /\ Len(list) \in Nat /\ DOMAIN list = 1 .. Len(list)
      /\ \A k \in DOMAIN list : list[k] \in 1 .. i - 1 /\ AttachedAt(t, list[k])
      /\ \A j \in 1 .. i - 1 : AttachedAt(t, j) => \E k \in DOMAIN list : list[k] = j
  BY TreeFacts DEF ListedTo
<1>2. CASE ~AttachedAt(t, i)
  <2>1. ListedTo(t, list, i)
    BY <1>1, <1>2 DEF ListedTo
  <2>2. QED
    BY <1>2, <2>1
<1>3. CASE AttachedAt(t, i)
  <2> DEFINE more == Append(list, i)
  <2>1. /\ more \in Seq(DOMAIN t) /\ Len(more) = Len(list) + 1 /\ DOMAIN more = 1 .. Len(list) + 1
        /\ more[Len(list) + 1] = i /\ \A k \in DOMAIN list : more[k] = list[k]
    BY <1>1
  <2>2. ListedTo(t, more, i)
    <3>1. \A k \in DOMAIN more : more[k] \in 1 .. i /\ AttachedAt(t, more[k])
      BY <1>1, <1>3, <2>1
    <3>2. \A j \in 1 .. i : AttachedAt(t, j) => \E k \in DOMAIN more : more[k] = j
      <4> SUFFICES ASSUME NEW j \in 1 .. i, AttachedAt(t, j)
                   PROVE  \E k \in DOMAIN more : more[k] = j
        OBVIOUS
      <4>1. CASE j = i
        <5>1. Len(list) + 1 \in DOMAIN more
          BY <1>1, <2>1
        <5>2. QED
          BY <2>1, <4>1, <5>1
      <4>2. CASE j # i
        <5>1. PICK k \in DOMAIN list : list[k] = j
          BY <1>1, <4>2
        <5>2. k \in DOMAIN more /\ more[k] = j
          BY <1>1, <2>1, <5>1
        <5>3. QED
          BY <5>2
      <4>3. QED
        BY <4>1, <4>2
    <3>3. QED
      BY <2>1, <3>1, <3>2 DEF ListedTo
  <2> DEFINE next == IF visited.found # 0 THEN visited
                     ELSE IF visited.id = wanted THEN [visited EXCEPT !.found = i]
                     ELSE [visited EXCEPT !.id = @ + 1]
  <2>3. FoundTo(t, next, more, wanted)
    <3> HIDE DEF more
    <3>1. CASE wanted < Len(list)
      <4>1. wanted + 1 \in DOMAIN list /\ visited.found = list[wanted + 1] /\ visited.found # 0
        BY <1>1, <3>1 DEF FoundTo
      <4>2. next = visited
        BY <4>1
      <4>3. Len(more) = Len(list) + 1 /\ more[wanted + 1] = list[wanted + 1]
        BY <2>1, <4>1
      <4>4. visited \in [id : Nat, found : 0 .. Len(t)] /\ wanted < Len(more)
        BY <1>1, <3>1, <4>3 DEF FoundTo
      <4>5. FoundTo(t, visited, more, wanted)
        BY <4>1, <4>3, <4>4 DEF FoundTo
      <4> HIDE DEF next
      <4>6. QED
        BY <4>2, <4>5
    <3>2. CASE wanted = Len(list)
      <4>1. /\ visited \in [id : Nat, found : 0 .. Len(t)] /\ visited.found = 0 /\ visited.id = wanted
        BY <1>1, <3>2 DEF FoundTo
      <4>2. next = [visited EXCEPT !.found = i]
        BY <4>1
      <4>3. next \in [id : Nat, found : 0 .. Len(t)] /\ next.found = i
        BY <1>1, <4>1, <4>2
      <4>4. wanted < Len(more) /\ more[wanted + 1] = i
        BY <1>1, <2>1, <3>2
      <4> HIDE DEF next
      <4>5. QED
        BY <4>3, <4>4 DEF FoundTo
    <3>3. CASE wanted > Len(list)
      <4>1. /\ visited \in [id : Nat, found : 0 .. Len(t)] /\ visited.found = 0 /\ visited.id = Len(list)
        BY <1>1, <3>3 DEF FoundTo
      <4>2. next = [visited EXCEPT !.id = Len(list) + 1]
        BY <1>1, <3>3, <4>1
      <4>3. QED
        BY <1>1, <2>1, <3>3, <4>1, <4>2 DEF FoundTo
    <3>4. QED
      BY <1>1, <3>1, <3>2, <3>3
  <2>4. QED
    BY <1>3, <2>2, <2>3
<1>4. QED
  BY <1>2, <1>3

LEMMA AttachmentsOfTree ==
  ASSUME NEW t, Tree(t), NEW wanted \in Nat
  PROVE  \E list : /\ GetAttachments(t) = [id \in 0 .. Len(list) - 1 |-> list[id + 1]]
                   /\ ListedTo(t, list, Len(t))
                   /\ GetAttachment(t, wanted) =
                        IF wanted < Len(list) THEN list[wanted + 1] ELSE 0
<1> DEFINE n      == Len(t)
           Walks  == [id : Nat, found : 0 .. Len(t)]
           first  == [id |-> 0, found |-> 0]
           list   == [i \in DOMAIN t |-> [found \in Seq(DOMAIN t) |->
                        IF AttachedAt(t, i) THEN Append(found, i) ELSE found]]
           lookup == [i \in DOMAIN t |-> [visited \in [id : Nat, found : 0 .. Len(t)] |->
                        IF visited.found # 0 \/ ~AttachedAt(t, i) THEN visited
                        ELSE IF visited.id = wanted THEN [visited EXCEPT !.found = i]
                        ELSE [visited EXCEPT !.id = @ + 1]]]
<1>1. n \in Nat /\ DOMAIN t = 1 .. n
  BY TreeFacts
<1>2. Len(list) = n /\ Len(lookup) = n
  <2>1. list \in [DOMAIN t -> {list[i] : i \in DOMAIN t}]
    OBVIOUS
  <2>2. lookup \in [DOMAIN t -> {lookup[i] : i \in DOMAIN t}]
    OBVIOUS
  <2> HIDE DEF list, lookup
  <2>3. QED
    BY <2>1, <2>2, VisitFacts
<1> DEFINE none == <<>>
<1>3. PICK f : /\ WalkNodes(none, list) = f[n] /\ f[0] = none
               /\ \A i \in 1 .. n : f[i] = list[i][f[i - 1]]
  <2> HIDE DEF list, lookup, none
  <2> QED BY <1>1, <1>2, WalkFacts
<1>4. PICK g : /\ WalkNodes(first, lookup) = g[n] /\ g[0] = first
               /\ \A i \in 1 .. n : g[i] = lookup[i][g[i - 1]]
  <2> HIDE DEF list, lookup, first
  <2> QED BY <1>1, <1>2, WalkFacts
<1> DEFINE T == {i \in Nat : i <= n => ListedTo(t, f[i], i) /\ FoundTo(t, g[i], f[i], wanted)}
<1>5. 0 \in T
  <2>1. ListedTo(t, <<>>, 0)
    BY DEF ListedTo
  <2>2. FoundTo(t, first, <<>>, wanted)
    BY <1>1 DEF FoundTo
  <2>3. QED
    BY <1>3, <1>4, <2>1, <2>2
<1>6. ASSUME NEW i \in 0 .. n - 1, i \in T PROVE i + 1 \in T
  <2>1. i + 1 \in DOMAIN t /\ (i + 1) - 1 = i
    BY <1>1
  <2>2. ListedTo(t, f[i], i) /\ FoundTo(t, g[i], f[i], wanted)
    BY <1>1, <1>6
  <2>3. f[i] \in Seq(DOMAIN t) /\ g[i] \in Walks
    BY <2>2 DEF ListedTo, FoundTo
  <2>4. /\ f[i + 1] = IF AttachedAt(t, i + 1) THEN Append(f[i], i + 1) ELSE f[i]
        /\ g[i + 1] = IF g[i].found # 0 \/ ~AttachedAt(t, i + 1) THEN g[i]
                      ELSE IF g[i].id = wanted THEN [g[i] EXCEPT !.found = i + 1]
                      ELSE [g[i] EXCEPT !.id = @ + 1]
    <3>1. f[i + 1] = list[i + 1][f[i]] /\ g[i + 1] = lookup[i + 1][g[i]]
      <4> HIDE DEF list, lookup
      <4>1. i + 1 \in 1 .. n /\ (i + 1) - 1 = i
        BY <1>1
      <4>2. QED
        BY <1>3, <1>4, <4>1
    <3>2. QED
      BY <2>1, <2>3, <3>1
  <2>5. ListedTo(t, f[i + 1], i + 1) /\ FoundTo(t, g[i + 1], f[i + 1], wanted)
    BY <2>1, <2>2, <2>4, AttachmentStep
  <2>6. QED
    BY <1>6, <2>5
<1>7. n \in T
  <2> HIDE DEF T
  <2>1. 0 .. n \subseteq T
    BY <1>1, <1>5, <1>6, HoldsUpTo
  <2>2. QED
    BY <1>1, <2>1
<1>8. ListedTo(t, f[n], n) /\ FoundTo(t, g[n], f[n], wanted)
  BY <1>1, <1>7
<1>9. /\ GetAttachments(t) = [id \in 0 .. Len(f[n]) - 1 |-> f[n][id + 1]]
      /\ GetAttachment(t, wanted) = g[n].found
  BY <1>3, <1>4 DEF GetAttachments, GetAttachment
<1>10. QED
  BY <1>8, <1>9 DEF FoundTo

\* Every attachment is listed under a number by which it can be downloaded, no
\* other number leads anywhere, and the paper clip tells the truth, for any mail.
THEOREM AttachmentsAgreeHolds == Spec => []AttachmentsAgree
<1>1. ASSUME Tree(nodes), NEW id \in Nat
      PROVE  LET all == GetAttachments(nodes) IN
             /\ {all[k] : k \in DOMAIN all} = {i \in DOMAIN nodes : AttachedAt(nodes, i)}
             /\ GetAttachment(nodes, id) = IF id \in DOMAIN all THEN all[id] ELSE 0
             /\ HasAttachments(nodes) <=> DOMAIN all # {}
  <2> DEFINE all == GetAttachments(nodes)
  <2>1. PICK list : /\ all = [k \in 0 .. Len(list) - 1 |-> list[k + 1]]
                    /\ ListedTo(nodes, list, Len(nodes))
                    /\ GetAttachment(nodes, id) = IF id < Len(list) THEN list[id + 1] ELSE 0
    BY <1>1, AttachmentsOfTree
  <2>2. /\ Len(list) \in Nat /\ DOMAIN list = 1 .. Len(list)
        /\ DOMAIN all = 0 .. Len(list) - 1 /\ DOMAIN nodes = 1 .. Len(nodes)
    BY <1>1, <2>1, TreeFacts DEF ListedTo
  <2>3. \A k \in DOMAIN all : all[k] \in DOMAIN nodes /\ AttachedAt(nodes, all[k])
    BY <2>1, <2>2 DEF ListedTo
  <2>4. ASSUME NEW i \in DOMAIN nodes, AttachedAt(nodes, i)
        PROVE  \E k \in DOMAIN all : all[k] = i
    <3>1. PICK k \in DOMAIN list : list[k] = i
      BY <2>1, <2>2, <2>4 DEF ListedTo
    <3>2. k - 1 \in DOMAIN all /\ all[k - 1] = i
      BY <2>1, <2>2, <3>1
    <3>3. QED
      BY <3>2
  <2>5. GetAttachment(nodes, id) = IF id \in DOMAIN all THEN all[id] ELSE 0
    BY <2>1, <2>2
  <2> HIDE DEF all
  <2>6. HasAttachments(nodes) <=> DOMAIN all # {}
    BY <2>3, <2>4 DEF HasAttachments
  <2>7. {all[k] : k \in DOMAIN all} = {i \in DOMAIN nodes : AttachedAt(nodes, i)}
    BY <2>3, <2>4
  <2>8. QED
    BY <2>5, <2>6, <2>7 DEF all
<1>2. TreeInv => AttachmentsAgree
  <2>1. 0 \in Nat /\ 0 .. MaxNodes \subseteq Nat
    BY MimeAssumption
  <2>2. QED
    BY <1>1, <2>1 DEF TreeInv, AttachmentsAgree, Parsed
<1>3. QED
  BY <1>2, TreeInvHolds, PTL

-----------------------------------------------------------------------------
(* The preview, and links                                                   *)

TextsTo(t, v, i) ==
  {j \in 1 .. i : InlineLeaf(t, j) /\ Spells(t[j], v) /\ t[j].body = "text"}

PreviewTo(t, visited, i) ==
  /\ visited \in PreviewWalks(t)
  /\ visited.plain = Least(TextsTo(t, "plain-text", i))
  /\ visited.plain = 0 => visited.html = Least(TextsTo(t, "html", i))
  /\ visited.stopped => visited.plain # 0

\* The first text stays the first; a node that has none before it may be it.
LEMMA FirstText ==
  ASSUME NEW t, NEW v, NEW i \in Nat \ {0}
  PROVE  LET first == Least(TextsTo(t, v, i - 1)) IN
         /\ first \in Nat
         /\ Least(TextsTo(t, v, i)) =
              IF first # 0 THEN first
              ELSE IF InlineLeaf(t, i) /\ Spells(t[i], v) /\ t[i].body = "text" THEN i ELSE 0
<1> DEFINE old == TextsTo(t, v, i - 1)
           new == TextsTo(t, v, i)
           is  == InlineLeaf(t, i) /\ Spells(t[i], v) /\ t[i].body = "text"
<1>1. /\ old \subseteq Nat /\ 0 \notin old /\ new \subseteq Nat /\ 0 \notin new
      /\ \A j \in old : j < i
      /\ new = IF is THEN old \cup {i} ELSE old
  BY DEF TextsTo
<1> HIDE DEF old, new, is
<1>2. /\ Least(old) \in Nat
      /\ Least(old) = 0 <=> old = {}
      /\ old # {} => Least(old) \in old /\ \A k \in old : Least(old) <= k
  BY <1>1, LeastFacts
<1>3. CASE old = {}
  <2>1. is => new = {i} /\ i \in new /\ \A k \in new : i <= k
    BY <1>1, <1>3
  <2>2. is => Least(new) = i
    BY <1>1, <2>1, LeastIs
  <2>3. ~is => Least(new) = 0
    BY <1>1, <1>2, <1>3
  <2>4. QED
    BY <1>2, <1>3, <2>2, <2>3 DEF old, new, is
<1>4. CASE old # {}
  <2>1. Least(old) \in new /\ \A k \in new : Least(old) <= k
    BY <1>1, <1>2, <1>4
  <2>2. Least(new) = Least(old)
    BY <1>1, <2>1, LeastIs
  <2>3. QED
    BY <1>2, <1>4, <2>2 DEF old, new
<1>5. QED
  BY <1>3, <1>4

LEMMA SpellingsDiffer ==
  \A n : \A v, w \in Versions : Spells(n, v) /\ Spells(n, w) => v = w
BY KindsDiffer DEF Spells

LEMMA PreviewStep ==
  ASSUME NEW t, Tree(t), NEW i \in DOMAIN t, NEW visited, PreviewTo(t, visited, i - 1)
  PROVE  PreviewTo(t, VisitText(t, visited, i), i)
<1> DEFINE is(v) == InlineLeaf(t, i) /\ Spells(t[i], v) /\ t[i].body = "text"
           next  == TakeText(t, visited, i)
           taken == IF t[i].body = "text" THEN i ELSE 0
           asText == IsLeaf(t[i]) /\ Spells(t[i], "plain-text") /\ visited.plain = 0
           asHtml == /\ IsLeaf(t[i]) /\ Spells(t[i], "html") /\ visited.html = 0
                     /\ InAlternative(t, i) \/ visited.plain = 0
<1>1. /\ i \in Nat \ {0} /\ i \in 0 .. Len(t) /\ Len(t) \in Nat
      /\ visited \in PreviewWalks(t)
      /\ visited \in [plain : 0 .. Len(t), html : 0 .. Len(t), stopped : BOOLEAN]
  BY TreeFacts DEF PreviewTo, PreviewWalks
<1>2. \A v : /\ Least(TextsTo(t, v, i - 1)) \in Nat
             /\ Least(TextsTo(t, v, i)) =
                  IF Least(TextsTo(t, v, i - 1)) # 0 THEN Least(TextsTo(t, v, i - 1))
                  ELSE IF is(v) THEN i ELSE 0
  BY <1>1, FirstText
<1>3. ~(Spells(t[i], "plain-text") /\ Spells(t[i], "html"))
  BY SpellingsDiffer DEF Versions
<1>4. CASE visited.stopped \/ AttachedAt(t, i)
  <2>1. VisitText(t, visited, i) = visited
    BY <1>4 DEF VisitText
  <2>2. visited.stopped \/ (~is("plain-text") /\ ~is("html"))
    BY <1>4 DEF AttachedAt, InlineLeaf
  <2>3. QED
    BY <1>1, <1>2, <2>1, <2>2 DEF PreviewTo
<1>5. CASE ~visited.stopped /\ ~AttachedAt(t, i)
  <2>1. \A v : is(v) <=> IsLeaf(t[i]) /\ Spells(t[i], v) /\ t[i].body = "text"
    BY <1>5 DEF AttachedAt, InlineLeaf
  <2>2. /\ next \in PreviewWalks(t)
        /\ next.plain = IF asText THEN taken ELSE visited.plain
        /\ next.html = IF asHtml THEN taken ELSE visited.html
    <3>1. CASE asText
      <4>1. next = [visited EXCEPT !.plain = taken]
        BY <1>3, <3>1 DEF TakeText
      <4>2. QED
        BY <1>1, <1>3, <3>1, <4>1 DEF PreviewWalks
    <3>2. CASE asHtml
      <4>1. next = [visited EXCEPT !.html = taken]
        BY <1>3, <3>2 DEF TakeText
      <4>2. QED
        BY <1>1, <1>3, <3>2, <4>1 DEF PreviewWalks
    <3>3. CASE ~asText /\ ~asHtml
      BY <1>1, <3>3 DEF TakeText
    <3>4. QED
      BY <3>1, <3>2, <3>3
  <2> DEFINE after == [next EXCEPT !.stopped = InAlternative(t, i) /\ next.plain # 0]
  <2>3. VisitText(t, visited, i) = after
    BY <1>5 DEF VisitText
  <2>4. /\ after \in PreviewWalks(t) /\ after.plain = next.plain /\ after.html = next.html
        /\ after.stopped => next.plain # 0
    <3> HIDE DEF next
    <3>1. next \in [plain : 0 .. Len(t), html : 0 .. Len(t), stopped : BOOLEAN]
      BY <2>2 DEF PreviewWalks
    <3>2. QED
      BY <3>1 DEF PreviewWalks, InAlternative
  <2> HIDE DEF after, next
  <2>5. next.plain = Least(TextsTo(t, "plain-text", i))
    BY <1>1, <1>2, <2>1, <2>2 DEF PreviewTo
  <2>6. next.plain = 0 => next.html = Least(TextsTo(t, "html", i))
    BY <1>1, <1>2, <2>1, <2>2, <2>5 DEF PreviewTo
  <2>7. QED
    BY <2>3, <2>4, <2>5, <2>6 DEF PreviewTo
<1>6. QED
  BY <1>4, <1>5

LEMMA PreviewOfTree ==
  ASSUME NEW t, Tree(t)
  PROVE  LET texts(v) == TextsTo(t, v, Len(t)) IN
         PreviewLeaf(t) = IF texts("plain-text") # {} THEN Least(texts("plain-text"))
                          ELSE Least(texts("html"))
<1> DEFINE n     == Len(t)
           first == [plain |-> 0, html |-> 0, stopped |-> FALSE]
           visit == [i \in DOMAIN t |->
                       [visited \in PreviewWalks(t) |-> VisitText(t, visited, i)]]
<1>1. n \in Nat /\ DOMAIN t = 1 .. n
  BY TreeFacts
<1>2. Len(visit) = n
  <2>1. visit \in [DOMAIN t -> {visit[i] : i \in DOMAIN t}]
    OBVIOUS
  <2> HIDE DEF visit
  <2>2. QED
    BY <2>1, VisitFacts
<1>3. PICK f : /\ WalkNodes(first, visit) = f[n] /\ f[0] = first
               /\ \A i \in 1 .. n : f[i] = visit[i][f[i - 1]]
  <2> HIDE DEF visit, first
  <2> QED BY <1>1, <1>2, WalkFacts
<1> DEFINE T == {i \in Nat : i <= n => PreviewTo(t, f[i], i)}
<1>4. 0 \in T
  <2>1. \A v : TextsTo(t, v, 0) = {}
    BY DEF TextsTo
  <2>2. first \in PreviewWalks(t) /\ Least({}) = 0
    BY <1>1 DEF PreviewWalks, Least
  <2>3. PreviewTo(t, first, 0)
    <3>1. first.plain = 0 /\ first.html = 0 /\ first.stopped = FALSE
      OBVIOUS
    <3> HIDE DEF first
    <3>2. QED
      BY <2>1, <2>2, <3>1 DEF PreviewTo
  <2>4. f[0] = first
    BY <1>3
  <2> HIDE DEF first
  <2>5. QED
    BY <2>3, <2>4
<1>5. ASSUME NEW i \in 0 .. n - 1, i \in T PROVE i + 1 \in T
  <2>1. i + 1 \in DOMAIN t /\ i + 1 \in 1 .. n /\ (i + 1) - 1 = i /\ i <= n
    BY <1>1
  <2>2. PreviewTo(t, f[i], i)
    BY <1>5, <2>1
  <2>3. f[i + 1] = visit[i + 1][f[i]] /\ f[i] \in PreviewWalks(t)
    <3> HIDE DEF visit
    <3> QED BY <1>3, <2>1, <2>2 DEF PreviewTo
  <2>4. f[i + 1] = VisitText(t, f[i], i + 1)
    BY <2>1, <2>3
  <2>5. PreviewTo(t, f[i + 1], i + 1)
    BY <2>1, <2>2, <2>4, PreviewStep
  <2>6. QED
    BY <1>1, <2>5
<1>6. PreviewTo(t, f[n], n)
  <2>1. n \in T
    <3> HIDE DEF T
    <3>1. 0 .. n \subseteq T
      BY <1>1, <1>4, <1>5, HoldsUpTo
    <3>2. QED
      BY <1>1, <3>1
  <2>2. QED
    BY <1>1, <2>1
<1>7. PreviewLeaf(t) = IF f[n].plain # 0 THEN f[n].plain ELSE f[n].html
  BY <1>3 DEF PreviewLeaf
<1>8. Least(TextsTo(t, "plain-text", n)) = 0 <=> TextsTo(t, "plain-text", n) = {}
  <2>1. TextsTo(t, "plain-text", n) \subseteq Nat /\ 0 \notin TextsTo(t, "plain-text", n)
    BY <1>1 DEF TextsTo
  <2>2. QED
    BY <2>1, LeastFacts
<1>9. QED
  BY <1>6, <1>7, <1>8 DEF PreviewTo

\* The preview is what is displayed of the first plain text that is not empty, and
\* of HTML only if there is no such text, however deep they are, for any mail: blank
\* if that one has nothing to show.
THEOREM PreviewIsFirstTextHolds == Spec => []PreviewIsFirstText
<1>1. ASSUME Tree(nodes) PROVE PreviewIsFirstText
  <2> DEFINE texts(v) == {i \in DOMAIN nodes : InlineLeaf(nodes, i) /\ Spells(nodes[i], v)
                                               /\ nodes[i].body = "text"}
             first == IF texts("plain-text") # {} THEN Least(texts("plain-text"))
                      ELSE Least(texts("html"))
  <2>1. \A v : texts(v) = TextsTo(nodes, v, Len(nodes))
    BY <1>1, TreeFacts DEF TextsTo
  <2>2. PreviewLeaf(nodes) = first
    <3> HIDE DEF texts
    <3> QED BY <1>1, <2>1, PreviewOfTree
  <2> HIDE DEF first
  <2>3. GetPreview(nodes) = IF first = 0 THEN {} ELSE Displayed(nodes[first])
    BY <2>2 DEF GetPreview
  <2>4. QED
    BY <2>3 DEF PreviewIsFirstText, first
<1>2. TreeInv => PreviewIsFirstText
  BY <1>1 DEF TreeInv, PreviewIsFirstText, Parsed
<1>3. QED
  BY <1>2, TreeInvHolds, PTL

\* Every link in the tree of a mail leads to a part or a tab that is there.
THEOREM LinksLeadHolds == Spec => []LinksLead
<1>1. ASSUME Tree(nodes), NEW cid \in CIDLinks(nodes)
      PROVE  LET i == GetPartByCID(nodes, cid) IN i # 0 /\ nodes[i].cid = cid
  <2> DEFINE S == {i \in DOMAIN nodes : HasCID(nodes, i, cid)}
  <2>1. S \subseteq Nat /\ 0 \notin S
    BY <1>1, TreeFacts
  <2>2. S # {}
    BY <1>1 DEF CIDLinks, HasCID
  <2>3. Least(S) \in S /\ Least(S) # 0
    BY <2>1, <2>2, LeastFacts
  <2>4. QED
    BY <2>3 DEF GetPartByCID, HasCID
<1>2. ViewLinks(nodes) \subseteq GetBodyVersions(nodes)
  BY DEF ViewLinks, GetBodyVersions
<1>3. TreeInv => LinksLead
  BY <1>1, <1>2 DEF TreeInv, LinksLead, Parsed
<1>4. QED
  BY <1>3, TreeInvHolds, PTL

-----------------------------------------------------------------------------
(* Texts that are parts of the same multipart                               *)

Siblings(t) ==
  /\ \A i \in DOMAIN t : Usual(t[i])
  /\ \A i, j \in TextLeaves(t) :
       t[i].up = t[j].up /\ (i # j => t[i].media # t[j].media)

\* An alternative with a text of its own has every text, so it keeps none away.
LEMMA SiblingsAreNotHidden ==
  ASSUME NEW t, Tree(t), Siblings(t), NEW v \in GetBodyVersions(t)
  PROVE  ~Hidden(t, v)
<1> SUFFICES ASSUME NEW a \in DOMAIN t, Settles(t, a), DirectPart(t, a, v) = 0
             PROVE  FALSE
  BY DEF Hidden
<1>1. PICK i \in DOMAIN t : InlineLeaf(t, i) /\ Spells(t[i], v)
  BY DEF GetBodyVersions
<1>2. PICK w \in Versions : DirectPart(t, a, w) # 0
  BY DEF Settles
<1> DEFINE j == DirectPart(t, a, w)
<1>3. j \in DOMAIN t /\ t[j].up = a /\ InlineLeaf(t, j) /\ Spells(t[j], w)
  BY <1>2, DirectPartFacts
<1> HIDE DEF j
<1>4. i \in TextLeaves(t) /\ j \in TextLeaves(t)
  BY <1>1, <1>3 DEF TextLeaves, GetBodyVersions
<1>5. t[i].up = a
  BY <1>3, <1>4 DEF Siblings
<1>6. QED
  BY <1>1, <1>5, DirectPartFacts

\* Each of those texts is the body of its version.
LEMMA SiblingHasTab ==
  ASSUME NEW t, Tree(t), Siblings(t), NEW i \in TextLeaves(t)
  PROVE  \E v \in GetBodyVersions(t) : GetBody(t, v) = i
<1>1. PICK v \in Versions : i \in DOMAIN t /\ InlineLeaf(t, i) /\ Spells(t[i], v)
  BY DEF TextLeaves
<1>2. v \in GetBodyVersions(t)
  BY <1>1 DEF GetBodyVersions
<1> DEFINE leaf == GetBody(t, v)
<1>3. leaf \in DOMAIN t /\ InlineLeaf(t, leaf) /\ Spells(t[leaf], v)
  BY <1>2, SiblingsAreNotHidden, TabsOfTree DEF Siblings
<1> HIDE DEF leaf
<1>4. leaf \in TextLeaves(t) /\ t[leaf].media = MediaOf(v) /\ t[i].media = MediaOf(v)
  BY <1>1, <1>3 DEF TextLeaves, Siblings, Usual
<1>5. leaf = i
  BY <1>4 DEF Siblings
<1>6. QED
  BY <1>2, <1>5 DEF leaf

\* The texts of a mail that are parts of one multipart all have a tab, the tab
\* that opens first has a body, and the words of the preview that stand in that body
\* find the mail.
THEOREM SiblingsAreShownHolds == Spec => []SiblingsAreShown
<1>1. ASSUME Tree(nodes), Siblings(nodes)
      PROVE  /\ \A i \in TextLeaves(nodes) : \E v \in Versions : GetBody(nodes, v) = i
             /\ TextLeaves(nodes) # {} =>
                  GetBody(nodes, PickBestBodyVersion(GetBodyVersions(nodes))) # 0
             /\ \A e \in Envelopes : PreviewLeaf(nodes) # 0 =>
                  \A word \in GetPreview(nodes) \cap nodes[PreviewLeaf(nodes)].words :
                    SaysText(nodes, e, word)
  <2>1. GetBodyVersions(nodes) \subseteq Versions
    BY DEF GetBodyVersions
  <2>2. \A i \in TextLeaves(nodes) : \E v \in Versions : GetBody(nodes, v) = i
    BY <1>1, <2>1, SiblingHasTab
  <2>3. ASSUME NEW i \in TextLeaves(nodes)
        PROVE  GetBody(nodes, PickBestBodyVersion(GetBodyVersions(nodes))) # 0
    <3> DEFINE best == PickBestBodyVersion(GetBodyVersions(nodes))
    <3>1. best \in GetBodyVersions(nodes)
      BY <1>1, <2>1, <2>3, SiblingHasTab DEF PickBestBodyVersion, Versions
    <3> HIDE DEF best
    <3>2. GetBody(nodes, best) # 0
      BY <1>1, <2>1, <3>1, SiblingsAreNotHidden, TabsOfTree DEF Siblings
    <3>3. QED
      BY <3>2 DEF best
  <2>4. ASSUME NEW e \in Envelopes, PreviewLeaf(nodes) # 0,
               NEW word \in GetPreview(nodes) \cap nodes[PreviewLeaf(nodes)].words
        PROVE  SaysText(nodes, e, word)
    <3> DEFINE texts(v) == TextsTo(nodes, v, Len(nodes))
               i        == PreviewLeaf(nodes)
    <3>1. \A v : /\ Least(texts(v)) # 0 => Least(texts(v)) \in texts(v)
                 /\ texts(v) \subseteq DOMAIN nodes
      <4>1. \A v : texts(v) \subseteq Nat /\ 0 \notin texts(v) /\ texts(v) \subseteq DOMAIN nodes
        BY <1>1, TreeFacts DEF TextsTo
      <4> HIDE DEF texts
      <4>2. QED
        BY <4>1, LeastFacts
    <3>2. i \in texts("plain-text") \/ i \in texts("html")
      BY <1>1, <2>4, <3>1, PreviewOfTree
    <3>3. i \in TextLeaves(nodes)
      BY <3>1, <3>2 DEF TextsTo, TextLeaves, Versions
    <3>4. PICK v \in GetBodyVersions(nodes) : GetBody(nodes, v) = i
      BY <1>1, <3>3, SiblingHasTab
    <3>5. QED
      BY <2>4, <3>4 DEF SaysText
  <2>5. QED
    BY <2>2, <2>3, <2>4
<1>2. TreeInv => SiblingsAreShown
  BY <1>1 DEF TreeInv, SiblingsAreShown, Siblings, Parsed
<1>3. QED
  BY <1>2, TreeInvHolds, PTL

-----------------------------------------------------------------------------
(* Queries                                                                  *)

\* The pieces up to position m that a key has taken.
TakenTo(f, m, q) ==
  f = [i \in 1 .. m |-> i > 1 /\ q[i - 1].form = "key" /\ ~f[i - 1]]

LEMMA TakenExists ==
  ASSUME NEW n \in Nat, NEW q
  PROVE  \E f : TakenTo(f, n, q)
<1> DEFINE T == {m \in Nat : \E f : TakenTo(f, m, q)}
<1>1. 0 \in T
  <2> DEFINE f == [i \in 1 .. 0 |-> TRUE]
  <2>1. TakenTo(f, 0, q)
    BY DEF TakenTo
  <2>2. QED
    BY <2>1
<1>2. ASSUME NEW m \in 0 .. n - 1, m \in T PROVE m + 1 \in T
  <2>1. PICK f : TakenTo(f, m, q)
    BY <1>2
  <2> DEFINE is(h, i) == i > 1 /\ q[i - 1].form = "key" /\ ~h[i - 1]
             g == [i \in 1 .. m + 1 |-> is(f, i)]
  <2>2. \A i \in 1 .. m : f[i] = is(f, i)
    BY <2>1 DEF TakenTo
  <2>3. \A i \in 1 .. m : g[i] = f[i]
    BY <2>2
  <2>4. \A i \in 1 .. m + 1 : is(f, i) = is(g, i)
    <3> SUFFICES ASSUME NEW i \in 1 .. m + 1 PROVE is(f, i) = is(g, i)
      OBVIOUS
    <3>1. i > 1 => i - 1 \in 1 .. m
      OBVIOUS
    <3>2. i > 1 => g[i - 1] = f[i - 1]
      BY <2>3, <3>1
    <3> HIDE DEF g
    <3>3. QED
      BY <3>2
  <2>5. g = [i \in 1 .. m + 1 |-> is(g, i)]
    BY <2>4, Zenon
  <2>6. TakenTo(g, m + 1, q)
    BY <2>5 DEF TakenTo
  <2>7. QED
    BY <2>6
<1>3. 0 .. n \subseteq T
  <2> HIDE DEF T
  <2> QED BY <1>1, <1>2, HoldsUpTo
<1>4. QED
  BY <1>3

LEMMA TakenFacts ==
  ASSUME NEW q, Len(q) \in Nat, DOMAIN q = 1 .. Len(q)
  PROVE  \A i \in DOMAIN q :
           Taken(q)[i] = (i > 1 /\ q[i - 1].form = "key" /\ ~Taken(q)[i - 1])
<1> DEFINE f == CHOOSE f : TakenTo(f, Len(q), q)
<1>1. TakenTo(f, Len(q), q)
  BY TakenExists, Zenon
<1>2. Taken(q) = f
  BY Zenon DEF Taken, TakenTo
<1>3. QED
  <2> HIDE DEF f
  <2> QED BY <1>1, <1>2 DEF TakenTo

\* What is typed at the end changes nothing of what was taken before.
LEMMA TakenStays ==
  ASSUME NEW S, NEW q \in Seq(S), NEW p \in S
  PROVE  \A i \in DOMAIN q : Taken(Append(q, p))[i] = Taken(q)[i]
<1> DEFINE n == Len(q)
           r == Append(q, p)
           T == {i \in Nat : i \in 1 .. n => Taken(r)[i] = Taken(q)[i]}
<1>1. /\ n \in Nat /\ DOMAIN q = 1 .. n
      /\ Len(r) = n + 1 /\ DOMAIN r = 1 .. n + 1
      /\ \A i \in 1 .. n : r[i] = q[i]
  OBVIOUS
<1> HIDE DEF n, r
<1>2. 0 \in T
  OBVIOUS
<1>3. ASSUME NEW i \in 0 .. n - 1, i \in T PROVE i + 1 \in T
  <2>1. i + 1 \in 1 .. n /\ i + 1 \in DOMAIN q /\ i + 1 \in DOMAIN r /\ (i + 1) - 1 = i
    BY <1>1
  <2>2. \A k \in DOMAIN q :
          Taken(q)[k] = (k > 1 /\ q[k - 1].form = "key" /\ ~Taken(q)[k - 1])
    BY <1>1, TakenFacts DEF n
  <2>3. \A k \in DOMAIN r :
          Taken(r)[k] = (k > 1 /\ r[k - 1].form = "key" /\ ~Taken(r)[k - 1])
    BY <1>1, TakenFacts
  <2>4. i + 1 > 1 => r[i] = q[i] /\ Taken(r)[i] = Taken(q)[i]
    BY <1>1, <1>3
  <2>5. /\ Taken(q)[i + 1] = (i + 1 > 1 /\ q[i].form = "key" /\ ~Taken(q)[i])
        /\ Taken(r)[i + 1] = (i + 1 > 1 /\ r[i].form = "key" /\ ~Taken(r)[i])
    <3>1. /\ Taken(q)[i + 1] =
               (i + 1 > 1 /\ q[(i + 1) - 1].form = "key" /\ ~Taken(q)[(i + 1) - 1])
          /\ Taken(r)[i + 1] =
               (i + 1 > 1 /\ r[(i + 1) - 1].form = "key" /\ ~Taken(r)[(i + 1) - 1])
      BY <2>1, <2>2, <2>3, Zenon
    <3>2. QED
      BY <2>1, <3>1, Zenon
  <2>6. CASE i = 0
    <3>1. ~(i + 1 > 1)
      BY <2>6
    <3>2. Taken(q)[i + 1] = FALSE /\ Taken(r)[i + 1] = FALSE
      BY <2>5, <3>1, Zenon
    <3>3. Taken(r)[i + 1] = Taken(q)[i + 1]
      BY <3>2, Zenon
    <3>4. QED
      BY <2>1, <3>3
  <2>7. CASE i # 0
    <3>1. r[i] = q[i] /\ Taken(r)[i] = Taken(q)[i]
      BY <2>4, <2>7
    <3>2. Taken(r)[i + 1] = Taken(q)[i + 1]
      BY <2>5, <3>1, Zenon
    <3>3. QED
      BY <2>1, <3>2
  <2>8. QED
    BY <2>6, <2>7
<1>4. 0 .. n \subseteq T
  <2> HIDE DEF T
  <2> QED BY <1>1, <1>2, <1>3, HoldsUpTo
<1>5. QED
  BY <1>1, <1>4 DEF r

\* Positions of the filters and of the plain texts of a query.
FilterAt(q, j) == q[j].form \in {"filter", "key"} /\ ~Taken(q)[j]
TextAt(q, j)   == q[j].form \in {"word", "phrase"} /\ ~Taken(q)[j]

\* Unless it is the value of a key, what is typed leaves every filter and every
\* text as it was, and is one itself.
LEMMA TypedOn ==
  ASSUME NEW S, NEW q \in Seq(S), NEW p \in S, ~Dangles(q)
  PROVE  LET r == Append(q, p)
             n == Len(q)
         IN  /\ \A j \in DOMAIN q : /\ FilterAt(r, j) <=> FilterAt(q, j)
                                    /\ TextAt(r, j) <=> TextAt(q, j)
                                    /\ FilterAt(q, j) => KeyValue(r, j) = KeyValue(q, j)
                                    /\ r[j] = q[j]
             /\ FilterAt(r, n + 1) <=> p.form \in {"filter", "key"}
             /\ TextAt(r, n + 1) <=> p.form \in {"word", "phrase"}
             /\ r[n + 1] = p /\ DOMAIN q = 1 .. n /\ DOMAIN r = 1 .. n + 1 /\ n \in Nat
<1> DEFINE n == Len(q)
           r == Append(q, p)
<1>1. /\ n \in Nat /\ DOMAIN q = 1 .. n
      /\ Len(r) = n + 1 /\ DOMAIN r = 1 .. n + 1 /\ r[n + 1] = p
      /\ \A j \in 1 .. n : r[j] = q[j]
      /\ q = <<>> <=> n = 0
  OBVIOUS
<1>2. \A j \in 1 .. n : Taken(r)[j] = Taken(q)[j]
  BY <1>1, TakenStays
<1>3. ~Taken(r)[n + 1]
  <2>1. \A k \in DOMAIN r :
          Taken(r)[k] = (k > 1 /\ r[k - 1].form = "key" /\ ~Taken(r)[k - 1])
    <3> HIDE DEF r
    <3> QED BY <1>1, TakenFacts
  <2>2. n + 1 \in DOMAIN r /\ (n + 1) - 1 = n
    BY <1>1
  <2>3. Taken(r)[n + 1] = (n + 1 > 1 /\ r[n].form = "key" /\ ~Taken(r)[n])
    <3>1. Taken(r)[n + 1] = (/\ n + 1 > 1 /\ r[(n + 1) - 1].form = "key"
                             /\ ~Taken(r)[(n + 1) - 1])
      BY <2>1, <2>2, Zenon
    <3>2. QED
      BY <2>2, <3>1, Zenon
  <2>4. n + 1 > 1 => n # 0 /\ r[n] = q[n] /\ Taken(r)[n] = Taken(q)[n] /\ q # <<>>
    <3> HIDE DEF n, r
    <3>1. n + 1 > 1 => n # 0 /\ n \in 1 .. n
      BY <1>1
    <3>2. QED
      BY <1>1, <1>2, <3>1
  <2>5. q # <<>> => ~(q[n].form = "key" /\ ~Taken(q)[n])
    BY DEF Dangles, Last
  <2>6. ~(n + 1 > 1 /\ r[n].form = "key" /\ ~Taken(r)[n])
    BY <2>4, <2>5, Zenon
  <2>7. QED
    BY <2>3, <2>6, Zenon
<1> HIDE DEF r
<1>4. ASSUME NEW j \in DOMAIN q, FilterAt(q, j) PROVE KeyValue(r, j) = KeyValue(q, j)
  <2>1. q[j].form = "key" => j # n
    BY <1>1, <1>4 DEF FilterAt, Dangles, Last
  <2>2. CASE q[j].form = "filter"
    <3>1. r[j] = q[j]
      BY <1>1
    <3>2. /\ KeyValue(q, j) = [key |-> q[j].key, value |-> q[j].value]
          /\ KeyValue(r, j) = [key |-> r[j].key, value |-> r[j].value]
      BY <2>2, <3>1 DEF KeyValue
    <3>3. QED
      BY <3>1, <3>2, Zenon
  <2>3. CASE q[j].form = "key"
    <3>1. j + 1 \in 1 .. n /\ j < n /\ j < n + 1
      BY <1>1, <2>1, <2>3
    <3>2. r[j] = q[j] /\ r[j + 1] = q[j + 1]
      BY <1>1, <3>1
    <3>3. /\ KeyValue(q, j) = [key |-> q[j].key, value |-> AsValue(q[j + 1])]
          /\ KeyValue(r, j) = [key |-> r[j].key, value |-> AsValue(r[j + 1])]
      BY <1>1, <2>3, <3>1, <3>2 DEF KeyValue
    <3>4. QED
      BY <3>2, <3>3, Zenon
  <2>4. QED
    BY <1>4, <2>2, <2>3 DEF FilterAt
<1>5. \A j \in DOMAIN q : /\ FilterAt(r, j) <=> FilterAt(q, j)
                          /\ TextAt(r, j) <=> TextAt(q, j)
  BY <1>1, <1>2 DEF FilterAt, TextAt
<1>6. /\ FilterAt(r, n + 1) <=> p.form \in {"filter", "key"}
      /\ TextAt(r, n + 1) <=> p.form \in {"word", "phrase"}
  BY <1>1, <1>3 DEF FilterAt, TextAt
<1>7. QED
  BY <1>1, <1>4, <1>5, <1>6 DEF r

\* So what is typed on only adds filters, or one text, to the query.
LEMMA FiltersGrow ==
  ASSUME NEW S, NEW q \in Seq(S), NEW p \in S, ~Dangles(q)
  PROVE  LET r == Append(q, p) IN
         /\ KeyValuePairs(q) \subseteq KeyValuePairs(r)
         /\ ParseQuery(q) \subseteq ParseQuery(r)
<1> DEFINE r == Append(q, p)
<1>1. /\ DOMAIN q \subseteq DOMAIN r
      /\ \A j \in DOMAIN q : /\ FilterAt(q, j) => FilterAt(r, j) /\ KeyValue(r, j) = KeyValue(q, j)
                             /\ TextAt(q, j) => TextAt(r, j)
                             /\ r[j] = q[j]
  BY TypedOn
<1> HIDE DEF r
<1>2. KeyValuePairs(q) \subseteq KeyValuePairs(r)
  BY <1>1, Zenon DEF KeyValuePairs, FilterAt
<1>3. PlainTexts(q) \subseteq PlainTexts(r)
  BY <1>1 DEF PlainTexts, TextAt
<1>4. QED
  BY <1>2, <1>3 DEF ParseQuery, r

QueryInv == query \in Seq(Pieces)

LEMMA QueryInvHolds == Spec => []QueryInv
<1>1. Init => QueryInv
  BY DEF Init, QueryInv
<1>2. QueryInv /\ [Next]_searchVars => QueryInv'
  BY DEF QueryInv, Next, Type, searchVars, mimeVars
<1>3. QED
  BY <1>1, <1>2, PTL DEF Spec

\* However long a query is, one more piece never lists a mail that was not
\* listed before, unless it is the value of a key that had none.
THEOREM TypingNarrowsHolds == Spec => TypingNarrows
<1> DEFINE Narrows ==
             \/ query' = query
             \/ Dangles(query)
             \/ \A e \in Envelopes : Found(nodes', e, query') => Found(nodes, e, query)
<1>1. ASSUME QueryInv, Next, query' # query PROVE Narrows
  <2>1. PICK p \in Pieces : nodes' = nodes /\ query' = Append(query, p)
    BY <1>1 DEF Next, Type, mimeVars
  <2> SUFFICES ASSUME ~Dangles(query), NEW e \in Envelopes, Found(nodes', e, query')
               PROVE  Found(nodes, e, query)
    OBVIOUS
  <2>2. /\ KeyValuePairs(query) \subseteq KeyValuePairs(query')
        /\ ParseQuery(query) \subseteq ParseQuery(query')
    BY <1>1, <2>1, FiltersGrow DEF QueryInv
  <2>3. QED
    BY <2>1, <2>2 DEF Found, ValidQuery, MatchAll
<1>2. QueryInv /\ [Next]_searchVars => [Narrows]_query
  BY <1>1 DEF searchVars
<1>3. QED
  BY <1>2, QueryInvHolds, PTL DEF Spec, TypingNarrows

\* A filter typed at the end is one condition more.
LEMMA FilterAdds ==
  ASSUME NEW q \in Seq(Pieces), ~Dangles(q), NEW key, NEW value, NEW t, NEW e
  PROVE  LET r    == Append(q, [form |-> "filter", key |-> key, value |-> value])
             pair == [key |-> key, value |-> value]
         IN  Found(t, e, r) <=> Found(t, e, q) /\ ValidFilter(pair) /\ Match(t, e, pair)
<1> DEFINE p    == [form |-> "filter", key |-> key, value |-> value]
           pair == [key |-> key, value |-> value]
           r    == Append(q, p)
           n    == Len(q)
<1>1. q \in Seq(Pieces \cup {p}) /\ p \in Pieces \cup {p}
  OBVIOUS
<1>2. p.form = "filter" /\ p.key = key /\ p.value = value
  OBVIOUS
<1> HIDE DEF p
<1>3. /\ \A j \in DOMAIN q : /\ FilterAt(r, j) <=> FilterAt(q, j)
                             /\ TextAt(r, j) <=> TextAt(q, j)
                             /\ FilterAt(q, j) => KeyValue(r, j) = KeyValue(q, j)
                             /\ r[j] = q[j]
      /\ FilterAt(r, n + 1) /\ ~TextAt(r, n + 1) /\ r[n + 1] = p
      /\ DOMAIN q = 1 .. n /\ DOMAIN r = 1 .. n + 1 /\ n \in Nat
  BY <1>1, <1>2, TypedOn
<1> HIDE DEF r, n
<1>4. KeyValue(r, n + 1) = pair
  BY <1>2, <1>3 DEF KeyValue
<1> HIDE DEF pair
<1>5. DOMAIN r = DOMAIN q \cup {n + 1}
  BY <1>3
<1>6. KeyValuePairs(r) = KeyValuePairs(q) \cup {pair}
  <2>1. /\ KeyValuePairs(r) = {KeyValue(r, i) : i \in {j \in DOMAIN r : FilterAt(r, j)}}
        /\ KeyValuePairs(q) = {KeyValue(q, i) : i \in {j \in DOMAIN q : FilterAt(q, j)}}
    BY DEF KeyValuePairs, FilterAt
  <2>2. KeyValuePairs(r) \subseteq KeyValuePairs(q) \cup {pair}
    BY <1>3, <1>4, <1>5, <2>1
  <2>3. KeyValuePairs(q) \cup {pair} \subseteq KeyValuePairs(r)
    BY <1>3, <1>4, <1>5, <2>1
  <2>4. QED
    BY <2>2, <2>3
<1>7. PlainTexts(r) = PlainTexts(q)
  <2>1. /\ PlainTexts(r) = {r[i].value : i \in {j \in DOMAIN r : TextAt(r, j)}}
        /\ PlainTexts(q) = {q[i].value : i \in {j \in DOMAIN q : TextAt(q, j)}}
    BY DEF PlainTexts, TextAt
  <2>2. PlainTexts(r) \subseteq PlainTexts(q)
    BY <1>3, <1>5, <2>1
  <2>3. PlainTexts(q) \subseteq PlainTexts(r)
    BY <1>3, <1>5, <2>1
  <2>4. QED
    BY <2>2, <2>3
<1>8. ParseQuery(r) = ParseQuery(q) \cup {pair}
  BY <1>6, <1>7 DEF ParseQuery
<1>9. ValidQuery(r) <=> ValidQuery(q) /\ ValidFilter(pair)
  BY <1>6, Zenon DEF ValidQuery
<1>10. Found(t, e, r) <=> Found(t, e, q) /\ ValidFilter(pair) /\ Match(t, e, pair)
  BY <1>8, <1>9, Zenon DEF Found, MatchAll
<1>11. QED
  BY <1>10 DEF r, p, pair

\* A span that time.Duration holds is parsed as the length it has.
LEMMA SpanLength ==
  ASSUME NEW s, s.n \in Int, IsDuration(s), TrueMinutes(s) <= MaxMinutes
  PROVE  ParseCustomDuration(s) = TrueMinutes(s) /\ TrueMinutes(s) \in Int
<1>1. s.unit \in {"m", "h", "d", "w", "month", "y"}
  BY DEF IsDuration, CustomUnits
<1>2. ASSUME NEW k \in {24, 24 * 7, 24 * 30, 24 * 365}, TrueMinutes(s) = s.n * (k * 60),
             Multiplier(s.unit) = k, s.unit \in CustomUnits
      PROVE  ParseCustomDuration(s) = TrueMinutes(s) /\ TrueMinutes(s) \in Int
  <2>1. s.n * k * 60 = s.n * (k * 60) /\ s.n * (k * 60) \in Int
    BY <1>2
  <2>2. ParseCustomDuration(s) = Wrapped(s.n * k * 60)
    BY <1>2 DEF ParseCustomDuration, CustomUnits, Hour
  <2>3. ~(s.n * k * 60 > MaxMinutes)
    BY <1>2, <2>1, SearchAssumption
  <2>4. QED
    BY <1>2, <2>1, <2>2, <2>3 DEF Wrapped
<1>3. CASE s.unit = "m"
  BY <1>3 DEF TrueMinutes, ParseCustomDuration, CustomUnits
<1>4. CASE s.unit = "h"
  BY <1>4 DEF TrueMinutes, ParseCustomDuration, CustomUnits, Hour
<1>5. CASE s.unit = "d"
  BY <1>2, <1>5 DEF TrueMinutes, Multiplier, CustomUnits, Hour, Day
<1>6. CASE s.unit = "w"
  <2>1. 7 * (24 * 60) = (24 * 7) * 60
    OBVIOUS
  <2>2. QED
    BY <1>2, <1>6, <2>1 DEF TrueMinutes, Multiplier, CustomUnits, Hour, Day
<1>7. CASE s.unit = "month"
  BY <1>2, <1>7 DEF TrueMinutes, Multiplier, CustomUnits, Hour, Day
<1>8. CASE s.unit = "y"
  BY <1>2, <1>8 DEF TrueMinutes, Multiplier, CustomUnits, Hour, Day
<1>9. QED
  BY <1>1, <1>3, <1>4, <1>5, <1>6, <1>7, <1>8

\* Whatever else is typed, and in whatever units, the longer of two spans finds
\* fewer older mails and more newer ones, and none is both.
THEOREM AgesAreOrderedHolds == Spec => []AgesAreOrdered
<1>1. ASSUME QueryInv, ~Dangles(query),
             NEW a \in Spans, IsDuration(a), TrueMinutes(a) <= MaxMinutes,
             NEW b \in Spans, IsDuration(b), TrueMinutes(b) <= MaxMinutes,
             NEW e \in Envelopes
      PROVE  /\ TrueMinutes(a) <= TrueMinutes(b) =>
                  /\ Found(nodes, e, With("older_than", b)) => Found(nodes, e, With("older_than", a))
                  /\ Found(nodes, e, With("newer_than", a)) => Found(nodes, e, With("newer_than", b))
             /\ ~(/\ Found(nodes, e, With("older_than", a))
                  /\ Found(nodes, e, With("newer_than", a)))
  <2>1. \A s \in {a, b} : /\ ParseCustomDuration(s) = TrueMinutes(s)
                          /\ TrueMinutes(s) \in Int /\ IsDuration(s)
    <3>1. a.n \in Int /\ b.n \in Int
      BY SearchAssumption DEF Spans
    <3>2. QED
      BY <1>1, <3>1, SpanLength
  <2>2. Since(e.date) \in Int
    BY SearchAssumption DEF Since
  <2>3. \A key : \A s \in {a, b} :
          Found(nodes, e, With(key, s)) <=>
            /\ Found(nodes, e, query) /\ ValidFilter([key |-> key, value |-> s])
            /\ Match(nodes, e, [key |-> key, value |-> s])
    BY <1>1, FilterAdds DEF QueryInv, With
  <2>4. \A s \in {a, b} :
          /\ ValidFilter([key |-> "older_than", value |-> s])
          /\ ValidFilter([key |-> "newer_than", value |-> s])
          /\ Match(nodes, e, [key |-> "older_than", value |-> s]) <=> Since(e.date) > TrueMinutes(s)
          /\ Match(nodes, e, [key |-> "newer_than", value |-> s]) <=> Since(e.date) < TrueMinutes(s)
    BY <2>1 DEF ValidFilter, Match
  <2>5. QED
    BY <2>1, <2>2, <2>3, <2>4
<1>2. QueryInv => AgesAreOrdered
  BY <1>1 DEF AgesAreOrdered
<1>3. QED
  BY <1>2, QueryInvHolds, PTL

-----------------------------------------------------------------------------
(* Pages of the list                                                        *)

States == [came : SUBSET PagedMails, gone : SUBSET PagedMails]

Phases == {"sent", "listed", "counted", "answered", "failed"}

Calls == [page : Int, phase : Phases, from : States, seen : States,
          total : Nat, rows : Seq(PagedMails)]

Screens == [page : Int, rows : Seq(PagedMails), prev : BOOLEAN, next : BOOLEAN,
            from : States, seen : States]

\* The page of that number, when it fits.
PageOf(list, page) ==
  SubSeq(list, (page - 1) * PageSize + 1, Lesser(page * PageSize, Len(list)))

\* The storage was once in state a, and in b then or later.
UpTo(a, b) == a.came \subseteq b.came /\ a.gone \subseteq b.gone

\* What is on its way, or on the screen, is true of the storage for as long as
\* the storage stays in the state it was read in.
RowsOf(page, seen, rows) ==
  seen = Present /\ Fits(page) => \E list \in ReadNow : rows = PageOf(list, page)

CallInv(call) ==
  /\ UpTo(call.from, Present) /\ UpTo(call.seen, Present)
  /\ call.phase = "listed" =>
       /\ searcher = "FILESYSTEM" /\ call.from = call.seen
       /\ call.seen = Present => call.rows = order
  /\ call.phase = "counted" =>
       /\ searcher = "SQLITE"
       /\ call.from = Present => call.total = Cardinality(Here)
  /\ call.phase = "answered" =>
       /\ UpTo(call.from, call.seen)
       /\ call.from = Present => call.total = Cardinality(Here)
       /\ RowsOf(call.page, call.seen, call.rows)

ScreenInv ==
  /\ UpTo(shown.from, shown.seen) /\ UpTo(shown.seen, Present)
  /\ shown.prev <=> shown.page # 1
  /\ shown.from = Present /\ Fits(shown.page) =>
       (shown.next <=> shown.page * PageSize < Cardinality(Here))
  /\ RowsOf(shown.page, shown.seen, shown.rows)

\* The latest change has reached the screen, or something that will bring it
\* there is still to come.
Reaches ==
  \/ unheard > 0
  \/ \E i \in DOMAIN asked : asked[i].phase \in {"sent", "failed"} \/ asked[i].from = Present
  \/ latest = Present

PagerTypes ==
  /\ searcher \in Searchers
  /\ came \subseteq PagedMails /\ gone \subseteq came /\ order \in Listings(Here)
  /\ unheard \in Nat /\ asked \in Seq(Calls) /\ pageStart \in Int /\ shown \in Screens
  /\ latest \in States /\ failed \in BOOLEAN

PagerInv ==
  /\ PagerTypes
  /\ \A i \in DOMAIN asked : CallInv(asked[i])
  /\ UpTo(latest, Present)
  /\ Reaches
  /\ asked # <<>> \/ failed \/ (pageStart = shown.page /\ ScreenInv)

LEMMA PageNumbers == PageSize \in Nat \ {0} /\ MaxInt \in Nat /\ PageSize <= MaxInt
BY PagerAssumption, Zenon

LEMMA PagedMailsFinite == IsFiniteSet(PagedMails)
BY PagerAssumption, Zenon

LEMMA WrapFits ==
  ASSUME NEW n \in 0 .. MaxInt
  PROVE  Wrap(n) = n
<1>1. \A x, y \in Nat : x < y => x % y = x
  OBVIOUS
<1>2. n + MaxInt + 1 \in Nat /\ 2 * (MaxInt + 1) \in Nat /\ n + MaxInt + 1 < 2 * (MaxInt + 1)
  BY PageNumbers
<1>3. (n + MaxInt + 1) % (2 * (MaxInt + 1)) = n + MaxInt + 1
  BY <1>1, <1>2
<1>4. QED
  BY <1>3, PageNumbers DEF Wrap

LEMMA ListingFacts ==
  ASSUME NEW S, S \subseteq PagedMails, NEW list \in Listings(S)
  PROVE  list \in Seq(PagedMails) /\ Len(list) = Cardinality(S) /\ Cardinality(S) \in Nat
<1>1. IsFiniteSet(S) /\ Cardinality(S) \in Nat
  BY PagedMailsFinite, FS_Subset, FS_CardinalityType
<1>2. list \in [1 .. Cardinality(S) -> S]
  BY DEF Listings, SetToSeqs
<1>3. QED
  BY <1>1, <1>2

\* However a page is cut out of a list, it is the page of that number.
LEMMA PageIsCut ==
  ASSUME NEW list \in Seq(PagedMails), NEW page \in Int, Fits(page)
  PROVE  /\ Cut(list, Bounds(page, Len(list))) = PageOf(list, page)
         /\ SelectPage(list, page) = PageOf(list, page)
         /\ \A total \in Nat : ~IsLastPage(page, total) <=> page * PageSize < total
<1> DEFINE start == (page - 1) * PageSize
           end   == page * PageSize
           len   == Len(list)
<1>1. /\ PageSize \in Nat \ {0} /\ MaxInt \in Nat
      /\ start \in Int /\ end \in Int /\ end = start + PageSize /\ end <= MaxInt
      /\ len \in Nat
  BY PageNumbers DEF Fits
<1>2. start \in Nat
  BY <1>1, PageNumbers DEF Fits
<1>3. Wrap(start) = start /\ Wrap(end) = end
  BY <1>1, <1>2, WrapFits
<1> HIDE DEF start, end
<1>4. /\ Start(page) = start
      /\ Bounds(page, len) = [start |-> Lesser(start, len), end |-> Lesser(end, len)]
  BY <1>1, <1>3 DEF Start, Bounds, start, end
<1>5. SelectPage(list, page) = SubSeq(list, start + 1, Lesser(end, len))
  <2> DEFINE offset == IF Start(page) < 0 THEN 0 ELSE Start(page)
  <2>1. SelectPage(list, page) = SubSeq(list, offset + 1, Lesser(offset + PageSize, len))
    BY DEF SelectPage
  <2>2. offset = start /\ offset + PageSize = end
    BY <1>1, <1>2, <1>4
  <2> HIDE DEF offset, len
  <2>3. QED
    BY <2>1, <2>2, Zenon
<1>6. Cut(list, Bounds(page, len)) = SubSeq(list, Lesser(start, len) + 1, Lesser(end, len))
  <2> HIDE DEF len
  <2>1. /\ Bounds(page, len).start = Lesser(start, len)
        /\ Bounds(page, len).end = Lesser(end, len)
    BY <1>4
  <2>2. QED
    BY <2>1, Zenon DEF Cut
<1>7. SubSeq(list, Lesser(start, len) + 1, Lesser(end, len))
        = SubSeq(list, start + 1, Lesser(end, len))
  <2> HIDE DEF len
  <2>1. CASE start <= len
    <3>1. Lesser(start, len) = start
      BY <2>1 DEF Lesser
    <3>2. QED
      BY <3>1, Zenon
  <2>2. CASE start > len
    <3>1. /\ Lesser(start, len) + 1 \in Int /\ start + 1 \in Int /\ Lesser(end, len) \in Int
          /\ Lesser(end, len) < Lesser(start, len) + 1 /\ Lesser(end, len) < start + 1
      BY <1>1, <1>2, <2>2 DEF Lesser
    <3>2. /\ SubSeq(list, Lesser(start, len) + 1, Lesser(end, len)) = <<>>
          /\ SubSeq(list, start + 1, Lesser(end, len)) = <<>>
      BY <3>1, SubSeqEmpty
    <3>3. QED
      BY <3>2, Zenon
  <2>3. start <= len \/ start > len
    BY <1>1, <1>2
  <2>4. QED
    BY <2>1, <2>2, <2>3, Zenon
<1>8. \A total \in Nat : ~IsLastPage(page, total) <=> end < total
  BY <1>1, <1>3 DEF IsLastPage, end
<1>9. QED
  BY <1>5, <1>6, <1>7, <1>8 DEF PageOf, start, end

\* What a request finds is a sequence of mails, and a MEMORY layer or a folder
\* cuts nothing out of it when the bounds are out of order.
LEMMA RowsAreMails ==
  ASSUME NEW list \in Seq(PagedMails), NEW page \in Int
  PROVE  /\ Cuts(Bounds(page, Len(list))) => Cut(list, Bounds(page, Len(list))) \in Seq(PagedMails)
         /\ SelectPage(list, page) \in Seq(PagedMails)
<1> DEFINE start == (page - 1) * PageSize
           len   == Len(list)
<1>1. /\ PageSize \in Nat \ {0} /\ MaxInt \in Nat /\ start \in Int /\ len \in Nat
      /\ \A i \in 1 .. len : list[i] \in PagedMails
  BY PageNumbers
<1>2. \A n \in Int : Wrap(n) \in Int
  <2>1. \A x \in Int, y \in Nat \ {0} : x % y \in Int
    OBVIOUS
  <2>2. QED
    BY <1>1, <2>1 DEF Wrap
<1>3. \A m, n \in Int : m >= 1 /\ n <= len => SubSeq(list, m, n) \in Seq(PagedMails)
  <2> HIDE DEF len
  <2> QED BY <1>1, SubSeqProperties
<1> HIDE DEF start, len
<1>4. Start(page) \in Int
  BY <1>1, <1>2 DEF Start, start
<1>5. ASSUME Cuts(Bounds(page, len)) PROVE Cut(list, Bounds(page, len)) \in Seq(PagedMails)
  <2> DEFINE b == Bounds(page, len)
  <2>1. /\ b.start = Lesser(Start(page), len)
        /\ b.end = Lesser(Wrap(Start(page) + PageSize), len)
    BY DEF Bounds
  <2>2. b.start + 1 \in Int /\ b.end \in Int /\ b.start + 1 >= 1 /\ b.end <= len
    <3>1. /\ Start(page) \in Int /\ Wrap(Start(page) + PageSize) \in Int
          /\ 0 <= b.start /\ b.start <= b.end
      BY <1>1, <1>2, <1>4, <1>5 DEF Cuts
    <3> HIDE DEF b
    <3>2. QED
      BY <1>1, <2>1, <3>1 DEF Lesser
  <2> HIDE DEF b
  <2>3. SubSeq(list, b.start + 1, b.end) \in Seq(PagedMails)
    BY <1>3, <2>2
  <2>4. QED
    BY <2>3, Zenon DEF Cut, b
<1>6. SelectPage(list, page) \in Seq(PagedMails)
  <2> DEFINE offset == IF Start(page) < 0 THEN 0 ELSE Start(page)
  <2>1. /\ offset + 1 \in Int /\ offset + 1 >= 1
        /\ Lesser(offset + PageSize, len) \in Int /\ Lesser(offset + PageSize, len) <= len
    BY <1>1, <1>4 DEF Lesser
  <2>2. SelectPage(list, page) = SubSeq(list, offset + 1, Lesser(offset + PageSize, len))
    BY DEF SelectPage, len
  <2> HIDE DEF offset
  <2>3. SubSeq(list, offset + 1, Lesser(offset + PageSize, len)) \in Seq(PagedMails)
    BY <1>3, <2>1
  <2>4. QED
    BY <2>2, <2>3, Zenon
<1>7. QED
  BY <1>5, <1>6 DEF len

\* A request that has ended leaves the others.
LEMMA RemoveAtFacts ==
  ASSUME NEW S, NEW s \in Seq(S), NEW i \in DOMAIN s
  PROVE  /\ RemoveAt(s, i) \in Seq(S)
         /\ \A k \in DOMAIN RemoveAt(s, i) : \E j \in DOMAIN s : RemoveAt(s, i)[k] = s[j]
         /\ \A j \in DOMAIN s : j # i => \E k \in DOMAIN RemoveAt(s, i) : RemoveAt(s, i)[k] = s[j]
<1> DEFINE a == SubSeq(s, 1, i - 1)
           b == SubSeq(s, i + 1, Len(s))
           n == Len(s)
<1>1. n \in Nat /\ DOMAIN s = 1 .. n /\ i \in 1 .. n
  OBVIOUS
<1>2. /\ a \in Seq(S) /\ Len(a) = i - 1 /\ \A k \in 1 .. i - 1 : a[k] = s[k]
  BY <1>1, SubSeqProperties
<1>3. /\ b \in Seq(S) /\ Len(b) = n - i /\ \A k \in 1 .. n - i : b[k] = s[k + i]
  <2>1. \A j \in i + 1 .. n : s[j] \in S
    BY <1>1
  <2>2. /\ b \in Seq(S) /\ Len(b) = IF i + 1 <= n THEN n - (i + 1) + 1 ELSE 0
        /\ \A k \in 1 .. n - (i + 1) + 1 : b[k] = s[(i + 1) + k - 1]
    BY <1>1, <2>1, SubSeqProperties
  <2> HIDE DEF b, n
  <2>3. Len(b) = n - i
    BY <1>1, <2>2
  <2>4. \A k \in 1 .. n - i : b[k] = s[k + i]
    <3> TAKE k \in 1 .. n - i
    <3>1. k \in 1 .. n - (i + 1) + 1 /\ (i + 1) + k - 1 = k + i
      BY <1>1
    <3>2. QED
      BY <2>2, <3>1
  <2>5. QED
    BY <2>2, <2>3, <2>4
<1> HIDE DEF a, b, n
<1>4. /\ RemoveAt(s, i) = a \o b /\ a \o b \in Seq(S) /\ Len(a \o b) = n - 1
      /\ DOMAIN (a \o b) = 1 .. n - 1
      /\ \A k \in 1 .. n - 1 : (a \o b)[k] = IF k <= i - 1 THEN a[k] ELSE b[k - (i - 1)]
  <2>1. RemoveAt(s, i) = a \o b
    BY DEF RemoveAt, a, b
  <2>2. /\ a \o b \in Seq(S) /\ Len(a \o b) = Len(a) + Len(b)
        /\ \A k \in 1 .. Len(a) + Len(b) :
             (a \o b)[k] = IF k <= Len(a) THEN a[k] ELSE b[k - Len(a)]
    BY <1>2, <1>3, ConcatProperties
  <2>3. Len(a) + Len(b) = n - 1
    BY <1>1, <1>2, <1>3
  <2>4. DOMAIN (a \o b) = 1 .. n - 1
    BY <2>2, <2>3, LenProperties
  <2>5. \A k \in 1 .. n - 1 : (a \o b)[k] = IF k <= i - 1 THEN a[k] ELSE b[k - (i - 1)]
    BY <1>2, <2>2, <2>3
  <2>6. QED
    BY <2>1, <2>2, <2>3, <2>4, <2>5
<1>5. \A k \in 1 .. n - 1 : (a \o b)[k] = IF k < i THEN s[k] ELSE s[k + 1]
  <2> TAKE k \in 1 .. n - 1
  <2>1. CASE k < i
    <3>1. k \in 1 .. i - 1 /\ k <= i - 1
      BY <1>1, <2>1
    <3>2. QED
      BY <1>2, <1>4, <2>1, <3>1
  <2>2. CASE ~(k < i)
    <3>1. k - (i - 1) \in 1 .. n - i /\ ~(k <= i - 1) /\ (k - (i - 1)) + i = k + 1
      BY <1>1, <2>2
    <3>2. (a \o b)[k] = b[k - (i - 1)]
      BY <1>4, <3>1
    <3>3. b[k - (i - 1)] = s[(k - (i - 1)) + i]
      BY <1>3, <3>1
    <3>4. QED
      BY <2>2, <3>1, <3>2, <3>3
  <2>3. QED
    BY <2>1, <2>2
<1>6. \A k \in 1 .. n - 1 : \E j \in 1 .. n : (a \o b)[k] = s[j]
  <2> TAKE k \in 1 .. n - 1
  <2>1. k \in 1 .. n /\ k + 1 \in 1 .. n
    BY <1>1
  <2>2. QED
    BY <1>5, <2>1
<1>7. \A j \in 1 .. n : j # i => \E k \in 1 .. n - 1 : (a \o b)[k] = s[j]
  <2> SUFFICES ASSUME NEW j \in 1 .. n, j # i PROVE \E k \in 1 .. n - 1 : (a \o b)[k] = s[j]
    OBVIOUS
  <2>1. CASE j < i
    <3>1. j \in 1 .. n - 1
      BY <1>1, <2>1
    <3>2. (a \o b)[j] = s[j]
      BY <1>5, <2>1, <3>1
    <3>3. QED
      BY <3>1, <3>2
  <2>2. CASE j > i
    <3>1. j - 1 \in 1 .. n - 1 /\ ~(j - 1 < i) /\ (j - 1) + 1 = j
      BY <1>1, <2>2
    <3>2. (a \o b)[j - 1] = s[j]
      <4>1. (a \o b)[j - 1] = s[(j - 1) + 1]
        BY <1>5, <3>1
      <4>2. QED
        BY <3>1, <4>1, Zenon
    <3>3. QED
      BY <3>1, <3>2
  <2>3. j < i \/ j > i
    BY <1>1
  <2>4. QED
    BY <2>1, <2>2, <2>3, Zenon
<1>8. QED
  BY <1>1, <1>4, <1>6, <1>7

\* While the storage is the same, so is what is true of it.
LEMMA SameStorage ==
  ASSUME searcher' = searcher, came' = came, gone' = gone, order' = order
  PROVE  /\ Present' = Present /\ Here' = Here /\ Listings(Here)' = Listings(Here)
         /\ \A call : CallInv(call) => CallInv(call)'
         /\ \A page, seen, rows : RowsOf(page, seen, rows) => RowsOf(page, seen, rows)'
<1>1. Present' = Present /\ Here' = Here /\ Listings(Here)' = Listings(Here) /\ ReadNow' = ReadNow
  BY DEF Present, Here, Listings, SortKey, ReadNow
<1>2. \A page, seen, rows : RowsOf(page, seen, rows) => RowsOf(page, seen, rows)'
  BY <1>1, Zenon DEF RowsOf
<1>3. \A call : CallInv(call) => CallInv(call)'
  <2> SUFFICES ASSUME NEW call, CallInv(call) PROVE CallInv(call)'
    OBVIOUS
  <2>1. /\ UpTo(call.from, Present) /\ UpTo(call.seen, Present)
        /\ call.phase = "answered" => RowsOf(call.page, call.seen, call.rows)
    BY Zenon DEF CallInv
  <2>2. /\ UpTo(call.from, Present)' /\ UpTo(call.seen, Present)'
        /\ call.phase = "answered" => RowsOf(call.page, call.seen, call.rows)'
    BY <1>1, <1>2, <2>1, Zenon DEF UpTo
  <2>3. QED
    BY <1>1, <2>2, Zenon DEF CallInv
<1>4. QED
  BY <1>1, <1>2, <1>3

\* A mail that comes or goes makes everything that was read before out of date.
LEMMA StorageMoves ==
  ASSUME came \subseteq came', gone \subseteq gone', came' # came \/ gone' # gone
  PROVE  /\ \A a : UpTo(a, Present) => UpTo(a, Present)' /\ a # Present'
         /\ \A call : CallInv(call) /\ searcher' = searcher => CallInv(call)'
         /\ ScreenInv /\ UNCHANGED shown => ScreenInv'
<1>1. \A a : UpTo(a, Present) => UpTo(a, Present)' /\ a # Present'
  BY DEF UpTo, Present
<1>2. ASSUME NEW call, CallInv(call), searcher' = searcher PROVE CallInv(call)'
  <2>1. /\ UpTo(call.from, Present)' /\ UpTo(call.seen, Present)'
        /\ call.from # Present' /\ call.seen # Present'
    BY <1>1, <1>2 DEF CallInv
  <2>2. RowsOf(call.page, call.seen, call.rows)'
    BY <2>1 DEF RowsOf
  <2>3. QED
    BY <1>2, <2>1, <2>2, Zenon DEF CallInv
<1>3. ASSUME ScreenInv, UNCHANGED shown PROVE ScreenInv'
  <2>1. UpTo(shown.from, Present)
    BY <1>3 DEF ScreenInv, UpTo
  <2>2. /\ UpTo(shown.seen, Present)' /\ shown.from # Present' /\ shown.seen # Present'
    BY <1>1, <1>3, <2>1 DEF ScreenInv
  <2>3. RowsOf(shown.page, shown.seen, shown.rows)'
    BY <1>3, <2>2, Zenon DEF RowsOf
  <2>4. QED
    BY <1>3, <2>2, <2>3, Zenon DEF ScreenInv
<1>4. QED
  BY <1>1, <1>2, <1>3

\* A request that goes on keeps the invariant, if it takes what it knows of the
\* storage from the present or had it before.
LEMMA RequestGoesOn ==
  ASSUME PagerInv, NEW i \in DOMAIN asked, NEW call \in Calls, Becomes(i, call), CallInv(call),
         \/ call.phase = "failed" \/ call.from = Present
         \/ call.from = asked[i].from /\ asked[i].phase \notin {"sent", "failed"}
  PROVE  PagerInv'
<1>1. /\ searcher' = searcher /\ came' = came /\ gone' = gone /\ order' = order
      /\ UNCHANGED <<unheard, pageStart, shown, latest, failed>>
      /\ asked' = [asked EXCEPT ![i] = call]
  BY DEF Becomes, storageVars, screenVars
<1>2. /\ asked \in Seq(Calls) /\ asked' \in Seq(Calls) /\ DOMAIN asked' = DOMAIN asked
      /\ \A j \in DOMAIN asked : asked'[j] = IF j = i THEN call ELSE asked[j]
  BY <1>1 DEF PagerInv, PagerTypes
<1>3. PagerTypes'
  BY <1>1, <1>2, SameStorage DEF PagerInv, PagerTypes
<1>4. \A j \in DOMAIN asked' : CallInv(asked[j])'
  <2> SUFFICES ASSUME NEW j \in DOMAIN asked' PROVE CallInv(asked[j])'
    OBVIOUS
  <2>1. CASE j = i
    <3>1. CallInv(call)' /\ asked'[j] = call
      BY <1>1, <1>2, <2>1, SameStorage
    <3>2. QED
      BY <3>1
  <2>2. CASE j # i
    <3> DEFINE other == asked'[j]
    <3>1. other = asked[j] /\ CallInv(asked[j])
      BY <1>2, <2>2 DEF PagerInv
    <3>2. CallInv(other)
      BY <3>1
    <3>3. QED
      BY <1>1, <3>2, SameStorage
  <2>3. QED
    BY <2>1, <2>2
<1>5. Reaches'
  <2>1. CASE unheard > 0 \/ latest = Present
    BY <1>1, <2>1, SameStorage DEF Reaches
  <2>2. CASE \E j \in DOMAIN asked :
               asked[j].phase \in {"sent", "failed"} \/ asked[j].from = Present
    <3>1. PICK j \in DOMAIN asked :
            asked[j].phase \in {"sent", "failed"} \/ asked[j].from = Present
      BY <2>2
    <3>2. asked'[j].phase \in {"sent", "failed"} \/ asked'[j].from = Present
      BY <1>2, <3>1
    <3>3. QED
      BY <1>1, <1>2, <3>2, SameStorage DEF Reaches
  <2>3. QED
    BY <2>1, <2>2 DEF PagerInv, Reaches
<1>6. asked' # <<>>
  BY <1>2
<1>7. UpTo(latest, Present)'
  BY <1>1, SameStorage DEF PagerInv, UpTo
<1>8. QED
  BY <1>3, <1>4, <1>5, <1>6, <1>7 DEF PagerInv

\* What is read now is a list of the mails that are here.
LEMMA ReadNowFacts ==
  ASSUME PagerTypes
  PROVE  /\ order \in ReadNow \/ searcher = "MEMORY"
         /\ Cardinality(Here) \in Nat
         /\ \A list \in ReadNow : list \in Seq(PagedMails) /\ Len(list) = Cardinality(Here)
<1>1. Here \subseteq PagedMails /\ order \in Listings(Here)
  BY DEF PagerTypes, Here
<1>2. ReadNow \subseteq Listings(Here)
  BY <1>1 DEF ReadNow
<1>3. QED
  BY <1>1, <1>2, ListingFacts DEF ReadNow

LEMMA AnsweredFacts ==
  ASSUME NEW call \in Calls, NEW list \in Seq(PagedMails)
  PROVE  LET next == Answered(call, list) IN
         /\ next \in Calls /\ next.phase \in {"answered", "failed"}
         /\ next.page = call.page /\ next.from = call.from /\ next.seen = call.seen
         /\ next.phase = "answered" =>
              /\ next.total = Len(list)
              /\ Fits(next.page) => next.rows = PageOf(list, next.page)
<1> DEFINE b    == Bounds(call.page, Len(list))
           next == Answered(call, list)
<1>1. call.page \in Int /\ Len(list) \in Nat
  BY DEF Calls
<1>2. CASE Cuts(b)
  <2> DEFINE rows == Cut(list, b)
  <2>1. rows \in Seq(PagedMails)
    BY <1>1, <1>2, RowsAreMails
  <2>2. Fits(call.page) => rows = PageOf(list, call.page)
    BY <1>1, PageIsCut
  <2>3. next = [call EXCEPT !.phase = "answered", !.total = Len(list), !.rows = rows]
    BY <1>2 DEF Answered
  <2> HIDE DEF b, rows, next
  <2>4. QED
    BY <1>1, <2>1, <2>2, <2>3 DEF Calls, Phases, next
<1>3. CASE ~Cuts(b)
  <2>1. next = [call EXCEPT !.phase = "failed"]
    BY <1>3 DEF Answered
  <2> HIDE DEF b, next
  <2>2. QED
    BY <2>1 DEF Calls, Phases, next
<1>4. QED
  BY <1>2, <1>3

\* The steps of the server.
LEMMA RequestSteps ==
  ASSUME PagerInv, NEW i \in DOMAIN asked,
         \/ RefusePage(i) \/ SearchAtOnce(i) \/ ListFolder(i) \/ LoadFiles(i)
         \/ CountRows(i) \/ SelectRows(i)
  PROVE  PagerInv'
<1> DEFINE call == asked[i]
<1>1. PagerTypes /\ call \in Calls /\ CallInv(call) /\ UpTo(call.from, Present)
      /\ UpTo(call.seen, Present)
  BY DEF PagerInv, PagerTypes, CallInv
<1>2. Present \in States /\ UpTo(Present, Present)
  BY <1>1 DEF PagerTypes, Present, States, UpTo
<1>3. CASE RefusePage(i)
  <2> DEFINE next == [call EXCEPT !.phase = "failed"]
  <2>1. next \in Calls /\ next.phase = "failed" /\ next.from = call.from /\ next.seen = call.seen
    BY <1>1 DEF Calls, Phases
  <2>2. Becomes(i, next)
    BY <1>3 DEF RefusePage
  <2> HIDE DEF next
  <2>3. CallInv(next)
    BY <1>1, <2>1 DEF CallInv
  <2>4. QED
    BY <2>1, <2>2, <2>3, RequestGoesOn
<1>4. CASE SearchAtOnce(i)
  <2> DEFINE asks == [call EXCEPT !.from = Present, !.seen = Present]
  <2>1. PICK list \in ReadNow : Becomes(i, Answered(asks, list))
    BY <1>4 DEF SearchAtOnce
  <2>2. asks \in Calls /\ asks.from = Present /\ asks.seen = Present /\ asks.page = call.page
    BY <1>1, <1>2 DEF Calls
  <2> HIDE DEF asks
  <2>3. list \in Seq(PagedMails) /\ Len(list) = Cardinality(Here)
    BY <1>1, ReadNowFacts
  <2> DEFINE next == Answered(asks, list)
  <2>4. /\ next \in Calls /\ next.phase \in {"answered", "failed"}
        /\ next.from = Present /\ next.seen = Present
        /\ next.phase = "answered" =>
             /\ next.total = Len(list)
             /\ Fits(next.page) => next.rows = PageOf(list, next.page)
    BY <2>2, <2>3, AnsweredFacts
  <2> HIDE DEF next
  <2>5. CallInv(next)
    BY <1>2, <2>3, <2>4 DEF CallInv, RowsOf
  <2>6. QED
    BY <2>1, <2>4, <2>5, RequestGoesOn DEF next
<1>5. CASE ListFolder(i)
  <2> DEFINE next == [call EXCEPT !.phase = "listed", !.from = Present, !.seen = Present,
                                  !.rows = order]
  <2>1. order \in Seq(PagedMails)
    <3>1. Here \subseteq PagedMails /\ order \in Listings(Here)
      BY <1>1 DEF PagerTypes, Here
    <3>2. QED
      BY <3>1, ListingFacts
  <2>2. /\ next \in Calls /\ next.phase = "listed" /\ next.from = Present
        /\ next.seen = Present /\ next.rows = order
    BY <1>1, <1>2, <2>1 DEF Calls, Phases
  <2>3. Becomes(i, next) /\ searcher = "FILESYSTEM"
    BY <1>5 DEF ListFolder
  <2> HIDE DEF next
  <2>4. CallInv(next)
    BY <1>2, <2>2, <2>3 DEF CallInv
  <2>5. QED
    BY <2>2, <2>3, <2>4, RequestGoesOn
<1>6. CASE LoadFiles(i)
  <2>1. /\ call.phase = "listed" /\ searcher = "FILESYSTEM" /\ call.from = call.seen
        /\ call.seen = Present => call.rows = order
        /\ call.rows \in Seq(PagedMails)
    BY <1>1, <1>6 DEF LoadFiles, CallInv, Calls
  <2>2. order \in ReadNow
    BY <1>1, <2>1, ReadNowFacts
  <2>3. ASSUME Becomes(i, Answered(call, call.rows)) PROVE PagerInv'
    <3> DEFINE next == Answered(call, call.rows)
    <3> HIDE DEF call
    <3>1. /\ next \in Calls /\ next.phase \in {"answered", "failed"}
          /\ next.page = call.page /\ next.from = call.from /\ next.seen = call.seen
          /\ next.phase = "answered" =>
               /\ next.total = Len(call.rows)
               /\ Fits(next.page) => next.rows = PageOf(call.rows, next.page)
      BY <1>1, <2>1, AnsweredFacts
    <3>2. Becomes(i, next)
      BY <2>3
    <3> HIDE DEF next
    <3>3. call.seen = Present => Len(call.rows) = Cardinality(Here)
      BY <1>1, <2>1, <2>2, ReadNowFacts
    <3>4. CallInv(next)
      <4>1. UpTo(next.from, next.seen)
        BY <2>1, <3>1 DEF UpTo
      <4>2. RowsOf(next.page, next.seen, next.rows) \/ next.phase # "answered"
        BY <2>1, <2>2, <3>1 DEF RowsOf
      <4>3. QED
        BY <1>1, <2>1, <3>1, <3>3, <4>1, <4>2 DEF CallInv
    <3>5. next.from = asked[i].from /\ asked[i].phase \notin {"sent", "failed"}
      BY <2>1, <3>1 DEF call
    <3>6. QED
      BY <3>1, <3>2, <3>4, <3>5, RequestGoesOn
  <2>4. ASSUME Becomes(i, [call EXCEPT !.phase = "failed"]) PROVE PagerInv'
    <3> DEFINE next == [call EXCEPT !.phase = "failed"]
    <3>1. next \in Calls /\ next.phase = "failed" /\ next.from = call.from /\ next.seen = call.seen
      BY <1>1 DEF Calls, Phases
    <3>2. Becomes(i, next)
      BY <2>4
    <3> HIDE DEF next
    <3>3. CallInv(next)
      BY <1>1, <3>1 DEF CallInv
    <3>4. QED
      BY <3>1, <3>2, <3>3, RequestGoesOn
  <2>5. QED
    BY <1>6, <2>3, <2>4 DEF LoadFiles
<1>7. CASE CountRows(i)
  <2> DEFINE next == [call EXCEPT !.phase = "counted", !.from = Present,
                                  !.total = Cardinality(Here)]
  <2>1. /\ next \in Calls /\ next.phase = "counted" /\ next.from = Present
        /\ next.seen = call.seen /\ next.total = Cardinality(Here)
    BY <1>1, <1>2, ReadNowFacts DEF Calls, Phases
  <2>2. Becomes(i, next) /\ searcher = "SQLITE"
    BY <1>7 DEF CountRows
  <2> HIDE DEF next
  <2>3. CallInv(next)
    BY <1>1, <1>2, <2>1, <2>2 DEF CallInv
  <2>4. QED
    BY <2>1, <2>2, <2>3, RequestGoesOn
<1>8. CASE SelectRows(i)
  <2> DEFINE rows == SelectPage(order, call.page)
             next == [call EXCEPT !.phase = "answered", !.seen = Present, !.rows = rows]
  <2>1. call.phase = "counted" /\ searcher = "SQLITE" /\ call.page \in Int
        /\ (call.from = Present => call.total = Cardinality(Here))
    BY <1>1, <1>8 DEF SelectRows, CallInv, Calls
  <2>2. order \in ReadNow /\ order \in Seq(PagedMails)
    BY <1>1, <2>1, ReadNowFacts
  <2>3. rows \in Seq(PagedMails) /\ (Fits(call.page) => rows = PageOf(order, call.page))
    BY <2>1, <2>2, RowsAreMails, PageIsCut
  <2> HIDE DEF rows
  <2>4. /\ next \in Calls /\ next.phase = "answered" /\ next.from = call.from
        /\ next.seen = Present /\ next.rows = rows /\ next.total = call.total
        /\ next.page = call.page
    BY <1>1, <1>2, <2>3 DEF Calls, Phases
  <2>5. Becomes(i, next)
    BY <1>8 DEF SelectRows, rows
  <2> HIDE DEF next
  <2>6. CallInv(next)
    BY <1>1, <1>2, <2>1, <2>2, <2>3, <2>4 DEF CallInv, RowsOf
  <2>7. QED
    BY <2>1, <2>4, <2>5, <2>6, RequestGoesOn
<1>9. QED
  BY <1>3, <1>4, <1>5, <1>6, <1>7, <1>8

\* Mails come and go.
LEMMA StorageSteps ==
  ASSUME PagerInv, NEW m \in PagedMails, MailComes(m) \/ MailGoes(m)
  PROVE  PagerInv'
<1>1. /\ UNCHANGED <<searcher, asked, pageStart, shown, latest, failed>>
      /\ unheard \in Nat /\ unheard' = unheard + 1
      /\ came \subseteq came' /\ gone \subseteq gone' /\ (came' # came \/ gone' # gone)
      /\ came' \subseteq PagedMails /\ gone' \subseteq came'
      /\ \/ Here' = Here \cup {m} /\ order' \in Listings(Here \cup {m})
         \/ Here' = Here \ {m} /\ order' \in Listings(Here \ {m})
  BY DEF MailComes, MailGoes, screenVars, PagerInv, PagerTypes, Here
<1>2. PagerTypes'
  <2>1. \A S : Listings(S)' = Listings(S)
    BY <1>1, Zenon DEF Listings, SortKey
  <2>2. order' \in Listings(Here)'
    BY <1>1, <2>1
  <2>3. QED
    BY <1>1, <2>2 DEF PagerInv, PagerTypes
<1>3. \A j \in DOMAIN asked' : CallInv(asked[j])'
  <2> SUFFICES ASSUME NEW j \in DOMAIN asked' PROVE CallInv(asked[j])'
    OBVIOUS
  <2> DEFINE call == asked'[j]
  <2>1. CallInv(call)
    BY <1>1 DEF PagerInv
  <2>2. QED
    BY <1>1, <2>1, StorageMoves
<1>4. UpTo(latest, Present)'
  BY <1>1, StorageMoves DEF PagerInv, UpTo
<1>5. ScreenInv => ScreenInv'
  BY <1>1, StorageMoves
<1>6. Reaches'
  BY <1>1 DEF Reaches
<1>7. QED
  BY <1>1, <1>2, <1>3, <1>4, <1>5, <1>6 DEF PagerInv

\* A request is sent: it will bring what is there when it is answered.
LEMMA RefreshSteps ==
  ASSUME PagerInv,
         EventComes \/ NextPage \/ PrevPage \/ \E page \in Addresses : GoTo(page)
  PROVE  PagerInv'
<1>1. PICK page \in Int :
        /\ asked' = Append(asked, Ask(page)) /\ pageStart' = page
        /\ UNCHANGED <<searcher, came, gone, order, shown, latest, failed>>
        /\ unheard' \in Nat
  <2>1. pageStart \in Int /\ unheard \in Nat
    BY DEF PagerInv, PagerTypes
  <2>2. \A page \in Addresses : page \in Int
    <3>1. Addresses \subseteq 0 .. MaxInt
      BY PagerAssumption, Zenon
    <3>2. QED
      BY <3>1
  <2>3. CASE EventComes
    BY <2>1, <2>3 DEF EventComes, Refresh, storageVars
  <2>4. ASSUME NEW page \in Int, Turn(page)
        PROVE  /\ asked' = Append(asked, Ask(page)) /\ pageStart' = page
               /\ UNCHANGED <<searcher, came, gone, order, shown, latest, failed>>
               /\ unheard' \in Nat
    BY <2>1, <2>4 DEF Turn, Refresh, storageVars
  <2>5. CASE NextPage
    BY <2>1, <2>4, <2>5 DEF NextPage
  <2>6. CASE PrevPage
    BY <2>1, <2>4, <2>6 DEF PrevPage
  <2>7. CASE \E page \in Addresses : GoTo(page)
    BY <2>2, <2>4, <2>7 DEF GoTo
  <2>8. QED
    BY <2>3, <2>5, <2>6, <2>7
<1> DEFINE new == Ask(page)
           n   == Len(asked)
<1>2. /\ new \in Calls /\ new.phase = "sent"
      /\ UpTo(new.from, Present) /\ UpTo(new.seen, Present)
  BY DEF Ask, Calls, Phases, States, Nothing, UpTo
<1> HIDE DEF new
<1>3. /\ asked' \in Seq(Calls) /\ n \in Nat /\ DOMAIN asked = 1 .. n
      /\ DOMAIN asked' = 1 .. n + 1 /\ asked'[n + 1] = new
      /\ \A j \in 1 .. n : asked'[j] = asked[j]
  BY <1>1, <1>2 DEF PagerInv, PagerTypes, new
<1> HIDE DEF n
<1>4. PagerTypes'
  BY <1>1, <1>3, SameStorage DEF PagerInv, PagerTypes
<1>5. \A j \in DOMAIN asked' : CallInv(asked[j])'
  <2> SUFFICES ASSUME NEW j \in DOMAIN asked' PROVE CallInv(asked[j])'
    OBVIOUS
  <2> DEFINE call == asked'[j]
  <2>1. CallInv(new)
    BY <1>2 DEF CallInv
  <2>2. j = n + 1 \/ j \in DOMAIN asked
    BY <1>3
  <2>3. CallInv(call)
    BY <1>3, <2>1, <2>2 DEF PagerInv
  <2>4. QED
    BY <1>1, <2>3, SameStorage
<1>6. Reaches'
  <2>1. n + 1 \in DOMAIN asked' /\ asked'[n + 1].phase = "sent"
    BY <1>2, <1>3
  <2>2. QED
    BY <2>1 DEF Reaches
<1>7. UpTo(latest, Present)' /\ asked' # <<>>
  BY <1>1, <1>3, SameStorage DEF PagerInv, UpTo
<1>8. QED
  BY <1>4, <1>5, <1>6, <1>7 DEF PagerInv

\* A request ends: the others go on as they were.
LEMMA CallEnds ==
  ASSUME PagerInv, NEW i \in DOMAIN asked, Drop(i),
         searcher' = searcher, came' = came, gone' = gone, order' = order
  PROVE  /\ asked' \in Seq(Calls)
         /\ \A j \in DOMAIN asked' : CallInv(asked[j])'
         /\ \A j \in DOMAIN asked : j # i => \E k \in DOMAIN asked' : asked'[k] = asked[j]
<1>1. /\ asked' \in Seq(Calls)
      /\ \A k \in DOMAIN asked' : \E j \in DOMAIN asked : asked'[k] = asked[j]
      /\ \A j \in DOMAIN asked : j # i => \E k \in DOMAIN asked' : asked'[k] = asked[j]
  BY RemoveAtFacts DEF Drop, PagerInv, PagerTypes
<1>2. ASSUME NEW k \in DOMAIN asked' PROVE CallInv(asked[k])'
  <2> DEFINE call == asked'[k]
  <2>1. CallInv(call)
    BY <1>1 DEF PagerInv
  <2>2. QED
    BY <2>1, SameStorage
<1>3. QED
  BY <1>1, <1>2

\* An answer is drawn.
LEMMA ArrivalStep ==
  ASSUME PagerInv, NEW i \in DOMAIN asked, PageArrives(i)
  PROVE  PagerInv'
<1> DEFINE call == asked[i]
<1>1. /\ call \in Calls /\ CallInv(call) /\ call.phase = "answered"
      /\ shown' = Screen(call) /\ pageStart' = call.page /\ Drop(i) /\ failed' = FALSE
      /\ latest' = [came |-> latest.came \cup call.from.came,
                    gone |-> latest.gone \cup call.from.gone]
      /\ UNCHANGED <<searcher, came, gone, order, unheard>>
  BY DEF PageArrives, PagerInv, PagerTypes, storageVars
<1>2. /\ call.page \in Int /\ call.from \in States /\ call.seen \in States
      /\ call.total \in Nat /\ call.rows \in Seq(PagedMails)
  BY <1>1 DEF Calls
<1>3. /\ UpTo(call.from, Present) /\ UpTo(call.seen, Present) /\ UpTo(call.from, call.seen)
      /\ call.from = Present => call.total = Cardinality(Here)
      /\ RowsOf(call.page, call.seen, call.rows)
  BY <1>1 DEF CallInv
<1> HIDE DEF call
<1>4. /\ shown'.page = call.page /\ shown'.rows = call.rows
      /\ shown'.from = call.from /\ shown'.seen = call.seen
      /\ shown'.prev = (call.page # 1) /\ shown'.next = ~IsLastPage(call.page, call.total)
      /\ shown' \in Screens
  BY <1>1, <1>2 DEF Screen, Screens, IsLastPage
<1>5. PagerTypes'
  <2>1. latest' \in States
    BY <1>1, <1>2 DEF PagerInv, PagerTypes, States
  <2>2. QED
    BY <1>1, <1>2, <1>4, <2>1, CallEnds, SameStorage DEF PagerInv, PagerTypes
<1>6. UpTo(latest, Present)'
  BY <1>1, <1>3, SameStorage DEF PagerInv, UpTo
<1>7. Reaches'
  <2>1. CASE unheard > 0
    BY <1>1, <2>1 DEF Reaches
  <2>2. CASE latest = Present \/ call.from = Present
    <3>1. UpTo(latest, Present) /\ UpTo(call.from, Present)
      BY <1>3 DEF PagerInv
    <3>2. latest' = Present
      BY <1>1, <2>2, <3>1 DEF UpTo, Present
    <3>3. QED
      BY <1>1, <3>2, SameStorage DEF Reaches
  <2>3. CASE \E j \in DOMAIN asked : j # i /\
               (asked[j].phase \in {"sent", "failed"} \/ asked[j].from = Present)
    <3>1. \E k \in DOMAIN asked' :
            asked'[k].phase \in {"sent", "failed"} \/ asked'[k].from = Present
      BY <1>1, <2>3, CallEnds
    <3>2. QED
      BY <1>1, <3>1, SameStorage DEF Reaches
  <2>4. QED
    BY <1>1, <2>1, <2>2, <2>3 DEF PagerInv, Reaches, call
<1>8. ScreenInv'
  <2>1. UpTo(shown.from, shown.seen)' /\ UpTo(shown.seen, Present)'
    BY <1>1, <1>3, <1>4, SameStorage DEF UpTo
  <2>2. (shown.prev <=> shown.page # 1)'
    BY <1>4
  <2>3. (shown.from = Present /\ Fits(shown.page) =>
           (shown.next <=> shown.page * PageSize < Cardinality(Here)))'
    <3> SUFFICES ASSUME call.from = Present, Fits(call.page)
                 PROVE  shown'.next <=> call.page * PageSize < Cardinality(Here)
      BY <1>1, <1>4, SameStorage DEF Fits
    <3>1. shown'.next = ~IsLastPage(call.page, Cardinality(Here)) /\ Cardinality(Here) \in Nat
      BY <1>2, <1>3, <1>4
    <3>2. call.rows \in Seq(PagedMails) /\ call.page \in Int
      BY <1>2
    <3>3. ~IsLastPage(call.page, Cardinality(Here)) <=> call.page * PageSize < Cardinality(Here)
      BY <3>1, <3>2, PageIsCut
    <3>4. QED
      BY <3>1, <3>3, Zenon
  <2>4. RowsOf(shown.page, shown.seen, shown.rows)'
    <3>1. RowsOf(shown'.page, shown'.seen, shown'.rows)
      BY <1>3, <1>4
    <3>2. QED
      BY <1>1, <3>1, SameStorage
  <2>5. QED
    BY <2>1, <2>2, <2>3, <2>4 DEF ScreenInv
<1>9. QED
  BY <1>1, <1>4, <1>5, <1>6, <1>7, <1>8, CallEnds DEF PagerInv

LEMMA FailureStep ==
  ASSUME PagerInv, NEW i \in DOMAIN asked, PageFails(i)
  PROVE  PagerInv'
<1>1. /\ Drop(i) /\ latest' = Present /\ failed' = TRUE
      /\ UNCHANGED <<searcher, came, gone, order, unheard, pageStart, shown>>
  BY DEF PageFails, storageVars
<1>2. latest' \in States /\ UpTo(Present, Present)
  BY <1>1 DEF PagerInv, PagerTypes, Present, States, UpTo
<1>3. PagerTypes'
  BY <1>1, <1>2, CallEnds, SameStorage DEF PagerInv, PagerTypes
<1>4. Reaches' /\ UpTo(latest, Present)'
  BY <1>1, <1>2, SameStorage DEF Reaches, UpTo
<1>5. QED
  BY <1>1, <1>3, <1>4, CallEnds DEF PagerInv

LEMMA PagerInvHolds == PagerSpec => []PagerInv
<1>1. ASSUME PagerInit PROVE PagerInv
  <2>1. /\ searcher \in Searchers /\ came \subseteq PagedMails /\ gone = {}
        /\ order \in Listings(came) /\ Here = came
        /\ unheard = 0 /\ asked = <<Ask(1)>> /\ pageStart = 1 /\ shown = FirstScreen
        /\ latest = Nothing /\ failed = FALSE
    BY <1>1 DEF PagerInit, Here
  <2>2. Ask(1) \in Calls /\ CallInv(Ask(1)) /\ Ask(1).phase = "sent"
    BY DEF Ask, Calls, Phases, States, Nothing, CallInv, UpTo
  <2> DEFINE first == Ask(1)
  <2> HIDE DEF first
  <2>3. asked = <<first>> /\ first \in Calls /\ CallInv(first) /\ first.phase = "sent"
    BY <2>1, <2>2 DEF first
  <2>4. asked \in Seq(Calls) /\ DOMAIN asked = {1} /\ asked[1] = first /\ asked # <<>>
    BY <2>3
  <2>5. shown \in Screens /\ latest \in States /\ UpTo(latest, Present)
    BY <2>1 DEF FirstScreen, Screens, Nothing, States, UpTo
  <2>6. PagerTypes
    <3>1. order \in Listings(Here)
      BY <2>1, Zenon
    <3>2. failed \in BOOLEAN /\ gone \subseteq came
      BY <2>1, Zenon
    <3>3. unheard \in Nat /\ pageStart \in Int
      <4>1. 0 \in Nat /\ 1 \in Int
        OBVIOUS
      <4>2. QED
        BY <2>1, <4>1, Zenon
    <3>4. QED
      BY <2>1, <2>4, <2>5, <3>1, <3>2, <3>3, Zenon DEF PagerTypes
  <2>7. Reaches
    BY <2>3, <2>4 DEF Reaches
  <2>8. QED
    BY <2>3, <2>4, <2>5, <2>6, <2>7 DEF PagerInv
<1>2. ASSUME PagerInv, PagerNext PROVE PagerInv'
  BY <1>2, StorageSteps, RequestSteps, RefreshSteps, ArrivalStep, FailureStep DEF PagerNext
<1>3. ASSUME PagerInv, UNCHANGED pagerVars PROVE PagerInv'
  <2>1. UNCHANGED <<searcher, came, gone, order, unheard, asked, pageStart, shown, latest, failed>>
    BY <1>3 DEF pagerVars
  <2>2. \A j \in DOMAIN asked' : CallInv(asked[j])'
    <3> SUFFICES ASSUME NEW j \in DOMAIN asked' PROVE CallInv(asked[j])'
      OBVIOUS
    <3> DEFINE call == asked'[j]
    <3>1. CallInv(call)
      BY <1>3, <2>1 DEF PagerInv
    <3>2. QED
      BY <2>1, <3>1, SameStorage
  <2>3. PagerTypes' /\ Reaches' /\ UpTo(latest, Present)'
    BY <1>3, <2>1, SameStorage DEF PagerInv, PagerTypes, Reaches, UpTo
  <2>4. ScreenInv => ScreenInv'
    BY <2>1, SameStorage DEF ScreenInv, UpTo, RowsOf, ReadNow
  <2>5. QED
    BY <1>3, <2>1, <2>2, <2>3, <2>4 DEF PagerInv
<1>4. QED
  BY <1>1, <1>2, <1>3, PTL DEF PagerSpec

\* Once everything has settled, the screen shows the page it says out of the
\* mails that are there, and its buttons lead to pages that exist, for any
\* number of mails, of requests under way and of turns, in any order.
THEOREM PagerIsCurrentHolds == PagerSpec => []PagerIsCurrent
<1>1. ASSUME PagerInv, Settled, Fits(shown.page)
      PROVE  /\ pageStart = shown.page
             /\ shown.next <=> shown.page * PageSize < Cardinality(Here)
             /\ shown.prev <=> shown.page > 1
             /\ \E list \in ReadNow : shown.rows = PageOf(list, shown.page)
  <2>1. asked = <<>> /\ unheard = 0 /\ ~failed /\ shown.from = latest
    BY <1>1 DEF Settled
  <2>2. latest = Present /\ pageStart = shown.page /\ ScreenInv
    BY <1>1, <2>1 DEF PagerInv, Reaches
  <2>3. shown.seen = Present /\ shown.page \in Int
    <3>1. shown.seen \in States /\ shown.page \in Int
      BY <1>1 DEF PagerInv, PagerTypes, Screens
    <3>2. UpTo(Present, shown.seen) /\ UpTo(shown.seen, Present)
      BY <2>1, <2>2 DEF ScreenInv
    <3>3. shown.seen.came = came /\ shown.seen.gone = gone
      BY <3>2 DEF UpTo, Present
    <3>4. QED
      BY <3>1, <3>3 DEF States, Present
  <2>4. QED
    BY <1>1, <2>1, <2>2, <2>3 DEF ScreenInv, RowsOf, Fits
<1>2. PagerInv => PagerIsCurrent
  BY <1>1 DEF PagerIsCurrent, PageOf
<1>3. QED
  BY <1>2, PagerInvHolds, PTL

-----------------------------------------------------------------------------
(* A walk through the pages                                                 *)

\* The states of the storage that the answers under way and on the screen are of.
Remembered == {Nothing, shown.seen} \cup {asked[i].seen : i \in DOMAIN asked}

\* What a search may find in a state; h says how a folder or a table was read in it.
Reading(h, seen) ==
  {list \in Listings(seen.came \ seen.gone) : searcher # "MEMORY" => list = h[seen]}

CallReads(h, call) ==
  /\ call.phase \in {"listed", "counted", "answered"} => call.page >= 1
  /\ call.phase = "listed" => call.rows \in Reading(h, call.seen)
  /\ call.phase = "answered" =>
       \E list \in Reading(h, call.seen) :
         Fits(call.page) => call.rows = PageOf(list, call.page)

\* Of list, everything up to the end of the page on the screen was met.
MetUpTo(list) ==
  \A k \in DOMAIN list :
    k <= shown.page * PageSize /\ list[k] \in walk.there => list[k] \in walk.met

Walks == [there : SUBSET PagedMails, met : SUBSET PagedMails, whole : BOOLEAN]

\* A walk that is whole has met whatever it is to meet up to where it stands, in
\* the list as it was when the page on the screen was made. What is remembered
\* is in the order in which it happened.
WalkReads(h) ==
  /\ searcher # "MEMORY" => h[Present] = order
  /\ \A a, b \in Remembered : UpTo(a, b) \/ UpTo(b, a)
  /\ \A a \in Remembered : UpTo(a, Present)
  /\ \A i \in DOMAIN asked : CallReads(h, asked[i])
  /\ walk.whole =>
       /\ shown.page >= 1 /\ walk.there \subseteq shown.seen.came
       /\ \E list \in Reading(h, shown.seen) : MetUpTo(list)

WalkInv ==
  /\ walk \in Walks
  /\ \E h \in [States -> Seq(PagedMails)] : WalkReads(h)

LEMMA MailsCanBeCounted == Cardinality(PagedMails) + PageSize <= MaxInt
BY PagerAssumption, Zenon

\* A listing has every mail, each of them once.
LEMMA ListingOnto ==
  ASSUME NEW S, S \subseteq PagedMails, NEW list \in Listings(S)
  PROVE  /\ DOMAIN list = 1 .. Cardinality(S)
         /\ \A i \in DOMAIN list : list[i] \in S
         /\ \A i, j \in DOMAIN list : i # j => list[i] # list[j]
         /\ \A m \in S : \E i \in DOMAIN list : list[i] = m
         /\ \A i, j \in DOMAIN list : i < j => SortKey[list[i]] >= SortKey[list[j]]
<1> DEFINE n == Cardinality(S)
<1>1. IsFiniteSet(S) /\ n \in Nat
  BY PagedMailsFinite, FS_Subset, FS_CardinalityType
<1>2. /\ list \in [1 .. n -> S]
      /\ \A i, j \in 1 .. n : i # j => list[i] # list[j]
      /\ \A i, j \in DOMAIN list : i < j => SortKey[list[i]] >= SortKey[list[j]]
  BY DEF Listings, SetToSeqs
<1>3. list \in Injection(1 .. n, S)
  BY <1>2 DEF Injection, IsInjective
<1>4. Cardinality(1 .. n) = n
  BY <1>1, FS_Interval
<1>5. list \in Surjection(1 .. n, S)
  BY <1>1, <1>3, <1>4, FS_Injection
<1>6. \A m \in S : \E i \in 1 .. n : list[i] = m
  BY <1>5 DEF Surjection
<1>7. QED
  BY <1>2, <1>6

\* The first mails of a listing are as many as their number says.
LEMMA FirstMails ==
  ASSUME NEW S, S \subseteq PagedMails, NEW list \in Listings(S), NEW k \in DOMAIN list
  PROVE  LET first == {list[x] : x \in 1 .. k}
         IN  IsFiniteSet(first) /\ Cardinality(first) = k /\ k \in Nat
<1> DEFINE first == {list[x] : x \in 1 .. k}
           f     == [x \in 1 .. k |-> list[x]]
<1>1. /\ k \in Nat \ {0} /\ 1 .. k \subseteq DOMAIN list
      /\ \A i, j \in DOMAIN list : i # j => list[i] # list[j]
  <2>1. DOMAIN list = 1 .. Len(list) /\ Len(list) \in Nat
    BY ListingFacts
  <2>2. QED
    BY <2>1, ListingOnto
<1>2. f \in Surjection(1 .. k, first) /\ f \in Injection(1 .. k, first)
  <2>1. f \in [1 .. k -> first]
    OBVIOUS
  <2>2. \A t \in first : \E x \in 1 .. k : f[x] = t
    OBVIOUS
  <2>3. \A x, y \in 1 .. k : f[x] = f[y] => x = y
    BY <1>1
  <2> HIDE DEF f, first
  <2>4. QED
    BY <2>1, <2>2, <2>3 DEF Surjection, Injection, IsInjective
<1>3. IsFiniteSet(1 .. k) /\ Cardinality(1 .. k) = k
  BY <1>1, FS_Interval
<1> HIDE DEF f, first
<1>4. IsFiniteSet(first) /\ Cardinality(first) = Cardinality(1 .. k)
  BY <1>2, <1>3, FS_Surjection
<1>5. QED
  BY <1>1, <1>3, <1>4 DEF first

LEMMA SortKeyIsInt ==
  ASSUME NEW m \in PagedMails
  PROVE  SortKey[m] \in Int
<1>1. Date \in [PagedMails -> Int] /\ DateText \in [PagedMails -> Int]
  BY PagerAssumption, Zenon
<1>2. SortKey \in [PagedMails -> Int]
  BY <1>1, Zenon DEF SortKey
<1>3. QED
  BY <1>2

\* A mail in two listings moves towards the front by no more places than there
\* are mails that have left: whatever was listed before it and is still there is
\* still before it.
LEMMA KeepsPlace ==
  ASSUME NEW S, NEW T, S \subseteq PagedMails, T \subseteq PagedMails, Apart(S \cup T),
         NEW old \in Listings(S), NEW new \in Listings(T),
         NEW i \in DOMAIN old, NEW k \in DOMAIN new, old[i] = new[k]
  PROVE  i <= k + Cardinality(S \ T)
<1> DEFINE before == {old[x] : x \in 1 .. i}
           after  == {new[x] : x \in 1 .. k}
           left   == S \ T
<1>1. /\ IsFiniteSet(before) /\ Cardinality(before) = i /\ i \in Nat
      /\ IsFiniteSet(after) /\ Cardinality(after) = k /\ k \in Nat
  BY FirstMails
<1>2. IsFiniteSet(left) /\ Cardinality(left) \in Nat
  <2>1. left \subseteq PagedMails
    OBVIOUS
  <2>2. QED
    BY <2>1, PagedMailsFinite, FS_Subset, FS_CardinalityType
<1>3. before \subseteq after \cup left
  <2> SUFFICES ASSUME NEW x \in 1 .. i, old[x] \in T PROVE old[x] \in after
    <3>1. \A x \in 1 .. i : old[x] \in S
      <4>1. 1 .. i \subseteq DOMAIN old
        BY ListingOnto, ListingFacts
      <4>2. QED
        BY <4>1, ListingOnto
    <3>2. QED
      BY <3>1
  <2>1. x \in DOMAIN old /\ x <= i /\ x \in Nat /\ i \in Nat /\ k \in Nat
    BY <1>1, ListingOnto, ListingFacts
  <2>2. PICK y \in DOMAIN new : new[y] = old[x]
    BY ListingOnto
  <2>3. y \in Nat /\ y >= 1
    BY ListingOnto, ListingFacts
  <2>4. CASE y <= k
    BY <2>1, <2>2, <2>3, <2>4
  <2>5. CASE y > k
    <3>1. new[k] # new[y] /\ new[k] \in T /\ new[y] \in T
      BY <2>1, <2>3, <2>5, ListingOnto
    <3>2. SortKey[new[k]] # SortKey[new[y]]
      BY <3>1 DEF Apart
    <3>3. SortKey[new[k]] >= SortKey[new[y]]
      BY <2>1, <2>3, <2>5, ListingOnto
    <3>4. x # i
      BY <2>2, <3>1
    <3>5. SortKey[old[x]] >= SortKey[old[i]]
      BY <2>1, <3>4, ListingOnto
    <3>6. SortKey[new[k]] \in Int /\ SortKey[new[y]] \in Int
      BY <3>1, SortKeyIsInt
    <3>7. QED
      BY <2>2, <3>2, <3>3, <3>5, <3>6
  <2>6. QED
    BY <2>1, <2>3, <2>4, <2>5
<1> HIDE DEF before, after, left
<1>4. /\ IsFiniteSet(after \cup left)
      /\ Cardinality(after \cup left) <= k + Cardinality(left)
  <2>1. /\ IsFiniteSet(after \cup left)
        /\ Cardinality(after \cup left)
             = Cardinality(after) + Cardinality(left) - Cardinality(after \cap left)
    BY <1>1, <1>2, FS_Union
  <2>2. Cardinality(after \cap left) \in Nat
    BY <1>1, FS_Intersection, FS_CardinalityType
  <2>3. QED
    BY <1>1, <1>2, <2>1, <2>2
<1>5. Cardinality(before) <= Cardinality(after \cup left) /\ Cardinality(after \cup left) \in Nat
  BY <1>3, <1>4, FS_Subset, FS_CardinalityType
<1>6. i <= k + Cardinality(left)
  BY <1>1, <1>2, <1>4, <1>5
<1>7. QED
  BY <1>6 DEF left

\* A mail on a page is one of its rows.
LEMMA OnPage ==
  ASSUME NEW list \in Seq(PagedMails), NEW page \in Int, page >= 1, NEW k \in DOMAIN list,
         (page - 1) * PageSize < k, k <= page * PageSize
  PROVE  list[k] \in ToSet(PageOf(list, page))
<1> DEFINE m    == (page - 1) * PageSize + 1
           n    == Lesser(page * PageSize, Len(list))
           rows == SubSeq(list, m, n)
<1>1. /\ PageSize \in Nat \ {0} /\ Len(list) \in Nat /\ k \in 1 .. Len(list)
      /\ (page - 1) * PageSize \in Nat /\ page * PageSize \in Nat
  BY PageNumbers
<1>2. m \in Nat \ {0} /\ n \in Nat /\ m <= k /\ k <= n /\ n <= Len(list)
  BY <1>1 DEF Lesser
<1> HIDE DEF m, n
<1>3. \A x \in m .. n : list[x] \in PagedMails
  BY <1>2
<1>4. /\ rows \in Seq(PagedMails) /\ Len(rows) = IF m <= n THEN n - m + 1 ELSE 0
      /\ \A x \in 1 .. n - m + 1 : rows[x] = list[m + x - 1]
  BY <1>2, <1>3, SubSeqProperties
<1> DEFINE x == k - m + 1
<1>5. x \in 1 .. n - m + 1 /\ m + x - 1 = k
  BY <1>1, <1>2
<1> HIDE DEF x, rows
<1>6. DOMAIN rows = 1 .. n - m + 1
  <2>1. DOMAIN rows = 1 .. Len(rows)
    BY <1>4
  <2>2. Len(rows) = n - m + 1
    BY <1>1, <1>2, <1>4
  <2>3. QED
    BY <2>1, <2>2
<1>7. rows[x] = list[k] /\ x \in DOMAIN rows
  BY <1>4, <1>5, <1>6
<1>8. QED
  BY <1>7 DEF ToSet, PageOf, rows, m, n

\* While the storage is the same, so is what it may have been read as.
LEMMA SameReading ==
  ASSUME searcher' = searcher
  PROVE  /\ \A h, seen : Reading(h, seen)' = Reading(h, seen)
         /\ \A h, call : CallReads(h, call)' <=> CallReads(h, call)
<1>1. \A h, seen : Reading(h, seen)' = Reading(h, seen)
  <2>1. \A S : Listings(S)' = Listings(S)
    BY Zenon DEF Listings, SortKey
  <2>2. QED
    BY <2>1 DEF Reading
<1>2. QED
  BY <1>1, Zenon DEF CallReads

\* What a search finds at present is what it may find in the present state.
LEMMA ReadsNow ==
  ASSUME PagerTypes, NEW h, WalkReads(h), NEW list \in ReadNow
  PROVE  list \in Reading(h, Present)
BY DEF PagerTypes, WalkReads, ReadNow, Reading, Present, Here

\* Requests are sent, go on or end: what is new under way is of the present
\* state, or of one that was remembered.
LEMMA WalkKept ==
  ASSUME NEW h, WalkReads(h), UNCHANGED <<searcher, came, gone, order, shown, walk>>,
         \A k \in DOMAIN asked' :
           \/ \E j \in DOMAIN asked : asked'[k] = asked[j]
           \/ CallReads(h, asked'[k]) /\ asked'[k].seen \in Remembered \cup {Present}
  PROVE  WalkReads(h)'
<1>1. Present' = Present
  BY DEF Present
<1>2. Remembered' \subseteq Remembered \cup {Present}
  BY DEF Remembered
<1>3. \A a \in Remembered \cup {Present} : UpTo(a, Present)
  BY DEF WalkReads, UpTo
<1>4. \A a, b \in Remembered \cup {Present} : UpTo(a, b) \/ UpTo(b, a)
  BY <1>3 DEF WalkReads
<1>5. /\ (\A a, b \in Remembered : UpTo(a, b) \/ UpTo(b, a))'
      /\ (\A a \in Remembered : UpTo(a, Present))'
  BY <1>1, <1>2, <1>3, <1>4 DEF UpTo
<1>6. \A k \in DOMAIN asked' : CallReads(h, asked[k])'
  <2> SUFFICES ASSUME NEW k \in DOMAIN asked' PROVE CallReads(h, asked[k])'
    OBVIOUS
  <2> DEFINE call == asked'[k]
  <2>1. CallReads(h, call)
    BY DEF WalkReads
  <2>2. QED
    BY <2>1, SameReading
<1>7. (walk.whole =>
         /\ shown.page >= 1 /\ walk.there \subseteq shown.seen.came
         /\ \E list \in Reading(h, shown.seen) : MetUpTo(list))'
  <2>1. \A list : MetUpTo(list)' <=> MetUpTo(list)
    BY DEF MetUpTo
  <2>2. Reading(h, shown.seen)' = Reading(h, shown.seen)
    BY SameReading
  <2>3. QED
    BY <2>1, <2>2 DEF WalkReads
<1>8. QED
  BY <1>1, <1>5, <1>6, <1>7 DEF WalkReads

\* A step of a request.
LEMMA WalkRequest ==
  ASSUME PagerInv, NEW h, WalkReads(h), NEW i \in DOMAIN asked, NEW call,
         Becomes(i, call), CallReads(h, call), call.seen \in {asked[i].seen, Present}
  PROVE  WalkReads(h)'
<1>1. /\ UNCHANGED <<searcher, came, gone, order, shown, walk>>
      /\ asked' = [asked EXCEPT ![i] = call]
  BY DEF Becomes, storageVars, screenVars
<1>2. asked[i].seen \in Remembered
  BY DEF Remembered
<1>3. \A k \in DOMAIN asked' :
        \/ \E j \in DOMAIN asked : asked'[k] = asked[j]
        \/ CallReads(h, asked'[k]) /\ asked'[k].seen \in Remembered \cup {Present}
  BY <1>1, <1>2 DEF PagerInv, PagerTypes
<1>4. QED
  BY <1>1, <1>3, WalkKept

\* A list that is cut, or a panic.
LEMMA AnsweredReads ==
  ASSUME NEW h, NEW call \in Calls, call.page >= 1, NEW list \in Seq(PagedMails),
         list \in Reading(h, call.seen)
  PROVE  CallReads(h, Answered(call, list)) /\ Answered(call, list).seen = call.seen
<1> DEFINE b == Bounds(call.page, Len(list))
<1>1. call.page \in Int
  BY DEF Calls
<1>2. CASE Cuts(b)
  <2> DEFINE next == [call EXCEPT !.phase = "answered", !.total = Len(list), !.rows = Cut(list, b)]
  <2>1. /\ next.page = call.page /\ next.seen = call.seen /\ next.phase = "answered"
        /\ next.rows = Cut(list, b)
    BY DEF Calls
  <2>2. Answered(call, list) = next
    BY <1>2, Zenon DEF Answered
  <2>3. Fits(call.page) => Cut(list, b) = PageOf(list, call.page)
    BY <1>1, PageIsCut
  <2> HIDE DEF next, b
  <2>4. CallReads(h, next)
    BY <2>1, <2>3 DEF CallReads
  <2>5. QED
    BY <2>1, <2>2, <2>4, Zenon
<1>3. CASE ~Cuts(b)
  <2> DEFINE next == [call EXCEPT !.phase = "failed"]
  <2>1. next.seen = call.seen /\ next.phase = "failed"
    BY DEF Calls
  <2>2. Answered(call, list) = next
    BY <1>3, Zenon DEF Answered
  <2> HIDE DEF next, b
  <2>3. CallReads(h, next)
    BY <2>1 DEF CallReads
  <2>4. QED
    BY <2>1, <2>2, <2>3, Zenon
<1>4. QED
  BY <1>2, <1>3

LEMMA WalkRequests ==
  ASSUME PagerInv, NEW h, WalkReads(h), NEW i \in DOMAIN asked,
         \/ RefusePage(i) \/ SearchAtOnce(i) \/ ListFolder(i) \/ LoadFiles(i)
         \/ CountRows(i) \/ SelectRows(i)
  PROVE  WalkReads(h)'
<1> DEFINE call == asked[i]
<1>1. call \in Calls /\ CallReads(h, call) /\ PagerTypes
  BY DEF PagerInv, PagerTypes, WalkReads
<1>2. Present \in States /\ order \in Seq(PagedMails)
  <2>1. Here \subseteq PagedMails
    BY <1>1 DEF PagerTypes, Here
  <2>2. QED
    BY <1>1, <2>1, ListingFacts DEF PagerTypes, Present, States
<1>3. order \in Reading(h, Present) \/ searcher = "MEMORY"
  BY <1>1, ReadsNow DEF ReadNow
<1>4. CASE RefusePage(i)
  <2> DEFINE next == [call EXCEPT !.phase = "failed"]
  <2>1. next.phase = "failed" /\ next.seen = call.seen /\ Becomes(i, next)
    BY <1>1, <1>4 DEF RefusePage, Calls
  <2> HIDE DEF next
  <2>2. CallReads(h, next)
    BY <2>1 DEF CallReads
  <2>3. QED
    BY <2>1, <2>2, WalkRequest
<1>5. CASE SearchAtOnce(i)
  <2> DEFINE asking == [call EXCEPT !.from = Present, !.seen = Present]
  <2>1. asking \in Calls /\ asking.seen = Present /\ asking.page = call.page
    BY <1>1, <1>2 DEF Calls
  <2>2. PICK list \in ReadNow : Becomes(i, Answered(asking, list))
    BY <1>5 DEF SearchAtOnce
  <2>3. call.page >= 1
    BY <1>5 DEF SearchAtOnce
  <2> HIDE DEF asking
  <2>4. list \in Reading(h, Present) /\ list \in Seq(PagedMails)
    BY <1>1, ReadsNow, ReadNowFacts
  <2> DEFINE next == Answered(asking, list)
  <2>5. CallReads(h, next) /\ next.seen = Present
    BY <2>1, <2>3, <2>4, AnsweredReads
  <2> HIDE DEF next
  <2>6. Becomes(i, next)
    BY <2>2 DEF next
  <2>7. QED
    BY <2>5, <2>6, WalkRequest
<1>6. CASE ListFolder(i)
  <2> DEFINE next == [call EXCEPT !.phase = "listed", !.from = Present, !.seen = Present,
                                  !.rows = order]
  <2>1. /\ next.phase = "listed" /\ next.seen = Present /\ next.rows = order
        /\ next.page = call.page
    BY <1>1 DEF Calls
  <2>2. call.page >= 1 /\ searcher = "FILESYSTEM" /\ Becomes(i, next)
    BY <1>6 DEF ListFolder
  <2> HIDE DEF next
  <2>3. CallReads(h, next)
    BY <1>3, <2>1, <2>2 DEF CallReads
  <2>4. QED
    BY <2>1, <2>2, <2>3, WalkRequest
<1>7. CASE LoadFiles(i)
  <2>1. call.phase = "listed" /\ call.page >= 1 /\ call.rows \in Reading(h, call.seen)
    BY <1>1, <1>7 DEF LoadFiles, CallReads
  <2>2. call.rows \in Seq(PagedMails)
    BY <1>1 DEF Calls
  <2>3. CASE Becomes(i, Answered(call, call.rows))
    <3> DEFINE next == Answered(call, call.rows)
    <3>1. CallReads(h, next) /\ next.seen = call.seen
      BY <1>1, <2>1, <2>2, AnsweredReads
    <3>2. Becomes(i, next)
      BY <2>3
    <3> HIDE DEF next
    <3>3. QED
      BY <3>1, <3>2, WalkRequest
  <2>4. CASE Becomes(i, [call EXCEPT !.phase = "failed"])
    <3> DEFINE next == [call EXCEPT !.phase = "failed"]
    <3>1. next.phase = "failed" /\ next.seen = call.seen /\ Becomes(i, next)
      BY <1>1, <2>4 DEF Calls
    <3> HIDE DEF next
    <3>2. CallReads(h, next)
      BY <3>1 DEF CallReads
    <3>3. QED
      BY <3>1, <3>2, WalkRequest
  <2>5. QED
    BY <1>7, <2>3, <2>4 DEF LoadFiles
<1>8. CASE CountRows(i)
  <2> DEFINE next == [call EXCEPT !.phase = "counted", !.from = Present,
                                  !.total = Cardinality(Here)]
  <2>1. next.phase = "counted" /\ next.seen = call.seen /\ next.page = call.page
    BY <1>1 DEF Calls
  <2>2. call.page >= 1 /\ Becomes(i, next)
    BY <1>8 DEF CountRows
  <2> HIDE DEF next
  <2>3. CallReads(h, next)
    BY <2>1, <2>2 DEF CallReads
  <2>4. QED
    BY <2>1, <2>2, <2>3, WalkRequest
<1>9. CASE SelectRows(i)
  <2> DEFINE rows == SelectPage(order, call.page)
             next == [call EXCEPT !.phase = "answered", !.seen = Present, !.rows = rows]
  <2>1. /\ call.phase = "counted" /\ call.page >= 1 /\ call.page \in Int
        /\ searcher = "SQLITE" /\ Becomes(i, next)
    BY <1>1, <1>9 DEF SelectRows, CallReads, Calls, PagerInv, CallInv
  <2>2. Fits(call.page) => rows = PageOf(order, call.page)
    BY <1>2, <2>1, PageIsCut
  <2> HIDE DEF rows
  <2>3. /\ next.phase = "answered" /\ next.seen = Present /\ next.rows = rows
        /\ next.page = call.page
    BY <1>1 DEF Calls
  <2> HIDE DEF next
  <2>4. CallReads(h, next)
    BY <1>3, <2>1, <2>2, <2>3 DEF CallReads
  <2>5. QED
    BY <2>1, <2>3, <2>4, WalkRequest
<1>10. QED
  BY <1>4, <1>5, <1>6, <1>7, <1>8, <1>9

\* A mail comes or goes: the new state is one that nothing was read in.
LEMMA WalkStorage ==
  ASSUME PagerInv, WalkInv, PagerInv', NEW m \in PagedMails, MailComes(m) \/ MailGoes(m)
  PROVE  WalkInv'
<1> DEFINE now == Present'
<1>1. /\ UNCHANGED <<searcher, asked, shown, walk>>
      /\ came \subseteq came' /\ gone \subseteq gone' /\ (came' # came \/ gone' # gone)
  BY DEF MailComes, MailGoes, screenVars, PagerInv, PagerTypes, Here
<1>2. now \in States /\ order' \in Seq(PagedMails)
  <2>1. PagerTypes'
    BY DEF PagerInv
  <2>2. came' \subseteq PagedMails /\ gone' \subseteq PagedMails
    BY <2>1 DEF PagerTypes
  <2>3. \A S : Listings(S)' = Listings(S)
    BY <1>1, Zenon DEF Listings, SortKey
  <2>4. order' \in Listings(came' \ gone') /\ came' \ gone' \subseteq PagedMails
    BY <2>1, <2>2, <2>3 DEF PagerTypes, Here
  <2>5. QED
    BY <2>2, <2>4, ListingFacts DEF Present, States
<1>3. PICK h \in [States -> Seq(PagedMails)] : WalkReads(h)
  BY DEF WalkInv
<1>4. PICK h2 \in [States -> Seq(PagedMails)] :
        h2[now] = order' /\ \A a \in States : a # now => h2[a] = h[a]
  <2>1. [h EXCEPT ![now] = order'] \in [States -> Seq(PagedMails)]
    BY <1>2, <1>3
  <2>2. QED
    BY <1>2, <1>3, <2>1
<1>5. \A a \in Remembered : UpTo(a, Present)' /\ a # now
  BY <1>1, <1>3, StorageMoves DEF WalkReads
<1>6. Remembered' = Remembered
  BY <1>1, Zenon DEF Remembered
<1>7. /\ \A j \in DOMAIN asked : asked[j].seen \in Remembered /\ asked[j].seen \in States
      /\ shown.seen \in Remembered /\ shown.seen \in States
  <2>1. shown \in Screens /\ \A j \in DOMAIN asked : asked[j] \in Calls
    BY DEF PagerInv, PagerTypes
  <2>2. QED
    BY <2>1 DEF Remembered, Calls, Screens
<1> HIDE DEF now
<1>8. \A a \in States : a \in Remembered => Reading(h2, a) = Reading(h, a)
  BY <1>4, <1>5, Zenon DEF Reading
<1>9. \A j \in DOMAIN asked' : CallReads(h2, asked[j])'
  <2> SUFFICES ASSUME NEW j \in DOMAIN asked' PROVE CallReads(h2, asked[j])'
    OBVIOUS
  <2> DEFINE call == asked'[j]
  <2>1. CallReads(h, call) /\ Reading(h2, call.seen) = Reading(h, call.seen)
    BY <1>1, <1>3, <1>7, <1>8 DEF WalkReads
  <2>2. CallReads(h2, call)
    BY <2>1, Zenon DEF CallReads
  <2>3. QED
    BY <1>1, <2>2, SameReading
<1>10. (walk.whole =>
          /\ shown.page >= 1 /\ walk.there \subseteq shown.seen.came
          /\ \E list \in Reading(h2, shown.seen) : MetUpTo(list))'
  <2>1. \A list : MetUpTo(list)' <=> MetUpTo(list)
    BY <1>1 DEF MetUpTo
  <2>2. Reading(h2, shown.seen)' = Reading(h, shown.seen)
    BY <1>1, <1>7, <1>8, SameReading
  <2>3. QED
    BY <1>1, <1>3, <2>1, <2>2 DEF WalkReads
<1>11. WalkReads(h2)'
  <2>1. (searcher # "MEMORY" => h2[Present] = order)'
    BY <1>4 DEF now
  <2>2. /\ (\A a, b \in Remembered : UpTo(a, b) \/ UpTo(b, a))'
        /\ (\A a \in Remembered : UpTo(a, Present))'
    BY <1>3, <1>5, <1>6 DEF WalkReads, UpTo
  <2>3. QED
    BY <1>9, <1>10, <2>1, <2>2 DEF WalkReads
<1>12. walk' \in Walks
  BY <1>1 DEF WalkInv
<1>13. QED
  BY <1>4, <1>11, <1>12 DEF WalkInv

\* The mail at place k of the list new was in the list old, at most n places
\* further behind.
Moved(old, new, k, n) ==
  \E i \in DOMAIN old : old[i] = new[k] /\ i \in Nat /\ k \in Nat /\ i <= k + n

\* A mail of a newer list that was there before was in the older one, and no
\* further behind than mails have left in between.
LEMMA WasBefore ==
  ASSUME NEW h, NEW a \in States, NEW b \in States, UpTo(a, b),
         NEW old \in Reading(h, a), NEW new \in Reading(h, b),
         Apart(b.came \ a.gone) \/ (searcher # "MEMORY" /\ a = b),
         NEW k \in DOMAIN new, new[k] \in a.came
  PROVE  Moved(old, new, k, Cardinality(b.gone \ a.gone))
<1> DEFINE S == a.came \ a.gone
           T == b.came \ b.gone
           lost == b.gone \ a.gone
<1>1. /\ S \subseteq PagedMails /\ T \subseteq PagedMails /\ lost \subseteq PagedMails
      /\ S \cup T \subseteq b.came \ a.gone /\ S \ T \subseteq lost
  BY DEF States, UpTo
<1>2. old \in Listings(S) /\ new \in Listings(T)
  BY DEF Reading
<1>3. new[k] \in S
  <2>1. new[k] \in T
    BY <1>1, <1>2, ListingOnto
  <2>2. QED
    BY <2>1 DEF UpTo
<1> HIDE DEF S, T, lost
<1>4. PICK i \in DOMAIN old : old[i] = new[k]
  BY <1>1, <1>2, <1>3, ListingOnto
<1>5. i \in Nat /\ k \in Nat
  BY <1>1, <1>2, ListingFacts
<1>6. /\ Cardinality(S \ T) \in Nat /\ Cardinality(lost) \in Nat
      /\ Cardinality(S \ T) <= Cardinality(lost)
  <2>1. IsFiniteSet(lost)
    BY <1>1, PagedMailsFinite, FS_Subset
  <2>2. QED
    BY <1>1, <2>1, FS_Subset, FS_CardinalityType
<1>7. CASE Apart(b.came \ a.gone)
  <2>1. Apart(S \cup T)
    BY <1>1, <1>7 DEF Apart
  <2>2. i <= k + Cardinality(S \ T)
    BY <1>1, <1>2, <1>4, <2>1, KeepsPlace
  <2>3. QED
    BY <1>4, <1>5, <1>6, <2>2 DEF lost, Moved
<1>8. CASE searcher # "MEMORY" /\ a = b
  <2>1. old = new
    BY <1>8 DEF Reading
  <2>2. i = k
    <3>1. \A x, y \in DOMAIN new : x # y => new[x] # new[y]
      BY <1>1, <1>2, ListingOnto
    <3>2. QED
      BY <1>4, <2>1, <3>1
  <2>3. QED
    BY <1>4, <1>5, <1>6, <2>2 DEF lost, Moved
<1>9. QED
  BY <1>7, <1>8

\* Either a mail is on the page that is drawn, or it was met before.
LEMMA WalkGoesOn ==
  ASSUME PagerInv, NEW h, WalkReads(h), NEW i \in DOMAIN asked, asked[i].phase = "answered",
         walk.whole, Continues(asked[i]),
         NEW new \in Reading(h, asked[i].seen),
         Fits(asked[i].page) => asked[i].rows = PageOf(new, asked[i].page),
         NEW k \in DOMAIN new, k <= asked[i].page * PageSize, new[k] \in walk.there
  PROVE  new[k] \in walk.met \cup ToSet(asked[i].rows)
<1> DEFINE page == asked[i].page
           seen == asked[i].seen
           lost == Cardinality(seen.gone \ shown.seen.gone)
<1>1. /\ asked[i] \in Calls /\ page \in Int /\ page >= 1 /\ seen \in States
      /\ shown.seen \in States /\ shown.page \in Int /\ shown.page >= 1
      /\ walk.there \subseteq shown.seen.came
  <2>1. shown \in Screens /\ asked[i] \in Calls
    BY DEF PagerInv, PagerTypes
  <2>2. /\ asked[i].page >= 1 /\ shown.page >= 1
        /\ walk.there \subseteq shown.seen.came
    BY DEF WalkReads, CallReads
  <2>3. QED
    BY <2>1, <2>2 DEF Calls, Screens
<1>2. UpTo(shown.seen, seen)
  <2>1. seen \in Remembered /\ shown.seen \in Remembered
    BY DEF Remembered
  <2>2. UpTo(seen, shown.seen) \/ UpTo(shown.seen, seen)
    BY <2>1 DEF WalkReads
  <2>3. ~Older(seen, shown.seen)
    BY DEF Continues
  <2>4. QED
    BY <2>2, <2>3 DEF Older, UpTo
<1>3. PICK old \in Reading(h, shown.seen) : MetUpTo(old)
  BY DEF WalkReads
<1>4. PICK x \in DOMAIN old : /\ old[x] = new[k] /\ x \in Nat /\ k \in Nat
                              /\ x <= k + lost
  <2>1. Apart(seen.came \ shown.seen.gone) \/ (searcher # "MEMORY" /\ shown.seen = seen)
    BY DEF Continues
  <2>2. new[k] \in shown.seen.came
    BY <1>1
  <2> DEFINE a == shown.seen
  <2>3. /\ a \in States /\ seen \in States /\ UpTo(a, seen)
        /\ old \in Reading(h, a) /\ new \in Reading(h, seen)
        /\ Apart(seen.came \ a.gone) \/ (searcher # "MEMORY" /\ a = seen)
        /\ k \in DOMAIN new /\ new[k] \in a.came
    BY <1>1, <1>2, <1>3, <2>1, <2>2
  <2> HIDE DEF page, seen, lost, a
  <2>4. Moved(old, new, k, Cardinality(seen.gone \ a.gone))
    BY <2>3, WasBefore
  <2>5. QED
    BY <2>4, Zenon DEF Moved, lost, a
<1>5. \/ page = shown.page + 1 /\ lost = 0
      \/ page <= shown.page /\ lost <= PageSize
  BY DEF Continues
<1>6. lost \in Nat
  <2>1. seen.gone \ shown.seen.gone \subseteq PagedMails
    BY <1>1 DEF States
  <2>2. QED
    BY <2>1, PagedMailsFinite, FS_Subset, FS_CardinalityType
<1>7. /\ new \in Seq(PagedMails) /\ k <= Cardinality(PagedMails) /\ Cardinality(PagedMails) \in Nat
  <2> DEFINE T == seen.came \ seen.gone
  <2>1. T \subseteq PagedMails /\ new \in Listings(T)
    BY <1>1 DEF States, Reading
  <2>2. Cardinality(T) \in Nat /\ Cardinality(PagedMails) \in Nat /\ Cardinality(T) <= Cardinality(PagedMails)
    BY <2>1, PagedMailsFinite, FS_Subset, FS_CardinalityType
  <2> HIDE DEF T
  <2>3. new \in Seq(PagedMails) /\ DOMAIN new = 1 .. Cardinality(T)
    BY <2>1, ListingFacts, ListingOnto
  <2>4. QED
    BY <1>4, <2>2, <2>3
<1>8. /\ page * PageSize \in Int /\ (page - 1) * PageSize \in Int
      /\ shown.page * PageSize \in Int
      /\ page * PageSize = (page - 1) * PageSize + PageSize
  BY <1>1, PageNumbers
<1>9. CASE (page - 1) * PageSize < k
  <2>1. Fits(page)
    <3>1. page * PageSize <= MaxInt
      BY <1>4, <1>7, <1>8, <1>9, MailsCanBeCounted, PageNumbers
    <3>2. QED
      BY <1>1, <3>1 DEF Fits
  <2>2. new[k] \in ToSet(PageOf(new, page))
    BY <1>1, <1>7, <1>9, OnPage
  <2>3. QED
    BY <2>1, <2>2
<1>10. CASE k <= (page - 1) * PageSize
  <2>1. x <= shown.page * PageSize
    <3>1. CASE page = shown.page + 1 /\ lost = 0
      <4>1. (page - 1) * PageSize = shown.page * PageSize
        <5>1. page - 1 = shown.page
          BY <1>1, <3>1
        <5> HIDE DEF page
        <5>2. QED
          BY <5>1, Zenon
      <4>2. x <= k
        BY <1>4, <3>1
      <4> HIDE DEF page, lost
      <4>3. QED
        BY <1>4, <1>8, <1>10, <4>1, <4>2
    <3>2. CASE page <= shown.page /\ lost <= PageSize
      <4>1. page * PageSize <= shown.page * PageSize
        BY <1>1, <3>2, PageNumbers
      <4> HIDE DEF page, lost
      <4>2. QED
        BY <1>4, <1>6, <1>8, <1>10, <3>2, <4>1, PageNumbers
    <3>3. QED
      BY <1>5, <3>1, <3>2
  <2>2. QED
    BY <1>3, <1>4, <2>1 DEF MetUpTo
<1>11. k <= (page - 1) * PageSize \/ (page - 1) * PageSize < k
  BY <1>4, <1>8
<1>12. QED
  BY <1>9, <1>10, <1>11, Zenon

\* An answer is drawn: a walk begins, goes on, or is no longer whole.
LEMMA WalkArrives ==
  ASSUME PagerInv, WalkInv, NEW i \in DOMAIN asked, PageArrives(i)
  PROVE  WalkInv'
<1> DEFINE call == asked[i]
<1>1. /\ UNCHANGED <<searcher, came, gone, order>> /\ Drop(i)
      /\ shown' = Screen(call) /\ walk' = Walked(call) /\ call.phase = "answered"
  BY DEF PageArrives, storageVars
<1>2. /\ asked \in Seq(Calls) /\ call \in Calls /\ call.page \in Int
      /\ call.rows \in Seq(PagedMails) /\ call.seen \in States
  <2>1. asked \in Seq(Calls) /\ call \in Calls
    BY DEF PagerInv, PagerTypes
  <2>2. QED
    BY <2>1 DEF Calls
<1>3. shown'.page = call.page /\ shown'.seen = call.seen
  BY <1>1 DEF Screen
<1>4. PICK h \in [States -> Seq(PagedMails)] : WalkReads(h)
  BY DEF WalkInv
<1>5. PICK new \in Reading(h, call.seen) : Fits(call.page) => call.rows = PageOf(new, call.page)
  BY <1>1, <1>4 DEF WalkReads, CallReads
<1>6. call.page >= 1
  BY <1>1, <1>4 DEF WalkReads, CallReads
<1>7. walk \in Walks /\ ToSet(call.rows) \subseteq PagedMails
  BY <1>2 DEF WalkInv, ToSet
<1>8. /\ walk' \in Walks
      /\ walk'.whole =>
           /\ walk'.there \subseteq call.seen.came
           /\ \A k \in DOMAIN new :
                k <= call.page * PageSize /\ new[k] \in walk'.there => new[k] \in walk'.met
  <2>1. CASE call.page = 1
    <3>1. walk' = [there |-> call.seen.came \ call.seen.gone, met |-> ToSet(call.rows),
                   whole |-> TRUE]
      BY <1>1, <2>1 DEF Walked
    <3>2. walk' \in Walks /\ walk'.there \subseteq call.seen.came /\ walk'.met = ToSet(call.rows)
      BY <1>2, <1>7, <3>1 DEF Walks, States
    <3>3. ASSUME NEW k \in DOMAIN new, k <= call.page * PageSize
          PROVE  new[k] \in walk'.met
      <4>1. new \in Seq(PagedMails) /\ k \in Nat \ {0}
        <5>1. call.seen.came \ call.seen.gone \subseteq PagedMails
          BY <1>2 DEF States
        <5>2. new \in Listings(call.seen.came \ call.seen.gone)
          BY DEF Reading
        <5>3. new \in Seq(PagedMails)
          BY <5>1, <5>2, ListingFacts
        <5>4. QED
          BY <3>3, <5>3
      <4>2. Fits(1) /\ (1 - 1) * PageSize < k /\ k <= 1 * PageSize
        BY <2>1, <3>3, <4>1, PageNumbers DEF Fits
      <4>3. new[k] \in ToSet(PageOf(new, 1))
        BY <4>1, <4>2, OnPage
      <4>4. QED
        BY <1>5, <2>1, <3>2, <4>2, <4>3
    <3>4. QED
      BY <3>2, <3>3
  <2>2. CASE call.page # 1
    <3>1. walk' = [walk EXCEPT !.met = @ \cup ToSet(call.rows), !.whole = @ /\ Continues(call)]
      BY <1>1, <2>2 DEF Walked
    <3>2. Continues(call) \in BOOLEAN
      BY DEF Continues
    <3>3. /\ walk' \in Walks /\ walk'.there = walk.there
          /\ walk'.met = walk.met \cup ToSet(call.rows)
          /\ walk'.whole => walk.whole /\ Continues(call)
      BY <1>7, <3>1, <3>2 DEF Walks
    <3>4. ASSUME walk.whole, Continues(call),
                 NEW k \in DOMAIN new, k <= call.page * PageSize, new[k] \in walk.there
          PROVE  new[k] \in walk.met \cup ToSet(call.rows)
      BY <1>1, <1>4, <1>5, <3>4, WalkGoesOn
    <3>5. ASSUME walk.whole, Continues(call)
          PROVE  walk.there \subseteq call.seen.came
      <4>1. call.seen \in Remembered /\ shown.seen \in Remembered
        BY DEF Remembered
      <4>2. UpTo(call.seen, shown.seen) \/ UpTo(shown.seen, call.seen)
        BY <1>4, <4>1 DEF WalkReads
      <4>3. ~Older(call.seen, shown.seen)
        BY <3>5 DEF Continues
      <4>4. walk.there \subseteq shown.seen.came
        BY <1>4, <3>5 DEF WalkReads
      <4>5. QED
        BY <4>2, <4>3, <4>4 DEF Older, UpTo
    <3>6. QED
      BY <3>3, <3>4, <3>5
  <2>3. QED
    BY <2>1, <2>2
<1> HIDE DEF call
<1>9. (walk.whole =>
         /\ shown.page >= 1 /\ walk.there \subseteq shown.seen.came
         /\ \E list \in Reading(h, shown.seen) : MetUpTo(list))'
  <2> SUFFICES ASSUME walk'.whole
               PROVE  /\ shown'.page >= 1 /\ walk'.there \subseteq shown'.seen.came
                      /\ \E list \in Reading(h, shown.seen)' : MetUpTo(list)'
    OBVIOUS
  <2>1. MetUpTo(new)'
    BY <1>3, <1>8 DEF MetUpTo
  <2>2. new \in Reading(h, shown.seen)'
    <3>1. Reading(h, shown.seen)' = Reading(h, call.seen)
      <4> DEFINE seen == call.seen
      <4>1. Reading(h, shown.seen)' = Reading(h, shown'.seen)
        BY <1>1, SameReading
      <4>2. QED
        BY <1>3, <4>1
    <3>2. QED
      BY <1>5, <3>1
  <2>3. QED
    BY <1>3, <1>6, <1>8, <2>1, <2>2
<1>10. /\ \A k \in DOMAIN asked' : \E j \in DOMAIN asked : asked'[k] = asked[j]
       /\ Remembered' \subseteq Remembered
  <2>1. \A k \in DOMAIN asked' : \E j \in DOMAIN asked : asked'[k] = asked[j]
    BY <1>1, <1>2, RemoveAtFacts DEF Drop
  <2>2. shown'.seen \in Remembered
    BY <1>3 DEF Remembered, call
  <2>3. QED
    BY <2>1, <2>2 DEF Remembered
<1>11. \A k \in DOMAIN asked' : CallReads(h, asked[k])'
  <2> SUFFICES ASSUME NEW k \in DOMAIN asked' PROVE CallReads(h, asked[k])'
    OBVIOUS
  <2> DEFINE c == asked'[k]
  <2>1. CallReads(h, c)
    BY <1>4, <1>10 DEF WalkReads
  <2>2. QED
    BY <1>1, <2>1, SameReading
<1>12. WalkReads(h)'
  <2>1. Present' = Present
    BY <1>1 DEF Present
  <2>2. /\ (searcher # "MEMORY" => h[Present] = order)'
        /\ (\A a, b \in Remembered : UpTo(a, b) \/ UpTo(b, a))'
        /\ (\A a \in Remembered : UpTo(a, Present))'
    BY <1>1, <1>4, <1>10, <2>1 DEF WalkReads, UpTo
  <2>3. QED
    BY <1>9, <1>11, <2>2 DEF WalkReads
<1>13. QED
  BY <1>8, <1>12 DEF WalkInv

\* Requests that are sent or end leave the walk as it is.
LEMMA WalkOthers ==
  ASSUME PagerInv, NEW h, WalkReads(h),
         \/ EventComes \/ NextPage \/ PrevPage \/ \E page \in Addresses : GoTo(page)
         \/ \E i \in DOMAIN asked : PageFails(i)
         \/ UNCHANGED pagerVars
  PROVE  WalkReads(h)' /\ walk' = walk
<1>1. asked \in Seq(Calls)
  BY DEF PagerInv, PagerTypes
<1>2. ASSUME NEW page, Refresh(page), UNCHANGED <<searcher, came, gone, order, shown, walk>>
      PROVE  WalkReads(h)'
  <2> DEFINE new == Ask(page)
  <2>1. new.phase = "sent" /\ new.seen = Nothing
    BY DEF Ask
  <2>2. asked' = Append(asked, new)
    BY <1>2 DEF Refresh
  <2> HIDE DEF new
  <2>3. CallReads(h, new) /\ new.seen \in Remembered
    BY <2>1 DEF CallReads, Remembered
  <2>4. \A k \in DOMAIN asked' : asked'[k] = new \/ \E j \in DOMAIN asked : asked'[k] = asked[j]
    BY <1>1, <2>2
  <2>5. QED
    BY <1>2, <2>3, <2>4, WalkKept
<1>3. CASE EventComes
  BY <1>2, <1>3 DEF EventComes, storageVars
<1>4. ASSUME NEW page, Turn(page) PROVE WalkReads(h)' /\ walk' = walk
  BY <1>2, <1>4 DEF Turn, storageVars
<1>5. CASE NextPage \/ PrevPage \/ \E page \in Addresses : GoTo(page)
  BY <1>4, <1>5 DEF NextPage, PrevPage, GoTo
<1>6. ASSUME NEW i \in DOMAIN asked, PageFails(i) PROVE WalkReads(h)' /\ walk' = walk
  <2>1. UNCHANGED <<searcher, came, gone, order, shown, walk>> /\ Drop(i)
    BY <1>6 DEF PageFails, storageVars
  <2>2. \A k \in DOMAIN asked' : \E j \in DOMAIN asked : asked'[k] = asked[j]
    BY <1>1, <2>1, RemoveAtFacts DEF Drop
  <2>3. QED
    BY <2>1, <2>2, WalkKept
<1>7. CASE UNCHANGED pagerVars
  <2>1. UNCHANGED <<searcher, came, gone, order, shown, walk, asked>>
    BY <1>7 DEF pagerVars
  <2>2. \A k \in DOMAIN asked' : \E j \in DOMAIN asked : asked'[k] = asked[j]
    BY <2>1
  <2>3. QED
    BY <2>1, <2>2, WalkKept
<1>8. QED
  BY <1>3, <1>5, <1>6, <1>7 DEF EventComes

LEMMA WalkInvHolds == PagerSpec => []WalkInv
<1>1. ASSUME PagerInit PROVE WalkInv
  <2>1. /\ came \subseteq PagedMails /\ gone = {} /\ order \in Listings(came)
        /\ asked = <<Ask(1)>> /\ shown = FirstScreen
        /\ walk = [there |-> {}, met |-> {}, whole |-> FALSE]
    BY <1>1 DEF PagerInit
  <2>2. order \in Seq(PagedMails)
    BY <2>1, ListingFacts
  <2> DEFINE h     == [a \in States |-> order]
             first == Ask(1)
  <2>3. h \in [States -> Seq(PagedMails)]
    BY <2>2
  <2>4. h[Present] = order
    BY <2>1 DEF Present, States
  <2>5. first.phase = "sent" /\ first.seen = Nothing /\ shown.seen = Nothing
    BY <2>1 DEF Ask, FirstScreen
  <2> HIDE DEF first, h
  <2>6. asked[1] = first /\ DOMAIN asked = {1}
    BY <2>1 DEF first
  <2>7. Remembered = {Nothing} /\ UpTo(Nothing, Nothing) /\ UpTo(Nothing, Present)
    BY <2>5, <2>6 DEF Remembered, UpTo, Nothing
  <2>8. \A i \in DOMAIN asked : CallReads(h, asked[i])
    BY <2>5, <2>6 DEF CallReads
  <2>9. WalkReads(h)
    BY <2>1, <2>4, <2>7, <2>8 DEF WalkReads
  <2>10. walk \in Walks
    BY <2>1 DEF Walks
  <2>11. QED
    BY <2>3, <2>9, <2>10 DEF WalkInv
<1>2. ASSUME PagerInv, PagerInv', WalkInv, [PagerNext]_pagerVars PROVE WalkInv'
  <2>1. PICK h \in [States -> Seq(PagedMails)] : WalkReads(h)
    BY <1>2 DEF WalkInv
  <2>2. walk' = walk /\ WalkReads(h)' => WalkInv'
    BY <1>2 DEF WalkInv
  <2>3. ASSUME NEW m \in PagedMails, MailComes(m) \/ MailGoes(m) PROVE WalkInv'
    BY <1>2, <2>3, WalkStorage
  <2>4. ASSUME NEW i \in DOMAIN asked,
               \/ RefusePage(i) \/ SearchAtOnce(i) \/ ListFolder(i) \/ LoadFiles(i)
               \/ CountRows(i) \/ SelectRows(i)
        PROVE  WalkInv'
    <3>1. WalkReads(h)'
      BY <1>2, <2>1, <2>4, WalkRequests
    <3>2. walk' = walk
      BY <2>4 DEF RefusePage, SearchAtOnce, ListFolder, LoadFiles, CountRows, SelectRows,
                  Becomes, screenVars
    <3>3. QED
      BY <2>2, <3>1, <3>2
  <2>5. ASSUME NEW i \in DOMAIN asked, PageArrives(i) PROVE WalkInv'
    BY <1>2, <2>5, WalkArrives
  <2>6. ASSUME \/ EventComes \/ NextPage \/ PrevPage \/ \E page \in Addresses : GoTo(page)
               \/ \E i \in DOMAIN asked : PageFails(i)
               \/ UNCHANGED pagerVars
        PROVE  WalkInv'
    BY <1>2, <2>1, <2>2, <2>6, WalkOthers
  <2>7. QED
    BY <1>2, <2>3, <2>4, <2>5, <2>6 DEF PagerNext
<1>3. QED
  BY <1>1, <1>2, PagerInvHolds, PTL DEF PagerSpec

\* Whoever turns the pages to the last one has met every mail that was there from
\* the start and still is, for any number of mails, pages and turns, whatever
\* arrives, and whatever is deleted, with the exceptions the property names.
THEOREM WalkMissesNoneHolds == PagerSpec => []WalkMissesNone
<1>1. ASSUME PagerInv, WalkInv, Settled, walk.whole, Fits(shown.page), ~shown.next,
             NEW m \in walk.there \ gone
      PROVE  m \in walk.met
  <2>1. asked = <<>> /\ unheard = 0 /\ ~failed /\ shown.from = latest
    BY <1>1 DEF Settled
  <2>2. latest = Present /\ ScreenInv
    BY <1>1, <2>1 DEF PagerInv, Reaches
  <2>3. shown.seen.came = came /\ shown.seen.gone = gone
    <3>1. UpTo(Present, shown.seen) /\ UpTo(shown.seen, Present)
      BY <2>1, <2>2 DEF ScreenInv
    <3>2. QED
      BY <3>1 DEF UpTo, Present
  <2>4. shown.page \in Int /\ came \subseteq PagedMails
    BY <1>1 DEF PagerInv, PagerTypes, Screens
  <2>5. ~(shown.page * PageSize < Cardinality(Here))
    BY <1>1, <2>1, <2>2 DEF ScreenInv
  <2>6. PICK h : WalkReads(h)
    BY <1>1 DEF WalkInv
  <2>7. PICK list \in Reading(h, shown.seen) : MetUpTo(list)
    BY <1>1, <2>6 DEF WalkReads
  <2>8. list \in Listings(Here) /\ Here \subseteq PagedMails
    BY <2>3, <2>4 DEF Reading, Here
  <2>9. m \in Here
    BY <1>1, <2>3, <2>6 DEF WalkReads, Here
  <2>10. PICK k \in DOMAIN list : list[k] = m
    BY <2>8, <2>9, ListingOnto
  <2>11. k <= shown.page * PageSize
    <3>1. k \in 1 .. Cardinality(Here) /\ Cardinality(Here) \in Nat
      BY <2>8, <2>10, ListingOnto, ListingFacts
    <3>2. shown.page * PageSize \in Int
      BY <2>4, PageNumbers
    <3>3. QED
      BY <2>5, <3>1, <3>2
  <2>12. QED
    BY <1>1, <2>7, <2>10, <2>11 DEF MetUpTo
<1>2. PagerInv /\ WalkInv => WalkMissesNone
  BY <1>1 DEF WalkMissesNone
<1>3. QED
  BY <1>2, PagerInvHolds, WalkInvHolds, PTL
=============================================================================
