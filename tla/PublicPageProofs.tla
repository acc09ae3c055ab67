-------------------------- MODULE PublicPageProofs --------------------------
(***************************************************************************)
(* The safety of PublicBoard for any board of Desktop, any number of       *)
(* requests and any number of changes by others, and of PublicChat for any *)
(* catalogues, any number of queries and any streams.                      *)
(*                                                                         *)
(* The board.  That a quiet board is current says nothing of a board that  *)
(* is not quiet.  The inductive invariant BoardInv therefore says of every *)
(* state what the frames under way, read in their order, will make of the  *)
(* snapshot: WillAgree.  The last board among them replaces what is shown, *)
(* the answers to moves after it put single issues, and unless something   *)
(* after it makes the page look again, the outcome is what Desktop has     *)
(* now.  For this the numbers of requests and answers must be in order     *)
(* (Numbered), and a request that was given up before Desktop took it must *)
(* be followed by a second look (SentBefore, LookedAfter).                 *)
(*                                                                         *)
(* The conversations.  That a loaded conversation reads as it did live is  *)
(* about a query that is over; the inductive invariant ChatInv says the    *)
(* same of one that goes on: read again so far, what it was sent is what   *)
(* its message shows (ReadingsAgree).  That no message is left pending and *)
(* that no late frame changes one needs the messages and the calls to be   *)
(* numbered apart (MessagesNumbered, CallsNumbered).  What a reading of n  *)
(* events yields is shown by induction over the set of such n.             *)
(***************************************************************************)
EXTENDS PublicBoard, PublicChat, FiniteSetTheorems, WellFoundedInduction, TLAPS

-----------------------------------------------------------------------------
(* What the operators on lists do.                                         *)

(* R, a set of pairs, puts the members of S one after the other.           *)
StrictOrder(R, S) ==
  /\ \A x \in S : <<x, x>> \notin R
  /\ \A x, y \in S : x # y => <<x, y>> \in R \/ <<y, x>> \in R
  /\ \A x, y, z \in S : <<x, y>> \in R /\ <<y, z>> \in R => <<x, z>> \in R

(* Putting a finite set in order loses no member and shows none twice:     *)
(* InOrder gives each one place, and an earlier place to what goes before. *)
LEMMA EveryMemberHasAPlace ==
  ASSUME NEW S, IsFiniteSet(S), NEW R, StrictOrder(R, S)
  PROVE  LET n == Cardinality(S)  e == InOrder(S, R)
         IN  /\ n \in Nat
             /\ e \in [1 .. n -> S]
             /\ \A x \in S : \E k \in 1 .. n : e[k] = x
             /\ \A k, l \in 1 .. n : k < l => <<e[k], e[l]>> \in R
<1> DEFINE n == Cardinality(S)
           before(x) == {y \in S : <<y, x>> \in R}
           rank == [x \in S |-> Cardinality(before(x))]
           e == InOrder(S, R)
<1>1. n \in Nat  BY FS_CardinalityType
<1>2. ASSUME NEW x \in S
      PROVE  IsFiniteSet(before(x)) /\ Cardinality(before(x)) \in 0 .. n - 1
  <2>1. before(x) \in SUBSET S /\ x \notin before(x) /\ before(x) # S
    BY DEF StrictOrder
  <2>2. IsFiniteSet(before(x)) /\ Cardinality(before(x)) <= n /\ Cardinality(before(x)) # n
    BY <2>1, FS_Subset
  <2>3. Cardinality(before(x)) \in Nat
    BY <2>2, FS_CardinalityType
  <2> QED BY <2>2, <2>3, <1>1
<1>3. ASSUME NEW x \in S, NEW y \in S, <<x, y>> \in R
      PROVE  Cardinality(before(x)) < Cardinality(before(y))
  <2>1. before(x) \in SUBSET before(y) /\ before(x) # before(y)
    BY <1>3 DEF StrictOrder
  <2>2. Cardinality(before(x)) <= Cardinality(before(y)) /\ Cardinality(before(x)) # Cardinality(before(y))
    BY <1>2, <2>1, FS_Subset
  <2> QED BY <2>2, <1>2, <1>1
<1>4. rank \in [S -> 0 .. n - 1] /\ \A x \in S : rank[x] = Cardinality(before(x))
  BY <1>2
<1>a. \A x, y \in S : <<x, y>> \in R => rank[x] < rank[y]
  BY <1>3, <1>4
<1>b. \A k \in 1 .. n : e[k] = CHOOSE x \in S : Cardinality(before(x)) = k - 1
  BY DEF InOrder
<1>c. e = [k \in 1 .. n |-> CHOOSE x \in S : Cardinality(before(x)) = k - 1]
  BY DEF InOrder
<1>d. Cardinality(S) = n
  OBVIOUS
<1> HIDE DEF n, rank, e, before
<1>5. rank \in Injection(S, 0 .. n - 1)
  <2>1. ASSUME NEW x \in S, NEW y \in S, x # y PROVE rank[x] # rank[y]
    <3>1. rank[x] \in Int /\ rank[y] \in Int  BY <1>4, <1>1
    <3>2. <<x, y>> \in R \/ <<y, x>> \in R  BY <2>1 DEF StrictOrder
    <3> QED BY <3>1, <3>2, <1>a
  <2> QED BY <1>4, <2>1 DEF Injection, IsInjective
<1>6. IsFiniteSet(0 .. n - 1) /\ Cardinality(0 .. n - 1) = n
  BY FS_Interval, <1>1
<1>7. rank \in Surjection(S, 0 .. n - 1)
  BY <1>5, <1>6, <1>d, FS_Injection
<1>8. ASSUME NEW k \in 1 .. n
      PROVE  e[k] \in S /\ rank[e[k]] = k - 1
  <2>1. k - 1 \in 0 .. n - 1  BY <1>1
  <2>2. \E x \in S : Cardinality(before(x)) = k - 1
    BY <2>1, <1>7, <1>4 DEF Surjection
  <2>3. e[k] \in S /\ Cardinality(before(e[k])) = k - 1
    BY <1>b, <2>2
  <2> QED BY <2>3, <1>4
<1>9. e \in [1 .. n -> S]
  BY <1>8, <1>c
<1>10. ASSUME NEW x \in S PROVE \E k \in 1 .. n : e[k] = x
  <2>1. PICK k \in 1 .. n : k - 1 = rank[x]
    <3>1. rank[x] + 1 \in 1 .. n /\ (rank[x] + 1) - 1 = rank[x]  BY <1>4, <1>1
    <3> QED BY <3>1
  <2>2. \A y \in S : rank[y] = rank[x] => y = x
    BY <1>5 DEF Injection, IsInjective
  <2> QED BY <2>1, <2>2, <1>8
<1>11. ASSUME NEW k \in 1 .. n, NEW l \in 1 .. n, k < l PROVE <<e[k], e[l]>> \in R
  <2>1. e[k] \in S /\ e[l] \in S /\ rank[e[k]] = k - 1 /\ rank[e[l]] = l - 1  BY <1>8
  <2>2. k - 1 < l - 1 /\ ~(l - 1 < k - 1)  BY <1>11, <1>1
  <2>3. e[k] # e[l] /\ ~(<<e[l], e[k]>> \in R)
    BY <2>1, <2>2, <1>a
  <2> QED BY <2>1, <2>3 DEF StrictOrder
<1> QED BY <1>1, <1>9, <1>10, <1>11 DEF n, e

(* Places in ascending order are all there, each once.                     *)
LEMMA AscendingPlaces ==
  ASSUME NEW n \in Nat, NEW P \in SUBSET (1 .. n)
  PROVE  LET m == Cardinality(P)  e == Ascending(P)
         IN  /\ IsFiniteSet(P) /\ m \in 0 .. n
             /\ e \in [1 .. m -> P]
             /\ \A x \in P : \E k \in 1 .. m : e[k] = x
             /\ \A k, l \in 1 .. m : k < l => e[k] < e[l]
<1> DEFINE R == {p \in P \X P : p[1] < p[2]}
<1>1. IsFiniteSet(P) /\ Cardinality(P) <= n
  <2>1. IsFiniteSet(1 .. n) /\ Cardinality(1 .. n) = n  BY FS_Interval
  <2> QED BY <2>1, FS_Subset
<1>2. \A x, y \in P : <<x, y>> \in R <=> x < y
  OBVIOUS
<1>3. \A x \in P : x \in Int
  OBVIOUS
<1>4. Ascending(P) = InOrder(P, R)
  BY DEF Ascending
<1> HIDE DEF R
<1>5. StrictOrder(R, P)
  BY <1>2, <1>3 DEF StrictOrder
<1>6. Cardinality(P) \in Nat /\ Ascending(P) \in [1 .. Cardinality(P) -> P]
      /\ (\A x \in P : \E k \in 1 .. Cardinality(P) : Ascending(P)[k] = x)
      /\ (\A k, l \in 1 .. Cardinality(P) : k < l => <<Ascending(P)[k], Ascending(P)[l]>> \in R)
  BY <1>1, <1>5, <1>4, EveryMemberHasAPlace
<1>7. \A k, l \in 1 .. Cardinality(P) : k < l => Ascending(P)[k] < Ascending(P)[l]
  BY <1>2, <1>6
<1> QED BY <1>1, <1>6, <1>7

(* What a filter keeps.                                                    *)
LEMMA KeptItems ==
  ASSUME NEW X, NEW s \in Seq(X), NEW P \in SUBSET DOMAIN s
  PROVE  LET r == ItemsAt(s, P)
         IN  /\ r \in Seq(X) /\ Len(r) = Cardinality(P) /\ Len(r) \in 0 .. Len(s)
             /\ \A k \in DOMAIN r : \E i \in P : r[k] = s[i]
             /\ \A i \in P : \E k \in DOMAIN r : r[k] = s[i]
<1> DEFINE m == Cardinality(P)  e == Ascending(P)  r == ItemsAt(s, P)
<1>1. P \in SUBSET (1 .. Len(s)) /\ Len(s) \in Nat  OBVIOUS
<1>2. /\ m \in 0 .. Len(s)
      /\ e \in [1 .. m -> P]
      /\ \A x \in P : \E k \in 1 .. m : e[k] = x
  BY <1>1, AscendingPlaces
<1>3. r = [k \in 1 .. m |-> s[e[k]]]
  BY <1>2 DEF ItemsAt, Mapped
<1> HIDE DEF m, e, r
<1>4. \A k \in 1 .. m : e[k] \in P /\ e[k] \in DOMAIN s /\ r[k] = s[e[k]]
  BY <1>2, <1>3
<1>5. r \in Seq(X) /\ Len(r) = m /\ DOMAIN r = 1 .. m
  BY <1>2, <1>3, <1>4
<1>6. \A k \in DOMAIN r : \E i \in P : r[k] = s[i]
  BY <1>4, <1>5
<1>7. \A i \in P : \E k \in DOMAIN r : r[k] = s[i]
  BY <1>2, <1>4, <1>5
<1> QED BY <1>2, <1>5, <1>6, <1>7 DEF m, r

(* Where what a filter keeps comes from: places that ascend.               *)
LEMMA KeptOrder ==
  ASSUME NEW X, NEW s \in Seq(X), NEW P \in SUBSET DOMAIN s
  PROVE  \E e \in [DOMAIN ItemsAt(s, P) -> P] :
           /\ \A k \in DOMAIN ItemsAt(s, P) : ItemsAt(s, P)[k] = s[e[k]]
           /\ \A i \in P : \E k \in DOMAIN ItemsAt(s, P) : e[k] = i
           /\ \A k, l \in DOMAIN ItemsAt(s, P) : k < l => e[k] < e[l]
<1> DEFINE m == Cardinality(P)  e == Ascending(P)  r == ItemsAt(s, P)
<1>1. P \in SUBSET (1 .. Len(s)) /\ Len(s) \in Nat  OBVIOUS
<1>2. /\ m \in 0 .. Len(s)
      /\ e \in [1 .. m -> P]
      /\ \A x \in P : \E k \in 1 .. m : e[k] = x
      /\ \A k, l \in 1 .. m : k < l => e[k] < e[l]
  BY <1>1, AscendingPlaces
<1>3. r = [k \in 1 .. m |-> s[e[k]]]
  BY <1>2 DEF ItemsAt, Mapped
<1> HIDE DEF m, e, r
<1>4. DOMAIN r = 1 .. m /\ \A k \in 1 .. m : r[k] = s[e[k]]
  BY <1>3
<1>5. \E f \in [DOMAIN r -> P] :
           /\ \A k \in DOMAIN r : r[k] = s[f[k]]
           /\ \A i \in P : \E k \in DOMAIN r : f[k] = i
           /\ \A k, l \in DOMAIN r : k < l => f[k] < f[l]
  BY <1>2, <1>4
<1> QED BY <1>5 DEF r

(* readString(a) || readString(b).                                         *)
LEMMA FirstTextOfTwo ==
  ASSUME NEW a, NEW b
  PROVE  FirstText(<<a, b>>) = IF a # 0 THEN a ELSE b
<1> DEFINE I == {i \in 1 .. Len(<<a, b>>) : <<a, b>>[i] # 0}
<1>1. SelectInSeq(<<a, b>>, LAMBDA t : t # 0) = IF I # {} THEN Min(I) ELSE 0
  BY DEF SelectInSeq
<1>2. CASE a # 0
  <2>1. 1 \in I /\ \A y \in I : 1 <= y  BY <1>2
  <2>2. Min(I) = 1
    BY <2>1 DEF Min
  <2> QED BY <1>1, <1>2, <2>1, <2>2 DEF FirstText
<1>3. CASE a = 0 /\ b # 0
  <2>1. I = {2}  BY <1>3
  <2>2. Min(I) = 2
    BY <2>1 DEF Min
  <2> QED BY <1>1, <1>3, <2>1, <2>2 DEF FirstText
<1>4. CASE a = 0 /\ b = 0
  <2>1. I = {}  BY <1>4
  <2> QED BY <1>1, <1>4, <2>1 DEF FirstText
<1> QED BY <1>2, <1>3, <1>4

(* Without the item at i the others keep their order.                      *)
LEMMA WithoutOne ==
  ASSUME NEW X, NEW s \in Seq(X), NEW i \in DOMAIN s
  PROVE  /\ RemoveAt(s, i) \in Seq(X) /\ Len(RemoveAt(s, i)) = Len(s) - 1
         /\ \A k \in 1 .. Len(s) - 1 :
              RemoveAt(s, i)[k] = s[IF k < i THEN k ELSE k + 1]
<1>1. i \in 1 .. Len(s) /\ Len(s) \in Nat  OBVIOUS
<1>2. /\ SubSeq(s, 1, i - 1) \in Seq(X) /\ Len(SubSeq(s, 1, i - 1)) = i - 1
      /\ \A k \in 1 .. i - 1 : SubSeq(s, 1, i - 1)[k] = s[k]
  BY <1>1
<1>3. /\ SubSeq(s, i + 1, Len(s)) \in Seq(X) /\ Len(SubSeq(s, i + 1, Len(s))) = Len(s) - i
      /\ \A k \in 1 .. Len(s) - i : SubSeq(s, i + 1, Len(s))[k] = s[k + i]
  BY <1>1
<1> DEFINE a == SubSeq(s, 1, i - 1)  b == SubSeq(s, i + 1, Len(s))
<1>4. RemoveAt(s, i) = a \o b
  BY DEF RemoveAt
<1> HIDE DEF a, b
<1>5. a \in Seq(X) /\ b \in Seq(X) /\ Len(a) = i - 1 /\ Len(b) = Len(s) - i
  BY <1>2, <1>3 DEF a, b
<1>6. a \o b \in Seq(X) /\ Len(a \o b) = Len(s) - 1
  BY <1>1, <1>5
<1>7. ASSUME NEW k \in 1 .. Len(s) - 1
      PROVE  (a \o b)[k] = s[IF k < i THEN k ELSE k + 1]
  <2>1. CASE k < i
    BY <1>1, <1>2, <1>5, <2>1 DEF a
  <2>2. CASE ~(k < i)
    <3>1. k - (i - 1) \in 1 .. Len(s) - i /\ (k - (i - 1)) + i = k + 1
      BY <1>1, <2>2
    <3>2. (a \o b)[k] = b[k - (i - 1)]
      BY <1>1, <1>5, <2>2
    <3>3. b[k - (i - 1)] = s[(k - (i - 1)) + i]
      BY <1>3, <3>1 DEF b
    <3> QED BY <2>2, <3>1, <3>2, <3>3
  <2> QED BY <2>1, <2>2
<1> QED BY <1>4, <1>6, <1>7

(* A finite set of numbers that is not empty has a greatest.               *)
(* And a greatest.                                                         *)
LEMMA GreatestOfSome ==
  ASSUME NEW n \in Nat, NEW I \in SUBSET (1 .. n), I # {}
  PROVE  \E top \in I : \A i \in I : ~(i > top)
<1> DEFINE m == Cardinality(I)  e == Ascending(I)
<1>1. /\ m \in 0 .. n /\ e \in [1 .. m -> I]
      /\ \A x \in I : \E k \in 1 .. m : e[k] = x
      /\ \A k, l \in 1 .. m : k < l => e[k] < e[l]
  BY AscendingPlaces
<1> HIDE DEF m, e
<1>2. m \in 1 .. m
  <2>1. PICK x \in I : TRUE  OBVIOUS
  <2>2. PICK k \in 1 .. m : e[k] = x  BY <1>1, <2>1
  <2> QED BY <1>1, <2>2
<1>3. ASSUME NEW i \in I PROVE ~(i > e[m])
  <2>1. PICK k \in 1 .. m : e[k] = i  BY <1>1
  <2>2. k = m \/ k < m  BY <1>1
  <2>a. \A x \in I : x \in Int  OBVIOUS
  <2>b. e[k] \in I /\ e[m] \in I  BY <1>1, <1>2
  <2>3. e[k] \in Int /\ e[m] \in Int  BY <2>a, <2>b
  <2> QED BY <1>1, <1>2, <2>1, <2>2, <2>3
<1>4. e[m] \in I
  BY <1>1, <1>2
<1> QED BY <1>3, <1>4

(* A set of places that is not empty has a least.                          *)
LEMMA LeastOfSome ==
  ASSUME NEW n \in Nat, NEW I \in SUBSET (1 .. n), I # {}
  PROVE  Min(I) \in I /\ \A i \in I : Min(I) <= i
<1> DEFINE m == Cardinality(I)  e == Ascending(I)
<1>1. /\ m \in 0 .. n /\ e \in [1 .. m -> I]
      /\ \A x \in I : \E k \in 1 .. m : e[k] = x
      /\ \A k, l \in 1 .. m : k < l => e[k] < e[l]
  BY AscendingPlaces
<1> HIDE DEF m, e
<1>2. 1 \in 1 .. m
  <2>1. PICK x \in I : TRUE  OBVIOUS
  <2>2. PICK k \in 1 .. m : e[k] = x  BY <1>1, <2>1
  <2> QED BY <1>1, <2>2
<1>3. ASSUME NEW i \in I PROVE e[1] <= i
  <2>1. PICK k \in 1 .. m : e[k] = i  BY <1>1
  <2>2. k = 1 \/ 1 < k  BY <1>1
  <2>a. \A x \in I : x \in Int  OBVIOUS
  <2>b. e[k] \in I /\ e[1] \in I  BY <1>1, <1>2
  <2>3. e[k] \in Int /\ e[1] \in Int  BY <2>a, <2>b
  <2> QED BY <1>1, <1>2, <2>1, <2>2, <2>3
<1>4. e[1] \in I
  BY <1>1, <1>2
<1> QED BY <1>3, <1>4 DEF Min

-----------------------------------------------------------------------------
(* The types of the board, and the numbers of its requests.                *)

(* The two requests that change an issue's status, and all that the page   *)
(* makes of the board.                                                     *)
Moves == {"issue.move", "issue.update"}

Ops == {"event.subscribe", "snapshot.get", "issue.create"} \cup Moves

(* The status a request names, if any; the names of what the page is busy  *)
(* with.                                                                   *)
Wanted == TaskBoardStatus \cup {""}

Keys == {Idle, RefreshKey, CreateKey} \cup ({"move", "status", "complete"} \X Nat)

(* A request of the board. Only the subscription has no name on the page,  *)
(* and a move or a creation names a column.                                *)
BoardRequest ==
  {p \in [id : Nat, issue : Nat, status : Wanted, key : Keys,
          op : Ops] :
     /\ p.op = "event.subscribe" => p.key = Idle
     /\ p.op \in Moves \cup {"issue.create"} => p.status \in TaskBoardStatus}

(* An issue on Desktop's board.                                            *)
AnyText == STRING \cup TaskBoardStatus \cup TaskBoardPriority

(* What Desktop sends, and what the page makes of it.                      *)
SentIssue ==
  [id : Nat, issueId : Nat, title : Nat, status : AnyText, priority : AnyText,
   assignee : Nat, runState : Nat, updatedAt : Nat, createdAt : Nat]

Frame == [frame : {"push", "response", "error"}, id : Nat, data : Seq(SentIssue)]

ShownIssue ==
  {i \in SentIssue : i.status \in TaskBoardStatus /\ i.priority \in TaskBoardPriority}

(* The types of the board's variables.                                     *)
BoardTypes ==
  /\ board \in Seq(SentIssue)
  /\ subscribed \in BOOLEAN /\ missed \in BOOLEAN /\ inSession \in BOOLEAN
  /\ changes \in Nat /\ sent \in Nat
  /\ up \in Seq(BoardRequest) /\ pending \in Seq(BoardRequest)
  /\ down \in Seq(Frame)
  /\ snapshot \in Seq(ShownIssue)

(* In the order of their numbers.                                          *)
Ascend(s) == \A i, j \in DOMAIN s : i < j => s[i].id < s[j].id

(* Requests are numbered in the order they are sent, wait and are answered:*)
(* W are those that wait, u those under way, d what comes back, n the last *)
(* number.                                                                 *)
Numbered(u, d, W, n) ==
  /\ Ascend(u)
  /\ \A i \in DOMAIN u : u[i].id \in 1 .. n
  /\ \A p \in W : p.id \in 1 .. n
  /\ \A p, q \in W : p.id = q.id => p = q
  /\ \A i \in DOMAIN u, p \in W : u[i].id = p.id => u[i] = p
  /\ \A k \in DOMAIN d :
       IF d[k].frame = "push" THEN d[k].id = 0
       ELSE /\ d[k].id \in 1 .. n
            /\ \A i \in DOMAIN u : d[k].id < u[i].id
            /\ \A j \in DOMAIN d : j < k => d[j].id < d[k].id

(* A request of which nobody awaits the answer any more was sent before    *)
(* those that wait, and a second look at the board follows it.             *)
SentBefore(u, W) ==
  \A i \in DOMAIN u, p \in W : u[i] \notin W => u[i].id < p.id

(* Or it counts as missed.                                                 *)
LookedAfter(u, W, m) ==
  \A i \in DOMAIN u : u[i] \notin W =>
    m \/ \E j \in DOMAIN u : i < j /\ u[j].op = "snapshot.get" /\ u[j] \in W

-----------------------------------------------------------------------------
(* How the numbers change.                                                 *)

(* Requests may cease to wait.                                             *)
LEMMA NumberedDrop ==
  ASSUME NEW u, NEW d, NEW W, NEW n, Numbered(u, d, W, n), NEW V \in SUBSET W
  PROVE  Numbered(u, d, V, n)
BY DEF Numbered

(* t is s with x at its end; t is s without its first item.                *)
Appended(s, x, t) ==
  /\ Len(s) \in Nat /\ DOMAIN s = 1 .. Len(s) /\ DOMAIN t = 1 .. Len(s) + 1
  /\ t[Len(s) + 1] = x
  /\ \A i \in 1 .. Len(s) : t[i] = s[i]

(* What Append and Tail do.                                                *)
LEMMA AppendIs ==
  ASSUME NEW X, NEW s \in Seq(X), NEW x \in X
  PROVE  /\ Append(s, x) \in Seq(X) /\ Appended(s, x, Append(s, x))
         /\ ToSet(Append(s, x)) = ToSet(s) \cup {x}
<1>1. Append(s, x) \in Seq(X) /\ Appended(s, x, Append(s, x))
  BY DEF Appended
<1>2. Len(s) \in Nat /\ DOMAIN s = 1 .. Len(s)  OBVIOUS
<1>3. ToSet(Append(s, x)) = ToSet(s) \cup {x}
  BY <1>1, <1>2 DEF Appended, ToSet
<1> QED BY <1>1, <1>3

Removed(s, t) ==
  /\ Len(s) \in Nat /\ DOMAIN s = 1 .. Len(s) /\ DOMAIN t = 1 .. Len(s) - 1
  /\ \A i \in 1 .. Len(s) - 1 : t[i] = s[i + 1]

LEMMA TailIs ==
  ASSUME NEW X, NEW s \in Seq(X), s # <<>>
  PROVE  /\ Tail(s) \in Seq(X) /\ Removed(s, Tail(s))
         /\ ToSet(s) = ToSet(Tail(s)) \cup {Head(s)} /\ Head(s) = s[1] /\ 1 \in DOMAIN s
<1>1. Tail(s) \in Seq(X) /\ Removed(s, Tail(s)) /\ Head(s) = s[1] /\ 1 \in DOMAIN s
  BY DEF Removed
<1>2. \A i \in DOMAIN s : i = 1 \/ (i - 1 \in DOMAIN Tail(s) /\ (i - 1) + 1 = i)
  BY <1>1 DEF Removed
<1>3. ToSet(s) = ToSet(Tail(s)) \cup {Head(s)}
  BY <1>1, <1>2 DEF Removed, ToSet
<1> QED BY <1>1, <1>3

(* A new request gets the next number, an answer is read, a push comes,    *)
(* and Desktop answers the first request: the numbers stay in order.       *)
LEMMA NumberedAsk ==
  ASSUME NEW u, NEW d, NEW W,
         NEW n \in Nat, Numbered(u, d, W, n),
         NEW c, c.id = n + 1, NEW v, Appended(u, c, v)
  PROVE  Numbered(v, d, W \cup {c}, n + 1)
BY DEF Numbered, Appended, Ascend

LEMMA NumberedRead ==
  ASSUME NEW u, NEW d, NEW W,
         NEW n \in Nat, Numbered(u, d, W, n),
         NEW e, Removed(d, e)
  PROVE  Numbered(u, e, W, n)
BY DEF Numbered, Removed

LEMMA NumberedPush ==
  ASSUME NEW u, NEW d, NEW W,
         NEW n \in Nat, Numbered(u, d, W, n),
         NEW e, Appended(d, Push, e)
  PROVE  Numbered(u, e, W, n)
BY DEF Numbered, Appended, Push

LEMMA NumberedHandled ==
  ASSUME NEW u, NEW d, NEW W,
         NEW n \in Nat, Numbered(u, d, W, n), 1 \in DOMAIN u,
         NEW v, Removed(u, v), NEW f, f.id = u[1].id, f.frame # "push",
         NEW e, Appended(d, f, e)
  PROVE  Numbered(v, e, W, n)
<1>0. \A i \in DOMAIN v : i \in Nat /\ 1 < i + 1 /\ i + 1 \in DOMAIN u /\ v[i] = u[i + 1]
  BY DEF Removed
<1>a. \A i, j \in DOMAIN v : i < j => i + 1 < j + 1
  BY <1>0
<1>b. Ascend(v)
  BY <1>0, <1>a DEF Numbered, Ascend
<1>c. \A i \in DOMAIN v : \E j \in DOMAIN u : v[i] = u[j]
  BY <1>0
<1>1. Numbered(v, d, W, n)
  BY <1>b, <1>c DEF Numbered
<1>2. \A i \in DOMAIN v : f.id < v[i].id
  BY <1>0 DEF Numbered, Ascend
<1>3. f.id \in 1 .. n /\ \A j \in DOMAIN d : d[j].id < f.id
  BY DEF Numbered
<1> QED BY <1>1, <1>2, <1>3 DEF Numbered, Appended

-----------------------------------------------------------------------------
(* How the second looks change.                                            *)

(* The page asks for the board: whatever was given up is followed by this  *)
(* look.                                                                   *)
LEMMA GivenUpGet ==
  ASSUME NEW u, NEW d, NEW W, NEW n \in Nat, NEW m,
         Numbered(u, d, W, n), SentBefore(u, W),
         NEW c, c.id = n + 1, c.op = "snapshot.get",
         NEW v, Appended(u, c, v)
  PROVE  SentBefore(v, W \cup {c}) /\ LookedAfter(v, W \cup {c}, m)
BY DEF Numbered, Appended, SentBefore, LookedAfter

(* The page asks for something else, and Desktop takes the first request.  *)
LEMMA GivenUpAsk ==
  ASSUME NEW u, NEW d, NEW W, NEW n \in Nat, NEW m,
         Numbered(u, d, W, n), SentBefore(u, W), LookedAfter(u, W, m),
         NEW c, c.id = n + 1,
         NEW v, Appended(u, c, v)
  PROVE  SentBefore(v, W \cup {c}) /\ LookedAfter(v, W \cup {c}, m)
BY DEF Numbered, Appended, SentBefore, LookedAfter

LEMMA GivenUpHandled ==
  ASSUME NEW u, NEW W, NEW m,
         SentBefore(u, W), LookedAfter(u, W, m),
         NEW v, Removed(u, v)
  PROVE  SentBefore(v, W) /\ LookedAfter(v, W, m)
<1>1. SentBefore(v, W)
  BY DEF Removed, SentBefore
<1>2. ASSUME NEW i \in DOMAIN v, v[i] \notin W, ~m
      PROVE  \E j \in DOMAIN v : i < j /\ v[j].op = "snapshot.get" /\ v[j] \in W
  <2>1. i + 1 \in DOMAIN u /\ v[i] = u[i + 1] /\ i \in Nat
    BY DEF Removed
  <2>2. PICK j \in DOMAIN u : i + 1 < j /\ u[j].op = "snapshot.get" /\ u[j] \in W
    BY <1>2, <2>1 DEF LookedAfter
  <2>3. j - 1 \in DOMAIN v /\ i < j - 1 /\ (j - 1) + 1 = j
    BY <2>1, <2>2 DEF Removed
  <2>4. v[j - 1] = u[j]
    BY <2>3 DEF Removed
  <2> QED BY <2>2, <2>3, <2>4
<1> QED BY <1>1, <1>2 DEF LookedAfter

(* p's answer is here                                                      *)
LEMMA GivenUpAnswered ==
  ASSUME NEW u, NEW W, NEW m,
         SentBefore(u, W), NEW p \in W, p.id \in Nat,
         \A i \in DOMAIN u : u[i].id \in Nat /\ p.id < u[i].id
  PROVE  SentBefore(u, W \ {p}) /\ LookedAfter(u, W \ {p}, m)
BY DEF SentBefore, LookedAfter

(* The oldest that waits is given up, and that is missed.                  *)
LEMMA GivenUpTimeout ==
  ASSUME NEW u, NEW W,
         SentBefore(u, W), NEW p \in W, \A q \in W \ {p} : p.id < q.id
  PROVE  SentBefore(u, W \ {p}) /\ LookedAfter(u, W \ {p}, TRUE)
BY DEF SentBefore, LookedAfter

-----------------------------------------------------------------------------
(* What the page will show: the promise that the frames under way and the  *)
(* requests that wait together make.                                       *)

(* Where the page would show the issues raws, were they its snapshot.      *)
Seen(raws) == Placed(normalizeTaskBoardSnapshot(raws))

(* Frame f is such a frame, for a request among those that wait, W, of one *)
(* of the kinds ops.                                                       *)
Replies(W, f, frame, ops) ==
  f.frame = frame /\ \E p \in W : p.id = f.id /\ p.op \in ops

(* f is a board that was asked for; f makes the page look at the board     *)
(* again.                                                                  *)
Fetched(W, f) == Replies(W, f, "response", {"snapshot.get"})

News(W, f) ==
  \/ f.frame = "push"
  \/ Replies(W, f, "response", {"event.subscribe", "issue.create"})
  \/ Replies(W, f, "error", Moves \cup {"snapshot.get"})

(* f tells that issue id is where the page wanted it; that makes the page  *)
(* show it there.                                                          *)
MovesTo(W, f, id, to) ==
  /\ f.frame = "response"
  /\ \E p \in W : p.id = f.id /\ p.op \in Moves /\ p.issue = id /\ p.status = to

MovesIt(W, f, id) == \E to \in TaskBoardStatus : MovesTo(W, f, id, to)

(* Reading f, the page shows issue id in to after it showed it in from.    *)
Leads(W, f, id, from, to) ==
  MovesTo(W, f, id, to) \/ (from = to /\ ~MovesIt(W, f, id))

(* The board is asked for, and awaited; something after place last makes   *)
(* the page look again.                                                    *)
Fetching(u, W) == \E i \in DOMAIN u : u[i].op = "snapshot.get" /\ u[i] \in W

Coming(d, W, last) == \E k \in DOMAIN d : k > last /\ News(W, d[k])

(* Reading all frames after place last takes issue id from column from to  *)
(* column to.                                                              *)
Settles(d, W, last, id, from, to) ==
  \/ /\ from = to
     /\ \A k \in DOMAIN d : k > last => ~MovesIt(W, d[k], id)
  \/ \E k \in DOMAIN d :
       /\ k > last /\ MovesTo(W, d[k], id, to)
       /\ \A l \in DOMAIN d : l > k => ~MovesIt(W, d[l], id)

(* Where the issues are once the frame at last, the last board under way   *)
(* (0: there is none), is read.                                            *)
Base(snap, d, last) == IF last = 0 THEN Placed(snap) ELSE Seen(d[last].data)

(* Once all frames are read, the page shows every issue where Desktop has  *)
(* it.                                                                     *)
Agrees(b, snap, d, W, last) ==
  \A id \in Nat, to \in TaskBoardStatus :
    <<id, to>> \in Seen(b) <=>
      \E from \in TaskBoardStatus :
        <<id, from>> \in Base(snap, d, last) /\ Settles(d, W, last, id, from, to)

(* The last board among the frames is at last.                             *)
LastFetched(d, W, last) ==
  /\ last # 0 => Fetched(W, d[last])
  /\ \A k \in DOMAIN d : k > last => ~Fetched(W, d[k])

(* The promise: a page that has subscribed, and that missed nothing since  *)
(* the last board it has or will have read, looks again, or will come to   *)
(* agree by what is under way.                                             *)
WillAgree(b, sub, u, d, W, snap, m) ==
  \A last \in {0} \cup DOMAIN d :
    LastFetched(d, W, last) /\ sub /\ (m => last # 0)
      => Fetching(u, W) \/ Coming(d, W, last) \/ Agrees(b, snap, d, W, last)

(* Without its first frame every other frame is one place further to the   *)
(* front.                                                                  *)
LEMMA PlacesShift ==
  ASSUME NEW d, NEW e, Removed(d, e)
  PROVE  /\ \A k \in DOMAIN e : k \in Nat /\ k > 0 /\ k + 1 \in DOMAIN d /\ e[k] = d[k + 1]
         /\ \A k \in DOMAIN d : k \in Nat /\ k > 0 /\ (k # 1 => k - 1 \in DOMAIN e /\ (k - 1) + 1 = k /\ d[k] = e[k - 1])
<1>1. \A k \in DOMAIN e : k \in Nat /\ k > 0 /\ k + 1 \in DOMAIN d /\ e[k] = d[k + 1]
  BY DEF Removed
<1>2. \A k \in DOMAIN d : k \in Nat /\ k > 0 /\ (k # 1 => k - 1 \in DOMAIN e /\ (k - 1) + 1 = k)
  BY DEF Removed
<1> QED BY <1>1, <1>2

(* W and V know the same of frame f                                        *)
Alike(W, V, f) == \A q : q.id = f.id => (q \in W <=> q \in V)

(* Then they read it alike.                                                *)
LEMMA AlikeReads ==
  ASSUME NEW W, NEW V, NEW f, Alike(W, V, f)
  PROVE  /\ Fetched(W, f) <=> Fetched(V, f)
         /\ News(W, f) <=> News(V, f)
         /\ \A id, to : MovesTo(W, f, id, to) <=> MovesTo(V, f, id, to)
         /\ \A id : MovesIt(W, f, id) <=> MovesIt(V, f, id)
BY DEF Alike, Fetched, News, MovesTo, MovesIt, Replies

(* Also for what all frames after a place do.                              *)
LEMMA SettlesShift ==
  ASSUME NEW d, NEW e, Removed(d, e), NEW W, NEW V, \A k \in DOMAIN e : Alike(W, V, e[k]),
         NEW last \in Nat, NEW id, NEW from, NEW to
  PROVE  Settles(d, W, last + 1, id, from, to) <=> Settles(e, V, last, id, from, to)
<1>0. /\ \A k \in DOMAIN e : k \in Nat /\ k > 0 /\ k + 1 \in DOMAIN d /\ e[k] = d[k + 1]
      /\ \A k \in DOMAIN d : k \in Nat /\ k > 0 /\ (k # 1 => k - 1 \in DOMAIN e /\ (k - 1) + 1 = k /\ d[k] = e[k - 1])
  BY PlacesShift
<1>1. \A k \in DOMAIN e : /\ \A t : MovesTo(W, d[k + 1], id, t) <=> MovesTo(V, e[k], id, t)
                          /\ MovesIt(W, d[k + 1], id) <=> MovesIt(V, e[k], id)
  BY <1>0, AlikeReads
<1>2. \A k \in DOMAIN d : k # 1 =>
         /\ \A t : MovesTo(W, d[k], id, t) <=> MovesTo(V, e[k - 1], id, t)
         /\ MovesIt(W, d[k], id) <=> MovesIt(V, e[k - 1], id)
  BY <1>0, <1>1
<1>3. ASSUME NEW l \in Nat
      PROVE  (\A k \in DOMAIN d : k > l + 1 => ~MovesIt(W, d[k], id))
               <=> (\A k \in DOMAIN e : k > l => ~MovesIt(V, e[k], id))
  <2>1. ASSUME \A k \in DOMAIN d : k > l + 1 => ~MovesIt(W, d[k], id), NEW k \in DOMAIN e, k > l
        PROVE  ~MovesIt(V, e[k], id)
    <3>1. k + 1 \in DOMAIN d /\ k + 1 > l + 1  BY <1>0, <2>1
    <3> QED BY <1>1, <2>1, <3>1
  <2>2. ASSUME \A k \in DOMAIN e : k > l => ~MovesIt(V, e[k], id), NEW k \in DOMAIN d, k > l + 1
        PROVE  ~MovesIt(W, d[k], id)
    <3>1. k # 1 /\ k - 1 \in DOMAIN e /\ k - 1 > l  BY <1>0, <2>2
    <3> QED BY <1>2, <2>2, <3>1
  <2> QED BY <2>1, <2>2
<1>4. ASSUME Settles(d, W, last + 1, id, from, to) PROVE Settles(e, V, last, id, from, to)
  <2>1. CASE from = to /\ \A k \in DOMAIN d : k > last + 1 => ~MovesIt(W, d[k], id)
    BY <2>1, <1>3 DEF Settles
  <2>2. ASSUME NEW k \in DOMAIN d, k > last + 1, MovesTo(W, d[k], id, to),
               \A l \in DOMAIN d : l > k => ~MovesIt(W, d[l], id)
        PROVE  Settles(e, V, last, id, from, to)
    <3>1. k # 1 /\ k - 1 \in DOMAIN e /\ k - 1 > last /\ k - 1 \in Nat /\ (k - 1) + 1 = k
      BY <1>0, <2>2
    <3>2. MovesTo(V, e[k - 1], id, to)
      BY <1>2, <2>2, <3>1
    <3>3. \A l \in DOMAIN e : l > k - 1 => ~MovesIt(V, e[l], id)
      BY <1>3, <2>2, <3>1
    <3> QED BY <3>1, <3>2, <3>3 DEF Settles
  <2> QED BY <1>4, <2>1, <2>2 DEF Settles
<1>5. ASSUME Settles(e, V, last, id, from, to) PROVE Settles(d, W, last + 1, id, from, to)
  <2>1. CASE from = to /\ \A k \in DOMAIN e : k > last => ~MovesIt(V, e[k], id)
    BY <2>1, <1>3 DEF Settles
  <2>2. ASSUME NEW k \in DOMAIN e, k > last, MovesTo(V, e[k], id, to),
               \A l \in DOMAIN e : l > k => ~MovesIt(V, e[l], id)
        PROVE  Settles(d, W, last + 1, id, from, to)
    <3>1. k + 1 \in DOMAIN d /\ k + 1 > last + 1 /\ k \in Nat
      BY <1>0, <2>2
    <3>2. MovesTo(W, d[k + 1], id, to)
      BY <1>1, <2>2, <3>1
    <3>3. \A l \in DOMAIN d : l > k + 1 => ~MovesIt(W, d[l], id)
      BY <1>3, <2>2, <3>1
    <3> QED BY <3>1, <3>2, <3>3 DEF Settles
  <2> QED BY <1>5, <2>1, <2>2 DEF Settles
<1> QED BY <1>4, <1>5

(* what the first frame does comes before what the others do               *)
LEMMA SettlesFirst ==
  ASSUME NEW d, NEW e, Removed(d, e), 1 \in DOMAIN d, NEW W, NEW id, NEW from, NEW to \in TaskBoardStatus
  PROVE  Settles(d, W, 0, id, from, to) <=>
           \E mid \in TaskBoardStatus \cup {from} :
              Leads(W, d[1], id, from, mid) /\ Settles(d, W, 1, id, mid, to)
<1>0. \A k \in DOMAIN d : k \in Nat /\ k > 0 /\ (k # 1 => k > 1)
  BY PlacesShift
<1>1. ASSUME Settles(d, W, 0, id, from, to)
      PROVE  \E mid \in TaskBoardStatus \cup {from} :
               Leads(W, d[1], id, from, mid) /\ Settles(d, W, 1, id, mid, to)
  <2>1. CASE from = to /\ \A k \in DOMAIN d : k > 0 => ~MovesIt(W, d[k], id)
    BY <1>0, <2>1 DEF Settles, Leads
  <2>2. ASSUME NEW k \in DOMAIN d, MovesTo(W, d[k], id, to),
               \A l \in DOMAIN d : l > k => ~MovesIt(W, d[l], id)
        PROVE  \E mid \in TaskBoardStatus \cup {from} :
                 Leads(W, d[1], id, from, mid) /\ Settles(d, W, 1, id, mid, to)
    <3>1. CASE k = 1
      BY <3>1, <2>2 DEF Settles, Leads
    <3>2. CASE k # 1
      <4>1. \A mid : Settles(d, W, 1, id, mid, to)
        BY <1>0, <2>2, <3>2 DEF Settles
      <4>2. \E mid \in TaskBoardStatus \cup {from} : Leads(W, d[1], id, from, mid)
        BY DEF Leads, MovesIt
      <4> QED BY <4>1, <4>2
    <3> QED BY <3>1, <3>2
  <2> QED BY <1>1, <2>1, <2>2 DEF Settles
<1>2. ASSUME NEW mid \in TaskBoardStatus \cup {from},
             Leads(W, d[1], id, from, mid), Settles(d, W, 1, id, mid, to)
      PROVE  Settles(d, W, 0, id, from, to)
  <2>1. CASE mid = to /\ \A k \in DOMAIN d : k > 1 => ~MovesIt(W, d[k], id)
    <3>1. CASE MovesTo(W, d[1], id, mid)
      BY <2>1, <3>1 DEF Settles
    <3>2. CASE from = mid /\ ~MovesIt(W, d[1], id)
      BY <1>0, <2>1, <3>2 DEF Settles
    <3> QED BY <1>2, <3>1, <3>2 DEF Leads
  <2>2. CASE \E k \in DOMAIN d : /\ k > 1 /\ MovesTo(W, d[k], id, to)
                                 /\ \A l \in DOMAIN d : l > k => ~MovesIt(W, d[l], id)
    BY <1>0, <2>2 DEF Settles
  <2> QED BY <1>2, <2>1, <2>2 DEF Settles
<1> QED BY <1>1, <1>2

-----------------------------------------------------------------------------
(* How the promise changes with what is read, asked, answered and given    *)
(* up.                                                                     *)

(* The board will agree when the same is known of the frames, and of what  *)
(* is under way.                                                           *)
LEMMA WillAgreeAlike ==
  ASSUME NEW b, NEW sub, NEW u, NEW v, NEW d, NEW W, NEW V, NEW snap, NEW m, NEW l,
         DOMAIN d \in SUBSET Nat,
         WillAgree(b, sub, u, d, W, snap, m),
         \A last \in {0} \cup DOMAIN d :
           LastFetched(d, V, last) /\ (l => last # 0) =>
             /\ m => last # 0
             /\ Fetching(u, W) => Fetching(v, V)
             /\ \A k \in DOMAIN d : (k > last \/ k = last) => Alike(W, V, d[k])
  PROVE  WillAgree(b, sub, v, d, V, snap, l)
<1> SUFFICES ASSUME NEW last \in {0} \cup DOMAIN d, LastFetched(d, V, last), sub, l => last # 0
             PROVE  Fetching(v, V) \/ Coming(d, V, last) \/ Agrees(b, snap, d, V, last)
  BY DEF WillAgree
<1>1. /\ m => last # 0
      /\ Fetching(u, W) => Fetching(v, V)
      /\ \A k \in DOMAIN d : (k > last \/ k = last) => Alike(W, V, d[k])
  OBVIOUS
<1>2. \A k \in DOMAIN d : (k > last \/ k = last) =>
         /\ Fetched(W, d[k]) <=> Fetched(V, d[k])
         /\ News(W, d[k]) <=> News(V, d[k])
         /\ \A id, to : MovesTo(W, d[k], id, to) <=> MovesTo(V, d[k], id, to)
         /\ \A id : MovesIt(W, d[k], id) <=> MovesIt(V, d[k], id)
  BY <1>1, AlikeReads
<1>3. LastFetched(d, W, last)
  BY <1>2 DEF LastFetched
<1>4. Coming(d, W, last) => Coming(d, V, last)
  BY <1>2 DEF Coming
<1>5. \A id, from, to : Settles(d, W, last, id, from, to) <=> Settles(d, V, last, id, from, to)
  BY <1>2 DEF Settles
<1>6. Agrees(b, snap, d, W, last) => Agrees(b, snap, d, V, last)
  BY <1>5 DEF Agrees
<1> QED BY <1>1, <1>3, <1>4, <1>6 DEF WillAgree

(* Something comes, after the last board, that makes the page look again.  *)
LEMMA WillAgreeNews ==
  ASSUME NEW b, NEW sub, NEW u, NEW e, NEW W, NEW snap, NEW m, DOMAIN e \in SUBSET Int,
         NEW n \in DOMAIN e, n > 0, News(W, e[n]),
         \A k \in DOMAIN e : (k > n \/ k = n) => ~Fetched(W, e[k])
  PROVE  WillAgree(b, sub, u, e, W, snap, m)
<1> SUFFICES ASSUME NEW last \in {0} \cup DOMAIN e, LastFetched(e, W, last)
             PROVE  Coming(e, W, last)
  BY DEF WillAgree
<1>1. n > last
  BY DEF LastFetched
<1> QED BY <1>1 DEF Coming

(* And what the last does comes after.                                     *)
LEMMA SettlesLast ==
  ASSUME NEW d, NEW f, NEW e, Appended(d, f, e), NEW W, NEW last \in 0 .. Len(d),
         NEW id, NEW from, NEW to \in TaskBoardStatus
  PROVE  Settles(e, W, last, id, from, to) <=>
           \E mid \in TaskBoardStatus \cup {from} :
              Settles(d, W, last, id, from, mid) /\ Leads(W, f, id, mid, to)
<1> DEFINE n == Len(d)
<1>0. /\ n \in Nat /\ last \in Nat /\ n + 1 > last /\ DOMAIN d = 1 .. n
      /\ n + 1 \in DOMAIN e /\ e[n + 1] = f
      /\ \A k \in DOMAIN d : k \in Int /\ k \in DOMAIN e /\ n + 1 > k /\ k # n + 1 /\ e[k] = d[k]
      /\ \A k \in DOMAIN e : k \in Int /\ ~(k > n + 1) /\ (k # n + 1 => k \in DOMAIN d)
  BY DEF Appended
<1> HIDE DEF n
<1>1. ASSUME Settles(e, W, last, id, from, to)
      PROVE  \E mid \in TaskBoardStatus \cup {from} :
               Settles(d, W, last, id, from, mid) /\ Leads(W, f, id, mid, to)
  <2>1. CASE from = to /\ \A k \in DOMAIN e : k > last => ~MovesIt(W, e[k], id)
    <3>1. Settles(d, W, last, id, from, from)
      BY <1>0, <2>1 DEF Settles
    <3>2. Leads(W, f, id, from, to)
      BY <1>0, <2>1 DEF Leads
    <3> QED BY <3>1, <3>2
  <2>2. ASSUME NEW k \in DOMAIN e, k > last, MovesTo(W, e[k], id, to),
               \A l \in DOMAIN e : l > k => ~MovesIt(W, e[l], id)
        PROVE  \E mid \in TaskBoardStatus \cup {from} :
                 Settles(d, W, last, id, from, mid) /\ Leads(W, f, id, mid, to)
    <3>1. CASE k # n + 1
      <4>1. Settles(d, W, last, id, from, to)
        BY <1>0, <2>2, <3>1 DEF Settles
      <4>2. Leads(W, f, id, to, to)
        BY <1>0, <2>2, <3>1 DEF Leads
      <4> QED BY <4>1, <4>2
    <3>2. CASE k = n + 1
      <4>1. \A mid : Leads(W, f, id, mid, to)
        BY <1>0, <2>2, <3>2 DEF Leads
      <4>2. \E mid \in TaskBoardStatus \cup {from} : Settles(d, W, last, id, from, mid)
        <5>1. CASE \A l \in DOMAIN d : l > last => ~MovesIt(W, d[l], id)
          BY <5>1 DEF Settles
        <5>2. ASSUME NEW l \in DOMAIN d, l > last, MovesIt(W, d[l], id)
              PROVE  \E mid \in TaskBoardStatus : Settles(d, W, last, id, from, mid)
          <6> DEFINE I == {i \in 1 .. n : i > last /\ MovesIt(W, d[i], id)}
          <6>1. I # {} /\ I \in SUBSET (1 .. n)
            BY <1>0, <5>2
          <6>2. PICK top \in I : \A i \in I : ~(i > top)
            BY <1>0, <6>1, GreatestOfSome
          <6>3. PICK mid \in TaskBoardStatus : MovesTo(W, d[top], id, mid)
            BY DEF MovesIt
          <6>4. Settles(d, W, last, id, from, mid)
            <7>1. \A i \in DOMAIN d : i > top => ~MovesIt(W, d[i], id)
              BY <1>0, <6>2
            <7> QED BY <1>0, <6>3, <7>1 DEF Settles
          <6> QED BY <6>4
        <5> QED BY <5>1, <5>2
      <4> QED BY <4>1, <4>2
    <3> QED BY <3>1, <3>2
  <2> QED BY <1>1, <2>1, <2>2 DEF Settles
<1>2. ASSUME NEW mid \in TaskBoardStatus \cup {from},
             Settles(d, W, last, id, from, mid), Leads(W, f, id, mid, to)
      PROVE  Settles(e, W, last, id, from, to)
  <2>1. CASE MovesTo(W, f, id, to)
    BY <1>0, <2>1 DEF Settles
  <2>2. CASE mid = to /\ ~MovesIt(W, f, id)
    <3>1. CASE from = mid /\ \A k \in DOMAIN d : k > last => ~MovesIt(W, d[k], id)
      BY <1>0, <2>2, <3>1 DEF Settles
    <3>2. ASSUME NEW k \in DOMAIN d, k > last, MovesTo(W, d[k], id, mid),
                 \A l \in DOMAIN d : l > k => ~MovesIt(W, d[l], id)
          PROVE  Settles(e, W, last, id, from, to)
      <4>1. k \in DOMAIN e /\ MovesTo(W, e[k], id, to)
        BY <1>0, <2>2, <3>2
      <4>2. \A l \in DOMAIN e : l > k => ~MovesIt(W, e[l], id)
        BY <1>0, <2>2, <3>2
      <4> QED BY <3>2, <4>1, <4>2 DEF Settles
    <3> QED BY <1>2, <3>1, <3>2 DEF Settles
  <2> QED BY <1>2, <2>1, <2>2 DEF Leads
<1> QED BY <1>1, <1>2

(* How an answer f, read now, changes where the issues are shown.          *)
Follows(W, f, P, Q) ==
  \A id \in Nat, to \in TaskBoardStatus :
    <<id, to>> \in Q <=>
      \E from \in TaskBoardStatus : <<id, from>> \in P /\ Leads(W, f, id, from, to)

(* The page reads a frame: the promise is kept by what it fetches, by the  *)
(* look that follows, or by what the frame does to the snapshot.           *)
LEMMA WillAgreeRead ==
  ASSUME NEW b, NEW sub, NEW u, NEW v, NEW d, NEW e, Removed(d, e), 1 \in DOMAIN d,
         NEW W, NEW V, \A k \in DOMAIN e : Alike(W, V, e[k]),
         NEW P, NEW Q, NEW m, NEW l, NEW f, f = d[1],
         WillAgree(b, sub, u, d, W, P, m),
         Fetching(u, W) => Fetching(v, V),
         News(W, f) => l \/ Fetching(v, V),
         Fetched(W, f) => Placed(Q) = Seen(f.data),
         ~Fetched(W, f) /\ ~l => ~m /\ Follows(W, f, Placed(P), Placed(Q))
  PROVE  WillAgree(b, sub, v, e, V, Q, l)
<1> SUFFICES ASSUME NEW last \in {0} \cup DOMAIN e, LastFetched(e, V, last), sub, l => last # 0,
                    ~Fetching(v, V), ~Coming(e, V, last)
             PROVE  Agrees(b, Q, e, V, last)
  BY DEF WillAgree
<1>0. /\ \A k \in DOMAIN e : k \in Nat /\ k > 0 /\ k + 1 \in DOMAIN d /\ e[k] = d[k + 1]
      /\ \A k \in DOMAIN d : k \in Nat /\ k > 0 /\ (k # 1 => k - 1 \in DOMAIN e /\ (k - 1) + 1 = k /\ d[k] = e[k - 1])
  BY PlacesShift
<1>1. last \in Nat
  BY <1>0
<1>2. \A k \in DOMAIN d : k # 1 => /\ Fetched(W, d[k]) <=> Fetched(V, e[k - 1])
                                   /\ News(W, d[k]) <=> News(V, e[k - 1])
  BY <1>0, AlikeReads
<1>3. \A k \in DOMAIN d : k > last + 1 => ~Fetched(W, d[k]) /\ ~News(W, d[k])
  <2> TAKE k \in DOMAIN d
  <2> HAVE k > last + 1
  <2>1. k # 1 /\ k - 1 \in DOMAIN e /\ k - 1 > last
    BY <1>0, <1>1
  <2> QED BY <1>2, <2>1 DEF LastFetched, Coming
<1>4. ~Coming(d, W, last + 1)
  BY <1>3 DEF Coming
<1>5. \A id, from, to : Settles(d, W, last + 1, id, from, to) <=> Settles(e, V, last, id, from, to)
  BY <1>1, SettlesShift
<1>6. CASE last # 0 \/ Fetched(W, f)
  <2>1. last + 1 \in DOMAIN d /\ last + 1 # 0 /\ LastFetched(d, W, last + 1)
    <3>1. last + 1 \in DOMAIN d /\ last + 1 # 0
      BY <1>0, <1>1
    <3>2. Fetched(W, d[last + 1])
      <4>1. CASE last = 0  BY <1>6, <4>1
      <4>2. CASE last # 0
        <5>1. Fetched(V, e[last]) /\ last \in DOMAIN e /\ d[last + 1] = e[last] /\ Alike(W, V, e[last])
          BY <1>0, <4>2 DEF LastFetched
        <5> QED BY <5>1, AlikeReads
      <4> QED BY <4>1, <4>2
    <3> QED BY <1>3, <3>1, <3>2 DEF LastFetched
  <2>2. Agrees(b, P, d, W, last + 1)
    BY <1>4, <2>1 DEF WillAgree
  <2>3. Base(P, d, last + 1) = Base(Q, e, last)
    BY <1>0, <1>1, <1>6, <2>1 DEF Base
  <2> QED BY <1>5, <2>2, <2>3 DEF Agrees
<1>7. CASE last = 0 /\ ~Fetched(W, f)
  <2>1. ~News(W, f) /\ ~m /\ Follows(W, f, Placed(P), Placed(Q))
    BY <1>7
  <2>2. \A k \in DOMAIN d : ~Fetched(W, d[k]) /\ ~News(W, d[k])
    <3> TAKE k \in DOMAIN d
    <3>1. CASE k = 1  BY <1>7, <2>1, <3>1
    <3>2. CASE k # 1
      <4>1. k > last + 1  BY <1>0, <1>7, <3>2
      <4> QED BY <1>3, <4>1
    <3> QED BY <3>1, <3>2
  <2>3. LastFetched(d, W, 0) /\ ~Coming(d, W, 0)
    BY <2>2 DEF LastFetched, Coming
  <2>4. Agrees(b, P, d, W, 0)
    BY <2>1, <2>3 DEF WillAgree
  <2>5. \A id \in Nat, from, to \in TaskBoardStatus :
           Settles(d, W, 0, id, from, to) <=>
             \E mid \in TaskBoardStatus : Leads(W, f, id, from, mid) /\ Settles(e, V, 0, id, mid, to)
    <3> TAKE id \in Nat, from, to \in TaskBoardStatus
    <3>1. Settles(d, W, 0, id, from, to) <=>
            \E mid \in TaskBoardStatus \cup {from} :
              Leads(W, d[1], id, from, mid) /\ Settles(d, W, 1, id, mid, to)
      BY SettlesFirst
    <3>2. TaskBoardStatus \cup {from} = TaskBoardStatus
      OBVIOUS
    <3>3. \A mid : Settles(d, W, 1, id, mid, to) <=> Settles(e, V, 0, id, mid, to)
      BY <1>5, <1>7
    <3> QED BY <3>1, <3>2, <3>3
  <2>6. ASSUME NEW id \in Nat, NEW to \in TaskBoardStatus
        PROVE  <<id, to>> \in Seen(b) <=>
                 \E from \in TaskBoardStatus : <<id, from>> \in Placed(Q) /\ Settles(e, V, 0, id, from, to)
    <3>1. <<id, to>> \in Seen(b) <=>
            \E from \in TaskBoardStatus : <<id, from>> \in Placed(P) /\ Settles(d, W, 0, id, from, to)
      BY <2>4 DEF Agrees, Base
    <3>2. \A mid \in TaskBoardStatus : <<id, mid>> \in Placed(Q) <=>
            \E from \in TaskBoardStatus : <<id, from>> \in Placed(P) /\ Leads(W, f, id, from, mid)
      BY <2>1 DEF Follows
    <3> QED BY <2>5, <3>1, <3>2
  <2> QED BY <1>7, <2>6 DEF Agrees, Base
<1> QED BY <1>6, <1>7

(* A request that still waits was answered: by the board itself,           *)
LEMMA WillAgreeSent ==
  ASSUME NEW b, NEW sub, NEW u, NEW d, NEW f, NEW e, Appended(d, f, e), NEW W,
         Fetched(W, f), f.data = b, NEW P, NEW m
  PROVE  WillAgree(b, sub, u, e, W, P, m)
<1> SUFFICES ASSUME NEW last \in {0} \cup DOMAIN e, LastFetched(e, W, last)
             PROVE  Agrees(b, P, e, W, last)
  BY DEF WillAgree
<1> DEFINE n == Len(d)
<1>0. /\ n \in Nat /\ n + 1 \in DOMAIN e /\ e[n + 1] = f /\ n + 1 # 0
      /\ \A k \in DOMAIN e : k \in Int /\ ~(k > n + 1)
      /\ last \in Int /\ (last # n + 1 => n + 1 > last)
  BY DEF Appended
<1> HIDE DEF n
<1>1. last = n + 1
  BY <1>0 DEF LastFetched
<1>2. Base(P, e, last) = Seen(b)
  BY <1>0, <1>1 DEF Base
<1>3. \A id, from, to : Settles(e, W, last, id, from, to) <=> from = to
  BY <1>0, <1>1 DEF Settles
<1>4. ASSUME NEW id \in Nat, NEW to \in TaskBoardStatus
      PROVE  <<id, to>> \in Seen(b) <=>
               \E from \in TaskBoardStatus :
                 <<id, from>> \in Base(P, e, last) /\ Settles(e, W, last, id, from, to)
  <2>1. \A from : Settles(e, W, last, id, from, to) <=> from = to
    BY <1>3
  <2> QED BY <1>2, <2>1, Zenon
<1> QED BY <1>4 DEF Agrees

(* or by an answer that moves what the page shows as it moved the board.   *)
LEMMA WillAgreeAnswered ==
  ASSUME NEW b, NEW c, NEW sub, NEW u, NEW v, NEW d, NEW f, NEW e, Appended(d, f, e), NEW W,
         NEW P, NEW m, WillAgree(b, sub, u, d, W, P, m), ~Fetched(W, f),
         Fetching(u, W) => Fetching(v, W),
         Follows(W, f, Seen(b), Seen(c))
  PROVE  WillAgree(c, sub, v, e, W, P, m)
<1> SUFFICES ASSUME NEW last \in {0} \cup DOMAIN e, LastFetched(e, W, last), sub, m => last # 0,
                    ~Fetching(v, W), ~Coming(e, W, last)
             PROVE  Agrees(c, P, e, W, last)
  BY DEF WillAgree
<1> DEFINE n == Len(d)
<1>0. /\ n \in Nat /\ DOMAIN d = 1 .. n /\ n + 1 \in DOMAIN e /\ e[n + 1] = f /\ n + 1 # 0
      /\ \A k \in DOMAIN d : k \in DOMAIN e /\ e[k] = d[k]
      /\ (last # n + 1 => last \in 0 .. n)
  BY DEF Appended
<1> HIDE DEF n
<1>1. last \in 0 .. n
  BY <1>0 DEF LastFetched
<1>2. LastFetched(d, W, last) /\ ~Coming(d, W, last) /\ last \in {0} \cup DOMAIN d
  <2>1. last \in {0} \cup DOMAIN d
    BY <1>0, <1>1
  <2> QED BY <1>0, <2>1 DEF LastFetched, Coming
<1>3. Agrees(b, P, d, W, last)
  BY <1>2 DEF WillAgree
<1>4. Base(P, d, last) = Base(P, e, last)
  BY <1>0, <1>2 DEF Base
<1>5. \A id \in Nat, from, to \in TaskBoardStatus :
         Settles(e, W, last, id, from, to) <=>
           \E mid \in TaskBoardStatus : Settles(d, W, last, id, from, mid) /\ Leads(W, f, id, mid, to)
  <2> TAKE id \in Nat, from, to \in TaskBoardStatus
  <2>1. Settles(e, W, last, id, from, to) <=>
          \E mid \in TaskBoardStatus \cup {from} :
            Settles(d, W, last, id, from, mid) /\ Leads(W, f, id, mid, to)
    BY <1>1, SettlesLast DEF n
  <2>2. TaskBoardStatus \cup {from} = TaskBoardStatus
    OBVIOUS
  <2> QED BY <2>1, <2>2
<1>6. ASSUME NEW id \in Nat, NEW to \in TaskBoardStatus
      PROVE  <<id, to>> \in Seen(c) <=>
               \E from \in TaskBoardStatus :
                 <<id, from>> \in Base(P, e, last) /\ Settles(e, W, last, id, from, to)
  <2>1. <<id, to>> \in Seen(c) <=>
          \E mid \in TaskBoardStatus : <<id, mid>> \in Seen(b) /\ Leads(W, f, id, mid, to)
    BY DEF Follows
  <2>2. \A mid \in TaskBoardStatus : <<id, mid>> \in Seen(b) <=>
          \E from \in TaskBoardStatus :
            <<id, from>> \in Base(P, e, last) /\ Settles(d, W, last, id, from, mid)
    BY <1>3, <1>4 DEF Agrees
  <2> QED BY <1>5, <2>1, <2>2
<1> QED BY <1>6 DEF Agrees

(* What answers a request that nobody waits for: the page looks again.     *)
LEMMA WillAgreeGivenUp ==
  ASSUME NEW b, NEW sub, NEW u, 1 \in DOMAIN u, NEW v, Removed(u, v), NEW e, NEW W, NEW P, NEW m,
         LookedAfter(u, W, m), u[1] \notin W, \A k \in DOMAIN e : ~Fetched(W, e[k])
  PROVE  WillAgree(b, sub, v, e, W, P, m)
<1>1. m \/ Fetching(v, W)
  <2>1. m \/ \E j \in DOMAIN u : 1 < j /\ u[j].op = "snapshot.get" /\ u[j] \in W
    BY DEF LookedAfter
  <2>2. ASSUME NEW j \in DOMAIN u, 1 < j, u[j].op = "snapshot.get", u[j] \in W
        PROVE  Fetching(v, W)
    <3>1. j - 1 \in DOMAIN v /\ (j - 1) + 1 = j /\ v[j - 1] = u[j]
      BY <2>2 DEF Removed
    <3> QED BY <2>2, <3>1 DEF Fetching
  <2> QED BY <2>1, <2>2
<1>2. \A last \in {0} \cup DOMAIN e : LastFetched(e, W, last) => last = 0
  BY DEF LastFetched
<1> QED BY <1>1, <1>2 DEF WillAgree

-----------------------------------------------------------------------------
(* All that is under way, and how each step leaves it.                     *)

(* What is under way: the numbers, the second looks, and the board that the*)
(* page comes to.                                                          *)
Traffic(b, sub, u, d, W, n, P, m) ==
  /\ Numbered(u, d, W, n)
  /\ SentBefore(u, W) /\ LookedAfter(u, W, m)
  /\ WillAgree(b, sub, u, d, W, P, m)

(* The page looks at the board, or asks for something else.                *)
LEMMA TrafficFetch ==
  ASSUME NEW b, NEW sub, NEW u, NEW d, NEW W, NEW n \in Nat, NEW P, NEW m,
         Numbered(u, d, W, n), SentBefore(u, W),
         NEW c, c.id = n + 1, c.op = "snapshot.get", NEW v, Appended(u, c, v)
  PROVE  Traffic(b, sub, v, d, W \cup {c}, n + 1, P, m)
<1>1. Numbered(v, d, W \cup {c}, n + 1)
  BY NumberedAsk
<1>2. SentBefore(v, W \cup {c}) /\ LookedAfter(v, W \cup {c}, m)
  BY GivenUpGet
<1>3. Fetching(v, W \cup {c})
  <2>1. Len(u) + 1 \in DOMAIN v /\ v[Len(u) + 1] = c
    BY DEF Appended
  <2> QED BY <2>1 DEF Fetching
<1>4. WillAgree(b, sub, v, d, W \cup {c}, P, m)
  BY <1>3 DEF WillAgree
<1> QED BY <1>1, <1>2, <1>4 DEF Traffic

LEMMA TrafficAsk ==
  ASSUME NEW b, NEW sub, NEW u, NEW d, DOMAIN d \in SUBSET Nat, NEW W, NEW n \in Nat, NEW P, NEW m,
         Traffic(b, sub, u, d, W, n, P, m),
         NEW c, c.id = n + 1, NEW v, Appended(u, c, v)
  PROVE  Traffic(b, sub, v, d, W \cup {c}, n + 1, P, m)
<1>0. /\ Numbered(u, d, W, n) /\ SentBefore(u, W) /\ LookedAfter(u, W, m)
      /\ WillAgree(b, sub, u, d, W, P, m)
  BY DEF Traffic
<1>1. Numbered(v, d, W \cup {c}, n + 1)
  BY <1>0, NumberedAsk
<1>2. SentBefore(v, W \cup {c}) /\ LookedAfter(v, W \cup {c}, m)
  BY <1>0, GivenUpAsk
<1>3. Fetching(u, W) => Fetching(v, W \cup {c})
  <2>1. \A i \in DOMAIN u : i \in DOMAIN v /\ v[i] = u[i]
    BY DEF Appended
  <2> QED BY <2>1 DEF Fetching
<1>4. \A k \in DOMAIN d : Alike(W, W \cup {c}, d[k])
  <2>1. \A k \in DOMAIN d : d[k].id # c.id
    BY <1>0 DEF Numbered
  <2> QED BY <2>1 DEF Alike
<1>5. WillAgree(b, sub, v, d, W \cup {c}, P, m)
  BY <1>0, <1>3, <1>4, WillAgreeAlike
<1> QED BY <1>1, <1>2, <1>5 DEF Traffic

(* An answer is read: to a request that nobody waits for any more, to one  *)
(* that is over with it, or to one that is followed by a second look.      *)
LEMMA TrafficLost ==
  ASSUME NEW b, NEW sub, NEW u, NEW d, NEW e, Removed(d, e), 1 \in DOMAIN d,
         NEW W, NEW n \in Nat, NEW P, NEW m, Traffic(b, sub, u, d, W, n, P, m),
         d[1].frame # "push", \A p \in W : p.id # d[1].id
  PROVE  Traffic(b, sub, u, e, W, n, P, m)
<1>0. /\ Numbered(u, d, W, n) /\ SentBefore(u, W) /\ LookedAfter(u, W, m)
      /\ WillAgree(b, sub, u, d, W, P, m)
  BY DEF Traffic
<1>1. Numbered(u, e, W, n)
  BY <1>0, NumberedRead
<1>2. ~Fetched(W, d[1]) /\ ~News(W, d[1]) /\ \A id : ~MovesIt(W, d[1], id)
  BY DEF Fetched, News, Replies, MovesIt, MovesTo
<1>3. Follows(W, d[1], Placed(P), Placed(P))
  <2>1. \A id, from, to : Leads(W, d[1], id, from, to) <=> from = to
    BY <1>2 DEF Leads, MovesIt, MovesTo
  <2> QED BY <2>1, Zenon DEF Follows
<1>4. \A k \in DOMAIN e : Alike(W, W, e[k])
  BY DEF Alike
<1>5. WillAgree(b, sub, u, e, W, P, m)
  BY <1>0, <1>2, <1>3, <1>4, WillAgreeRead
<1> QED BY <1>0, <1>1, <1>5 DEF Traffic

(* The first frame answers p, which waits no more.                         *)
LEMMA ReadFirst ==
  ASSUME NEW u, NEW d, NEW e, Removed(d, e), 1 \in DOMAIN d,
         NEW W, NEW n \in Nat, Numbered(u, d, W, n), SentBefore(u, W),
         NEW p \in W, d[1].frame # "push", d[1].id = p.id, NEW m
  PROVE  /\ Numbered(u, e, W \ {p}, n)
         /\ SentBefore(u, W \ {p}) /\ LookedAfter(u, W \ {p}, m)
         /\ \A k \in DOMAIN e : Alike(W, W \ {p}, e[k])
<1>1. Numbered(u, e, W \ {p}, n)
  <2>1. Numbered(u, e, W, n)  BY NumberedRead
  <2> QED BY <2>1, NumberedDrop
<1>2. p.id \in Nat /\ \A i \in DOMAIN u : u[i].id \in Nat /\ p.id < u[i].id
  BY DEF Numbered
<1>3. SentBefore(u, W \ {p}) /\ LookedAfter(u, W \ {p}, m)
  BY <1>2, GivenUpAnswered
<1>4. \A k \in DOMAIN e : Alike(W, W \ {p}, e[k])
  <2> TAKE k \in DOMAIN e
  <2>1. k + 1 \in DOMAIN d /\ e[k] = d[k + 1] /\ 1 < k + 1
    BY DEF Removed
  <2>2. e[k].id # p.id
    BY <2>1 DEF Numbered
  <2> QED BY <2>2 DEF Alike
<1> QED BY <1>1, <1>3, <1>4

(* A request that waits is answered.                                       *)
LEMMA TrafficAnswered ==
  ASSUME NEW b, NEW sub, NEW u, NEW d, NEW e, Removed(d, e), 1 \in DOMAIN d,
         NEW W, NEW n \in Nat, NEW P, NEW Q, NEW m, NEW l, Traffic(b, sub, u, d, W, n, P, m),
         NEW p \in W, NEW f, f = d[1], f.frame # "push", f.id = p.id,
         News(W, f) => l,
         Fetched(W, f) => Placed(Q) = Seen(f.data),
         ~Fetched(W, f) /\ ~l => ~m /\ Follows(W, f, Placed(P), Placed(Q))
  PROVE  Traffic(b, sub, u, e, W \ {p}, n, Q, l)
<1>0. /\ Numbered(u, d, W, n) /\ SentBefore(u, W) /\ LookedAfter(u, W, m)
      /\ WillAgree(b, sub, u, d, W, P, m)
  BY DEF Traffic
<1>1. /\ Numbered(u, e, W \ {p}, n)
      /\ SentBefore(u, W \ {p}) /\ LookedAfter(u, W \ {p}, l)
      /\ \A k \in DOMAIN e : Alike(W, W \ {p}, e[k])
  BY <1>0, ReadFirst
<1>2. Fetching(u, W) => Fetching(u, W \ {p})
  <2>1. \A i \in DOMAIN u : u[i] # p
    BY <1>0 DEF Numbered
  <2> QED BY <2>1 DEF Fetching
<1>3. WillAgree(b, sub, u, e, W \ {p}, Q, l)
  BY <1>0, <1>1, <1>2, WillAgreeRead
<1> QED BY <1>1, <1>3 DEF Traffic

(* The oldest of those that wait is given up.                              *)
LEMMA TrafficTimeout ==
  ASSUME NEW b, NEW sub, NEW u, NEW d, DOMAIN d \in SUBSET Nat, NEW W, NEW n \in Nat, NEW P, NEW m,
         Traffic(b, sub, u, d, W, n, P, m),
         NEW p \in W, \A q \in W \ {p} : p.id < q.id
  PROVE  Traffic(b, sub, u, d, W \ {p}, n, P, TRUE)
<1>0. /\ Numbered(u, d, W, n) /\ SentBefore(u, W)
      /\ WillAgree(b, sub, u, d, W, P, m)
  BY DEF Traffic
<1>1. Numbered(u, d, W \ {p}, n)
  BY <1>0, NumberedDrop
<1>2. SentBefore(u, W \ {p}) /\ LookedAfter(u, W \ {p}, TRUE)
  BY <1>0, GivenUpTimeout
<1>3. ASSUME NEW last \in DOMAIN d, Fetched(W \ {p}, d[last])
      PROVE  /\ Fetching(u, W) => Fetching(u, W \ {p})
             /\ \A k \in DOMAIN d : (k > last \/ k = last) => Alike(W, W \ {p}, d[k])
  <2>1. PICK q \in W \ {p} : q.id = d[last].id /\ d[last].frame = "response"
    BY <1>3 DEF Fetched, Replies
  <2>2. p.id \in Nat /\ p.id < d[last].id /\ p.id > 0
    BY <1>0, <2>1 DEF Numbered
  <2>3. \A i \in DOMAIN u : u[i] # p
    BY <1>0, <2>1, <2>2 DEF Numbered
  <2>4. \A k \in DOMAIN d : (k > last \/ k = last) => d[k].id # p.id
    BY <1>0, <2>1, <2>2 DEF Numbered
  <2> QED BY <2>3, <2>4 DEF Fetching, Alike
<1>4. \A last \in {0} \cup DOMAIN d :
         LastFetched(d, W \ {p}, last) /\ (TRUE => last # 0) =>
           /\ m => last # 0
           /\ Fetching(u, W) => Fetching(u, W \ {p})
           /\ \A k \in DOMAIN d : (k > last \/ k = last) => Alike(W, W \ {p}, d[k])
  BY <1>3 DEF LastFetched
<1>5. WillAgree(b, sub, u, d, W \ {p}, P, TRUE)
  BY <1>0, <1>4, WillAgreeAlike
<1> QED BY <1>1, <1>2, <1>5 DEF Traffic

(* What is missed may be written down.                                     *)
LEMMA TrafficMissed ==
  ASSUME NEW b, NEW sub, NEW u, NEW d, NEW W, NEW n, NEW P, NEW m,
         Traffic(b, sub, u, d, W, n, P, m)
  PROVE  Traffic(b, sub, u, d, W, n, P, TRUE)
BY DEF Traffic, LookedAfter, WillAgree

(* Another changed the board.                                              *)
LEMMA TrafficPushed ==
  ASSUME NEW b, NEW c, NEW u, NEW d, DOMAIN d \in SUBSET Nat, NEW e, Appended(d, Push, e), NEW W, NEW n \in Nat, NEW P, NEW m,
         NEW sub, Traffic(b, sub, u, d, W, n, P, m)
  PROVE  Traffic(c, sub, u, e, W, n, P, m)
<1>0. Numbered(u, d, W, n) /\ SentBefore(u, W) /\ LookedAfter(u, W, m)
  BY DEF Traffic
<1>1. Numbered(u, e, W, n)
  BY <1>0, NumberedPush
<1> DEFINE k == Len(d) + 1
<1>2. /\ k \in DOMAIN e /\ k > 0 /\ e[k] = Push /\ DOMAIN e \in SUBSET Int
      /\ \A j \in DOMAIN e : ~(j > k)
  BY DEF Appended
<1> HIDE DEF k
<1>3. News(W, Push) /\ ~Fetched(W, Push)
  BY DEF News, Fetched, Replies, Push
<1>4. WillAgree(c, sub, u, e, W, P, m)
  BY <1>2, <1>3, WillAgreeNews
<1> QED BY <1>0, <1>1, <1>4 DEF Traffic

(* A page that has not subscribed is promised nothing.                     *)
LEMMA TrafficDeaf ==
  ASSUME NEW b, NEW c, NEW u, NEW d, NEW W, NEW n, NEW P, NEW Q, NEW m, NEW sub,
         Traffic(b, sub, u, d, W, n, P, m)
  PROVE  Traffic(c, FALSE, u, d, W, n, Q, m)
BY DEF Traffic, WillAgree

(* Where Desktop's issues are after issue id was put to status.            *)
Puts(A, B, id, status) ==
  \A x \in Nat, to \in TaskBoardStatus :
    <<x, to>> \in B <=>
      \E from \in TaskBoardStatus : <<x, from>> \in A /\ to = IF x = id THEN status ELSE from

(* An answer moves the page's issue as it moved Desktop's, any other frame *)
(* moves none.                                                             *)
LEMMA AnswerFollows ==
  ASSUME NEW W, NEW p \in W, \A q \in W : q.id = p.id => q = p,
         p.op \in Moves, p.status \in TaskBoardStatus,
         NEW f, f.frame = "response", f.id = p.id,
         NEW A, NEW B, Puts(A, B, p.issue, p.status)
  PROVE  Follows(W, f, A, B)
<1>1. \A id, to : MovesTo(W, f, id, to) <=> id = p.issue /\ to = p.status
  BY DEF MovesTo
<1>2. \A id : MovesIt(W, f, id) <=> id = p.issue
  BY <1>1 DEF MovesIt
<1>3. \A id, from, to : Leads(W, f, id, from, to) <=> to = IF id = p.issue THEN p.status ELSE from
  BY <1>1, <1>2 DEF Leads
<1>4. ASSUME NEW x \in Nat, NEW to \in TaskBoardStatus
      PROVE  <<x, to>> \in B <=>
               \E from \in TaskBoardStatus : <<x, from>> \in A /\ Leads(W, f, x, from, to)
  <2>1. <<x, to>> \in B <=>
          \E from \in TaskBoardStatus : <<x, from>> \in A /\ to = IF x = p.issue THEN p.status ELSE from
    BY DEF Puts
  <2>2. \A from : Leads(W, f, x, from, to) <=> to = IF x = p.issue THEN p.status ELSE from
    BY <1>3
  <2> QED BY <2>1, <2>2, Zenon
<1> QED BY <1>4 DEF Follows

LEMMA NothingFollows ==
  ASSUME NEW W, NEW f, NEW A, \A id : ~MovesIt(W, f, id), \A id, to : ~MovesTo(W, f, id, to)
  PROVE  Follows(W, f, A, A)
<1>1. \A id, from, to : Leads(W, f, id, from, to) <=> from = to
  BY DEF Leads
<1>2. ASSUME NEW id \in Nat, NEW to \in TaskBoardStatus
      PROVE  <<id, to>> \in A <=>
               \E from \in TaskBoardStatus : <<id, from>> \in A /\ Leads(W, f, id, from, to)
  <2>1. \A from : Leads(W, f, id, from, to) <=> from = to
    BY <1>1
  <2> QED BY <2>1, Zenon
<1> QED BY <1>2 DEF Follows

(* Desktop takes the first request, and answers it.                        *)
LEMMA TrafficHandled ==
  ASSUME NEW b, NEW c, NEW sub, NEW now, NEW u, 1 \in DOMAIN u, NEW v, Removed(u, v),
         NEW d, DOMAIN d \in SUBSET Nat, NEW f, NEW e, Appended(d, f, e),
         NEW W, NEW n \in Nat, NEW P, NEW m, Traffic(b, sub, u, d, W, n, P, m),
         f.id = u[1].id, f.frame \in {"response", "error"},
         u[1].op \in {"event.subscribe", "snapshot.get", "issue.create"} \cup Moves,
         f.frame = "error" => c = b /\ now = sub,
         now = sub \/ u[1].op = "event.subscribe",
         f.frame = "response" /\ u[1].op = "snapshot.get" => f.data = b /\ c = b,
         f.frame = "response" /\ u[1].op \in Moves =>
           u[1].status \in TaskBoardStatus /\ Puts(Seen(b), Seen(c), u[1].issue, u[1].status)
  PROVE  Traffic(c, now, v, e, W, n, P, m)
<1> DEFINE p == u[1]
<1>0. /\ Numbered(u, d, W, n) /\ SentBefore(u, W) /\ LookedAfter(u, W, m)
      /\ WillAgree(b, sub, u, d, W, P, m)
  BY DEF Traffic
<1>1. Numbered(v, e, W, n)
  BY <1>0, NumberedHandled
<1>2. SentBefore(v, W) /\ LookedAfter(v, W, m)
  BY <1>0, GivenUpHandled
<1> DEFINE k == Len(d) + 1
<1>3. /\ k \in DOMAIN e /\ k > 0 /\ e[k] = f /\ DOMAIN e \in SUBSET Int
      /\ \A j \in DOMAIN e : ~(j > k) /\ (j # k => j \in DOMAIN d /\ e[j] = d[j])
  BY DEF Appended
<1> HIDE DEF k
<1>4. CASE p \notin W
  <2>1. \A q \in W : p.id < q.id /\ p.id \in Nat /\ q.id \in Nat
    BY <1>0, <1>4 DEF SentBefore, Numbered
  <2>2. \A j \in DOMAIN e : ~Fetched(W, e[j])
    <3> TAKE j \in DOMAIN e
    <3>1. CASE j = k
      BY <1>3, <2>1, <3>1 DEF Fetched, Replies
    <3>2. CASE j # k
      <4>1. d[j].frame # "push" => d[j].id \in Nat /\ d[j].id < p.id
        BY <1>0, <1>3, <3>2 DEF Numbered
      <4> QED BY <1>3, <2>1, <3>2, <4>1 DEF Fetched, Replies
    <3> QED BY <3>1, <3>2
  <2>3. WillAgree(c, now, v, e, W, P, m)
    BY <1>0, <1>4, <2>2, WillAgreeGivenUp
  <2> QED BY <1>1, <1>2, <2>3 DEF Traffic
<1>5. CASE p \in W
  <2>0. \A q \in W : q.id = p.id => q = p
    BY <1>0, <1>5 DEF Numbered
  <2>1. CASE f.frame = "response" /\ p.op = "snapshot.get"
    <3>1. Fetched(W, f) /\ f.data = c
      BY <1>5, <2>1 DEF Fetched, Replies
    <3>2. WillAgree(c, now, v, e, W, P, m)
      BY <3>1, WillAgreeSent
    <3> QED BY <1>1, <1>2, <3>2 DEF Traffic
  <2>2. ASSUME ~(f.frame = "response" /\ p.op = "snapshot.get")
        PROVE  ~Fetched(W, f)
    BY <2>0, <2>2 DEF Fetched, Replies
  <2>3. CASE \/ f.frame = "response" /\ p.op \in {"event.subscribe", "issue.create"}
             \/ f.frame = "error" /\ p.op \in Moves \cup {"snapshot.get"}
    <3>1. News(W, f)
      BY <1>5, <2>3 DEF News, Replies
    <3>2. ~Fetched(W, f)
      BY <2>2, <2>3 DEF Moves
    <3>3. WillAgree(c, now, v, e, W, P, m)
      BY <1>3, <3>1, <3>2, WillAgreeNews
    <3> QED BY <1>1, <1>2, <3>3 DEF Traffic
  <2>4. CASE f.frame = "response" /\ p.op \in Moves
    <3>1. Follows(W, f, Seen(b), Seen(c))
      BY <1>5, <2>0, <2>4, AnswerFollows
    <3>2. now = sub /\ p.op # "snapshot.get"
      BY <2>4 DEF Moves
    <3>3. WillAgree(c, now, v, e, W, P, m)
      <4>1. Fetching(u, W) => Fetching(v, W)
        <5>1. ASSUME NEW i \in DOMAIN u, u[i].op = "snapshot.get", u[i] \in W
              PROVE  Fetching(v, W)
          <6>1. i # 1  BY <3>2, <5>1
          <6>2. i - 1 \in DOMAIN v /\ (i - 1) + 1 = i /\ v[i - 1] = u[i]
            BY <6>1 DEF Removed
          <6> QED BY <5>1, <6>2 DEF Fetching
        <5> QED BY <5>1 DEF Fetching
      <4>2. ~Fetched(W, f)
        BY <2>2, <3>2
      <4> QED BY <1>0, <3>1, <3>2, <4>1, <4>2, WillAgreeAnswered
    <3> QED BY <1>1, <1>2, <3>3 DEF Traffic
  <2>5. CASE f.frame = "error" /\ p.op \in {"event.subscribe", "issue.create"}
    <3>1. Follows(W, f, Seen(b), Seen(c))
      <4>1. (\A id, to : ~MovesTo(W, f, id, to)) /\ \A id : ~MovesIt(W, f, id)
        BY <2>5 DEF MovesTo, MovesIt
      <4> QED BY <2>5, <4>1, NothingFollows
    <3>2. WillAgree(c, now, v, e, W, P, m)
      <4>1. Fetching(u, W) => Fetching(v, W)
        <5>1. ASSUME NEW i \in DOMAIN u, u[i].op = "snapshot.get", u[i] \in W
              PROVE  Fetching(v, W)
          <6>1. i # 1  BY <2>5, <5>1
          <6>2. i - 1 \in DOMAIN v /\ (i - 1) + 1 = i /\ v[i - 1] = u[i]
            BY <6>1 DEF Removed
          <6> QED BY <5>1, <6>2 DEF Fetching
        <5> QED BY <5>1 DEF Fetching
      <4>2. ~Fetched(W, f)
        BY <2>2, <2>5
      <4> QED BY <1>0, <2>5, <3>1, <4>1, <4>2, WillAgreeAnswered
    <3> QED BY <1>1, <1>2, <3>2 DEF Traffic
  <2> QED BY <2>1, <2>3, <2>4, <2>5
<1> QED BY <1>4, <1>5

-----------------------------------------------------------------------------
(* What waits, and what issues look like.                                  *)

(* The request an answer is for.                                           *)
LEMMA WaitingIs ==
  ASSUME pending \in Seq(BoardRequest), NEW id
  PROVE  \/ WaitingFor(id) = 0 /\ \A q \in ToSet(pending) : q.id # id
         \/ WaitingFor(id) \in DOMAIN pending /\ pending[WaitingFor(id)].id = id
<1> DEFINE I == {i \in 1 .. Len(pending) : pending[i].id = id}
<1>1. WaitingFor(id) = IF I # {} THEN Min(I) ELSE 0
  BY DEF WaitingFor, SelectInSeq
<1>2. Len(pending) \in Nat /\ DOMAIN pending = 1 .. Len(pending) /\ I \in SUBSET (1 .. Len(pending))
  OBVIOUS
<1>3. CASE I = {}
  BY <1>1, <1>2, <1>3 DEF ToSet
<1>4. CASE I # {}
  <2>1. Min(I) \in I  BY <1>2, <1>4, LeastOfSome
  <2> QED BY <1>1, <1>2, <1>4, <2>1
<1> QED BY <1>3, <1>4

(* What waits besides one request.                                         *)
LEMMA RequestIds ==
  /\ \A p \in BoardRequest : p.id \in Nat
  /\ \A s \in Seq(BoardRequest) : \A i \in DOMAIN s : s[i] \in BoardRequest /\ s[i].id \in Nat
<1>1. \A p \in BoardRequest : p.id \in Nat
  BY DEF BoardRequest
<1> QED BY <1>1

(* The others wait in the same order.                                      *)
LEMMA WaitsBesides ==
  ASSUME NEW s \in Seq(BoardRequest), Ascend(s), NEW i \in DOMAIN s
  PROVE  /\ RemoveAt(s, i) \in Seq(BoardRequest) /\ Ascend(RemoveAt(s, i))
         /\ ToSet(RemoveAt(s, i)) = ToSet(s) \ {s[i]}
         /\ s[i] \in ToSet(s) /\ s[i] \in BoardRequest
<1> DEFINE r == RemoveAt(s, i)
<1>1. /\ r \in Seq(BoardRequest) /\ Len(r) = Len(s) - 1
      /\ \A k \in 1 .. Len(s) - 1 : r[k] = s[IF k < i THEN k ELSE k + 1]
  BY WithoutOne
<1> HIDE DEF r
<1>2. Len(s) \in Nat /\ DOMAIN s = 1 .. Len(s) /\ DOMAIN r = 1 .. Len(s) - 1
  BY <1>1
<1>3. \A k \in DOMAIN r : LET j == IF k < i THEN k ELSE k + 1 IN j \in DOMAIN s /\ j # i /\ r[k] = s[j]
  BY <1>1, <1>2
<1>4. \A j \in DOMAIN s : j # i => \E k \in DOMAIN r : r[k] = s[j]
  <2> TAKE j \in DOMAIN s
  <2> HAVE j # i
  <2>1. CASE j < i
    <3>1. j \in DOMAIN r /\ r[j] = s[j]  BY <1>1, <1>2, <2>1
    <3> QED BY <3>1
  <2>2. CASE ~(j < i)
    <3>1. j - 1 \in DOMAIN r /\ ~(j - 1 < i) /\ (j - 1) + 1 = j  BY <1>2, <2>2
    <3>2. r[j - 1] = s[j]  BY <1>1, <1>2, <3>1
    <3> QED BY <3>1, <3>2
  <2> QED BY <2>1, <2>2
<1>5. \A j \in DOMAIN s : j # i => s[j] # s[i]
  <2> TAKE j \in DOMAIN s
  <2> HAVE j # i
  <2>1. s[j].id \in Nat /\ s[i].id \in Nat
    BY RequestIds
  <2>2. j < i \/ i < j
    BY <1>2
  <2> QED BY <2>1, <2>2 DEF Ascend
<1>6. ToSet(r) = ToSet(s) \ {s[i]}
  BY <1>3, <1>4, <1>5 DEF ToSet
<1>7. Ascend(r)
  <2>1. ASSUME NEW k \in DOMAIN r, NEW l \in DOMAIN r, k < l
        PROVE  r[k].id < r[l].id
    <3> DEFINE a == IF k < i THEN k ELSE k + 1
               c == IF l < i THEN l ELSE l + 1
    <3>1. a \in DOMAIN s /\ c \in DOMAIN s /\ a < c /\ r[k] = s[a] /\ r[l] = s[c]
      BY <1>1, <1>2, <2>1
    <3> QED BY <3>1 DEF Ascend
  <2> QED BY <2>1 DEF Ascend
<1>8. s[i] \in ToSet(s) /\ s[i] \in BoardRequest
  BY DEF ToSet
<1> QED BY <1>1, <1>6, <1>7, <1>8 DEF r

LEMMA WaitsAfter ==
  ASSUME NEW s \in Seq(BoardRequest), Ascend(s), s # <<>>
  PROVE  /\ Tail(s) \in Seq(BoardRequest) /\ Ascend(Tail(s))
         /\ ToSet(Tail(s)) = ToSet(s) \ {Head(s)} /\ Head(s) \in ToSet(s) /\ Head(s) \in BoardRequest
         /\ \A q \in ToSet(s) \ {Head(s)} : Head(s).id < q.id
<1>1. /\ Tail(s) \in Seq(BoardRequest) /\ Removed(s, Tail(s))
      /\ ToSet(s) = ToSet(Tail(s)) \cup {Head(s)} /\ Head(s) = s[1] /\ 1 \in DOMAIN s
  BY TailIs
<1>2. \A i \in DOMAIN Tail(s) : i \in Int /\ i + 1 \in DOMAIN s /\ 1 < i + 1 /\ Tail(s)[i] = s[i + 1]
  BY <1>1 DEF Removed
<1>3. \A i \in DOMAIN Tail(s) : Tail(s)[i].id \in Nat /\ Head(s).id \in Nat /\ Head(s).id < Tail(s)[i].id
  BY <1>1, <1>2, RequestIds DEF Ascend
<1>4. Ascend(Tail(s))
  <2>1. \A i, j \in DOMAIN Tail(s) : i < j => i + 1 < j + 1
    BY <1>2
  <2> QED BY <1>2, <2>1 DEF Ascend
<1>5. \A q \in ToSet(Tail(s)) : q.id \in Nat /\ Head(s).id \in Nat /\ Head(s).id < q.id
  BY <1>3 DEF ToSet
<1>6. ToSet(Tail(s)) = ToSet(s) \ {Head(s)}
  BY <1>1, <1>5
<1> QED BY <1>1, <1>4, <1>5, <1>6

(* The newest number comes last.                                           *)
LEMMA AppendedAscends ==
  ASSUME NEW s, Ascend(s), NEW x, NEW t, Appended(s, x, t), \A i \in DOMAIN s : s[i].id < x.id
  PROVE  Ascend(t)
BY DEF Ascend, Appended

-----------------------------------------------------------------------------

(* Issues.                                                                 *)
LEMMA Columns ==
  TaskBoardStatus = {"backlog", "todo", "in_progress", "in_review", "completed"}
<1>1. /\ DOMAIN visibleStatuses = 1 .. 5
      /\ visibleStatuses[1] = "backlog" /\ visibleStatuses[2] = "todo"
      /\ visibleStatuses[3] = "in_progress" /\ visibleStatuses[4] = "in_review"
      /\ visibleStatuses[5] = "completed"
  BY DEF visibleStatuses
<1>2. TaskBoardStatus = {visibleStatuses[i] : i \in 1 .. 5}
  BY <1>1 DEF TaskBoardStatus, ToSet
<1>3. \A i \in 1 .. 5 : i = 1 \/ i = 2 \/ i = 3 \/ i = 4 \/ i = 5
  OBVIOUS
<1> QED BY <1>1, <1>2, <1>3

(* What the normaliser makes of an issue.                                  *)
LEMMA StatusOf ==
  ASSUME NEW raw \in SentIssue
  PROVE  /\ RawId(raw) = (IF raw.id # 0 THEN raw.id ELSE raw.issueId) /\ RawId(raw) \in Nat
         /\ normalizeTaskBoardIssue(raw) \in ShownIssue
         /\ normalizeTaskBoardIssue(raw).id = RawId(raw)
         /\ normalizeTaskBoardIssue(raw).status = normalizeStatus(raw.status)
         /\ normalizeStatus(raw.status) \in TaskBoardStatus
<1>1. RawId(raw) = (IF raw.id # 0 THEN raw.id ELSE raw.issueId)
  BY FirstTextOfTwo DEF RawId
<1>2. RawId(raw) \in Nat
  BY <1>1 DEF SentIssue
<1>3. normalizeStatus(raw.status) \in TaskBoardStatus /\ normalizeStatus(raw.status) \in AnyText
  BY Columns DEF normalizeStatus, AnyText
<1>4. normalizePriority(raw.priority) \in TaskBoardPriority /\ normalizePriority(raw.priority) \in AnyText
  BY DEF normalizePriority, TaskBoardPriority, AnyText
<1> HIDE DEF RawId
<1>5. normalizeTaskBoardIssue(raw) \in SentIssue
      /\ normalizeTaskBoardIssue(raw).id = RawId(raw)
      /\ normalizeTaskBoardIssue(raw).status = normalizeStatus(raw.status)
      /\ normalizeTaskBoardIssue(raw).priority = normalizePriority(raw.priority)
  BY <1>2, <1>3, <1>4 DEF SentIssue, normalizeTaskBoardIssue
<1> QED BY <1>1, <1>2, <1>3, <1>4, <1>5 DEF ShownIssue

(* A snapshot shows the issues that have an id and a title, each in the    *)
(* column of its normalised status.                                        *)
LEMMA SnapshotShows ==
  ASSUME NEW raws \in Seq(SentIssue)
  PROVE  /\ normalizeTaskBoardSnapshot(raws) \in Seq(ShownIssue)
         /\ \A id, to : <<id, to>> \in Seen(raws) <=>
              \E i \in DOMAIN raws : /\ IsIssue(raws[i])
                                     /\ RawId(raws[i]) = id /\ normalizeStatus(raws[i].status) = to
<1> DEFINE P == {i \in DOMAIN raws : IsIssue(raws[i])}
           r == ItemsAt(raws, P)
           n == normalizeTaskBoardSnapshot(raws)
<1>1. Filtered(raws, IsIssue) = r
  BY DEF Filtered
<1>p. P \in SUBSET DOMAIN raws
  OBVIOUS
<1>2. /\ r \in Seq(SentIssue)
      /\ \A k \in DOMAIN r : \E i \in P : r[k] = raws[i]
      /\ \A i \in P : \E k \in DOMAIN r : r[k] = raws[i]
  <2> HIDE DEF P
  <2> QED BY <1>p, KeptItems
<1>3. n = [i \in DOMAIN r |-> normalizeTaskBoardIssue(r[i])]
  BY <1>1 DEF normalizeTaskBoardSnapshot, Mapped
<1> HIDE DEF r, n
<1>4. \A k \in DOMAIN r : r[k] \in SentIssue
  BY <1>2
<1>5. /\ n \in Seq(ShownIssue) /\ DOMAIN n = DOMAIN r
      /\ \A k \in DOMAIN r : n[k].id = RawId(r[k]) /\ n[k].status = normalizeStatus(r[k].status)
  <2>1. DOMAIN r = 1 .. Len(r) /\ Len(r) \in Nat
    BY <1>2
  <2>2. \A k \in DOMAIN r : n[k] \in ShownIssue
    BY <1>3, <1>4, StatusOf
  <2>3. n \in Seq(ShownIssue)
    BY <1>3, <2>1, <2>2
  <2> QED BY <1>3, <1>4, <2>3, StatusOf
<1>6. ASSUME NEW id, NEW to
      PROVE  <<id, to>> \in Placed(n) <=>
               \E i \in DOMAIN raws : /\ IsIssue(raws[i])
                                      /\ RawId(raws[i]) = id /\ normalizeStatus(raws[i].status) = to
  <2>1. <<id, to>> \in Placed(n) <=> \E k \in DOMAIN n : n[k].id = id /\ n[k].status = to
    BY DEF Placed, ToSet
  <2>2. (\E k \in DOMAIN n : n[k].id = id /\ n[k].status = to) <=>
          \E i \in P : RawId(raws[i]) = id /\ normalizeStatus(raws[i].status) = to
    <3> HIDE DEF P
    <3>1. ASSUME NEW k \in DOMAIN n, n[k].id = id, n[k].status = to
          PROVE  \E i \in P : RawId(raws[i]) = id /\ normalizeStatus(raws[i].status) = to
      <4>1. PICK i \in P : r[k] = raws[i]  BY <1>2, <1>5
      <4> QED BY <1>5, <3>1, <4>1
    <3>2. ASSUME NEW i \in P, RawId(raws[i]) = id, normalizeStatus(raws[i].status) = to
          PROVE  \E k \in DOMAIN n : n[k].id = id /\ n[k].status = to
      <4>1. PICK k \in DOMAIN r : r[k] = raws[i]  BY <1>2
      <4> QED BY <1>5, <3>2, <4>1
    <3> QED BY <3>1, <3>2
  <2> QED BY <2>1, <2>2
<1> QED BY <1>5, <1>6 DEF Seen, n

LEMMA SeenIs ==
  ASSUME NEW raws \in Seq(SentIssue), NEW id, NEW to
  PROVE  <<id, to>> \in Seen(raws) <=>
           \E i \in DOMAIN raws : /\ IsIssue(raws[i])
                                  /\ RawId(raws[i]) = id /\ normalizeStatus(raws[i].status) = to
BY SnapshotShows

(* A move on the page, and one on Desktop's board, puts one issue and      *)
(* leaves the others.                                                      *)
LEMMA PagePuts ==
  ASSUME NEW issues \in Seq(ShownIssue), NEW id \in Nat, NEW status \in TaskBoardStatus
  PROVE  /\ WithStatus(issues, id, status) \in Seq(ShownIssue)
         /\ Puts(Placed(issues), Placed(WithStatus(issues, id, status)), id, status)
<1> DEFINE r == WithStatus(issues, id, status)
<1>1. r = [i \in DOMAIN issues |-> IF issues[i].id = id THEN [issues[i] EXCEPT !.status = status] ELSE issues[i]]
  BY DEF WithStatus, Mapped
<1> HIDE DEF r
<1>2. DOMAIN issues = 1 .. Len(issues) /\ Len(issues) \in Nat /\ \A i \in DOMAIN issues : issues[i] \in ShownIssue
  OBVIOUS
<1>3. status \in AnyText
  BY DEF AnyText
<1>4. \A i \in DOMAIN issues : /\ r[i] \in ShownIssue /\ r[i].id = issues[i].id
                               /\ r[i].status = IF issues[i].id = id THEN status ELSE issues[i].status
                               /\ issues[i].status \in TaskBoardStatus
  BY <1>1, <1>2, <1>3 DEF ShownIssue, SentIssue
<1>5. r \in Seq(ShownIssue) /\ DOMAIN r = DOMAIN issues
  BY <1>1, <1>2, <1>4
<1>6. ASSUME NEW x \in Nat, NEW to \in TaskBoardStatus
      PROVE  <<x, to>> \in Placed(r) <=>
               \E from \in TaskBoardStatus : <<x, from>> \in Placed(issues) /\ to = IF x = id THEN status ELSE from
  <2>1. <<x, to>> \in Placed(r) <=> \E k \in DOMAIN issues : r[k].id = x /\ r[k].status = to
    BY <1>5 DEF Placed, ToSet
  <2>2. \A from : <<x, from>> \in Placed(issues) <=> \E k \in DOMAIN issues : issues[k].id = x /\ issues[k].status = from
    BY DEF Placed, ToSet
  <2>3. ASSUME NEW k \in DOMAIN issues, r[k].id = x, r[k].status = to
        PROVE  \E from \in TaskBoardStatus : <<x, from>> \in Placed(issues) /\ to = IF x = id THEN status ELSE from
    <3>1. issues[k].status \in TaskBoardStatus /\ <<x, issues[k].status>> \in Placed(issues)
      BY <1>4, <2>2, <2>3
    <3> QED BY <1>4, <2>3, <3>1
  <2>4. ASSUME NEW from \in TaskBoardStatus, <<x, from>> \in Placed(issues), to = IF x = id THEN status ELSE from
        PROVE  \E k \in DOMAIN issues : r[k].id = x /\ r[k].status = to
    <3>1. PICK k \in DOMAIN issues : issues[k].id = x /\ issues[k].status = from
      BY <2>2, <2>4
    <3>2. r[k].id = x /\ r[k].status = to
      BY <1>4, <2>4, <3>1
    <3> QED BY <3>2
  <2> QED BY <2>1, <2>3, <2>4
<1> QED BY <1>5, <1>6 DEF r, Puts

LEMMA DesktopPuts ==
  ASSUME board \in Seq(SentIssue), NEW id \in Nat, NEW status \in AnyText
  PROVE  /\ Moved(id, status) \in Seq(SentIssue)
         /\ DOMAIN Moved(id, status) = DOMAIN board
         /\ \A i \in DOMAIN board : RawId(Moved(id, status)[i]) = RawId(board[i])
         /\ status \in TaskBoardStatus => Puts(Seen(board), Seen(Moved(id, status)), id, status)
<1> DEFINE r == Moved(id, status)
<1>1. r = [i \in DOMAIN board |-> IF RawId(board[i]) = id THEN [board[i] EXCEPT !.status = status] ELSE board[i]]
  BY DEF Moved, Mapped
<1> HIDE DEF r
<1>2. DOMAIN board = 1 .. Len(board) /\ Len(board) \in Nat /\ \A i \in DOMAIN board : board[i] \in SentIssue
  OBVIOUS
<1>3. \A i \in DOMAIN board : /\ r[i] \in SentIssue /\ r[i].id = board[i].id /\ r[i].issueId = board[i].issueId
                              /\ r[i].title = board[i].title
                              /\ r[i].status = IF RawId(board[i]) = id THEN status ELSE board[i].status
  BY <1>1, <1>2 DEF SentIssue
<1>4. r \in Seq(SentIssue) /\ DOMAIN r = DOMAIN board
  BY <1>1, <1>2, <1>3
<1>5. \A i \in DOMAIN board : RawId(r[i]) = RawId(board[i]) /\ (IsIssue(r[i]) <=> IsIssue(board[i]))
  BY <1>2, <1>3, StatusOf DEF IsIssue
<1>6. ASSUME status \in TaskBoardStatus, NEW x \in Nat, NEW to \in TaskBoardStatus
      PROVE  <<x, to>> \in Seen(r) <=>
               \E from \in TaskBoardStatus : <<x, from>> \in Seen(board) /\ to = IF x = id THEN status ELSE from
  <2>1. <<x, to>> \in Seen(r) <=>
          \E i \in DOMAIN board : IsIssue(r[i]) /\ RawId(r[i]) = x /\ normalizeStatus(r[i].status) = to
    <3>1. <<x, to>> \in Seen(r) <=>
          \E i \in DOMAIN r : IsIssue(r[i]) /\ RawId(r[i]) = x /\ normalizeStatus(r[i].status) = to
      BY <1>4, SeenIs
    <3> QED BY <1>4, <3>1
  <2>2. \A from : <<x, from>> \in Seen(board) <=>
          \E i \in DOMAIN board : IsIssue(board[i]) /\ RawId(board[i]) = x /\ normalizeStatus(board[i].status) = from
    BY SnapshotShows
  <2>3. \A i \in DOMAIN board : normalizeStatus(board[i].status) \in TaskBoardStatus
    BY <1>2, StatusOf
  <2>4. \A i \in DOMAIN board : normalizeStatus(r[i].status) =
          IF RawId(board[i]) = id THEN status ELSE normalizeStatus(board[i].status)
    BY <1>3, <1>6 DEF normalizeStatus
  <2> QED BY <1>5, <2>1, <2>2, <2>3, <2>4
<1> QED BY <1>4, <1>5, <1>6 DEF r, Puts

-----------------------------------------------------------------------------
(* The invariant of the board, and the steps that keep it.                 *)

(* The inductive invariant: the types, the requests that wait in the order *)
(* of their numbers, and what is under way with the promise it makes.      *)
BoardInv ==
  /\ BoardTypes
  /\ Ascend(pending)
  /\ Traffic(board, subscribed, up, down, ToSet(pending), sent, snapshot, missed)

(* The requests the page makes are of their type and have the next number. *)
LEMMA NewRequest ==
  ASSUME sent \in Nat, NEW op \in Ops,
         NEW issue \in Nat, NEW status \in Wanted, NEW key \in Keys,
         op = "event.subscribe" => key = Idle,
         op \in Moves \cup {"issue.create"} => status \in TaskBoardStatus
  PROVE  /\ RequestOf(op, issue, status, key) \in BoardRequest
         /\ RequestOf(op, issue, status, key).id = sent + 1
         /\ RequestOf(op, issue, status, key).op = op
         /\ RequestOf(op, issue, status, key).key = key
<1> DEFINE r == RequestOf(op, issue, status, key)
<1>1. r = [id |-> sent + 1, op |-> op, issue |-> issue, status |-> status, key |-> key]
  BY DEF RequestOf
<1> HIDE DEF r
<1>2. r.id = sent + 1 /\ r.op = op /\ r.issue = issue /\ r.status = status /\ r.key = key
  BY <1>1
<1>3. r \in [id : Nat, issue : Nat, status : Wanted, key : Keys,
            op : Ops]
  BY <1>1
<1>4. r \in BoardRequest
  BY <1>2, <1>3 DEF BoardRequest
<1> QED BY <1>2, <1>4 DEF r

LEMMA FetchRequest ==
  ASSUME sent \in Nat
  PROVE  /\ RequestOf("snapshot.get", 0, "", RefreshKey) \in BoardRequest
         /\ RequestOf("snapshot.get", 0, "", RefreshKey).id = sent + 1
         /\ RequestOf("snapshot.get", 0, "", RefreshKey).op = "snapshot.get"
         /\ RequestOf("snapshot.get", 0, "", RefreshKey).key = RefreshKey
<1>1. RefreshKey \in Keys /\ 0 \in Nat
  BY DEF Keys
<1>2. /\ "" \in Wanted /\ "snapshot.get" \in Ops
      /\ "snapshot.get" \notin Moves \cup {"issue.create"} /\ "snapshot.get" # "event.subscribe"
  BY DEF Wanted, Ops, Moves
<1>3. ASSUME NEW op \in Ops, NEW status \in Wanted,
             op # "event.subscribe", op \notin Moves \cup {"issue.create"}
      PROVE  /\ RequestOf(op, 0, status, RefreshKey) \in BoardRequest
             /\ RequestOf(op, 0, status, RefreshKey).id = sent + 1
             /\ RequestOf(op, 0, status, RefreshKey).op = op
             /\ RequestOf(op, 0, status, RefreshKey).key = RefreshKey
  <2>1. /\ op = "event.subscribe" => RefreshKey = Idle
        /\ op \in Moves \cup {"issue.create"} => status \in TaskBoardStatus
    BY <1>3
  <2> QED BY <1>1, <2>1, NewRequest
<1> QED BY <1>2, <1>3, Zenon

(* What sending a request does to the lists.                               *)
LEMMA Asks ==
  ASSUME up \in Seq(BoardRequest), sent \in Nat,
         NEW waits \in Seq(BoardRequest), Ascend(waits), \A q \in ToSet(waits) : q.id \in 1 .. sent,
         NEW c \in BoardRequest, c.id = sent + 1, Request(c, waits)
  PROVE  /\ up' \in Seq(BoardRequest) /\ pending' \in Seq(BoardRequest) /\ sent' \in Nat
         /\ sent' = sent + 1 /\ Appended(up, c, up')
         /\ Ascend(pending') /\ ToSet(pending') = ToSet(waits) \cup {c}
<1>1. /\ up' = Append(up, c) /\ pending' = Append(waits, c) /\ sent' = sent + 1
  BY DEF Request
<1>2. /\ up' \in Seq(BoardRequest) /\ Appended(up, c, up')
  BY <1>1, AppendIs
<1>3. /\ pending' \in Seq(BoardRequest) /\ Appended(waits, c, pending')
      /\ ToSet(pending') = ToSet(waits) \cup {c}
  BY <1>1, AppendIs
<1>4. Ascend(pending')
  <2>1. \A i \in DOMAIN waits : waits[i].id < c.id
    BY DEF ToSet
  <2> QED BY <1>3, <2>1, AppendedAscends
<1> QED BY <1>1, <1>2, <1>3, <1>4

(* The parts of the invariant that most steps use.                         *)
LEMMA TypesOf ==
  ASSUME BoardInv
  PROVE  /\ DOMAIN down \subseteq Nat /\ sent \in Nat
         /\ Numbered(up, down, ToSet(pending), sent)
         /\ SentBefore(up, ToSet(pending))
         /\ \A q \in ToSet(pending) : q \in BoardRequest /\ q.id \in 1 .. sent
<1>1. DOMAIN down \subseteq Nat /\ sent \in Nat
  BY DEF BoardInv, BoardTypes
<1>2. \A q \in ToSet(pending) : q \in BoardRequest
  BY DEF BoardInv, BoardTypes, ToSet
<1>3. Numbered(up, down, ToSet(pending), sent) /\ SentBefore(up, ToSet(pending))
  BY DEF BoardInv, Traffic
<1> QED BY <1>1, <1>2, <1>3 DEF Numbered

(* The page looks at the board again.                                      *)
LEMMA Looks ==
  ASSUME BoardTypes, NEW waits \in Seq(BoardRequest), Ascend(waits),
         Numbered(up, down', ToSet(waits), sent), SentBefore(up, ToSet(waits)),
         RefreshBoard(waits), down' \in Seq(Frame), missed' \in BOOLEAN,
         UNCHANGED <<desktopVars, inSession, snapshot>>
  PROVE  BoardInv'
<1> DEFINE c == RequestOf("snapshot.get", 0, "", RefreshKey)
<1>1. c \in BoardRequest /\ c.id = sent + 1 /\ c.op = "snapshot.get" /\ sent \in Nat /\ up \in Seq(BoardRequest)
  BY FetchRequest DEF BoardTypes
<1>2. Request(c, waits)
  BY DEF RefreshBoard
<1>3. \A q \in ToSet(waits) : q.id \in 1 .. sent
  BY DEF Numbered
<1> HIDE DEF c
<1>4. /\ up' \in Seq(BoardRequest) /\ pending' \in Seq(BoardRequest) /\ sent' \in Nat
      /\ sent' = sent + 1 /\ Appended(up, c, up')
      /\ Ascend(pending') /\ ToSet(pending') = ToSet(waits) \cup {c}
  BY <1>1, <1>2, <1>3, Asks
<1>5. BoardTypes'
  BY <1>4 DEF BoardTypes, desktopVars
<1>6. Traffic(board', subscribed', up', down', ToSet(waits) \cup {c}, sent + 1, snapshot', missed')
  BY <1>1, <1>4, TrafficFetch
<1> QED BY <1>4, <1>5, <1>6 DEF BoardInv

(* The page sends another request.                                         *)
LEMMA Sends ==
  ASSUME BoardInv, NEW c \in BoardRequest, c.id = sent + 1, Request(c, pending),
         inSession' \in BOOLEAN, UNCHANGED <<desktopVars, down, snapshot, missed>>
  PROVE  BoardInv'
<1>0. DOMAIN down \subseteq Nat /\ sent \in Nat /\ \A q \in ToSet(pending) : q.id \in 1 .. sent
  BY TypesOf
<1>1. up \in Seq(BoardRequest) /\ pending \in Seq(BoardRequest) /\ Ascend(pending)
  BY DEF BoardInv, BoardTypes
<1>2. /\ up' \in Seq(BoardRequest) /\ pending' \in Seq(BoardRequest) /\ sent' \in Nat
      /\ sent' = sent + 1 /\ Appended(up, c, up')
      /\ Ascend(pending') /\ ToSet(pending') = ToSet(pending) \cup {c}
  BY <1>0, <1>1, Asks
<1>3. BoardTypes'
  BY <1>2 DEF BoardInv, BoardTypes, desktopVars
<1>4. Traffic(board, subscribed, up', down, ToSet(pending) \cup {c}, sent + 1, snapshot, missed)
  BY <1>0, <1>2, TrafficAsk DEF BoardInv
<1> QED BY <1>2, <1>3, <1>4 DEF BoardInv, desktopVars

(* A card is moved or its status changed.                                  *)
LEMMA SetsStatus ==
  ASSUME BoardInv, NEW issue \in ShownIssue, NEW op \in Moves, NEW status \in TaskBoardStatus,
         NEW key \in Keys, setIssueStatusOnDesktop(issue, op, status, key)
  PROVE  BoardInv'
<1>1. CASE inSession
  <2> DEFINE c == RequestOf(op, issue.id, status, key)
  <2>1. issue.id \in Nat /\ sent \in Nat
    BY DEF ShownIssue, SentIssue, BoardInv, BoardTypes
  <2>2. op # "event.subscribe"
    BY DEF Moves
  <2>3. c \in BoardRequest /\ c.id = sent + 1
    <3>1. op \in Ops /\ status \in Wanted
      BY DEF Ops, Wanted
    <3> QED BY <2>1, <2>2, <3>1, NewRequest
  <2>4. Request(c, pending) /\ UNCHANGED <<desktopVars, down, inSession, snapshot, missed>>
    BY <1>1 DEF setIssueStatusOnDesktop, pageUnchanged
  <2>5. inSession' \in BOOLEAN
    BY <2>4 DEF BoardInv, BoardTypes
  <2> QED BY <2>3, <2>4, <2>5, Sends
<1>2. CASE ~inSession
  <2>1. missed' = TRUE /\ UNCHANGED <<desktopVars, up, down, inSession, pending, sent, snapshot>>
    BY <1>2 DEF setIssueStatusOnDesktop
  <2>2. BoardTypes'
    BY <2>1 DEF BoardInv, BoardTypes, desktopVars
  <2>3. Traffic(board, subscribed, up, down, ToSet(pending), sent, snapshot, TRUE)
    BY TrafficMissed DEF BoardInv
  <2> QED BY <2>1, <2>2, <2>3 DEF BoardInv, desktopVars
<1> QED BY <1>1, <1>2

-----------------------------------------------------------------------------
(* The steps of the page that read.                                        *)

(* What an answer and a failure do, by the kind of the request.            *)
LEMMA SucceedsIs ==
  ASSUME NEW p, p.op \in Ops, NEW data, NEW waits, Succeeds(p, data, waits)
  PROVE  /\ p.op \in {"event.subscribe", "issue.create"} => RefreshBoard(waits) /\ UNCHANGED <<snapshot, missed>>
         /\ p.op = "snapshot.get" =>
              /\ snapshot' = normalizeTaskBoardSnapshot(data) /\ missed' = FALSE
              /\ pending' = waits /\ UNCHANGED <<up, sent>>
         /\ p.op \in Moves =>
              /\ snapshot' = WithStatus(snapshot, p.issue, p.status)
              /\ pending' = waits /\ UNCHANGED <<up, sent, missed>>
BY DEF Succeeds, Ops, Moves

LEMMA FailsIs ==
  ASSUME NEW p, p.op \in Ops, NEW waits, Fails(p, waits)
  PROVE  /\ UNCHANGED snapshot
         /\ p.op \in Moves => RefreshBoard(waits) /\ UNCHANGED missed
         /\ p.op \notin Moves =>
              /\ missed' = TRUE /\ pending' = waits /\ UNCHANGED <<up, sent>>
BY DEF Fails, LooksAgain, Ops, Moves

(* The first frame is read off.                                            *)
LEMMA FirstFrame ==
  ASSUME BoardTypes, down # <<>>
  PROVE  /\ Tail(down) \in Seq(Frame) /\ Removed(down, Tail(down))
         /\ 1 \in DOMAIN down /\ Head(down) = down[1] /\ Head(down) \in Frame
<1>1. down \in Seq(Frame)
  BY DEF BoardTypes
<1>2. Tail(down) \in Seq(Frame) /\ Removed(down, Tail(down)) /\ 1 \in DOMAIN down /\ Head(down) = down[1]
  BY <1>1, TailIs
<1> QED BY <1>1, <1>2

(* A push, an answer or a failure, and a timeout keep the invariant.       *)
LEMMA PushIsRead ==
  ASSUME BoardInv, ReceivePush
  PROVE  BoardInv'
<1>1. /\ down # <<>> /\ down' = Tail(down) /\ RefreshBoard(pending)
      /\ UNCHANGED <<desktopVars, inSession, snapshot, missed>>
  BY DEF ReceivePush
<1>2. BoardTypes /\ pending \in Seq(BoardRequest) /\ Ascend(pending) /\ missed' \in BOOLEAN
  BY <1>1 DEF BoardInv, BoardTypes
<1>3. down' \in Seq(Frame) /\ Removed(down, down')
  BY <1>1, <1>2, FirstFrame
<1>4. Numbered(up, down', ToSet(pending), sent) /\ SentBefore(up, ToSet(pending))
  BY <1>3, TypesOf, NumberedRead
<1> QED BY <1>1, <1>2, <1>3, <1>4, Looks

LEMMA AnswerIsRead ==
  ASSUME BoardInv, ReceiveAnswer
  PROVE  BoardInv'
<1> DEFINE f == Head(down)  i == WaitingFor(f.id)  W == ToSet(pending)
<1>1. /\ down # <<>> /\ f.frame # "push" /\ down' = Tail(down)
      /\ i = 0 => UNCHANGED <<up, pending, sent, snapshot, missed>>
      /\ i # 0 /\ f.frame = "response" => Succeeds(pending[i], f.data, RemoveAt(pending, i))
      /\ i # 0 /\ f.frame # "response" => Fails(pending[i], RemoveAt(pending, i))
      /\ UNCHANGED <<desktopVars, inSession>>
  BY DEF ReceiveAnswer
<1>2. /\ BoardTypes /\ pending \in Seq(BoardRequest) /\ Ascend(pending) /\ snapshot \in Seq(ShownIssue)
      /\ Traffic(board, subscribed, up, down, W, sent, snapshot, missed)
      /\ up \in Seq(BoardRequest) /\ missed \in BOOLEAN
  BY DEF BoardInv, BoardTypes
<1>3. /\ down' \in Seq(Frame) /\ Removed(down, down') /\ 1 \in DOMAIN down /\ f = down[1] /\ f \in Frame
  BY <1>1, <1>2, FirstFrame
<1>4. /\ sent \in Nat /\ Numbered(up, down, W, sent) /\ SentBefore(up, W)
  BY TypesOf
<1>5. \/ i = 0 /\ \A q \in W : q.id # f.id
      \/ i \in DOMAIN pending /\ pending[i].id = f.id
  BY <1>2, WaitingIs
<1> HIDE DEF f, i
<1>6. CASE i = 0 /\ \A q \in W : q.id # f.id
  <2>1. Traffic(board, subscribed, up, down', W, sent, snapshot, missed)
    BY <1>1, <1>2, <1>3, <1>4, <1>6, TrafficLost
  <2>2. UNCHANGED <<up, pending, sent, snapshot, missed, board, subscribed, changes, inSession>>
    BY <1>1, <1>6 DEF desktopVars
  <2>3. BoardTypes'
    BY <1>2, <1>3, <2>2 DEF BoardTypes
  <2> QED BY <1>2, <2>1, <2>2, <2>3 DEF BoardInv
<1>7. CASE i \in DOMAIN pending /\ pending[i].id = f.id
  <2> DEFINE p == pending[i]  waits == RemoveAt(pending, i)
  <2>0. i # 0
    BY <1>2, <1>7
  <2>1. /\ waits \in Seq(BoardRequest) /\ Ascend(waits) /\ ToSet(waits) = W \ {p}
        /\ p \in W /\ p \in BoardRequest
    BY <1>2, <1>7, WaitsBesides
  <2> HIDE DEF waits
  <2>2. /\ p.op \in Ops /\ p.issue \in Nat
        /\ p.op \in Moves => p.status \in TaskBoardStatus
        /\ f.frame \in {"response", "error"} /\ f.data \in Seq(SentIssue)
    <3>1. p.op \in Ops /\ p.issue \in Nat /\ (p.op \in Moves => p.status \in TaskBoardStatus)
      BY <2>1 DEF BoardRequest
    <3>2. f.frame \in {"response", "error"} /\ f.data \in Seq(SentIssue)
      BY <1>1, <1>3 DEF Frame
    <3> QED BY <3>1, <3>2
  <2>3. \A q \in W : q.id = p.id => q = p
    BY <1>4, <2>1 DEF Numbered
  <2>a. \A m : /\ Numbered(up, down', W \ {p}, sent) /\ SentBefore(up, W \ {p})
               /\ LookedAfter(up, W \ {p}, m)
    BY <1>1, <1>3, <1>4, <1>7, <2>1, ReadFirst
  <2>4. CASE f.frame = "response" /\ p.op \in {"event.subscribe", "issue.create"}
    <3>1. RefreshBoard(waits) /\ UNCHANGED <<snapshot, missed>>
      BY <1>1, <2>0, <2>2, <2>4, SucceedsIs DEF waits
    <3> QED BY <1>1, <1>2, <1>3, <2>1, <2>a, <3>1, Looks
  <2>5. CASE f.frame = "error" /\ p.op \in Moves
    <3>1. RefreshBoard(waits) /\ UNCHANGED <<snapshot, missed>>
      BY <1>1, <2>0, <2>2, <2>5, FailsIs DEF waits
    <3> QED BY <1>1, <1>2, <1>3, <2>1, <2>a, <3>1, Looks
  <2>b. ASSUME pending' = waits, UNCHANGED <<up, sent>>, missed' \in BOOLEAN, snapshot' \in Seq(ShownIssue),
               Traffic(board, subscribed, up, down', W \ {p}, sent, snapshot', missed')
        PROVE  BoardInv'
    <3>1. UNCHANGED <<up, sent, board, subscribed, changes, inSession>>
      BY <1>1, <2>b DEF desktopVars
    <3>2. BoardTypes'
      BY <1>2, <1>3, <2>1, <2>b, <3>1 DEF BoardTypes
    <3> QED BY <2>1, <2>b, <3>1, <3>2 DEF BoardInv
  <2>6. CASE f.frame = "response" /\ p.op = "snapshot.get"
    <3>1. /\ snapshot' = normalizeTaskBoardSnapshot(f.data) /\ missed' = FALSE
          /\ pending' = waits /\ UNCHANGED <<up, sent>>
      BY <1>1, <2>0, <2>2, <2>6, SucceedsIs DEF waits
    <3>2. Placed(snapshot') = Seen(f.data) /\ snapshot' \in Seq(ShownIssue)
      BY <2>2, <3>1, SnapshotShows DEF Seen
    <3>3. Fetched(W, f) /\ ~News(W, f)
      BY <1>7, <2>1, <2>3, <2>6 DEF Fetched, News, Replies
    <3>4. Traffic(board, subscribed, up, down', W \ {p}, sent, snapshot', missed')
      BY <1>1, <1>2, <1>3, <1>4, <1>7, <2>1, <3>2, <3>3, TrafficAnswered
    <3> QED BY <2>b, <3>1, <3>2, <3>4
  <2>7. CASE f.frame = "response" /\ p.op \in Moves
    <3>1. /\ snapshot' = WithStatus(snapshot, p.issue, p.status)
          /\ pending' = waits /\ UNCHANGED <<up, sent, missed>>
      BY <1>1, <2>0, <2>2, <2>7, SucceedsIs DEF waits
    <3>2. /\ snapshot' \in Seq(ShownIssue)
          /\ Puts(Placed(snapshot), Placed(snapshot'), p.issue, p.status)
      BY <1>2, <2>2, <2>7, <3>1, PagePuts
    <3>3. ~Fetched(W, f) /\ ~News(W, f)
      BY <1>7, <2>1, <2>3, <2>7 DEF Fetched, News, Replies, Moves
    <3>4. Follows(W, f, Placed(snapshot), Placed(snapshot'))
      BY <1>7, <2>1, <2>2, <2>3, <2>7, <3>2, AnswerFollows
    <3>5. Traffic(board, subscribed, up, down', W \ {p}, sent, snapshot', missed')
      BY <1>1, <1>2, <1>3, <1>4, <1>7, <2>1, <3>1, <3>3, <3>4, TrafficAnswered
    <3> QED BY <1>2, <2>b, <3>1, <3>2, <3>5
  <2>8. CASE f.frame = "error" /\ p.op \notin Moves
    <3>1. snapshot' = snapshot /\ missed' = TRUE /\ pending' = waits /\ UNCHANGED <<up, sent>>
      BY <1>1, <2>0, <2>2, <2>8, FailsIs DEF waits
    <3>2. ~Fetched(W, f)
      BY <2>8 DEF Fetched, Replies
    <3>3. Traffic(board, subscribed, up, down', W \ {p}, sent, snapshot', missed')
      BY <1>1, <1>2, <1>3, <1>4, <1>7, <2>1, <3>1, <3>2, TrafficAnswered
    <3> QED BY <1>2, <2>b, <3>1, <3>3
  <2>9. p.op \in {"event.subscribe", "issue.create"} \/ p.op = "snapshot.get" \/ p.op \in Moves
    BY <2>2 DEF Ops
  <2> QED BY <2>2, <2>4, <2>5, <2>6, <2>7, <2>8, <2>9
<1> QED BY <1>5, <1>6, <1>7

LEMMA TimeoutIsSeen ==
  ASSUME BoardInv, RequestTimeout
  PROVE  BoardInv'
<1> DEFINE p == Head(pending)  waits == Tail(pending)  W == ToSet(pending)
<1>1. pending # <<>> /\ Fails(p, waits) /\ UNCHANGED <<desktopVars, down, inSession>>
  BY DEF RequestTimeout
<1>2. /\ BoardTypes /\ pending \in Seq(BoardRequest) /\ Ascend(pending)
      /\ Traffic(board, subscribed, up, down, W, sent, snapshot, missed)
      /\ missed \in BOOLEAN /\ down \in Seq(Frame) /\ DOMAIN down \subseteq Nat
  BY DEF BoardInv, BoardTypes
<1>3. /\ sent \in Nat /\ Numbered(up, down, W, sent) /\ SentBefore(up, W)
  BY TypesOf
<1>4. /\ waits \in Seq(BoardRequest) /\ Ascend(waits) /\ ToSet(waits) = W \ {p}
      /\ p \in W /\ p \in BoardRequest /\ \A q \in W \ {p} : p.id < q.id
  BY <1>1, <1>2, WaitsAfter
<1> HIDE DEF p, waits, W
<1>5. p.op \in Ops
  BY <1>4 DEF BoardRequest
<1>6. CASE p.op \in Moves
  <2>1. RefreshBoard(waits) /\ UNCHANGED <<snapshot, missed>>
    BY <1>1, <1>5, <1>6, FailsIs
  <2>2. Numbered(up, down, W \ {p}, sent)
    BY <1>3, NumberedDrop
  <2>3. SentBefore(up, W \ {p})
    BY <1>3, <1>4, GivenUpTimeout
  <2>4. Numbered(up, down', W \ {p}, sent) /\ down' \in Seq(Frame) /\ missed' \in BOOLEAN
    BY <1>1, <1>2, <2>1, <2>2
  <2> QED BY <1>1, <1>2, <1>4, <2>1, <2>3, <2>4, Looks
<1>7. CASE p.op \notin Moves
  <2>1. snapshot' = snapshot /\ missed' = TRUE /\ pending' = waits /\ UNCHANGED <<up, sent>>
    BY <1>1, <1>5, <1>7, FailsIs
  <2>2. Traffic(board, subscribed, up, down, W \ {p}, sent, snapshot, TRUE)
    BY <1>2, <1>3, <1>4, TrafficTimeout
  <2>3. BoardTypes'
    BY <1>1, <1>2, <1>4, <2>1 DEF BoardTypes, desktopVars
  <2> QED BY <1>1, <1>4, <2>1, <2>2, <2>3 DEF BoardInv, desktopVars
<1> QED BY <1>6, <1>7

-----------------------------------------------------------------------------
(* The steps of Desktop, and the end of a session.                         *)

(* A change by another keeps the invariant, whatever it makes of the       *)
(* board: a push follows.                                                  *)
LEMMA DesktopIsPushed ==
  ASSUME BoardInv, NEW issues \in Seq(SentIssue), DesktopChanges(issues)
  PROVE  BoardInv'
<1>1. /\ changes' = changes + 1 /\ board' = issues
      /\ subscribed => down' = Append(down, Push)
      /\ ~subscribed => down' = down
      /\ UNCHANGED <<subscribed, up, inSession, pending, sent, snapshot, missed>>
  BY DEF DesktopChanges
<1>2. /\ BoardTypes /\ down \in Seq(Frame) /\ DOMAIN down \subseteq Nat /\ sent \in Nat
      /\ subscribed \in BOOLEAN
      /\ Traffic(board, subscribed, up, down, ToSet(pending), sent, snapshot, missed)
  BY DEF BoardInv, BoardTypes
<1>3. Push \in Frame
  BY DEF Push, Frame
<1>4. down' \in Seq(Frame) /\ (subscribed => Appended(down, Push, down'))
  <2>1. Append(down, Push) \in Seq(Frame) /\ Appended(down, Push, Append(down, Push))
    BY <1>2, <1>3, AppendIs
  <2> QED BY <1>1, <1>2, <2>1
<1>5. BoardTypes'
  BY <1>1, <1>2, <1>4 DEF BoardTypes
<1>6. Traffic(issues, subscribed, up, down', ToSet(pending), sent, snapshot, missed)
  <2>1. CASE subscribed
    BY <1>2, <1>4, <2>1, TrafficPushed
  <2>2. CASE ~subscribed
    <3>1. Traffic(issues, FALSE, up, down, ToSet(pending), sent, snapshot, missed)
      BY <1>2, TrafficDeaf
    <3> QED BY <1>1, <1>2, <2>2, <3>1
  <2> QED BY <2>1, <2>2
<1> QED BY <1>1, <1>5, <1>6 DEF BoardInv

LEMMA DesktopMoves ==
  ASSUME BoardInv, NEW i \in DOMAIN board, NEW status \in DesktopStatus,
         DesktopSets(RawId(board[i]), status)
  PROVE  BoardInv'
<1>1. board \in Seq(SentIssue)
  BY DEF BoardInv, BoardTypes
<1>2. RawId(board[i]) \in Nat
  <2>1. board[i] \in SentIssue  BY <1>1
  <2> QED BY <2>1, StatusOf
<1>3. status \in AnyText
  BY StatusTypes DEF AnyText
<1>4. Moved(RawId(board[i]), status) \in Seq(SentIssue)
  BY <1>1, <1>2, <1>3, DesktopPuts
<1> QED BY <1>4, DesktopIsPushed DEF DesktopSets

LEMMA DesktopErases ==
  ASSUME BoardInv, NEW id, DesktopDeletes(id)
  PROVE  BoardInv'
<1> DEFINE left == Filtered(board, LAMBDA raw : RawId(raw) # id)
           P == {k \in DOMAIN board : RawId(board[k]) # id}
<1>1. board \in Seq(SentIssue)
  BY DEF BoardInv, BoardTypes
<1>2. left = ItemsAt(board, P)
  BY DEF Filtered
<1>3. P \in SUBSET DOMAIN board
  OBVIOUS
<1>4. DesktopChanges(left)
  BY DEF DesktopDeletes
<1> HIDE DEF left, P
<1>5. left \in Seq(SentIssue)
  BY <1>1, <1>2, <1>3, KeptItems
<1> QED BY <1>4, <1>5, DesktopIsPushed

(* The request that Desktop takes.                                         *)
LEMMA HandledFirst ==
  ASSUME BoardInv, HandleNext
  PROVE  /\ 1 \in DOMAIN up /\ Head(up) = up[1] /\ Removed(up, up') /\ up' \in Seq(BoardRequest)
         /\ up[1] \in BoardRequest /\ up[1].op \in Ops /\ up[1].issue \in Nat /\ up[1].id \in Nat
         /\ up[1].op \in Moves \cup {"issue.create"} => up[1].status \in TaskBoardStatus
<1>1. up \in Seq(BoardRequest) /\ up # <<>> /\ up' = Tail(up)
  BY DEF BoardInv, BoardTypes, HandleNext
<1>2. 1 \in DOMAIN up /\ Head(up) = up[1] /\ Removed(up, up') /\ up' \in Seq(BoardRequest)
  BY <1>1, TailIs
<1>3. up[1] \in BoardRequest
  BY <1>1, <1>2
<1> QED BY <1>2, <1>3 DEF BoardRequest

(* A refusal keeps the invariant: the request is followed by a second look *)
(* or counts as missed.                                                    *)
LEMMA RequestIsRefused ==
  ASSUME BoardInv, Refuse
  PROVE  BoardInv'
<1> DEFINE f == ErrorFrame(up[1].id)
<1>1. /\ 1 \in DOMAIN up /\ Head(up) = up[1] /\ Removed(up, up') /\ up' \in Seq(BoardRequest)
      /\ up[1].op \in Ops /\ up[1].id \in Nat
  BY HandledFirst DEF Refuse
<1>2. /\ down' = Append(down, f)
      /\ UNCHANGED <<desktopVars, inSession, pending, sent, snapshot, missed>>
  BY <1>1 DEF Refuse
<1>3. /\ BoardTypes /\ down \in Seq(Frame) /\ DOMAIN down \subseteq Nat /\ sent \in Nat
      /\ Traffic(board, subscribed, up, down, ToSet(pending), sent, snapshot, missed)
  BY DEF BoardInv, BoardTypes
<1>4. f \in Frame /\ f.id = up[1].id /\ f.frame = "error"
  BY <1>1 DEF ErrorFrame, Frame
<1> HIDE DEF f
<1>5. down' \in Seq(Frame) /\ Appended(down, f, down')
  BY <1>2, <1>3, <1>4, AppendIs
<1>6. Traffic(board, subscribed, up', down', ToSet(pending), sent, snapshot, missed)
  BY <1>1, <1>3, <1>4, <1>5, TrafficHandled DEF Ops
<1>7. BoardTypes'
  BY <1>1, <1>2, <1>3, <1>5 DEF BoardTypes, desktopVars
<1> QED BY <1>2, <1>6, <1>7 DEF BoardInv, desktopVars

(* What the request makes of the board.                                    *)
LEMMA CarriedIs ==
  ASSUME BoardInv, NEW p \in BoardRequest
  PROVE  /\ Carried(p) \in Seq(SentIssue)
         /\ p.op \notin Moves \cup {"issue.create"} => Carried(p) = board
         /\ p.op \in Moves => p.status \in TaskBoardStatus /\ Puts(Seen(board), Seen(Carried(p)), p.issue, p.status)
<1>1. board \in Seq(SentIssue)
  BY DEF BoardInv, BoardTypes
<1>2. /\ p.op \in Ops /\ p.issue \in Nat /\ p.id \in Nat
      /\ p.op \in Moves \cup {"issue.create"} => p.status \in TaskBoardStatus
  BY DEF BoardRequest
<1>3. CASE p.op = "issue.create"
  <2> DEFINE new == NewIssue(Len(FirstBoard) + p.id, p.status)
  <2>1. p.status \in AnyText /\ "medium" \in AnyText
    BY <1>2, <1>3 DEF AnyText, TaskBoardPriority
  <2>2. Len(FirstBoard) + p.id \in Nat
    BY <1>2, FirstBoardType
  <2>3. new \in SentIssue
    BY <2>1, <2>2 DEF NewIssue, SentIssue
  <2>4. Carried(p) = Append(board, new)
    BY <1>3 DEF Carried
  <2> HIDE DEF new
  <2>5. Carried(p) \in Seq(SentIssue)
    BY <1>1, <2>3, <2>4
  <2> QED BY <1>3, <2>5 DEF Moves
<1>4. CASE p.op \in Moves
  <2>1. Carried(p) = Moved(p.issue, p.status)
    BY <1>4 DEF Carried, Moves
  <2>2. p.status \in TaskBoardStatus /\ p.status \in AnyText
    BY <1>2, <1>4 DEF AnyText
  <2> QED BY <1>1, <1>2, <1>4, <2>1, <2>2, DesktopPuts
<1>5. CASE p.op \notin Moves \cup {"issue.create"}
  BY <1>1, <1>5 DEF Carried, Moves
<1> QED BY <1>3, <1>4, <1>5

(* An accepted request keeps the invariant, also when Desktop pushes its   *)
(* change before or after the answer.                                      *)
LEMMA RequestIsAccepted ==
  ASSUME BoardInv, Accept
  PROVE  BoardInv'
<1> DEFINE p == up[1]  f == Response(p.id, IF p.op = "snapshot.get" THEN board ELSE <<>>)
           W == ToSet(pending)  c == Carried(p)  now == subscribed'
<1>0. HandleNext
  BY DEF Accept
<1>1. /\ 1 \in DOMAIN up /\ Head(up) = p /\ Removed(up, up') /\ up' \in Seq(BoardRequest)
      /\ p \in BoardRequest /\ p.op \in Ops /\ p.issue \in Nat /\ p.id \in Nat
  BY <1>0, HandledFirst
<1>2. /\ board' = c /\ subscribed' = (subscribed \/ p.op = "event.subscribe")
      /\ UNCHANGED <<changes, inSession, pending, sent, snapshot, missed>>
      /\ \/ down' = down \o <<f>>
         \/ /\ c # board
            /\ down' = down \o <<f, Push>> \/ down' = down \o <<Push, f>>
  BY <1>1 DEF Accept
<1>3. /\ BoardTypes /\ down \in Seq(Frame) /\ DOMAIN down \subseteq Nat /\ sent \in Nat /\ board \in Seq(SentIssue)
      /\ subscribed \in BOOLEAN
      /\ Traffic(board, subscribed, up, down, W, sent, snapshot, missed)
  BY DEF BoardInv, BoardTypes
<1>4. Push \in Frame
  BY DEF Push, Frame
<1>5. f \in Frame /\ f.id = p.id /\ f.frame = "response" /\ (p.op = "snapshot.get" => f.data = board)
  BY <1>1, <1>3 DEF Response, Frame
<1>6. /\ c \in Seq(SentIssue)
      /\ p.op \notin Moves \cup {"issue.create"} => c = board
      /\ p.op \in Moves => p.status \in TaskBoardStatus /\ Puts(Seen(board), Seen(c), p.issue, p.status)
  BY <1>1, CarriedIs
<1>7. /\ now \in BOOLEAN
      /\ now = subscribed \/ p.op = "event.subscribe"
      /\ p.op = "snapshot.get" => f.data = board /\ c = board
  BY <1>2, <1>3, <1>5, <1>6 DEF Moves
<1> HIDE DEF f, c
<1>8. ASSUME NEW d \in Seq(Frame), NEW e, Appended(d, f, e),
             Traffic(board, subscribed, up, d, W, sent, snapshot, missed)
      PROVE  Traffic(c, now, up', e, W, sent, snapshot, missed)
  <2>1. DOMAIN d \subseteq Nat
    OBVIOUS
  <2> QED BY <1>1, <1>3, <1>5, <1>6, <1>7, <1>8, <2>1, TrafficHandled DEF Ops
<1>a. ASSUME NEW d \in Seq(Frame), NEW b, NEW c2, NEW sub, NEW u,
             Traffic(b, sub, u, d, W, sent, snapshot, missed)
      PROVE  Append(d, Push) \in Seq(Frame) /\ Traffic(c2, sub, u, Append(d, Push), W, sent, snapshot, missed)
  <2>1. DOMAIN d \subseteq Nat
    OBVIOUS
  <2>2. Append(d, Push) \in Seq(Frame) /\ Appended(d, Push, Append(d, Push))
    BY <1>4, AppendIs
  <2> QED BY <1>3, <1>a, <2>1, <2>2, TrafficPushed
<1>b. \A d \in Seq(Frame) : Append(d, f) \in Seq(Frame) /\ Appended(d, f, Append(d, f))
  BY <1>5, AppendIs
<1>9. down' \in Seq(Frame) /\ Traffic(c, now, up', down', W, sent, snapshot, missed)
  <2>1. CASE down' = down \o <<f>>
    <3>1. down' = Append(down, f)
      BY <1>3, <1>5, <2>1
    <3> QED BY <1>3, <1>8, <1>b, <3>1
  <2>2. CASE down' = down \o <<f, Push>>
    <3>1. down' = Append(Append(down, f), Push)
      BY <1>3, <1>4, <1>5, <2>2
    <3>2. Append(down, f) \in Seq(Frame) /\ Traffic(c, now, up', Append(down, f), W, sent, snapshot, missed)
      BY <1>3, <1>8, <1>b
    <3> QED BY <1>a, <3>1, <3>2
  <2>3. CASE down' = down \o <<Push, f>>
    <3>1. down' = Append(Append(down, Push), f)
      BY <1>3, <1>4, <1>5, <2>3
    <3>2. Append(down, Push) \in Seq(Frame) /\ Traffic(board, subscribed, up, Append(down, Push), W, sent, snapshot, missed)
      BY <1>3, <1>a
    <3> QED BY <1>8, <1>b, <3>1, <3>2
  <2> QED BY <1>2, <2>1, <2>2, <2>3
<1>10. BoardTypes'
  BY <1>1, <1>2, <1>3, <1>6, <1>7, <1>9 DEF BoardTypes
<1> QED BY <1>2, <1>9, <1>10 DEF BoardInv

(* So does the end of a session, which empties both directions.            *)
LEMMA SessionIsOver ==
  ASSUME BoardInv, SessionEnds
  PROVE  BoardInv'
<1>1. /\ inSession' = FALSE /\ up' = <<>> /\ down' = <<>> /\ subscribed' = FALSE /\ pending' = <<>>
      /\ missed' = (missed \/ pending # <<>>) /\ UNCHANGED <<board, changes, sent, snapshot>>
  BY DEF SessionEnds
<1>2. BoardTypes'
  <2>1. board \in Seq(SentIssue) /\ snapshot \in Seq(ShownIssue) /\ changes \in Nat /\ sent \in Nat
    BY DEF BoardInv, BoardTypes
  <2>2. missed' \in BOOLEAN
    BY <1>1
  <2>3. up' \in Seq(BoardRequest) /\ down' \in Seq(Frame) /\ pending' \in Seq(BoardRequest)
    BY <1>1
  <2> QED BY <1>1, <2>1, <2>2, <2>3 DEF BoardTypes
<1>3. ToSet(pending') = {}
  BY <1>1 DEF ToSet
<1>4. Ascend(pending')
  BY <1>1 DEF Ascend
<1>5. Numbered(up', down', {}, sent') /\ SentBefore(up', {}) /\ LookedAfter(up', {}, missed')
  BY <1>1 DEF Numbered, SentBefore, LookedAfter, Ascend
<1>6. WillAgree(board', subscribed', up', down', {}, snapshot', missed')
  BY <1>1 DEF WillAgree
<1> QED BY <1>2, <1>3, <1>4, <1>5, <1>6 DEF BoardInv, Traffic

-----------------------------------------------------------------------------
(* The theorems.                                                           *)

(* Whatever is done to a card asks for a column of the board.              *)
LEMMA CardRequest ==
  ASSUME BoardInv, NEW issue \in ToSet(snapshot),
         \/ \E direction \in {"left", "right"} : moveIssue(issue, direction)
         \/ \E status \in FormStatus : updateIssueStatus(issue, status)
         \/ completeIssue(issue)
  PROVE  /\ issue \in ShownIssue
         /\ \E op \in Moves, status \in TaskBoardStatus, key \in Keys :
              setIssueStatusOnDesktop(issue, op, status, key)
<1>1. issue \in ShownIssue /\ issue.id \in Nat
  <2>1. issue \in ShownIssue
    BY DEF BoardInv, BoardTypes, ToSet
  <2> QED BY <2>1 DEF ShownIssue, SentIssue
<1>2. /\ <<"move", issue.id>> \in Keys /\ <<"status", issue.id>> \in Keys /\ <<"complete", issue.id>> \in Keys
      /\ "issue.move" \in Moves /\ "issue.update" \in Moves
  BY <1>1 DEF Keys, Moves
<1>3. ASSUME NEW direction \in {"left", "right"}, moveIssue(issue, direction)
      PROVE  \E op \in Moves, status \in TaskBoardStatus, key \in Keys :
               setIssueStatusOnDesktop(issue, op, status, key)
  <2>1. PICK to \in DOMAIN visibleStatuses :
          setIssueStatusOnDesktop(issue, "issue.move", visibleStatuses[to], <<"move", issue.id>>)
    BY <1>3 DEF moveIssue
  <2>2. visibleStatuses[to] \in TaskBoardStatus
    BY DEF TaskBoardStatus, ToSet
  <2> QED BY <1>2, <2>1, <2>2, Zenon
<1>4. ASSUME NEW status \in FormStatus, updateIssueStatus(issue, status)
      PROVE  \E op \in Moves, s \in TaskBoardStatus, key \in Keys :
               setIssueStatusOnDesktop(issue, op, s, key)
  <2>1. setIssueStatusOnDesktop(issue, "issue.update", status, <<"status", issue.id>>)
    BY <1>4 DEF updateIssueStatus
  <2>2. status \in TaskBoardStatus
    BY StatusTypes
  <2> QED BY <1>2, <2>1, <2>2, Zenon
<1>5. ASSUME completeIssue(issue)
      PROVE  \E op \in Moves, status \in TaskBoardStatus, key \in Keys :
               setIssueStatusOnDesktop(issue, op, status, key)
  <2>1. setIssueStatusOnDesktop(issue, "issue.update", "completed", <<"complete", issue.id>>)
    BY <1>5 DEF completeIssue
  <2>2. "completed" \in TaskBoardStatus
    BY Columns
  <2> QED BY <1>2, <2>1, <2>2, Zenon
<1> QED BY <1>1, <1>3, <1>4, <1>5, Zenon

(* The form and the subscription.                                          *)
LEMMA CreateRequest ==
  ASSUME sent \in Nat, NEW status \in FormStatus
  PROVE  /\ RequestOf("issue.create", 0, status, CreateKey) \in BoardRequest
         /\ RequestOf("issue.create", 0, status, CreateKey).id = sent + 1
         /\ RequestOf("issue.create", 0, status, CreateKey).key = CreateKey
<1>1. CreateKey \in Keys /\ 0 \in Nat
  BY DEF Keys
<1>2. status \in TaskBoardStatus /\ status \in Wanted
  BY StatusTypes DEF Wanted
<1>3. "issue.create" \in Ops /\ "issue.create" # "event.subscribe"
  BY DEF Ops
<1>4. ASSUME NEW op \in Ops, op # "event.subscribe"
      PROVE  /\ RequestOf(op, 0, status, CreateKey) \in BoardRequest
             /\ RequestOf(op, 0, status, CreateKey).id = sent + 1
             /\ RequestOf(op, 0, status, CreateKey).key = CreateKey
  BY <1>1, <1>2, <1>4, NewRequest
<1> QED BY <1>3, <1>4, Zenon

LEMMA SubscribeRequest ==
  ASSUME sent \in Nat
  PROVE  /\ RequestOf("event.subscribe", 0, "", Idle) \in BoardRequest
         /\ RequestOf("event.subscribe", 0, "", Idle).id = sent + 1
         /\ RequestOf("event.subscribe", 0, "", Idle).key = Idle
<1>1. Idle \in Keys /\ 0 \in Nat
  BY DEF Keys
<1>2. "" \in Wanted /\ "event.subscribe" \in Ops /\ "event.subscribe" \notin Moves \cup {"issue.create"}
  BY DEF Wanted, Ops, Moves
<1>3. ASSUME NEW op \in Ops, NEW status \in Wanted, op \notin Moves \cup {"issue.create"}
      PROVE  /\ RequestOf(op, 0, status, Idle) \in BoardRequest
             /\ RequestOf(op, 0, status, Idle).id = sent + 1
             /\ RequestOf(op, 0, status, Idle).key = Idle
  <2>1. op \in Moves \cup {"issue.create"} => status \in TaskBoardStatus
    BY <1>3
  <2> QED BY <1>1, <2>1, NewRequest
<1> QED BY <1>2, <1>3, Zenon

(* The invariant holds at first and every step keeps it.                   *)
LEMMA BoardBegins == BoardInit => BoardInv
<1> SUFFICES ASSUME BoardInit PROVE BoardInv
  OBVIOUS
<1>1. /\ board = FirstBoard /\ subscribed = FALSE /\ changes = 0 /\ up = <<>> /\ down = <<>>
      /\ inSession = FALSE /\ pending = <<>> /\ sent = 0 /\ snapshot = <<>> /\ missed = TRUE
  BY DEF BoardInit
<1>2. FirstBoard \in Seq(SentIssue)
  <2>1. ASSUME NEW raw \in RawIssue PROVE raw \in SentIssue
    BY DEF RawIssue, SentIssue, AnyText
  <2>2. FirstBoard \in Seq(RawIssue)
    BY FirstBoardType
  <2>3. \A i \in DOMAIN FirstBoard : FirstBoard[i] \in SentIssue
    BY <2>1, <2>2
  <2>4. FirstBoard = [i \in 1 .. Len(FirstBoard) |-> FirstBoard[i]] /\ Len(FirstBoard) \in Nat
        /\ DOMAIN FirstBoard = 1 .. Len(FirstBoard)
    BY <2>2
  <2> QED BY <2>3, <2>4
<1>3. BoardTypes
  <2>1. up \in Seq(BoardRequest) /\ pending \in Seq(BoardRequest) /\ down \in Seq(Frame) /\ snapshot \in Seq(ShownIssue)
    BY <1>1
  <2>2. subscribed \in BOOLEAN /\ missed \in BOOLEAN /\ inSession \in BOOLEAN /\ changes \in Nat /\ sent \in Nat
    BY <1>1
  <2> QED BY <1>1, <1>2, <2>1, <2>2 DEF BoardTypes
<1>4. ToSet(pending) = {}
  BY <1>1 DEF ToSet
<1>5. Ascend(pending)
  BY <1>1 DEF Ascend
<1>6. Numbered(up, down, {}, sent) /\ SentBefore(up, {}) /\ LookedAfter(up, {}, missed)
  BY <1>1 DEF Numbered, SentBefore, LookedAfter, Ascend
<1>7. WillAgree(board, subscribed, up, down, {}, snapshot, missed)
  BY <1>1 DEF WillAgree
<1> QED BY <1>3, <1>4, <1>5, <1>6, <1>7 DEF BoardInv, Traffic

LEMMA BoardSteps == BoardInv /\ [BoardNext]_bvars => BoardInv'
<1> SUFFICES ASSUME BoardInv, [BoardNext]_bvars PROVE BoardInv'
  OBVIOUS
<1>0. sent \in Nat /\ inSession \in BOOLEAN
  BY DEF BoardInv, BoardTypes
<1>1. CASE BootstrapSession
  BY <1>0, <1>1, SubscribeRequest, Sends DEF BootstrapSession
<1>2. CASE SessionEnds
  BY <1>2, SessionIsOver
<1>3. CASE ClickRefresh
  <2>1. /\ RefreshBoard(pending)
        /\ UNCHANGED <<desktopVars, down, inSession, snapshot, missed>>
    BY <1>3 DEF ClickRefresh, pageUnchanged
  <2>2. Request(RequestOf("snapshot.get", 0, "", RefreshKey), pending)
    BY <2>1 DEF RefreshBoard
  <2>3. inSession' \in BOOLEAN
    BY <1>0, <2>1
  <2> QED BY <1>0, <2>1, <2>2, <2>3, FetchRequest, Sends
<1>4. ASSUME NEW status \in FormStatus, handleCreateIssue(status)
      PROVE  BoardInv'
  BY <1>0, <1>4, CreateRequest, Sends DEF handleCreateIssue, pageUnchanged
<1>5. ASSUME NEW issue \in ToSet(snapshot),
             \/ \E direction \in {"left", "right"} : moveIssue(issue, direction)
             \/ \E status \in FormStatus : updateIssueStatus(issue, status)
             \/ completeIssue(issue)
      PROVE  BoardInv'
  BY <1>5, CardRequest, SetsStatus
<1>6. ASSUME UNCHANGED <<desktopVars, up, down, inSession, pending, sent, snapshot, missed>>
      PROVE  BoardInv'
  BY <1>6 DEF BoardInv, BoardTypes, desktopVars
<1>7. CASE \E key \in OtherKeys : BeginOther(key) \/ EndOther(key)
  BY <1>6, <1>7 DEF BeginOther, EndOther
<1>8. CASE ReceivePush
  BY <1>8, PushIsRead
<1>9. CASE ReceiveAnswer
  BY <1>9, AnswerIsRead
<1>10. CASE RequestTimeout
  BY <1>10, TimeoutIsSeen
<1>11. ASSUME NEW raw \in ToSet(board),
              \/ \E status \in DesktopStatus : DesktopSets(RawId(raw), status)
              \/ DesktopDeletes(RawId(raw))
       PROVE  BoardInv'
  <2>1. PICK i \in DOMAIN board : board[i] = raw
    BY DEF ToSet
  <2>2. CASE \E status \in DesktopStatus : DesktopSets(RawId(raw), status)
    BY <2>1, <2>2, DesktopMoves
  <2>3. CASE DesktopDeletes(RawId(raw))
    BY <2>1, <2>3, DesktopErases
  <2> QED BY <1>11, <2>2, <2>3
<1>12. CASE Accept
  BY <1>12, RequestIsAccepted
<1>13. CASE Refuse
  BY <1>13, RequestIsRefused
<1>14. CASE UNCHANGED bvars
  BY <1>6, <1>14 DEF bvars
<1> QED BY <1>1, <1>2, <1>3, <1>4, <1>5, <1>7, <1>8, <1>9, <1>10, <1>11, <1>12, <1>13, <1>14 DEF BoardNext

(* The variables of the board keep their types, however many issues,       *)
(* requests and changes there are.                                         *)
THEOREM BoardTypesHold == BoardSpec => []BoardTypes
<1>1. BoardInv => BoardTypes
  BY DEF BoardInv
<1> QED BY <1>1, BoardBegins, BoardSteps, PTL DEF BoardSpec

(* However many issues, changes by others and requests of the page there   *)
(* are, and whatever order refusals, timeouts, pushes and answers come in: *)
(* a subscribed page that is quiet and missed nothing shows every issue    *)
(* where Desktop has it.                                                   *)
THEOREM QuietBoardIsCurrentHolds == BoardSpec => []QuietBoardIsCurrent
<1>1. BoardInv => QuietBoardIsCurrent
  <2> SUFFICES ASSUME BoardInv, inSession, subscribed, ~missed, pending = <<>>, up = <<>>, down = <<>>
               PROVE  Placed(snapshot) = Placed(normalizeTaskBoardSnapshot(board))
    BY DEF QuietBoardIsCurrent
  <2>0. board \in Seq(SentIssue) /\ snapshot \in Seq(ShownIssue)
    BY DEF BoardInv, BoardTypes
  <2>1. WillAgree(board, subscribed, up, down, ToSet(pending), snapshot, missed)
    BY DEF BoardInv, Traffic
  <2>2. LastFetched(down, ToSet(pending), 0) /\ ~Coming(down, ToSet(pending), 0) /\ ~Fetching(up, ToSet(pending))
    BY DEF LastFetched, Coming, Fetching
  <2>3. Agrees(board, snapshot, down, ToSet(pending), 0)
    BY <2>1, <2>2 DEF WillAgree
  <2>4. \A id, from, to : Settles(down, ToSet(pending), 0, id, from, to) <=> from = to
    BY DEF Settles
  <2>5. ASSUME NEW id \in Nat, NEW to \in TaskBoardStatus
        PROVE  <<id, to>> \in Seen(board) <=> <<id, to>> \in Placed(snapshot)
    <3>1. <<id, to>> \in Seen(board) <=>
            \E from \in TaskBoardStatus :
              <<id, from>> \in Placed(snapshot) /\ Settles(down, ToSet(pending), 0, id, from, to)
      BY <2>3 DEF Agrees, Base
    <3>2. \A from : Settles(down, ToSet(pending), 0, id, from, to) <=> from = to
      BY <2>4
    <3> QED BY <3>1, <3>2, Zenon
  <2>6. ASSUME NEW s \in Seq(ShownIssue)
        PROVE  Placed(s) \in SUBSET (Nat \X TaskBoardStatus)
    <3>1. \A i \in DOMAIN s : s[i].id \in Nat /\ s[i].status \in TaskBoardStatus
      BY DEF ShownIssue, SentIssue
    <3> QED BY <3>1 DEF Placed, ToSet
  <2>7. normalizeTaskBoardSnapshot(board) \in Seq(ShownIssue)
    BY <2>0, SnapshotShows
  <2>8. Placed(snapshot) \in SUBSET (Nat \X TaskBoardStatus) /\ Seen(board) \in SUBSET (Nat \X TaskBoardStatus)
    BY <2>0, <2>6, <2>7 DEF Seen
  <2>9. \A x \in Nat \X TaskBoardStatus : x \in Seen(board) <=> x \in Placed(snapshot)
    <3> TAKE x \in Nat \X TaskBoardStatus
    <3>1. PICK id \in Nat, to \in TaskBoardStatus : x = <<id, to>>
      OBVIOUS
    <3> QED BY <2>5, <3>1
  <2>10. Seen(board) = Placed(snapshot)
    BY <2>8, <2>9
  <2> QED BY <2>10 DEF Seen
<1> QED BY <1>1, BoardBegins, BoardSteps, PTL DEF BoardSpec

(* No order of flows that overwrite one another's name and clear it leaves *)
(* the page busy with nothing.                                             *)
THEOREM BusyNamesFlowHolds == BoardSpec => []BusyNamesFlow
<1>1. BoardInit => BusyNamesFlow
  BY DEF BoardInit, BusyNamesFlow
<1>2. BoardInv /\ BusyNamesFlow /\ [BoardNext]_bvars => BusyNamesFlow'
  <2> SUFFICES ASSUME BoardInv, BusyNamesFlow, [BoardNext]_bvars PROVE BusyNamesFlow'
    OBVIOUS
  <2> DEFINE Named(s) == {p.key : p \in ToSet(s)}
  <2>0. /\ sent \in Nat /\ pending \in Seq(BoardRequest) /\ Ascend(pending)
        /\ busyAction # Idle => busyAction \in other \cup Named(pending)
    BY DEF BoardInv, BoardTypes, BusyNamesFlow
  <2>a. ASSUME NEW c, NEW waits \in Seq(BoardRequest), c \in BoardRequest, Request(c, waits)
        PROVE  ToSet(pending') = ToSet(waits) \cup {c}
    <3>1. pending' = Append(waits, c)
      BY <2>a DEF Request
    <3> QED BY <2>a, <3>1, AppendIs
  <2>b. ASSUME NEW c \in BoardRequest, Request(c, pending), busyAction' = c.key, UNCHANGED other
        PROVE  BusyNamesFlow'
    BY <2>0, <2>a, <2>b DEF BusyNamesFlow
  <2>c. ASSUME NEW waits \in Seq(BoardRequest), RefreshBoard(waits)
        PROVE  BusyNamesFlow'
    <3> DEFINE c == RequestOf("snapshot.get", 0, "", RefreshKey)
    <3>1. c \in BoardRequest /\ c.key = RefreshKey
      BY <2>0, FetchRequest
    <3>2. Request(c, waits) /\ busyAction' = RefreshKey
      BY <2>c DEF RefreshBoard
    <3> HIDE DEF c
    <3>3. c \in ToSet(pending')
      BY <2>a, <2>c, <3>1, <3>2
    <3> QED BY <3>1, <3>2, <3>3 DEF BusyNamesFlow
  <2>d. ASSUME busyAction' = Idle PROVE BusyNamesFlow'
    BY <2>d DEF BusyNamesFlow
  <2>e. ASSUME UNCHANGED <<busyAction, pending, other>> PROVE BusyNamesFlow'
    BY <2>e DEF BusyNamesFlow
  <2>f. ASSUME NEW p \in BoardRequest, p.op = "event.subscribe", NEW waits,
               ToSet(waits) = ToSet(pending) \ {p}, pending' = waits, UNCHANGED <<busyAction, other>>
        PROVE  BusyNamesFlow'
    <3>1. p.key = Idle
      BY <2>f DEF BoardRequest
    <3> QED BY <2>f, <3>1 DEF BusyNamesFlow
  <2>g. ASSUME NEW p \in BoardRequest, NEW waits \in Seq(BoardRequest), ToSet(waits) = ToSet(pending) \ {p},
               Fails(p, waits), UNCHANGED other
        PROVE  BusyNamesFlow'
    <3>1. CASE LooksAgain(p.op)
      BY <2>c, <2>g, <3>1 DEF Fails
    <3>2. CASE ~LooksAgain(p.op) /\ p.op = "event.subscribe"
      <4>1. pending' = waits /\ busyAction' = busyAction
        BY <2>g, <3>2 DEF Fails
      <4> QED BY <2>f, <2>g, <3>2, <4>1
    <3>3. CASE ~LooksAgain(p.op) /\ p.op # "event.subscribe"
      <4>1. busyAction' = Idle
        BY <2>g, <3>3 DEF Fails, BusyAfter
      <4> QED BY <2>d, <4>1
    <3> QED BY <3>1, <3>2, <3>3
  <2>h. ASSUME NEW p \in BoardRequest, NEW data, NEW waits \in Seq(BoardRequest), Succeeds(p, data, waits)
        PROVE  BusyNamesFlow'
    <3>1. CASE p.op \in {"event.subscribe", "issue.create"}
      <4>1. RefreshBoard(waits)
        BY <2>h, <3>1 DEF Succeeds
      <4> QED BY <2>c, <4>1
    <3>2. CASE p.op \notin {"event.subscribe", "issue.create"}
      <4>1. busyAction' = Idle
        BY <2>h, <3>2 DEF Succeeds, BusyAfter
      <4> QED BY <2>d, <4>1
    <3> QED BY <3>1, <3>2
  <2>1. CASE BootstrapSession
    <3> DEFINE c == RequestOf("event.subscribe", 0, "", Idle)
    <3>1. c \in BoardRequest
      BY <2>0, SubscribeRequest
    <3>2. Request(c, pending) /\ UNCHANGED <<busyAction, other>>
      BY <2>1 DEF BootstrapSession
    <3> HIDE DEF c
    <3>3. ToSet(pending') = ToSet(pending) \cup {c}
      BY <2>0, <2>a, <3>1, <3>2
    <3> QED BY <3>2, <3>3 DEF BusyNamesFlow
  <2>2. CASE SessionEnds
    <3>1. CASE other = {} /\ \A p \in ToSet(pending) : p.key = Idle
      <4>1. busyAction' = busyAction
        BY <2>2, <3>1 DEF SessionEnds
      <4>2. busyAction = Idle
        BY <2>0, <3>1
      <4> QED BY <2>d, <4>1, <4>2
    <3>2. CASE ~(other = {} /\ \A p \in ToSet(pending) : p.key = Idle)
      <4>1. busyAction' = Idle
        BY <2>2, <3>2 DEF SessionEnds, BusyAfter
      <4> QED BY <2>d, <4>1
    <3> QED BY <3>1, <3>2
  <2>3. CASE ClickRefresh
    <3>1. RefreshBoard(pending)
      BY <2>3 DEF ClickRefresh
    <3> QED BY <2>0, <2>c, <3>1
  <2>4. ASSUME NEW status \in FormStatus, handleCreateIssue(status)
        PROVE  BusyNamesFlow'
    <3> DEFINE c == RequestOf("issue.create", 0, status, CreateKey)
    <3>1. c \in BoardRequest /\ c.key = CreateKey
      BY <2>0, CreateRequest
    <3>2. Request(c, pending) /\ busyAction' = CreateKey /\ UNCHANGED other
      BY <2>4 DEF handleCreateIssue, pageUnchanged
    <3> HIDE DEF c
    <3> QED BY <2>b, <3>1, <3>2
  <2>i. ASSUME NEW issue \in ShownIssue, NEW op \in Moves, NEW status \in TaskBoardStatus,
               NEW key \in Keys, setIssueStatusOnDesktop(issue, op, status, key)
        PROVE  BusyNamesFlow'
    <3>1. CASE inSession
      <4> DEFINE c == RequestOf(op, issue.id, status, key)
      <4>1. c \in BoardRequest /\ c.key = key
        <5>1. issue.id \in Nat /\ op # "event.subscribe" /\ op \in Ops /\ status \in Wanted
          BY DEF ShownIssue, SentIssue, Moves, Ops, Wanted
        <5> QED BY <2>0, <5>1, NewRequest
      <4>2. Request(c, pending) /\ busyAction' = key /\ UNCHANGED other
        BY <2>i, <3>1 DEF setIssueStatusOnDesktop, pageUnchanged
      <4> HIDE DEF c
      <4> QED BY <2>b, <4>1, <4>2
    <3>2. CASE ~inSession
      <4>1. busyAction' = Idle
        BY <2>i, <3>2 DEF setIssueStatusOnDesktop, BusyAfter
      <4> QED BY <2>d, <4>1
    <3> QED BY <3>1, <3>2
  <2>5. ASSUME NEW issue \in ToSet(snapshot),
               \/ \E direction \in {"left", "right"} : moveIssue(issue, direction)
               \/ \E status \in FormStatus : updateIssueStatus(issue, status)
               \/ completeIssue(issue)
        PROVE  BusyNamesFlow'
    <3>1. PICK op \in Moves, status \in TaskBoardStatus, key \in Keys :
            setIssueStatusOnDesktop(issue, op, status, key)
      BY <2>5, CardRequest
    <3>2. issue \in ShownIssue
      BY <2>5, CardRequest
    <3> QED BY <2>i, <3>1, <3>2
  <2>6. ASSUME NEW key \in OtherKeys, BeginOther(key) PROVE BusyNamesFlow'
    BY <2>6 DEF BeginOther, BusyNamesFlow
  <2>7. ASSUME NEW key \in OtherKeys, EndOther(key) PROVE BusyNamesFlow'
    <3>1. busyAction' = Idle
      BY <2>7 DEF EndOther, BusyAfter
    <3> QED BY <2>d, <3>1
  <2>8. CASE ReceivePush
    <3>1. RefreshBoard(pending)
      BY <2>8 DEF ReceivePush
    <3> QED BY <2>0, <2>c, <3>1
  <2>9. CASE ReceiveAnswer
    <3> DEFINE f == Head(down)  i == WaitingFor(f.id)
    <3>1. /\ i = 0 => UNCHANGED <<pending, busyAction>>
          /\ i # 0 => \/ Succeeds(pending[i], f.data, RemoveAt(pending, i))
                      \/ Fails(pending[i], RemoveAt(pending, i))
          /\ UNCHANGED other
      BY <2>9 DEF ReceiveAnswer
    <3>2. i = 0 \/ i \in DOMAIN pending
      BY <2>0, WaitingIs
    <3> HIDE DEF i, f
    <3>3. CASE i = 0
      BY <2>e, <3>1, <3>3
    <3>4. CASE i # 0
      <4>1. i \in DOMAIN pending
        BY <3>2, <3>4
      <4>2. /\ RemoveAt(pending, i) \in Seq(BoardRequest) /\ pending[i] \in BoardRequest
            /\ ToSet(RemoveAt(pending, i)) = ToSet(pending) \ {pending[i]}
        BY <2>0, <4>1, WaitsBesides
      <4> QED BY <2>g, <2>h, <3>1, <3>4, <4>2
    <3> QED BY <3>3, <3>4
  <2>10. CASE RequestTimeout
    <3>1. pending # <<>> /\ Fails(Head(pending), Tail(pending)) /\ UNCHANGED other
      BY <2>10 DEF RequestTimeout
    <3>2. /\ Tail(pending) \in Seq(BoardRequest) /\ Head(pending) \in BoardRequest
          /\ ToSet(Tail(pending)) = ToSet(pending) \ {Head(pending)}
      BY <2>0, <3>1, WaitsAfter
    <3> QED BY <2>g, <3>1, <3>2
  <2>11. ASSUME NEW issues, DesktopChanges(issues) PROVE BusyNamesFlow'
    BY <2>e, <2>11 DEF DesktopChanges
  <2>12. ASSUME NEW id, (\E status \in DesktopStatus : DesktopSets(id, status)) \/ DesktopDeletes(id)
         PROVE  BusyNamesFlow'
    BY <2>11, <2>12 DEF DesktopSets, DesktopDeletes
  <2>13. CASE Accept \/ Refuse
    BY <2>e, <2>13 DEF Accept, Refuse
  <2>14. CASE UNCHANGED bvars
    BY <2>e, <2>14 DEF bvars
  <2> QED BY <2>1, <2>2, <2>3, <2>4, <2>5, <2>6, <2>7, <2>8, <2>9, <2>10, <2>12, <2>13, <2>14 DEF BoardNext
<1> QED BY <1>1, <1>2, BoardBegins, BoardSteps, PTL DEF BoardSpec

-----------------------------------------------------------------------------
(* Every issue has an id of its own.                                       *)

(* No two issues of what Desktop sends, and no two that are shown, have the*)
(* same id.                                                                *)
Distinct(raws) == \A i, j \in DOMAIN raws : RawId(raws[i]) = RawId(raws[j]) => i = j
DistinctIds(issues) == \A i, j \in DOMAIN issues : issues[i].id = issues[j].id => i = j

(* Desktop gives new issues ids above all it has given before.             *)
OneOfEach ==
  /\ Distinct(board)
  /\ \A k \in DOMAIN down : Distinct(down[k].data)
  /\ DistinctIds(snapshot)
  /\ \A i \in DOMAIN board :
       /\ RawId(board[i]) <= Len(FirstBoard) + sent
       /\ \A k \in DOMAIN up : RawId(board[i]) < Len(FirstBoard) + up[k].id

(* What a filter keeps has still different ids.                            *)
LEMMA KeptIds ==
  ASSUME NEW s \in Seq(ShownIssue), DistinctIds(s), NEW P \in SUBSET DOMAIN s
  PROVE  DistinctIds(ItemsAt(s, P)) /\ ItemsAt(s, P) \in Seq(ShownIssue)
<1> DEFINE r == ItemsAt(s, P)
<1>1. r \in Seq(ShownIssue)
  BY KeptItems
<1>2. PICK e \in [DOMAIN r -> P] :
           /\ \A k \in DOMAIN r : r[k] = s[e[k]]
           /\ \A k, l \in DOMAIN r : k < l => e[k] < e[l]
  BY KeptOrder
<1> HIDE DEF r
<1>3. \A k, l \in DOMAIN r : e[k] = e[l] => k = l
  <2> TAKE k, l \in DOMAIN r
  <2>1. k \in Int /\ l \in Int /\ e[k] \in Int
    BY <1>1, <1>2
  <2> QED BY <1>2, <2>1
<1>4. \A k \in DOMAIN r : e[k] \in DOMAIN s
  BY <1>2
<1> QED BY <1>1, <1>2, <1>3, <1>4 DEF DistinctIds, r

LEMMA KeptRawIds ==
  ASSUME NEW s \in Seq(SentIssue), Distinct(s), NEW P \in SUBSET DOMAIN s
  PROVE  Distinct(ItemsAt(s, P)) /\ ItemsAt(s, P) \in Seq(SentIssue)
<1> DEFINE r == ItemsAt(s, P)
<1>1. r \in Seq(SentIssue)
  BY KeptItems
<1>2. PICK e \in [DOMAIN r -> P] :
           /\ \A k \in DOMAIN r : r[k] = s[e[k]]
           /\ \A k, l \in DOMAIN r : k < l => e[k] < e[l]
  BY KeptOrder
<1> HIDE DEF r
<1>3. \A k, l \in DOMAIN r : e[k] = e[l] => k = l
  <2> TAKE k, l \in DOMAIN r
  <2>1. k \in Int /\ l \in Int /\ e[k] \in Int
    BY <1>1, <1>2
  <2> QED BY <1>2, <2>1
<1>4. \A k \in DOMAIN r : e[k] \in DOMAIN s
  BY <1>2
<1> QED BY <1>1, <1>2, <1>3, <1>4 DEF Distinct, r

(* So has a snapshot of different issues.                                  *)
LEMMA SnapshotIds ==
  ASSUME NEW raws \in Seq(SentIssue), Distinct(raws)
  PROVE  DistinctIds(normalizeTaskBoardSnapshot(raws))
<1> DEFINE P == {i \in DOMAIN raws : IsIssue(raws[i])}
           r == ItemsAt(raws, P)
           n == normalizeTaskBoardSnapshot(raws)
<1>1. Filtered(raws, IsIssue) = r
  BY DEF Filtered
<1>p. P \in SUBSET DOMAIN raws
  OBVIOUS
<1>2. Distinct(r) /\ r \in Seq(SentIssue)
  <2> HIDE DEF P
  <2> QED BY <1>p, KeptRawIds
<1>3. n = [i \in DOMAIN r |-> normalizeTaskBoardIssue(r[i])]
  BY <1>1 DEF normalizeTaskBoardSnapshot, Mapped
<1> HIDE DEF r, n
<1>4. DOMAIN n = DOMAIN r /\ \A k \in DOMAIN r : n[k].id = RawId(r[k])
  <2>1. \A k \in DOMAIN r : r[k] \in SentIssue
    BY <1>2
  <2> QED BY <1>3, <2>1, StatusOf
<1> QED BY <1>2, <1>4 DEF Distinct, DistinctIds, n

(* At first by the assumption on Desktop's board.                          *)
LEMMA OneOfEachAtFirst == BoardInit => OneOfEach
<1> SUFFICES ASSUME BoardInit PROVE OneOfEach
  OBVIOUS
<1>1. board = FirstBoard /\ up = <<>> /\ down = <<>> /\ sent = 0 /\ snapshot = <<>>
  BY DEF BoardInit
<1>2. Distinct(board)
  BY <1>1, FirstBoardType DEF Distinct
<1>3. (\A k \in DOMAIN down : Distinct(down[k].data)) /\ DistinctIds(snapshot)
  BY <1>1 DEF DistinctIds
<1>4. \A i \in DOMAIN board : RawId(board[i]) <= Len(FirstBoard) + sent
  BY <1>1, FirstBoardType
<1>5. DOMAIN up = {}
  BY <1>1
<1> QED BY <1>2, <1>3, <1>4, <1>5 DEF OneOfEach

(* The ids that are on the board were given before those that creating an  *)
(* issue will give.                                                        *)
LEMMA GivenBefore ==
  ASSUME BoardInv, OneOfEach, BoardInv',
         \A i \in DOMAIN board' : \E j \in DOMAIN board : RawId(board'[i]) = RawId(board[j]),
         sent <= sent', \A k \in DOMAIN up' : up'[k].id = sent + 1 \/ \E l \in DOMAIN up : up'[k] = up[l],
         NEW i \in DOMAIN board'
  PROVE  /\ RawId(board'[i]) <= Len(FirstBoard) + sent'
         /\ \A k \in DOMAIN up' : RawId(board'[i]) < Len(FirstBoard) + up'[k].id
<1>1. PICK j \in DOMAIN board : RawId(board'[i]) = RawId(board[j])
  OBVIOUS
<1>2. RawId(board[j]) \in Nat /\ Len(FirstBoard) \in Nat /\ sent \in Nat /\ sent' \in Nat
  <2>1. board \in Seq(SentIssue) /\ sent \in Nat /\ sent' \in Nat
    BY DEF BoardInv, BoardTypes
  <2>2. board[j] \in SentIssue
    BY <2>1
  <2> QED BY <2>1, <2>2, StatusOf, FirstBoardType
<1>3. RawId(board[j]) <= Len(FirstBoard) + sent /\ \A l \in DOMAIN up : RawId(board[j]) < Len(FirstBoard) + up[l].id
  BY DEF OneOfEach
<1>4. ASSUME NEW k \in DOMAIN up'
      PROVE  RawId(board[j]) < Len(FirstBoard) + up'[k].id
  <2>1. CASE up'[k].id = sent + 1
    BY <1>2, <1>3, <2>1
  <2>2. CASE \E l \in DOMAIN up : up'[k] = up[l]
    BY <1>3, <2>2
  <2> QED BY <2>1, <2>2
<1> QED BY <1>1, <1>2, <1>3, <1>4

(* What the page sends, and what Desktop has taken.                        *)
LEMMA SentIs ==
  ASSUME BoardInv,
         \/ UNCHANGED <<up, sent>>
         \/ \E c \in BoardRequest : \E waits : c.id = sent + 1 /\ Request(c, waits)
         \/ up' = <<>> /\ sent' = sent
         \/ HandleNext /\ sent' = sent
  PROVE  /\ sent <= sent'
         /\ \A k \in DOMAIN up' : up'[k].id = sent + 1 \/ \E l \in DOMAIN up : up'[k] = up[l]
<1>0. sent \in Nat /\ up \in Seq(BoardRequest)
  BY DEF BoardInv, BoardTypes
<1>1. CASE UNCHANGED <<up, sent>>
  BY <1>0, <1>1
<1>2. ASSUME NEW c \in BoardRequest, NEW waits, c.id = sent + 1, Request(c, waits)
      PROVE  /\ sent <= sent'
             /\ \A k \in DOMAIN up' : up'[k].id = sent + 1 \/ \E l \in DOMAIN up : up'[k] = up[l]
  <2>1. sent' = sent + 1 /\ up' = Append(up, c)
    BY <1>2 DEF Request
  <2>2. Appended(up, c, up')
    BY <1>0, <2>1, AppendIs
  <2>3. \A k \in DOMAIN up' : k = Len(up) + 1 \/ k \in DOMAIN up
    BY <2>2 DEF Appended
  <2>4. up'[Len(up) + 1] = c /\ \A k \in DOMAIN up : up'[k] = up[k]
    BY <2>2 DEF Appended
  <2>5. sent <= sent'
    BY <1>0, <2>1
  <2> QED BY <1>2, <2>3, <2>4, <2>5
<1>3. CASE up' = <<>> /\ sent' = sent
  BY <1>0, <1>3
<1>4. CASE HandleNext /\ sent' = sent
  <2>1. Removed(up, up')
    BY <1>4, HandledFirst
  <2>2. \A k \in DOMAIN up' : k + 1 \in DOMAIN up /\ up'[k] = up[k + 1]
    BY <2>1 DEF Removed
  <2>3. sent <= sent'
    BY <1>0, <1>4
  <2> QED BY <2>2, <2>3
<1> QED BY <1>1, <1>2, <1>3, <1>4

(* The page's steps leave Desktop's board alone.                           *)
LEMMA PageKeepsIds ==
  ASSUME BoardInv, OneOfEach, BoardInv', board' = board,
         \A k \in DOMAIN down' : down'[k].data = <<>> \/ \E l \in DOMAIN down : down'[k] = down[l],
         DistinctIds(snapshot'),
         \/ UNCHANGED <<up, sent>>
         \/ \E c \in BoardRequest : \E waits : c.id = sent + 1 /\ Request(c, waits)
         \/ up' = <<>> /\ sent' = sent
         \/ HandleNext /\ sent' = sent
  PROVE  OneOfEach'
<1>1. \A i \in DOMAIN board' : /\ RawId(board'[i]) <= Len(FirstBoard) + sent'
                               /\ \A k \in DOMAIN up' : RawId(board'[i]) < Len(FirstBoard) + up'[k].id
  <2>1. /\ sent <= sent'
        /\ \A k \in DOMAIN up' : up'[k].id = sent + 1 \/ \E l \in DOMAIN up : up'[k] = up[l]
    BY SentIs
  <2>2. \A i \in DOMAIN board' : \E j \in DOMAIN board : RawId(board'[i]) = RawId(board[j])
    OBVIOUS
  <2> QED BY <2>1, <2>2, GivenBefore
<1>2. Distinct(<<>>)
  BY DEF Distinct
<1>3. \A k \in DOMAIN down' : Distinct(down'[k].data)
  BY <1>2 DEF OneOfEach
<1>4. Distinct(board')
  BY DEF OneOfEach
<1> QED BY <1>1, <1>3, <1>4 DEF OneOfEach

(* A change by others sends a push at most.                                *)
LEMMA PushesOnly ==
  ASSUME BoardInv, NEW issues, DesktopChanges(issues)
  PROVE  /\ \A k \in DOMAIN down' : down'[k].data = <<>> \/ \E l \in DOMAIN down : down'[k] = down[l]
         /\ board' = issues /\ UNCHANGED <<up, sent, snapshot>>
<1>1. /\ board' = issues /\ UNCHANGED <<up, sent, snapshot>>
      /\ down' = down \/ down' = Append(down, Push)
  BY DEF DesktopChanges
<1>2. CASE down' = Append(down, Push)
  <2>1. down \in Seq(Frame) /\ Push \in Frame /\ Push.data = <<>>
    BY DEF BoardInv, BoardTypes, Push, Frame
  <2>2. Appended(down, Push, down')
    BY <1>2, <2>1, AppendIs
  <2>3. \A k \in DOMAIN down' : k = Len(down) + 1 \/ k \in DOMAIN down
    BY <2>2 DEF Appended
  <2> QED BY <1>1, <2>1, <2>2, <2>3 DEF Appended
<1> QED BY <1>1, <1>2

(* It gives no id a second time, be it a status or a deletion.             *)
LEMMA DesktopKeepsIds ==
  ASSUME BoardInv, OneOfEach, BoardInv', NEW issues, DesktopChanges(issues), Distinct(issues),
         \A i \in DOMAIN issues : \E j \in DOMAIN board : RawId(issues[i]) = RawId(board[j])
  PROVE  OneOfEach'
<1>1. /\ \A k \in DOMAIN down' : down'[k].data = <<>> \/ \E l \in DOMAIN down : down'[k] = down[l]
      /\ board' = issues /\ UNCHANGED <<up, sent, snapshot>>
  BY PushesOnly
<1>2. \A i \in DOMAIN board' : /\ RawId(board'[i]) <= Len(FirstBoard) + sent'
                               /\ \A k \in DOMAIN up' : RawId(board'[i]) < Len(FirstBoard) + up'[k].id
  <2>1. /\ sent <= sent'
        /\ \A k \in DOMAIN up' : up'[k].id = sent + 1 \/ \E l \in DOMAIN up : up'[k] = up[l]
    BY <1>1, SentIs
  <2> QED BY <1>1, <2>1, GivenBefore
<1>3. Distinct(<<>>)
  BY DEF Distinct
<1>4. \A k \in DOMAIN down' : Distinct(down'[k].data)
  BY <1>1, <1>3 DEF OneOfEach
<1>5. DistinctIds(snapshot')
  BY <1>1 DEF OneOfEach
<1> QED BY <1>1, <1>2, <1>4, <1>5 DEF OneOfEach

LEMMA DesktopSetsIds ==
  ASSUME BoardInv, OneOfEach, BoardInv', NEW i \in DOMAIN board, NEW status \in DesktopStatus,
         DesktopSets(RawId(board[i]), status)
  PROVE  OneOfEach'
<1> DEFINE issues == Moved(RawId(board[i]), status)
<1>1. board \in Seq(SentIssue)
  BY DEF BoardInv, BoardTypes
<1>2. RawId(board[i]) \in Nat
  <2>1. board[i] \in SentIssue  BY <1>1
  <2> QED BY <2>1, StatusOf
<1>3. status \in AnyText
  BY StatusTypes DEF AnyText
<1>4. DOMAIN issues = DOMAIN board /\ \A j \in DOMAIN board : RawId(issues[j]) = RawId(board[j])
  BY <1>1, <1>2, <1>3, DesktopPuts
<1>5. DesktopChanges(issues)
  BY DEF DesktopSets
<1> HIDE DEF issues
<1>6. Distinct(issues)
  BY <1>4 DEF OneOfEach, Distinct
<1> QED BY <1>4, <1>5, <1>6, DesktopKeepsIds

LEMMA DesktopErasesIds ==
  ASSUME BoardInv, OneOfEach, BoardInv', NEW id, DesktopDeletes(id)
  PROVE  OneOfEach'
<1> DEFINE left == Filtered(board, LAMBDA raw : RawId(raw) # id)
           P == {k \in DOMAIN board : RawId(board[k]) # id}
<1>1. board \in Seq(SentIssue) /\ Distinct(board)
  BY DEF BoardInv, BoardTypes, OneOfEach
<1>2. left = ItemsAt(board, P)
  BY DEF Filtered
<1>3. P \in SUBSET DOMAIN board
  OBVIOUS
<1>4. DesktopChanges(left)
  BY DEF DesktopDeletes
<1> HIDE DEF left, P
<1>5. Distinct(left)
  BY <1>1, <1>2, <1>3, KeptRawIds
<1>6. \A k \in DOMAIN left : \E j \in P : left[k] = board[j]
  BY <1>1, <1>2, <1>3, KeptItems
<1>7. \A k \in DOMAIN left : \E j \in DOMAIN board : RawId(left[k]) = RawId(board[j])
  BY <1>3, <1>6
<1> QED BY <1>4, <1>5, <1>7, DesktopKeepsIds

(* A new issue has an id of its own.                                       *)
LEMMA AcceptKeepsIds ==
  ASSUME BoardInv, OneOfEach, BoardInv', Accept
  PROVE  OneOfEach'
<1> DEFINE p == up[1]  f == Response(p.id, IF p.op = "snapshot.get" THEN board ELSE <<>>)
<1>0. HandleNext
  BY DEF Accept
<1>1. /\ 1 \in DOMAIN up /\ Head(up) = p /\ Removed(up, up') /\ up' \in Seq(BoardRequest)
      /\ p \in BoardRequest /\ p.op \in Ops /\ p.issue \in Nat /\ p.id \in Nat
      /\ p.op \in Moves \cup {"issue.create"} => p.status \in TaskBoardStatus
  BY <1>0, HandledFirst
<1>2. /\ board' = Carried(p) /\ UNCHANGED <<sent, snapshot>>
      /\ down' \in {down \o <<f>>, down \o <<f, Push>>, down \o <<Push, f>>}
  BY <1>1 DEF Accept
<1>3. /\ board \in Seq(SentIssue) /\ down \in Seq(Frame) /\ sent \in Nat /\ up \in Seq(BoardRequest)
      /\ Numbered(up, down, ToSet(pending), sent)
      /\ \A i \in DOMAIN board : RawId(board[i]) \in Nat
  <2>1. board \in Seq(SentIssue) /\ down \in Seq(Frame) /\ sent \in Nat /\ up \in Seq(BoardRequest)
    BY DEF BoardInv, BoardTypes
  <2>2. \A i \in DOMAIN board : RawId(board[i]) \in Nat
    BY <2>1, StatusOf
  <2> QED BY <2>1, <2>2, TypesOf
<1>4. /\ f \in Frame /\ Push \in Frame /\ Push.data = <<>>
      /\ f.data = board \/ f.data = <<>>
  BY <1>1, <1>3 DEF Response, Frame, Push
<1>5. \A k \in DOMAIN down' : Distinct(down'[k].data)
  <2> HIDE DEF f
  <2>1. Distinct(f.data) /\ Distinct(Push.data)
    BY <1>4 DEF OneOfEach, Distinct
  <2>2. \A k \in DOMAIN down' : (\E l \in DOMAIN down : down'[k] = down[l]) \/ down'[k] = f \/ down'[k] = Push
    <3>1. CASE down' = down \o <<f>>
      BY <1>3, <1>4, <3>1
    <3>2. CASE down' = down \o <<f, Push>>
      BY <1>3, <1>4, <3>2
    <3>3. CASE down' = down \o <<Push, f>>
      BY <1>3, <1>4, <3>3
    <3> QED BY <1>2, <3>1, <3>2, <3>3
  <2> QED BY <2>1, <2>2 DEF OneOfEach
<1>6. DistinctIds(snapshot')
  BY <1>2 DEF OneOfEach
<1>7. /\ sent <= sent'
      /\ \A k \in DOMAIN up' : up'[k].id = sent + 1 \/ \E l \in DOMAIN up : up'[k] = up[l]
  BY <1>0, <1>2, SentIs
<1>8. ASSUME DOMAIN board' = DOMAIN board, \A i \in DOMAIN board : RawId(board'[i]) = RawId(board[i])
      PROVE  OneOfEach'
  <2>1. Distinct(board')
    BY <1>8 DEF OneOfEach, Distinct
  <2>2. \A i \in DOMAIN board' : /\ RawId(board'[i]) <= Len(FirstBoard) + sent'
                                 /\ \A k \in DOMAIN up' : RawId(board'[i]) < Len(FirstBoard) + up'[k].id
    <3>1. \A i \in DOMAIN board' : \E j \in DOMAIN board : RawId(board'[i]) = RawId(board[j])
      BY <1>8
    <3> QED BY <1>7, <3>1, GivenBefore
  <2> QED BY <1>5, <1>6, <2>1, <2>2 DEF OneOfEach
<1>9. CASE p.op \in Moves
  <2>1. board' = Moved(p.issue, p.status)
    BY <1>2, <1>9 DEF Carried, Moves
  <2>2. p.status \in AnyText
    BY <1>1, <1>9 DEF AnyText
  <2>3. DOMAIN board' = DOMAIN board /\ \A i \in DOMAIN board : RawId(board'[i]) = RawId(board[i])
    BY <1>1, <1>3, <2>1, <2>2, DesktopPuts
  <2> QED BY <1>8, <2>3
<1>10. CASE p.op \notin Moves \cup {"issue.create"}
  <2>1. board' = board
    BY <1>2, <1>10 DEF Carried, Moves
  <2> QED BY <1>8, <2>1
<1>11. CASE p.op = "issue.create"
  <2> DEFINE id == Len(FirstBoard) + p.id  new == NewIssue(id, p.status)
  <2>1. board' = Append(board, new)
    BY <1>2, <1>11 DEF Carried
  <2>2. p.id \in 1 .. sent /\ Len(FirstBoard) \in Nat /\ id \in Nat /\ id # 0
    BY <1>1, <1>3, FirstBoardType DEF Numbered
  <2>3. new \in SentIssue /\ new.id = id
    <3>1. p.status \in AnyText /\ "medium" \in AnyText
      BY <1>1, <1>11 DEF AnyText, TaskBoardPriority
    <3> QED BY <2>2, <3>1 DEF NewIssue, SentIssue
  <2> HIDE DEF new
  <2>4. RawId(new) = id
    BY <2>2, <2>3, StatusOf
  <2>5. Appended(board, new, board')
    BY <1>3, <2>1, <2>3, AppendIs
  <2>6. \A i \in DOMAIN board : RawId(board[i]) < id /\ i \in DOMAIN board' /\ board'[i] = board[i]
    BY <1>1, <2>5 DEF OneOfEach, Appended
  <2>7. \A i \in DOMAIN board' : i = Len(board) + 1 \/ i \in DOMAIN board
    BY <2>5 DEF Appended
  <2>8. board'[Len(board) + 1] = new
    BY <2>5 DEF Appended
  <2> HIDE DEF id
  <2>9. \A i \in DOMAIN board' : RawId(board'[i]) \in Nat /\ (i # Len(board) + 1 => RawId(board'[i]) < id)
    BY <1>3, <2>2, <2>4, <2>6, <2>7, <2>8
  <2>10. Distinct(board')
    <3>1. Distinct(board)
      BY DEF OneOfEach
    <3>2. ASSUME NEW i \in DOMAIN board', NEW j \in DOMAIN board', RawId(board'[i]) = RawId(board'[j])
          PROVE  i = j
      <4>1. CASE i = Len(board) + 1
        BY <2>2, <2>4, <2>8, <2>9, <3>2, <4>1
      <4>2. CASE j = Len(board) + 1
        BY <2>2, <2>4, <2>8, <2>9, <3>2, <4>2
      <4>3. CASE i \in DOMAIN board /\ j \in DOMAIN board
        BY <2>6, <3>1, <3>2, <4>3 DEF Distinct
      <4> QED BY <2>7, <4>1, <4>2, <4>3
    <3> QED BY <3>2 DEF Distinct
  <2>11. \A k \in DOMAIN up' : up'[k].id \in Nat /\ p.id < up'[k].id /\ \E l \in DOMAIN up : up'[k] = up[l]
    <3> TAKE k \in DOMAIN up'
    <3>1. k + 1 \in DOMAIN up /\ up'[k] = up[k + 1] /\ 1 < k + 1
      BY <1>1 DEF Removed
    <3>2. p.id < up[k + 1].id
      BY <1>1, <1>3, <3>1 DEF Numbered, Ascend
    <3> QED BY <1>3, <3>1, <3>2, RequestIds
  <2>12. ASSUME NEW i \in DOMAIN board'
         PROVE  /\ RawId(board'[i]) <= Len(FirstBoard) + sent'
                /\ \A k \in DOMAIN up' : RawId(board'[i]) < Len(FirstBoard) + up'[k].id
    <3>1. RawId(board'[i]) <= id /\ RawId(board'[i]) \in Nat
      BY <2>2, <2>4, <2>8, <2>9
    <3>2. id <= Len(FirstBoard) + sent' /\ \A k \in DOMAIN up' : id < Len(FirstBoard) + up'[k].id
      BY <1>2, <1>3, <2>2, <2>11 DEF id
    <3>3. sent' \in Nat
      BY <1>2, <1>3
    <3> QED BY <2>2, <2>11, <3>1, <3>2, <3>3
  <2> QED BY <1>5, <1>6, <2>10, <2>12 DEF OneOfEach
<1> QED BY <1>9, <1>10, <1>11

(* Neither does a move on the page,                                        *)
LEMMA StatusKeepsIds ==
  ASSUME NEW issues \in Seq(ShownIssue), DistinctIds(issues), NEW id, NEW status
  PROVE  DistinctIds(WithStatus(issues, id, status))
<1> DEFINE r == WithStatus(issues, id, status)
<1>1. r = [i \in DOMAIN issues |-> IF issues[i].id = id THEN [issues[i] EXCEPT !.status = status] ELSE issues[i]]
  BY DEF WithStatus, Mapped
<1> HIDE DEF r
<1>2. \A i \in DOMAIN issues : issues[i] \in SentIssue
  BY DEF ShownIssue
<1>3. DOMAIN r = DOMAIN issues /\ \A i \in DOMAIN issues : r[i].id = issues[i].id
  BY <1>1, <1>2 DEF SentIssue
<1> QED BY <1>3 DEF DistinctIds, r

(* nor reading a frame,                                                    *)
LEMMA FrameLeft ==
  ASSUME BoardInv, down # <<>>, down' = Tail(down)
  PROVE  \A k \in DOMAIN down' : \E l \in DOMAIN down : down'[k] = down[l]
<1>1. Removed(down, down')
  BY FirstFrame DEF BoardInv
<1>2. \A k \in DOMAIN down' : k + 1 \in DOMAIN down /\ down'[k] = down[k + 1]
  BY <1>1 DEF Removed
<1> QED BY <1>2

(* nor what follows an answer.                                             *)
LEMMA FetchSends ==
  ASSUME BoardInv, NEW waits, RefreshBoard(waits)
  PROVE  \E c \in BoardRequest : \E w : c.id = sent + 1 /\ Request(c, w)
<1>1. Request(RequestOf("snapshot.get", 0, "", RefreshKey), waits)
  BY DEF RefreshBoard
<1>2. sent \in Nat
  BY DEF BoardInv, BoardTypes
<1> QED BY <1>1, <1>2, FetchRequest

LEMMA SucceedsKeepsIds ==
  ASSUME BoardInv, OneOfEach, NEW p \in BoardRequest, NEW data \in Seq(SentIssue), Distinct(data),
         NEW waits, Succeeds(p, data, waits)
  PROVE  /\ DistinctIds(snapshot')
         /\ UNCHANGED <<up, sent>> \/ \E c \in BoardRequest : \E w : c.id = sent + 1 /\ Request(c, w)
<1>1. p.op \in Ops
  BY DEF BoardRequest
<1>2. DistinctIds(snapshot) /\ snapshot \in Seq(ShownIssue)
  BY DEF OneOfEach, BoardInv, BoardTypes
<1>3. CASE p.op \in {"event.subscribe", "issue.create"}
  <2>1. RefreshBoard(waits) /\ snapshot' = snapshot
    BY <1>1, <1>3, SucceedsIs
  <2> QED BY <1>2, <2>1, FetchSends
<1>4. CASE p.op = "snapshot.get"
  <2>1. snapshot' = normalizeTaskBoardSnapshot(data) /\ UNCHANGED <<up, sent>>
    BY <1>1, <1>4, SucceedsIs
  <2> QED BY <2>1, SnapshotIds
<1>5. CASE p.op \in Moves
  <2>1. snapshot' = WithStatus(snapshot, p.issue, p.status) /\ UNCHANGED <<up, sent>>
    BY <1>1, <1>5, SucceedsIs
  <2> QED BY <1>2, <2>1, StatusKeepsIds
<1> QED BY <1>1, <1>3, <1>4, <1>5 DEF Ops

LEMMA FailsKeepsIds ==
  ASSUME BoardInv, OneOfEach, NEW p \in BoardRequest, NEW waits, Fails(p, waits)
  PROVE  /\ DistinctIds(snapshot')
         /\ UNCHANGED <<up, sent>> \/ \E c \in BoardRequest : \E w : c.id = sent + 1 /\ Request(c, w)
<1>1. p.op \in Ops
  BY DEF BoardRequest
<1>2. snapshot' = snapshot
  BY <1>1, FailsIs
<1>3. CASE p.op \in Moves
  <2>1. RefreshBoard(waits)
    BY <1>1, <1>3, FailsIs
  <2> QED BY <1>2, <2>1, FetchSends DEF OneOfEach
<1>4. CASE p.op \notin Moves
  <2>1. UNCHANGED <<up, sent>>
    BY <1>1, <1>4, FailsIs
  <2> QED BY <1>2, <2>1 DEF OneOfEach
<1> QED BY <1>3, <1>4

(* Every step keeps the ids apart.                                         *)
LEMMA OneOfEachSteps == BoardInv /\ OneOfEach /\ [BoardNext]_bvars => OneOfEach'
<1> SUFFICES ASSUME BoardInv, OneOfEach, [BoardNext]_bvars PROVE OneOfEach'
  OBVIOUS
<1>0. /\ BoardInv' /\ sent \in Nat /\ pending \in Seq(BoardRequest) /\ Ascend(pending)
      /\ down \in Seq(Frame) /\ DistinctIds(snapshot)
  BY BoardSteps DEF BoardInv, BoardTypes, OneOfEach
<1>a. ASSUME UNCHANGED <<board, down, snapshot>>, NEW c \in BoardRequest, c.id = sent + 1, NEW waits, Request(c, waits)
      PROVE  OneOfEach'
  BY <1>0, <1>a, PageKeepsIds
<1>b. ASSUME UNCHANGED <<board, up, down, sent, snapshot>>
      PROVE  OneOfEach'
  BY <1>b DEF OneOfEach
<1>1. CASE BootstrapSession
  BY <1>0, <1>1, <1>a, SubscribeRequest DEF BootstrapSession, desktopVars
<1>2. CASE SessionEnds
  <2>1. /\ up' = <<>> /\ down' = <<>> /\ sent' = sent /\ snapshot' = snapshot /\ board' = board
    BY <1>2 DEF SessionEnds
  <2>2. DOMAIN down' = {}
    BY <2>1
  <2> QED BY <1>0, <2>1, <2>2, PageKeepsIds
<1>3. CASE ClickRefresh
  <2>1. Request(RequestOf("snapshot.get", 0, "", RefreshKey), pending) /\ UNCHANGED <<board, down, snapshot>>
    BY <1>3 DEF ClickRefresh, RefreshBoard, pageUnchanged, desktopVars
  <2> QED BY <1>0, <1>a, <2>1, FetchRequest
<1>4. ASSUME NEW status \in FormStatus, handleCreateIssue(status)
      PROVE  OneOfEach'
  <2>1. Request(RequestOf("issue.create", 0, status, CreateKey), pending) /\ UNCHANGED <<board, down, snapshot>>
    BY <1>4 DEF handleCreateIssue, pageUnchanged, desktopVars
  <2> QED BY <1>0, <1>a, <2>1, CreateRequest
<1>5. ASSUME NEW issue \in ToSet(snapshot),
             \/ \E direction \in {"left", "right"} : moveIssue(issue, direction)
             \/ \E status \in FormStatus : updateIssueStatus(issue, status)
             \/ completeIssue(issue)
      PROVE  OneOfEach'
  <2>1. issue \in ShownIssue
    BY <1>5, CardRequest
  <2>2. PICK op \in Moves, status \in TaskBoardStatus, key \in Keys :
          setIssueStatusOnDesktop(issue, op, status, key)
    BY <1>5, CardRequest
  <2>3. CASE inSession
    <3>1. /\ RequestOf(op, issue.id, status, key) \in BoardRequest
          /\ RequestOf(op, issue.id, status, key).id = sent + 1
      <4>1. issue.id \in Nat /\ op # "event.subscribe" /\ op \in Ops /\ status \in Wanted
        BY <2>1 DEF ShownIssue, SentIssue, Moves, Ops, Wanted
      <4> QED BY <1>0, <4>1, NewRequest
    <3>2. Request(RequestOf(op, issue.id, status, key), pending) /\ UNCHANGED <<board, down, snapshot>>
      BY <2>2, <2>3 DEF setIssueStatusOnDesktop, pageUnchanged, desktopVars
    <3> QED BY <1>a, <3>1, <3>2
  <2>4. CASE ~inSession
    <3>1. UNCHANGED <<board, up, down, sent, snapshot>>
      BY <2>2, <2>4 DEF setIssueStatusOnDesktop, desktopVars
    <3> QED BY <1>b, <3>1
  <2> QED BY <2>3, <2>4
<1>7. CASE \E key \in OtherKeys : BeginOther(key) \/ EndOther(key)
  BY <1>b, <1>7 DEF BeginOther, EndOther, desktopVars
<1>8. CASE ReceivePush
  <2>1. /\ down # <<>> /\ down' = Tail(down) /\ RefreshBoard(pending) /\ UNCHANGED <<board, snapshot>>
    BY <1>8 DEF ReceivePush, desktopVars
  <2>2. \A k \in DOMAIN down' : \E l \in DOMAIN down : down'[k] = down[l]
    BY <2>1, FrameLeft
  <2>3. \E c \in BoardRequest : \E w : c.id = sent + 1 /\ Request(c, w)
    BY <2>1, FetchSends
  <2> QED BY <1>0, <2>1, <2>2, <2>3, PageKeepsIds
<1>9. CASE ReceiveAnswer
  <2> DEFINE f == Head(down)  i == WaitingFor(f.id)
  <2>1. /\ down # <<>> /\ down' = Tail(down) /\ board' = board
        /\ i = 0 => UNCHANGED <<up, sent, snapshot>>
        /\ i # 0 => \/ Succeeds(pending[i], f.data, RemoveAt(pending, i))
                    \/ Fails(pending[i], RemoveAt(pending, i))
    BY <1>9 DEF ReceiveAnswer, desktopVars
  <2>2. i = 0 \/ i \in DOMAIN pending
    BY <1>0, WaitingIs
  <2>3. f \in Frame /\ Distinct(f.data)
    <3>1. f = down[1] /\ 1 \in DOMAIN down /\ f \in Frame
      BY <2>1, FirstFrame DEF BoardInv
    <3> QED BY <3>1 DEF OneOfEach
  <2>4. f.data \in Seq(SentIssue)
    BY <2>3 DEF Frame
  <2>5. \A k \in DOMAIN down' : \E l \in DOMAIN down : down'[k] = down[l]
    BY <2>1, FrameLeft
  <2> HIDE DEF i, f
  <2>6. CASE i = 0
    BY <1>0, <2>1, <2>5, <2>6, PageKeepsIds
  <2>7. CASE i # 0
    <3>1. pending[i] \in BoardRequest
      BY <1>0, <2>2, <2>7
    <3>2. /\ DistinctIds(snapshot')
          /\ UNCHANGED <<up, sent>> \/ \E c \in BoardRequest : \E w : c.id = sent + 1 /\ Request(c, w)
      BY <2>1, <2>3, <2>4, <2>7, <3>1, SucceedsKeepsIds, FailsKeepsIds
    <3> QED BY <1>0, <2>1, <2>5, <3>2, PageKeepsIds
  <2> QED BY <2>6, <2>7
<1>10. CASE RequestTimeout
  <2>1. pending # <<>> /\ Fails(Head(pending), Tail(pending)) /\ UNCHANGED <<board, down>>
    BY <1>10 DEF RequestTimeout, desktopVars
  <2>2. Head(pending) \in BoardRequest
    BY <1>0, <2>1, WaitsAfter
  <2>3. /\ DistinctIds(snapshot')
        /\ UNCHANGED <<up, sent>> \/ \E c \in BoardRequest : \E w : c.id = sent + 1 /\ Request(c, w)
    BY <2>1, <2>2, FailsKeepsIds
  <2> QED BY <1>0, <2>1, <2>3, PageKeepsIds
<1>11. ASSUME NEW raw \in ToSet(board),
              \/ \E status \in DesktopStatus : DesktopSets(RawId(raw), status)
              \/ DesktopDeletes(RawId(raw))
       PROVE  OneOfEach'
  <2>1. PICK i \in DOMAIN board : board[i] = raw
    BY DEF ToSet
  <2>2. CASE \E status \in DesktopStatus : DesktopSets(RawId(raw), status)
    BY <1>0, <2>1, <2>2, DesktopSetsIds
  <2>3. CASE DesktopDeletes(RawId(raw))
    BY <1>0, <2>3, DesktopErasesIds
  <2> QED BY <1>11, <2>2, <2>3
<1>12. CASE Accept
  BY <1>0, <1>12, AcceptKeepsIds
<1>13. CASE Refuse
  <2>1. HandleNext /\ down' = Append(down, ErrorFrame(Head(up).id)) /\ UNCHANGED <<board, sent, snapshot>>
    BY <1>13 DEF Refuse, desktopVars
  <2> DEFINE f == ErrorFrame(Head(up).id)
  <2>2. f \in Frame /\ f.data = <<>>
    <3>1. Head(up).id \in Nat
      BY <2>1, HandledFirst
    <3> QED BY <3>1 DEF ErrorFrame, Frame
  <2> HIDE DEF f
  <2>3. Appended(down, f, down')
    <3>1. down' = Append(down, f)
      BY <2>1 DEF f
    <3> QED BY <1>0, <2>2, <3>1, AppendIs
  <2>4. \A k \in DOMAIN down' : down'[k] = f \/ \E l \in DOMAIN down : down'[k] = down[l]
    <3>1. \A k \in DOMAIN down' : k = Len(down) + 1 \/ k \in DOMAIN down
      BY <2>3 DEF Appended
    <3>2. down'[Len(down) + 1] = f /\ \A k \in DOMAIN down : down'[k] = down[k]
      BY <2>3 DEF Appended
    <3> QED BY <3>1, <3>2
  <2> QED BY <1>0, <2>1, <2>2, <2>4, PageKeepsIds
<1>14. CASE UNCHANGED bvars
  BY <1>14, <1>b DEF bvars, desktopVars
<1> QED BY <1>1, <1>2, <1>3, <1>4, <1>5, <1>7, <1>8, <1>9, <1>10, <1>11, <1>12, <1>13, <1>14 DEF BoardNext

-----------------------------------------------------------------------------
(* The columns.                                                            *)

(* Urgency is a place in an order: two weights and two times decide it.    *)
LEMMA Urgency ==
  ASSUME NEW issue \in ShownIssue
  PROVE  priorityWeight(issue.priority) \in Nat /\ Touched(issue) \in Nat
<1>1. Touched(issue) = IF issue.updatedAt # 0 THEN issue.updatedAt ELSE issue.createdAt
  BY FirstTextOfTwo DEF Touched
<1>2. issue.updatedAt \in Nat /\ issue.createdAt \in Nat
  BY DEF ShownIssue, SentIssue
<1> QED BY <1>1, <1>2 DEF priorityWeight

(* Sorting keeps every issue, once, and puts none behind a less urgent one.*)
LEMMA SortedIssues ==
  ASSUME NEW s \in Seq(ShownIssue)
  PROVE  \E f \in [DOMAIN s -> DOMAIN s] :
           /\ sortIssues(s) = [k \in DOMAIN s |-> s[f[k]]]
           /\ \A i \in DOMAIN s : \E k \in DOMAIN s : f[k] = i
           /\ \A k, l \in DOMAIN s : k < l => f[k] # f[l] /\ ~IssueBefore(s[f[l]], s[f[k]])
<1> DEFINE D == DOMAIN s
           R == {p \in D \X D : \/ IssueBefore(s[p[1]], s[p[2]])
                                \/ ~IssueBefore(s[p[2]], s[p[1]]) /\ p[1] < p[2]}
           f == InOrder(D, R)
<1>1. D = 1 .. Len(s) /\ Len(s) \in Nat /\ IsFiniteSet(D) /\ Cardinality(D) = Len(s)
  <2>1. D = 1 .. Len(s) /\ Len(s) \in Nat
    OBVIOUS
  <2> QED BY <2>1, FS_Interval
<1>2. sortIssues(s) = Mapped(f, LAMBDA i : s[i])
  BY DEF sortIssues, Sorted
<1>3. \A x, y \in D : <<x, y>> \in R <=> (IssueBefore(s[x], s[y])
                                         \/ (~IssueBefore(s[y], s[x]) /\ x < y))
  OBVIOUS
<1>4. StrictOrder(R, D)
  <2> DEFINE w == [x \in D |-> priorityWeight(s[x].priority)]  t == [x \in D |-> Touched(s[x])]
  <2>1. \A x \in D : w[x] \in Int /\ t[x] \in Int /\ x \in Int
    BY <1>1, Urgency
  <2>2. \A x, y \in D : IssueBefore(s[x], s[y]) <=> w[x] > w[y] \/ (w[x] = w[y] /\ t[x] > t[y])
    BY DEF IssueBefore
  <2> HIDE DEF w, t, D, R
  <2>3. \A x \in D : <<x, x>> \notin R
    BY <1>3, <2>1, <2>2
  <2>4. \A x, y \in D : x # y => <<x, y>> \in R \/ <<y, x>> \in R
    BY <1>3, <2>1, <2>2
  <2>5. ASSUME NEW x \in D, NEW y \in D, NEW z \in D, <<x, y>> \in R, <<y, z>> \in R
        PROVE  <<x, z>> \in R
    <3>1. w[x] > w[y] \/ (w[x] = w[y] /\ t[x] > t[y]) \/ (w[x] = w[y] /\ t[x] = t[y] /\ x < y)
      BY <1>3, <2>1, <2>2, <2>5
    <3>2. w[y] > w[z] \/ (w[y] = w[z] /\ t[y] > t[z]) \/ (w[y] = w[z] /\ t[y] = t[z] /\ y < z)
      BY <1>3, <2>1, <2>2, <2>5
    <3>3. w[x] > w[z] \/ (w[x] = w[z] /\ t[x] > t[z]) \/ (w[x] = w[z] /\ t[x] = t[z] /\ x < z)
      BY <2>1, <3>1, <3>2
    <3> QED BY <1>3, <2>1, <2>2, <3>3
  <2> QED BY <2>3, <2>4, <2>5 DEF StrictOrder
<1> HIDE DEF D, R
<1>5. /\ f \in [1 .. Len(s) -> D]
      /\ \A x \in D : \E k \in 1 .. Len(s) : f[k] = x
      /\ \A k, l \in 1 .. Len(s) : k < l => <<f[k], f[l]>> \in R
  <2>1. f = InOrder(D, R) /\ IsFiniteSet(D)
    BY <1>1
  <2> HIDE DEF f
  <2>2. /\ f \in [1 .. Cardinality(D) -> D]
        /\ \A x \in D : \E k \in 1 .. Cardinality(D) : f[k] = x
        /\ \A k, l \in 1 .. Cardinality(D) : k < l => <<f[k], f[l]>> \in R
    BY <1>4, <2>1, EveryMemberHasAPlace
  <2> QED BY <1>1, <2>2
<1> HIDE DEF f
<1>6. f \in [D -> D] /\ \A x \in D : \E k \in D : f[k] = x
  BY <1>1, <1>5
<1>7. sortIssues(s) = [k \in D |-> s[f[k]]]
  BY <1>2, <1>6 DEF Mapped
<1>8. ASSUME NEW k \in D, NEW l \in D, k < l
      PROVE  f[k] # f[l] /\ ~IssueBefore(s[f[l]], s[f[k]])
  <2> DEFINE x == f[k]  y == f[l]
  <2>1. x \in D /\ y \in D /\ <<x, y>> \in R
    BY <1>1, <1>5, <1>8
  <2>2. s[x] \in ShownIssue /\ s[y] \in ShownIssue
    BY <2>1 DEF D
  <2> HIDE DEF x, y
  <2>3. x # y
    BY <1>4, <2>1 DEF StrictOrder
  <2>4. ~IssueBefore(s[y], s[x])
    <3>1. /\ priorityWeight(s[x].priority) \in Nat /\ Touched(s[x]) \in Nat
          /\ priorityWeight(s[y].priority) \in Nat /\ Touched(s[y]) \in Nat
      BY <2>2, Urgency
    <3>2. IssueBefore(s[x], s[y]) \/ ~IssueBefore(s[y], s[x])
      BY <1>3, <2>1
    <3> QED BY <3>1, <3>2 DEF IssueBefore
  <2> QED BY <2>3, <2>4 DEF x, y
<1> QED BY <1>6, <1>7, <1>8 DEF D

(* A column has the issues of its status, each once, in the order of urgency. *)
LEMMA ColumnIs ==
  ASSUME NEW shown \in Seq(ShownIssue), DistinctIds(shown), NEW status \in TaskBoardStatus
  PROVE  LET column == groupIssues(shown)[status]
         IN  /\ Len(column) = Count(shown, LAMBDA issue : issue.status = status)
             /\ Len(column) \in 0 .. Len(shown) /\ DOMAIN column = 1 .. Len(column)
             /\ \A k \in DOMAIN column : column[k] \in ToSet(shown) /\ column[k].status = status
             /\ \A i \in DOMAIN shown : shown[i].status = status =>
                  \E k \in DOMAIN column : column[k] = shown[i]
             /\ \A k, l \in DOMAIN column : column[k] = column[l] => k = l
             /\ \A k, l \in DOMAIN column : k < l => ~IssueBefore(column[l], column[k])
<1> DEFINE P == {i \in DOMAIN shown : shown[i].status = status}
           s == ItemsAt(shown, P)
           column == groupIssues(shown)[status]
<1>1. Filtered(shown, LAMBDA issue : issue.status = status) = s
  BY DEF Filtered
<1>2. column = sortIssues(s)
  BY <1>1 DEF groupIssues
<1>3. P \in SUBSET DOMAIN shown /\ \A i \in DOMAIN shown : i \in P <=> shown[i].status = status
  OBVIOUS
<1>4. Count(shown, LAMBDA issue : issue.status = status) = Cardinality(P)
  BY DEF Count
<1> HIDE DEF P
<1>5. /\ s \in Seq(ShownIssue) /\ Len(s) = Cardinality(P) /\ Len(s) \in 0 .. Len(shown)
      /\ \A k \in DOMAIN s : \E i \in P : s[k] = shown[i]
      /\ \A i \in P : \E k \in DOMAIN s : s[k] = shown[i]
      /\ DistinctIds(s)
  BY <1>3, KeptItems, KeptIds
<1> HIDE DEF s
<1>6. PICK f \in [DOMAIN s -> DOMAIN s] :
        /\ column = [k \in DOMAIN s |-> s[f[k]]]
        /\ \A i \in DOMAIN s : \E k \in DOMAIN s : f[k] = i
        /\ \A k, l \in DOMAIN s : k < l => f[k] # f[l] /\ ~IssueBefore(s[f[l]], s[f[k]])
  BY <1>2, <1>5, SortedIssues
<1> HIDE DEF column
<1>7. DOMAIN s = 1 .. Len(s) /\ Len(s) \in Nat
  BY <1>5
<1>8. DOMAIN column = DOMAIN s /\ Len(column) = Len(s)
      /\ \A k \in DOMAIN s : f[k] \in DOMAIN s /\ column[k] = s[f[k]]
  BY <1>6, <1>7
<1>9. ASSUME NEW k \in DOMAIN column
      PROVE  column[k] \in ToSet(shown) /\ column[k].status = status
  <2>1. PICK i \in P : s[f[k]] = shown[i]
    BY <1>5, <1>8
  <2> QED BY <1>3, <1>8, <2>1 DEF ToSet
<1>10. ASSUME NEW i \in DOMAIN shown, shown[i].status = status
       PROVE  \E k \in DOMAIN column : column[k] = shown[i]
  <2>1. PICK j \in DOMAIN s : s[j] = shown[i]
    BY <1>3, <1>5, <1>10
  <2>2. PICK k \in DOMAIN s : f[k] = j
    BY <1>6
  <2> QED BY <1>8, <2>1, <2>2
<1>11. ASSUME NEW k \in DOMAIN column, NEW l \in DOMAIN column, column[k] = column[l]
       PROVE  k = l
  <2>1. f[k] = f[l]
    <3>1. f[k] \in DOMAIN s /\ f[l] \in DOMAIN s /\ s[f[k]] = s[f[l]]
      BY <1>8, <1>11
    <3>2. DistinctIds(s)
      BY <1>5
    <3> QED BY <3>1, <3>2 DEF DistinctIds
  <2>2. k \in Int /\ l \in Int
    BY <1>7, <1>8
  <2> QED BY <1>6, <1>8, <2>1, <2>2
<1>12. \A k, l \in DOMAIN column : k < l => ~IssueBefore(column[l], column[k])
  BY <1>6, <1>8
<1> QED BY <1>4, <1>5, <1>7, <1>8, <1>9, <1>10, <1>11, <1>12 DEF column

(* What is shown under a filter is part of the snapshot, still each once.  *)
LEMMA FilteredIs ==
  ASSUME NEW issues \in Seq(ShownIssue), DistinctIds(issues), NEW query, NEW priority
  PROVE  /\ filterIssues(issues, query, priority) \in Seq(ShownIssue)
         /\ DistinctIds(filterIssues(issues, query, priority))
<1> DEFINE P == {i \in DOMAIN issues : /\ priority # "all" => issues[i].priority = priority
                                       /\ query # 0 => query \in Texts(issues[i])}
<1>1. filterIssues(issues, query, priority) = ItemsAt(issues, P)
  BY DEF filterIssues, Filtered
<1>2. P \in SUBSET DOMAIN issues
  OBVIOUS
<1> HIDE DEF P
<1> QED BY <1>1, <1>2, KeptIds

(* The columns and the totals of any list of different issues.             *)
LEMMA ColumnsOf ==
  ASSUME NEW shown \in Seq(ShownIssue), DistinctIds(shown)
  PROVE  LET columns == groupIssues(shown)
             summary == summarizeBoard(shown)
         IN  /\ \A issue \in ToSet(shown) :
                  Cardinality({place \in TaskBoardStatus \X (1 .. Len(shown)) :
                                 /\ place[2] \in DOMAIN columns[place[1]]
                                 /\ columns[place[1]][place[2]] = issue}) = 1
             /\ \A s \in TaskBoardStatus : \A j \in DOMAIN columns[s] : \A i \in 1 .. j - 1 :
                  ~IssueBefore(columns[s][j], columns[s][i])
             /\ summary.completed = Len(columns["completed"])
             /\ summary.reviewing = Len(columns["in_review"])
             /\ summary.running >= Len(columns["in_progress"])
<1> DEFINE columns == groupIssues(shown)
           summary == summarizeBoard(shown)
           places(issue) == {place \in TaskBoardStatus \X (1 .. Len(shown)) :
                                 /\ place[2] \in DOMAIN columns[place[1]]
                                 /\ columns[place[1]][place[2]] = issue}
<1>0. /\ "completed" \in TaskBoardStatus /\ "in_review" \in TaskBoardStatus
      /\ "in_progress" \in TaskBoardStatus
  BY Columns
<1>1. \A status \in TaskBoardStatus :
        /\ Len(columns[status]) \in 0 .. Len(shown)
        /\ DOMAIN columns[status] = 1 .. Len(columns[status])
        /\ \A k \in DOMAIN columns[status] :
             columns[status][k] \in ToSet(shown) /\ columns[status][k].status = status
        /\ \A i \in DOMAIN shown : shown[i].status = status =>
             \E k \in DOMAIN columns[status] : columns[status][k] = shown[i]
        /\ \A k, l \in DOMAIN columns[status] : columns[status][k] = columns[status][l] => k = l
        /\ \A k, l \in DOMAIN columns[status] : k < l => ~IssueBefore(columns[status][l], columns[status][k])
  BY ColumnIs
<1>2. /\ Len(columns["completed"]) = Count(shown, LAMBDA issue : issue.status = "completed")
      /\ Len(columns["in_review"]) = Count(shown, LAMBDA issue : issue.status = "in_review")
      /\ Len(columns["in_progress"]) = Count(shown, LAMBDA issue : issue.status = "in_progress")
  BY <1>0, ColumnIs
<1>3. ASSUME NEW issue \in ToSet(shown)
      PROVE  Cardinality(places(issue)) = 1
  <2>1. PICK n \in DOMAIN shown : shown[n] = issue
    BY DEF ToSet
  <2>2. issue.status \in TaskBoardStatus
    <3>1. issue \in ShownIssue
      BY <2>1
    <3> QED BY <3>1 DEF ShownIssue
  <2> HIDE DEF columns
  <2>3. PICK k \in DOMAIN columns[issue.status] : columns[issue.status][k] = issue
    BY <1>1, <2>1, <2>2
  <2>4. k \in 1 .. Len(shown) /\ Len(shown) \in Nat
    BY <1>1, <2>2, <2>3
  <2>5. <<issue.status, k>> \in places(issue)
    BY <2>2, <2>3, <2>4
  <2>6. ASSUME NEW place \in places(issue) PROVE place = <<issue.status, k>>
    <3>1. PICK st \in TaskBoardStatus, j \in 1 .. Len(shown) :
            place = <<st, j>> /\ j \in DOMAIN columns[st] /\ columns[st][j] = issue
      OBVIOUS
    <3>2. st = issue.status
      BY <1>1, <3>1
    <3> QED BY <1>1, <2>2, <2>3, <3>1, <3>2
  <2>7. places(issue) = {<<issue.status, k>>}
    BY <2>5, <2>6
  <2> HIDE DEF places
  <2> QED BY <2>7, FS_Singleton
<1>4. ASSUME NEW s \in TaskBoardStatus, NEW j \in DOMAIN columns[s], NEW i \in 1 .. j - 1
      PROVE  ~IssueBefore(columns[s][j], columns[s][i])
  <2> HIDE DEF columns
  <2>1. j \in 1 .. Len(columns[s]) /\ Len(columns[s]) \in Nat
    BY <1>1
  <2>2. i \in DOMAIN columns[s] /\ i < j
    BY <1>1, <2>1
  <2> QED BY <1>1, <2>2
<1>5. summary.running >= Len(columns["in_progress"])
  <2> DEFINE A == {i \in DOMAIN shown : shown[i].status = "in_progress"}
             B == {i \in DOMAIN shown : shown[i].status = "in_progress" \/ shown[i].runState = RunningState}
  <2>1. Len(columns["in_progress"]) = Cardinality(A) /\ summary.running = Cardinality(B)
    BY <1>2 DEF Count, summarizeBoard
  <2>2. A \in SUBSET B /\ B \in SUBSET (1 .. Len(shown)) /\ Len(shown) \in Nat
    OBVIOUS
  <2> HIDE DEF A, B, columns, summary
  <2>3. IsFiniteSet(1 .. Len(shown))
    BY <2>2, FS_Interval
  <2>4. IsFiniteSet(B)
    BY <2>2, <2>3, FS_Subset
  <2>5. IsFiniteSet(A) /\ Cardinality(A) <= Cardinality(B)
    BY <2>2, <2>4, FS_Subset
  <2>6. Cardinality(A) \in Nat /\ Cardinality(B) \in Nat
    BY <2>4, <2>5, FS_CardinalityType
  <2> QED BY <2>1, <2>5, <2>6
<1>6. summary.completed = Len(columns["completed"]) /\ summary.reviewing = Len(columns["in_review"])
  BY <1>2 DEF summarizeBoard
<1> QED BY <1>3, <1>4, <1>5, <1>6

(* However many issues Desktop has, each with an id of its own             *)
(* (FirstBoardType), and however they are filtered, the columns of the     *)
(* page are as ColumnsPartition says.                                      *)
THEOREM ColumnsPartitionHolds == BoardSpec => []ColumnsPartition
<1>1. BoardInv /\ OneOfEach => ColumnsPartition
  <2> SUFFICES ASSUME BoardInv, OneOfEach, NEW query \in {0, 1}, NEW priority \in {"all", "low"}
               PROVE  LET shown   == filterIssues(snapshot, query, priority)
                          columns == groupIssues(shown)
                          summary == summarizeBoard(shown)
                      IN  /\ \A issue \in ToSet(shown) :
                               Cardinality({place \in TaskBoardStatus \X (1 .. Len(shown)) :
                                              /\ place[2] \in DOMAIN columns[place[1]]
                                              /\ columns[place[1]][place[2]] = issue}) = 1
                          /\ \A s \in TaskBoardStatus : \A j \in DOMAIN columns[s] : \A i \in 1 .. j - 1 :
                               ~IssueBefore(columns[s][j], columns[s][i])
                          /\ summary.completed = Len(columns["completed"])
                          /\ summary.reviewing = Len(columns["in_review"])
                          /\ summary.running >= Len(columns["in_progress"])
    BY DEF ColumnsPartition
  <2> DEFINE shown == filterIssues(snapshot, query, priority)
  <2>1. snapshot \in Seq(ShownIssue) /\ DistinctIds(snapshot)
    BY DEF BoardInv, BoardTypes, OneOfEach
  <2>2. shown \in Seq(ShownIssue) /\ DistinctIds(shown)
    BY <2>1, FilteredIs
  <2> HIDE DEF shown
  <2>3. LET columns == groupIssues(shown)
            summary == summarizeBoard(shown)
        IN  /\ \A issue \in ToSet(shown) :
                 Cardinality({place \in TaskBoardStatus \X (1 .. Len(shown)) :
                                /\ place[2] \in DOMAIN columns[place[1]]
                                /\ columns[place[1]][place[2]] = issue}) = 1
            /\ \A s \in TaskBoardStatus : \A j \in DOMAIN columns[s] : \A i \in 1 .. j - 1 :
                 ~IssueBefore(columns[s][j], columns[s][i])
            /\ summary.completed = Len(columns["completed"])
            /\ summary.reviewing = Len(columns["in_review"])
            /\ summary.running >= Len(columns["in_progress"])
    BY <2>2, ColumnsOf
  <2> QED BY <2>3 DEF shown
<1> QED BY <1>1, BoardBegins, BoardSteps, OneOfEachAtFirst, OneOfEachSteps, PTL DEF BoardSpec

-----------------------------------------------------------------------------
(* The conversations. What the operators on lists and texts do.            *)

(* Max is the greatest.                                                    *)
LEMMA MaxOfSome ==
  ASSUME NEW n \in Nat, NEW I \in SUBSET (1 .. n), I # {}
  PROVE  Max(I) \in I /\ \A i \in I : i <= Max(I)
<1>1. PICK top \in I : \A i \in I : ~(i > top)
  BY GreatestOfSome
<1>2. \A i \in I : i \in Int
  OBVIOUS
<1>3. \A i \in I : top >= i
  BY <1>1, <1>2
<1>4. Max(I) \in I /\ \A i \in I : Max(I) >= i
  BY <1>3 DEF Max
<1> QED BY <1>2, <1>4

(* The first text of a list is a text, or none.                            *)
LEMMA FirstTextIs ==
  ASSUME NEW texts \in Seq(Nat)
  PROVE  FirstText(texts) \in Nat
<1> DEFINE I == {i \in 1 .. Len(texts) : texts[i] # 0}
<1>1. SelectInSeq(texts, LAMBDA t : t # 0) = IF I # {} THEN Min(I) ELSE 0
  BY DEF SelectInSeq
<1>2. Len(texts) \in Nat /\ I \in SUBSET (1 .. Len(texts))
  OBVIOUS
<1> HIDE DEF I
<1>3. I # {} => Min(I) \in 1 .. Len(texts)
  BY <1>2, LeastOfSome
<1> QED BY <1>1, <1>2, <1>3 DEF FirstText

(* Putting the places of a list in an order keeps every item, once.        *)
LEMMA Permuted ==
  ASSUME NEW X, NEW s \in Seq(X), NEW R, StrictOrder(R, DOMAIN s)
  PROVE  \E f \in [DOMAIN s -> DOMAIN s] :
           /\ Mapped(InOrder(DOMAIN s, R), LAMBDA i : s[i]) = [k \in DOMAIN s |-> s[f[k]]]
           /\ \A i \in DOMAIN s : \E k \in DOMAIN s : f[k] = i
           /\ \A k, l \in DOMAIN s : k < l => <<f[k], f[l]>> \in R
           /\ \A k, l \in DOMAIN s : f[k] = f[l] => k = l
<1> DEFINE D == DOMAIN s  f == InOrder(D, R)
<1>1. D = 1 .. Len(s) /\ Len(s) \in Nat
  OBVIOUS
<1>2. IsFiniteSet(D) /\ Cardinality(D) = Len(s)
  BY <1>1, FS_Interval
<1>3. Mapped(f, LAMBDA i : s[i]) = [k \in DOMAIN f |-> s[f[k]]]
  BY DEF Mapped
<1>a. StrictOrder(R, D) /\ f = InOrder(D, R)
  OBVIOUS
<1> HIDE DEF D, f
<1>4. /\ f \in [1 .. Cardinality(D) -> D]
      /\ \A x \in D : \E k \in 1 .. Cardinality(D) : f[k] = x
      /\ \A k, l \in 1 .. Cardinality(D) : k < l => <<f[k], f[l]>> \in R
  BY <1>2, <1>a, EveryMemberHasAPlace
<1>5. /\ f \in [D -> D]
      /\ \A x \in D : \E k \in D : f[k] = x
      /\ \A k, l \in D : k < l => <<f[k], f[l]>> \in R
  BY <1>1, <1>2, <1>4
<1>6. ASSUME NEW k \in D, NEW l \in D, f[k] = f[l]
      PROVE  k = l
  <2>1. k \in Int /\ l \in Int
    BY <1>1
  <2>2. f[k] \in D /\ ~(<<f[k], f[k]>> \in R)
    BY <1>5, <1>a DEF StrictOrder
  <2> QED BY <1>5, <1>6, <2>1, <2>2
<1>7. DOMAIN f = D
  BY <1>5
<1> QED BY <1>3, <1>5, <1>6, <1>7 DEF D, f

(* t is s in another order.                                                *)
Permutes(t, s) ==
  \E f \in [DOMAIN s -> DOMAIN s] :
    /\ t = [k \in DOMAIN s |-> s[f[k]]]
    /\ \A i \in DOMAIN s : \E k \in DOMAIN s : f[k] = i
    /\ \A k, l \in DOMAIN s : f[k] = f[l] => k = l

(* InOrder makes a permutation of a list.                                  *)
LEMMA PutInOrder ==
  ASSUME NEW X, NEW s \in Seq(X), NEW R, StrictOrder(R, DOMAIN s)
  PROVE  Permutes(Mapped(InOrder(DOMAIN s, R), LAMBDA i : s[i]), s)
<1> DEFINE t == Mapped(InOrder(DOMAIN s, R), LAMBDA i : s[i])
<1>1. \E f \in [DOMAIN s -> DOMAIN s] :
        /\ t = [k \in DOMAIN s |-> s[f[k]]]
        /\ \A i \in DOMAIN s : \E k \in DOMAIN s : f[k] = i
        /\ \A k, l \in DOMAIN s : k < l => <<f[k], f[l]>> \in R
        /\ \A k, l \in DOMAIN s : f[k] = f[l] => k = l
  BY Permuted
<1> HIDE DEF t
<1>2. Permutes(t, s)
  BY <1>1 DEF Permutes
<1> QED BY <1>2 DEF t

(* In the order of a number that each item has.                            *)
LEMMA ByNumber ==
  ASSUME NEW n \in Nat, NEW w \in [1 .. n -> Int], NEW R,
         \A x, y \in 1 .. n : <<x, y>> \in R <=> (w[x] < w[y] \/ (~(w[y] < w[x]) /\ x < y))
  PROVE  StrictOrder(R, 1 .. n)
<1> DEFINE D == 1 .. n
<1>1. \A x \in D : w[x] \in Int /\ x \in Int
  OBVIOUS
<1>0. \A x, y \in D : <<x, y>> \in R <=> (w[x] < w[y] \/ (~(w[y] < w[x]) /\ x < y))
  OBVIOUS
<1> HIDE DEF D
<1>2. \A x \in D : <<x, x>> \notin R
  BY <1>0, <1>1
<1>3. \A x, y \in D : x # y => <<x, y>> \in R \/ <<y, x>> \in R
  BY <1>0, <1>1
<1>4. ASSUME NEW x \in D, NEW y \in D, NEW z \in D, <<x, y>> \in R, <<y, z>> \in R
      PROVE  <<x, z>> \in R
  <2>1. (w[x] < w[y] \/ (~(w[y] < w[x]) /\ x < y)) /\ (w[y] < w[z] \/ (~(w[z] < w[y]) /\ y < z))
    BY <1>0, <1>4
  <2>2. w[x] < w[z] \/ (~(w[z] < w[x]) /\ x < z)
    BY <1>1, <2>1
  <2> QED BY <1>0, <2>2
<1>5. StrictOrder(R, D)
  BY <1>2, <1>3, <1>4 DEF StrictOrder
<1> QED BY <1>5 DEF D

(* As many keys as items, if no two items have the same.                   *)
LEMMA OneKeyEach ==
  ASSUME NEW n \in Nat, NEW key \in [1 .. n -> Nat], \A i, j \in 1 .. n : key[i] = key[j] => i = j
  PROVE  Cardinality({key[i] : i \in 1 .. n}) = n
<1> DEFINE T == {key[i] : i \in 1 .. n}
<1>1. key \in Surjection(1 .. n, T)
  BY DEF Surjection
<1>2. key \in Injection(1 .. n, T)
  BY DEF Injection, IsInjective
<1>3. IsFiniteSet(1 .. n) /\ Cardinality(1 .. n) = n
  BY FS_Interval
<1> HIDE DEF T
<1>4. Cardinality(T) = Cardinality(1 .. n)
  BY <1>1, <1>2, <1>3, FS_Surjection
<1> QED BY <1>3, <1>4 DEF T

(* t has the items of s whose keys differ, the last of those with the same,*)
(* in any order.                                                           *)
KeepsLast(t, s, keys) ==
  \E g \in [DOMAIN t -> DOMAIN s] :
    /\ \A k \in DOMAIN t : t[k] = s[g[k]]
    /\ \A k, l \in DOMAIN t : keys[g[k]] = keys[g[l]] => k = l
    /\ \A i \in DOMAIN s : \E k \in DOMAIN t : keys[g[k]] = keys[i]
    /\ \A k \in DOMAIN t, j \in DOMAIN s : keys[j] = keys[g[k]] => j <= g[k]

(* What stays of items of which a later one takes the place of an earlier: *)
(* each key once, and the last item that has it.                           *)
LEMMA LastOfEachIs ==
  ASSUME NEW X, NEW s \in Seq(X), NEW K, NEW keys \in Seq(K), Len(keys) = Len(s)
  PROVE  LastOfEach(s, keys) \in Seq(X) /\ KeepsLast(LastOfEach(s, keys), s, keys)
<1> DEFINE D == DOMAIN s
           P == {i \in D : \A j \in 1 .. i - 1 : keys[j] # keys[i]}
           first == Ascending(P)
           last(i) == SelectLastInSeq(keys, LAMBDA key : key = keys[i])
           m == Cardinality(P)
           r == LastOfEach(s, keys)
           g == [k \in 1 .. m |-> last(first[k])]
<1>1. D = 1 .. Len(s) /\ Len(s) \in Nat /\ DOMAIN keys = D
  OBVIOUS
<1>2. P \in SUBSET (1 .. Len(s))
  BY <1>1
<1>3. \A i \in D : i \in P <=> \A j \in 1 .. i - 1 : keys[j] # keys[i]
  OBVIOUS
<1>4. ASSUME NEW i \in D
      PROVE  /\ last(i) \in D /\ keys[last(i)] = keys[i]
             /\ \A j \in D : keys[j] = keys[i] => j <= last(i)
  <2> DEFINE I == {j \in 1 .. Len(keys) : keys[j] = keys[i]}
  <2>1. last(i) = IF I # {} THEN Max(I) ELSE 0
    BY DEF SelectLastInSeq
  <2>2. i \in I /\ I \in SUBSET (1 .. Len(s)) /\ I # {}
    BY <1>1
  <2>4. \A j \in D : j \in I <=> keys[j] = keys[i]
    BY <1>1
  <2> HIDE DEF I, last
  <2>3. Max(I) \in I /\ \A j \in I : j <= Max(I)
    BY <1>1, <2>2, MaxOfSome
  <2>5. Max(I) \in D
    BY <1>1, <2>2, <2>3
  <2> QED BY <2>1, <2>2, <2>3, <2>4, <2>5
<1>5. r = [k \in DOMAIN first |-> s[last(first[k])]]
  BY DEF LastOfEach, Mapped
<1> HIDE DEF P, last, D
<1>6. /\ m \in Nat /\ first \in [1 .. m -> P]
      /\ \A x \in P : \E k \in 1 .. m : first[k] = x
      /\ \A k, l \in 1 .. m : k < l => first[k] < first[l]
  BY <1>1, <1>2, AscendingPlaces
<1> HIDE DEF first, m
<1>7. \A k \in 1 .. m : first[k] \in P /\ first[k] \in D /\ first[k] \in Int
  <2>1. \A x \in P : x \in D /\ x \in Int
    BY <1>1, <1>2
  <2> QED BY <1>6, <2>1
<1>8. /\ g \in [1 .. m -> D]
      /\ \A k \in 1 .. m : g[k] = last(first[k])
  BY <1>4, <1>7
<1>9. \A k \in 1 .. m : keys[g[k]] = keys[first[k]] /\ \A j \in D : keys[j] = keys[g[k]] => j <= g[k]
  BY <1>4, <1>7, <1>8
<1>a. r = [k \in 1 .. m |-> s[g[k]]]
  BY <1>5, <1>6, <1>8
<1> HIDE DEF g, r
<1>b. \A k \in 1 .. m : s[g[k]] \in X
  BY <1>8 DEF D
<1>c. r \in Seq(X) /\ Len(r) = m /\ DOMAIN r = 1 .. m /\ \A k \in 1 .. m : r[k] = s[g[k]]
  <2>1. r \in [1 .. m -> X] /\ m \in Nat
    BY <1>6, <1>a, <1>b
  <2>2. r \in Seq(X) /\ Len(r) = m
    BY <2>1
  <2> QED BY <1>a, <2>1, <2>2
<1>d. ASSUME NEW k \in 1 .. m, NEW l \in 1 .. m, keys[g[k]] = keys[g[l]]
      PROVE  k = l
  <2>1. first[k] = first[l]
    <3>1. keys[first[k]] = keys[first[l]]
      BY <1>9, <1>d
    <3>2. ~(first[k] < first[l])
      <4>1. first[k] < first[l] => first[k] \in 1 .. first[l] - 1
        BY <1>1, <1>7
      <4> QED BY <1>3, <1>7, <3>1, <4>1
    <3>3. ~(first[l] < first[k])
      <4>1. first[l] < first[k] => first[l] \in 1 .. first[k] - 1
        BY <1>1, <1>7
      <4> QED BY <1>3, <1>7, <3>1, <4>1
    <3> QED BY <1>7, <3>2, <3>3
  <2> QED BY <1>6, <1>7, <2>1
<1>e. ASSUME NEW i \in D
      PROVE  \E k \in 1 .. m : keys[g[k]] = keys[i]
  <2> DEFINE I == {j \in 1 .. Len(s) : keys[j] = keys[i]}
  <2>1. i \in I /\ I \in SUBSET (1 .. Len(s)) /\ I # {}
    BY <1>1
  <2>2. \A j \in I : j \in D /\ keys[j] = keys[i]
    BY <1>1
  <2>3. \A j \in D : keys[j] = keys[i] => j \in I
    BY <1>1
  <2> HIDE DEF I
  <2>4. Min(I) \in I /\ \A j \in I : Min(I) <= j
    BY <1>1, <2>1, LeastOfSome
  <2>5. Min(I) \in P
    <3>1. Min(I) \in D /\ keys[Min(I)] = keys[i]
      BY <2>2, <2>4
    <3>2. ASSUME NEW j \in 1 .. Min(I) - 1, keys[j] = keys[Min(I)]
          PROVE  FALSE
      <4>1. j \in D /\ ~(Min(I) <= j)
        BY <1>1, <3>1
      <4> QED BY <2>3, <2>4, <3>1, <3>2, <4>1
    <3> QED BY <1>3, <3>1, <3>2
  <2>6. PICK k \in 1 .. m : first[k] = Min(I)
    BY <1>6, <2>5
  <2> QED BY <1>9, <2>2, <2>4, <2>6
<1>f. /\ g \in [DOMAIN r -> D] /\ r \in Seq(X)
      /\ \A k \in DOMAIN r : r[k] = s[g[k]]
      /\ \A k, l \in DOMAIN r : keys[g[k]] = keys[g[l]] => k = l
      /\ \A i \in D : \E k \in DOMAIN r : keys[g[k]] = keys[i]
      /\ \A k \in DOMAIN r, j \in D : keys[j] = keys[g[k]] => j <= g[k]
  BY <1>8, <1>9, <1>c, <1>d, <1>e
<1>g. KeepsLast(r, s, keys)
  BY <1>f DEF KeepsLast, D
<1> QED BY <1>f, <1>g DEF r

-----------------------------------------------------------------------------
(* Suggested questions; what is read of catalogues and conversations.      *)

(* A function of 1 .. n is a list.                                         *)
LEMMA ListOf ==
  ASSUME NEW S, NEW n \in Nat, NEW list \in [1 .. n -> S]
  PROVE  list \in Seq(S) /\ Len(list) = n /\ DOMAIN list = 1 .. n
OBVIOUS

(* Places of a round of at least four that are fewer than three apart      *)
(* differ.                                                                 *)
LEMMA AroundTheEnd ==
  ASSUME NEW n \in Nat, n > 3, NEW x \in Nat, NEW y \in Nat, x < y, y < x + 3
  PROVE  x % n # y % n
<1> DEFINE q == x \div n  p == y \div n
<1>1. x = (n * q) + (x % n) /\ y = (n * p) + (y % n)
  BY Z3
<1>2. q \in Int /\ p \in Int /\ x % n \in Int /\ y % n \in Int
  OBVIOUS
<1> HIDE DEF q, p
<1>3. SUFFICES ASSUME x % n = y % n PROVE FALSE
  OBVIOUS
<1>4. y - x = n * (p - q)
  BY <1>1, <1>2, <1>3
<1>5. p - q >= 1 \/ p - q <= 0
  BY <1>2
<1>6. CASE p - q >= 1
  <2> DEFINE d == p - q
  <2>1. d \in Int /\ d >= 1
    BY <1>2, <1>6
  <2> HIDE DEF d
  <2>2. n * d >= n
    BY <2>1
  <2> QED BY <1>4, <2>2 DEF d
<1>7. CASE p - q <= 0
  <2> DEFINE d == p - q
  <2>1. d \in Int /\ d <= 0
    BY <1>2, <1>7
  <2> HIDE DEF d
  <2>2. n * d <= 0
    BY <2>1
  <2> QED BY <1>4, <2>2 DEF d
<1> QED BY <1>5, <1>6, <1>7

(* Three different questions at most, wherever the button has come to.     *)
LEMMA SampledDiffer ==
  ASSUME NEW wonders \in Seq(Nat), NEW seed \in Nat
  PROVE  LET sampled == pickSampledWonders(wonders, seed)
         IN  Cardinality(ToSet(sampled)) = Len(sampled) /\ Len(sampled) <= 3
<1> DEFINE unique == LastOfEach(wonders, wonders)
           n == Len(unique)
           sampled == pickSampledWonders(wonders, seed)
<1> SUFFICES Cardinality(ToSet(sampled)) = Len(sampled) /\ Len(sampled) <= 3
  OBVIOUS
<1>0. Len(wonders) = Len(wonders)
  OBVIOUS
<1>0a. unique \in Seq(Nat) /\ KeepsLast(unique, wonders, wonders)
  BY <1>0, LastOfEachIs
<1> HIDE DEF unique
<1>1. PICK g \in [DOMAIN unique -> DOMAIN wonders] :
        /\ \A k \in DOMAIN unique : unique[k] = wonders[g[k]]
        /\ \A k, l \in DOMAIN unique : wonders[g[k]] = wonders[g[l]] => k = l
  BY <1>0a DEF KeepsLast
<1>2. sampled = IF n <= 3 THEN unique
                ELSE [i \in 1 .. 3 |-> unique[((seed + i - 1) % n) + 1]]
  BY DEF pickSampledWonders, unique
<1> HIDE DEF sampled
<1>3a. n \in Nat /\ DOMAIN unique = 1 .. n /\ unique \in [1 .. n -> Nat]
  BY <1>0a
<1>3. n \in Nat /\ DOMAIN unique = 1 .. n /\ unique \in [1 .. n -> Nat]
      /\ \A k, l \in 1 .. n : unique[k] = unique[l] => k = l
  BY <1>1, <1>3a
<1>4. CASE n <= 3
  <2>1. Cardinality({unique[i] : i \in 1 .. n}) = n
    BY <1>3, OneKeyEach
  <2> QED BY <1>2, <1>3, <1>4, <2>1 DEF ToSet
<1>5. CASE ~(n <= 3)
  <2> DEFINE at == [i \in 1 .. 3 |-> ((seed + i - 1) % n) + 1]
  <2>1. \A i \in 1 .. 3 : at[i] \in 1 .. n
    <3>1. \A x \in Nat : x % n \in 0 .. n - 1
      BY <1>3, <1>5
    <3> TAKE i \in 1 .. 3
    <3>2. seed + i - 1 \in Nat
      OBVIOUS
    <3>3. (seed + i - 1) % n \in 0 .. n - 1
      BY <3>1, <3>2
    <3> QED BY <1>3, <3>3
  <2>2. ASSUME NEW i \in 1 .. 3, NEW j \in 1 .. 3, i < j
        PROVE  at[i] # at[j]
    <3> DEFINE x == seed + i - 1  y == seed + j - 1
    <3>1. x \in Nat /\ y \in Nat /\ x < y /\ y < x + 3 /\ n > 3
      BY <1>3, <1>5, <2>2
    <3>2. x % n # y % n
      BY <1>3, <3>1, AroundTheEnd
    <3>3. x % n \in Int /\ y % n \in Int
      BY <1>3, <3>1
    <3>4. at[i] = (x % n) + 1 /\ at[j] = (y % n) + 1
      OBVIOUS
    <3> HIDE DEF x, y, at
    <3> QED BY <3>2, <3>3, <3>4
  <2>3. sampled = [i \in 1 .. 3 |-> unique[at[i]]]
    BY <1>2, <1>5
  <2> HIDE DEF at
  <2>4. sampled \in [1 .. 3 -> Nat] /\ sampled \in Seq(Nat) /\ Len(sampled) = 3 /\ DOMAIN sampled = 1 .. 3
    <3>1. \A i \in 1 .. 3 : unique[at[i]] \in Nat
      BY <1>3, <2>1
    <3>2. sampled \in [1 .. 3 -> Nat]
      BY <2>3, <3>1
    <3>3. sampled \in Seq(Nat) /\ Len(sampled) = 3 /\ DOMAIN sampled = 1 .. 3
      BY <3>2, 3 \in Nat, ListOf
    <3> QED BY <3>2, <3>3
  <2>5. \A i, j \in 1 .. 3 : sampled[i] = sampled[j] => i = j
    <3>1. \A i, j \in 1 .. 3 : i < j => sampled[i] # sampled[j]
      BY <1>3, <2>1, <2>2, <2>3
    <3> QED BY <3>1
  <2>6. Cardinality({sampled[i] : i \in 1 .. 3}) = 3
    BY <2>4, <2>5, OneKeyEach
  <2> QED BY <2>4, <2>6 DEF ToSet
<1> QED BY <1>4, <1>5

-----------------------------------------------------------------------------

(* What is shown of a conversation and of an agent, and that no            *)
(* conversation is shown twice.                                            *)
ListedChat == [chatId : Nat, agentKey : Nat, updatedAt : Nat, lastRunContent : Nat]

ListedAgent ==
  [agentKey : Nat, displayName : Nat, recentChats : Seq(ListedChat), wonders : Seq(Nat),
   source : {"desktop", "agent-platform"}]

OneRowEach(chats) == \A j, k \in DOMAIN chats : chats[j].chatId = chats[k].chatId => j = k

(* What the normaliser makes of a conversation, and of a list of them.     *)
LEMMA ChatIs ==
  ASSUME NEW raw \in RawChat, NEW agentKey \in Nat
  PROVE  /\ normalizeChatSummary(raw, agentKey) \in ListedChat
         /\ normalizeChatSummary(raw, agentKey).chatId = RawChatId(raw)
<1>1. <<raw.chatId, raw.id>> \in Seq(Nat) /\ <<raw.agentKey, raw.workerKey, agentKey>> \in Seq(Nat)
  BY DEF RawChat
<1>2. RawChatId(raw) \in Nat /\ FirstText(<<raw.agentKey, raw.workerKey, agentKey>>) \in Nat
  BY <1>1, FirstTextIs DEF RawChatId
<1> QED BY <1>2 DEF normalizeChatSummary, ListedChat, RawChat

(* Rows of different conversations, if they were sent so.                  *)
LEMMA ChatsAre ==
  ASSUME NEW raws \in Seq(RawChat), NEW agentKey \in Nat
  PROVE  /\ normalizeChatSummaries(raws, agentKey) \in Seq(ListedChat)
         /\ (\A j, k \in DOMAIN raws :
               RawChatId(raws[j]) = RawChatId(raws[k]) /\ RawChatId(raws[j]) # 0 => j = k)
              => OneRowEach(normalizeChatSummaries(raws, agentKey))
<1> DEFINE P == {i \in DOMAIN raws : RawChatId(raws[i]) # 0}
           s == ItemsAt(raws, P)
           r == normalizeChatSummaries(raws, agentKey)
<1>1. Filtered(raws, LAMBDA raw : RawChatId(raw) # 0) = s
  BY DEF Filtered
<1>2. r = [k \in DOMAIN s |-> normalizeChatSummary(s[k], agentKey)]
  BY <1>1 DEF normalizeChatSummaries, Mapped
<1>3. P \in SUBSET DOMAIN raws /\ \A i \in P : RawChatId(raws[i]) # 0
  OBVIOUS
<1> HIDE DEF P
<1>4. s \in Seq(RawChat)
  BY <1>3, KeptItems
<1>5. PICK e \in [DOMAIN s -> P] :
        /\ \A k \in DOMAIN s : s[k] = raws[e[k]]
        /\ \A k, l \in DOMAIN s : k < l => e[k] < e[l]
  BY <1>3, KeptOrder
<1> HIDE DEF s, r
<1>6. DOMAIN s = 1 .. Len(s) /\ Len(s) \in Nat /\ \A k \in DOMAIN s : s[k] \in RawChat
  BY <1>4
<1>7. \A k \in DOMAIN s : r[k] \in ListedChat /\ r[k].chatId = RawChatId(s[k])
  BY <1>2, <1>6, ChatIs
<1>8. DOMAIN r = DOMAIN s /\ r \in Seq(ListedChat)
  BY <1>2, <1>6, <1>7
<1>9. ASSUME \A j, k \in DOMAIN raws :
               RawChatId(raws[j]) = RawChatId(raws[k]) /\ RawChatId(raws[j]) # 0 => j = k,
             NEW j \in DOMAIN r, NEW k \in DOMAIN r, r[j].chatId = r[k].chatId
      PROVE  j = k
  <2>1. e[j] = e[k]
    <3>1. e[j] \in P /\ e[k] \in P /\ e[j] \in DOMAIN raws /\ e[k] \in DOMAIN raws
      BY <1>3, <1>5, <1>8
    <3>2. RawChatId(raws[e[j]]) = RawChatId(raws[e[k]])
      BY <1>5, <1>7, <1>8, <1>9
    <3> QED BY <1>3, <1>9, <3>1, <3>2
  <2>2. j \in Int /\ k \in Int /\ e[j] \in DOMAIN raws /\ e[j] \in Int
    BY <1>3, <1>5, <1>6, <1>8
  <2> QED BY <1>5, <1>8, <2>1, <2>2
<1> QED BY <1>8, <1>9 DEF OneRowEach, r

(* What the catalogues are assumed to be.                                  *)
NamedOnce(raw) ==
  \A j, k \in DOMAIN raw.recentChats :
    RawChatId(raw.recentChats[j]) = RawChatId(raw.recentChats[k])
      /\ RawChatId(raw.recentChats[j]) # 0 => j = k

(* What the normaliser makes of an agent, and of a list of them.           *)
LEMMA AgentIs ==
  ASSUME NEW raw \in RawAgent, NEW source \in {"desktop", "agent-platform"}
  PROVE  /\ normalizeAgent(raw, source) \in ListedAgent
         /\ NamedOnce(raw) => OneRowEach(normalizeAgent(raw, source).recentChats)
<1>1. /\ <<raw.agentKey, raw.key, raw.id>> \in Seq(Nat)
      /\ raw.displayName \in Nat /\ raw.name \in Nat /\ raw.label \in Nat
      /\ raw.recentChats \in Seq(RawChat) /\ raw.wonders \in Seq(Nat)
  BY DEF RawAgent
<1>2. AgentKeyOf(raw) \in Nat
  BY <1>1, FirstTextIs DEF AgentKeyOf
<1>3. AgentNameOf(raw) \in Nat
  <2>1. <<raw.displayName, raw.name, raw.label, AgentKeyOf(raw)>> \in Seq(Nat)
    BY <1>1, <1>2
  <2> QED BY <2>1, FirstTextIs DEF AgentNameOf
<1>4. Filtered(raw.wonders, LAMBDA wonder : wonder # 0) \in Seq(Nat)
  <2> DEFINE P == {i \in DOMAIN raw.wonders : raw.wonders[i] # 0}
  <2>1. Filtered(raw.wonders, LAMBDA wonder : wonder # 0) = ItemsAt(raw.wonders, P)
    BY DEF Filtered
  <2>2. P \in SUBSET DOMAIN raw.wonders
    OBVIOUS
  <2> HIDE DEF P
  <2> QED BY <1>1, <2>1, <2>2, KeptItems
<1>5. /\ normalizeChatSummaries(raw.recentChats, AgentKeyOf(raw)) \in Seq(ListedChat)
      /\ NamedOnce(raw) => OneRowEach(normalizeChatSummaries(raw.recentChats, AgentKeyOf(raw)))
  BY <1>1, <1>2, ChatsAre DEF NamedOnce
<1> QED BY <1>2, <1>3, <1>4, <1>5 DEF normalizeAgent, ListedAgent

LEMMA AgentsAre ==
  ASSUME NEW raws \in Seq(RawAgent), \A i \in DOMAIN raws : NamedOnce(raws[i]),
         NEW source \in {"desktop", "agent-platform"}
  PROVE  /\ normalizeAgents(raws, source) \in Seq(ListedAgent)
         /\ \A i \in DOMAIN normalizeAgents(raws, source) :
              OneRowEach(normalizeAgents(raws, source)[i].recentChats)
<1> DEFINE P == {i \in DOMAIN raws : AgentKeyOf(raws[i]) # 0}
           s == ItemsAt(raws, P)
           r == normalizeAgents(raws, source)
<1>1. Filtered(raws, LAMBDA raw : AgentKeyOf(raw) # 0) = s
  BY DEF Filtered
<1>2. r = [k \in DOMAIN s |-> normalizeAgent(s[k], source)]
  BY <1>1 DEF normalizeAgents, Mapped
<1>3. P \in SUBSET DOMAIN raws
  OBVIOUS
<1> HIDE DEF P
<1>4. s \in Seq(RawAgent) /\ \A k \in DOMAIN s : \E i \in P : s[k] = raws[i]
  BY <1>3, KeptItems
<1> HIDE DEF s, r
<1>5. DOMAIN s = 1 .. Len(s) /\ Len(s) \in Nat
  BY <1>4
<1>6. \A k \in DOMAIN s : s[k] \in RawAgent /\ NamedOnce(s[k])
  BY <1>3, <1>4
<1>7. \A k \in DOMAIN s : r[k] \in ListedAgent /\ OneRowEach(r[k].recentChats)
  BY <1>2, <1>6, AgentIs
<1>8. DOMAIN r = DOMAIN s /\ r \in Seq(ListedAgent)
  BY <1>2, <1>5, <1>7
<1> QED BY <1>7, <1>8 DEF r

-----------------------------------------------------------------------------
(* Catalogues and histories that are merged.                               *)

(* A list in order of which a later item takes the place of an earlier.    *)
LEMMA MergedIs ==
  ASSUME NEW X, NEW s \in Seq(X), NEW keys \in Seq(Nat),
         NEW r \in Seq(X), KeepsLast(r, s, keys), NEW t, Permutes(t, r)
  PROVE  t \in Seq(X) /\ KeepsLast(t, s, keys)
<1>p. PICK h \in [DOMAIN r -> DOMAIN s] :
         /\ \A k \in DOMAIN r : r[k] = s[h[k]]
         /\ \A k, l \in DOMAIN r : keys[h[k]] = keys[h[l]] => k = l
         /\ \A i \in DOMAIN s : \E k \in DOMAIN r : keys[h[k]] = keys[i]
         /\ \A k \in DOMAIN r, j \in DOMAIN s : keys[j] = keys[h[k]] => j <= h[k]
  BY Zenon DEF KeepsLast
<1>q. PICK f \in [DOMAIN r -> DOMAIN r] :
         /\ t = [k \in DOMAIN r |-> r[f[k]]]
         /\ \A i \in DOMAIN r : \E k \in DOMAIN r : f[k] = i
         /\ \A k, l \in DOMAIN r : f[k] = f[l] => k = l
  BY Zenon DEF Permutes
<1>r. DOMAIN t = DOMAIN r /\ (\A k \in DOMAIN r : t[k] = r[f[k]]) /\ t = [k \in DOMAIN t |-> t[k]]
  BY <1>q
<1>1. DOMAIN r = 1 .. Len(r) /\ Len(r) \in Nat
  OBVIOUS
<1>2. \A k \in DOMAIN r : r[k] \in X
  OBVIOUS
<1>3. \A k \in DOMAIN r : f[k] \in DOMAIN r /\ h[k] \in DOMAIN s
  BY <1>1, <1>p, <1>q
<1>4. t \in [1 .. Len(r) -> X] /\ DOMAIN t = DOMAIN r
  BY <1>1, <1>2, <1>3, <1>r
<1>5. t \in Seq(X)
  <2> DEFINE n == Len(r)
  <2>1. n \in Nat /\ t \in [1 .. n -> X]
    BY <1>1, <1>4
  <2> HIDE DEF n
  <2> QED BY ONLY <2>1
<1> DEFINE g == [k \in DOMAIN t |-> h[f[k]]]
<1>6. g \in [DOMAIN t -> DOMAIN s] /\ \A k \in DOMAIN t : g[k] = h[f[k]] /\ f[k] \in DOMAIN r
  BY <1>3, <1>4
<1> HIDE DEF g
<1>7. \A k \in DOMAIN t : t[k] = s[g[k]]
  <2> TAKE k \in DOMAIN t
  <2>1. f[k] \in DOMAIN r /\ g[k] = h[f[k]] /\ t[k] = r[f[k]]
    BY <1>4, <1>6, <1>r
  <2>2. r[f[k]] = s[h[f[k]]]
    BY <1>p, <2>1
  <2> QED BY ONLY <2>1, <2>2
<1>8. \A k, l \in DOMAIN t : keys[g[k]] = keys[g[l]] => k = l
  <2> TAKE k, l \in DOMAIN t
  <2> HAVE keys[g[k]] = keys[g[l]]
  <2>0. f[k] \in DOMAIN r /\ f[l] \in DOMAIN r /\ keys[h[f[k]]] = keys[h[f[l]]]
    BY <1>6, Zenon
  <2>1. f[k] = f[l]
    BY <1>p, <2>0
  <2> QED BY <1>4, <1>q, <2>1
<1>9. \A i \in DOMAIN s : \E k \in DOMAIN t : keys[g[k]] = keys[i]
  <2> TAKE i \in DOMAIN s
  <2>1. PICK l \in DOMAIN r : keys[h[l]] = keys[i]
    BY <1>p
  <2>2. PICK k \in DOMAIN r : f[k] = l
    BY <1>q
  <2>3. g[k] = h[l] /\ k \in DOMAIN t
    BY <1>4, <1>6, <2>2
  <2> QED BY <2>1, <2>3
<1>10. \A k \in DOMAIN t, j \in DOMAIN s : keys[j] = keys[g[k]] => j <= g[k]
  <2> TAKE k \in DOMAIN t, j \in DOMAIN s
  <2>1. f[k] \in DOMAIN r /\ g[k] = h[f[k]]
    BY <1>6
  <2> QED BY <1>p, <2>1
<1>11. KeepsLast(t, s, keys)
  BY <1>6, <1>7, <1>8, <1>9, <1>10 DEF KeepsLast
<1> QED BY <1>5, <1>11

(* The conversations in the drawer: of both lists, each with one row.      *)
LEMMA MergedChats ==
  ASSUME NEW primary \in Seq(ListedChat), NEW fallback \in Seq(ListedChat)
  PROVE  /\ mergeChatSummaries(primary, fallback) \in Seq(ListedChat)
         /\ OneRowEach(mergeChatSummaries(primary, fallback))
<1> DEFINE chats == fallback \o primary
           keys == Mapped(chats, LAMBDA chat : chat.chatId)
           r == LastOfEach(chats, keys)
           R == {p \in (DOMAIN r) \X (DOMAIN r) :
                   \/ r[p[1]].updatedAt > r[p[2]].updatedAt
                   \/ ~(r[p[2]].updatedAt > r[p[1]].updatedAt) /\ p[1] < p[2]}
           t == Mapped(InOrder(DOMAIN r, R), LAMBDA i : r[i])
<1>1. t = mergeChatSummaries(primary, fallback)
  BY DEF mergeChatSummaries, Sorted
<1>2. keys = [i \in DOMAIN chats |-> chats[i].chatId]
  BY DEF Mapped
<1>3. chats \in Seq(ListedChat)
  OBVIOUS
<1> HIDE DEF chats, keys
<1>4. /\ DOMAIN chats = 1 .. Len(chats) /\ Len(chats) \in Nat
      /\ \A i \in DOMAIN chats : chats[i] \in ListedChat
  BY <1>3
<1>5. \A i \in DOMAIN chats : chats[i].chatId \in Nat
  BY <1>4 DEF ListedChat
<1>6. keys \in [1 .. Len(chats) -> Nat] /\ \A i \in DOMAIN chats : keys[i] = chats[i].chatId
  BY <1>2, <1>4, <1>5
<1>7. keys \in Seq(Nat) /\ Len(keys) = Len(chats)
  BY <1>4, <1>6
<1>8. r \in Seq(ListedChat) /\ KeepsLast(r, chats, keys)
  BY <1>3, <1>7, LastOfEachIs
<1>9. t = Mapped(InOrder(DOMAIN r, R), LAMBDA i : r[i])
  OBVIOUS
<1> HIDE DEF r, t
<1>10. StrictOrder(R, DOMAIN r)
  <2>1. DOMAIN r = 1 .. Len(r) /\ Len(r) \in Nat /\ \A i \in 1 .. Len(r) : r[i] \in ListedChat
    BY <1>8
  <2>2. \A i \in 1 .. Len(r) : r[i].updatedAt \in Nat
    BY <2>1 DEF ListedChat
  <2> DEFINE w == [i \in 1 .. Len(r) |-> 0 - r[i].updatedAt]
  <2>3. w \in [1 .. Len(r) -> Int] /\ \A i \in 1 .. Len(r) : w[i] = 0 - r[i].updatedAt
    BY <2>2
  <2> HIDE DEF w
  <2>4. ASSUME NEW x \in 1 .. Len(r), NEW y \in 1 .. Len(r)
        PROVE  <<x, y>> \in R <=> (w[x] < w[y] \/ (~(w[y] < w[x]) /\ x < y))
    <3>1. r[x].updatedAt \in Nat /\ r[y].updatedAt \in Nat
      BY <2>2
    <3>2. <<x, y>> \in R <=> (r[x].updatedAt > r[y].updatedAt
                              \/ (~(r[y].updatedAt > r[x].updatedAt) /\ x < y))
      BY <2>1
    <3>3. x \in Int /\ y \in Int /\ w[x] = 0 - r[x].updatedAt /\ w[y] = 0 - r[y].updatedAt
      BY <2>1, <2>3
    <3> HIDE DEF R
    <3> QED BY ONLY <3>1, <3>2, <3>3
  <2> HIDE DEF R
  <2>5. StrictOrder(R, 1 .. Len(r))
    BY <2>1, <2>3, <2>4, ByNumber
  <2> QED BY <2>1, <2>5
<1> HIDE DEF R
<1>11. Permutes(t, r)
  BY <1>8, <1>9, <1>10, PutInOrder
<1>12. t \in Seq(ListedChat) /\ KeepsLast(t, chats, keys)
  BY <1>3, <1>7, <1>8, <1>11, MergedIs
<1>13. OneRowEach(t)
  <2>1. PICK g \in [DOMAIN t -> DOMAIN chats] :
            /\ \A k \in DOMAIN t : t[k] = chats[g[k]]
            /\ \A k, l \in DOMAIN t : keys[g[k]] = keys[g[l]] => k = l
    BY <1>12, Zenon DEF KeepsLast
  <2>2. \A k \in DOMAIN t : keys[g[k]] = t[k].chatId
    BY <1>6, <2>1
  <2> QED BY <2>1, <2>2 DEF OneRowEach
<1> QED BY <1>1, <1>12, <1>13

(* The agents of the page: of both catalogues, each once, as the platform  *)
(* describes it if it does.                                                *)
LEMMA MergedAgents ==
  ASSUME NEW desktop \in Seq(ListedAgent), NEW platform \in Seq(ListedAgent),
         NEW t, t = mergeAgents(desktop, platform)
  PROVE  /\ t \in Seq(ListedAgent)
         /\ \A k, l \in DOMAIN t : t[k].agentKey = t[l].agentKey => k = l
         /\ \A k \in DOMAIN t :
              \/ \E i \in DOMAIN platform : t[k] = platform[i]
              \/ \E i \in DOMAIN desktop : t[k] = desktop[i]
         /\ \A i \in DOMAIN platform :
              \E k \in DOMAIN t : t[k].agentKey = platform[i].agentKey
         /\ \A k \in DOMAIN t : \A i \in DOMAIN platform :
              t[k].agentKey = platform[i].agentKey => \E j \in DOMAIN platform : t[k] = platform[j]
<1> DEFINE agents == desktop \o platform
           keys == Mapped(agents, LAMBDA agent : agent.agentKey)
           r == LastOfEach(agents, keys)
           R == {p \in (DOMAIN r) \X (DOMAIN r) :
                   \/ r[p[1]].displayName < r[p[2]].displayName
                   \/ ~(r[p[2]].displayName < r[p[1]].displayName) /\ p[1] < p[2]}
<1>1. t = Mapped(InOrder(DOMAIN r, R), LAMBDA i : r[i])
  BY DEF mergeAgents, Sorted
<1>2. keys = [i \in DOMAIN agents |-> agents[i].agentKey]
  BY DEF Mapped
<1>3. /\ agents \in Seq(ListedAgent)
      /\ Len(desktop) \in Nat /\ Len(platform) \in Nat /\ Len(agents) = Len(desktop) + Len(platform)
      /\ DOMAIN desktop = 1 .. Len(desktop) /\ DOMAIN platform = 1 .. Len(platform)
      /\ \A i \in 1 .. Len(desktop) : agents[i] = desktop[i]
      /\ \A i \in 1 .. Len(platform) : agents[Len(desktop) + i] = platform[i]
  OBVIOUS
<1> HIDE DEF agents, keys
<1>4. /\ DOMAIN agents = 1 .. Len(agents) /\ Len(agents) \in Nat
      /\ \A i \in DOMAIN agents : agents[i] \in ListedAgent
  BY <1>3
<1>5. \A i \in DOMAIN agents : agents[i].agentKey \in Nat
  BY <1>4 DEF ListedAgent
<1>6. keys \in [1 .. Len(agents) -> Nat] /\ \A i \in DOMAIN agents : keys[i] = agents[i].agentKey
  BY <1>2, <1>4, <1>5
<1>7. keys \in Seq(Nat) /\ Len(keys) = Len(agents)
  BY <1>4, <1>6
<1>8. r \in Seq(ListedAgent) /\ KeepsLast(r, agents, keys)
  BY <1>3, <1>7, LastOfEachIs
<1> HIDE DEF r
<1>10. StrictOrder(R, DOMAIN r)
  <2>1. DOMAIN r = 1 .. Len(r) /\ Len(r) \in Nat /\ \A i \in 1 .. Len(r) : r[i] \in ListedAgent
    BY <1>8
  <2>2. \A i \in 1 .. Len(r) : r[i].displayName \in Nat
    BY <2>1 DEF ListedAgent
  <2> DEFINE w == [i \in 1 .. Len(r) |-> r[i].displayName]
  <2>3. w \in [1 .. Len(r) -> Int] /\ \A i \in 1 .. Len(r) : w[i] = r[i].displayName
    BY <2>2
  <2> HIDE DEF w
  <2>4. ASSUME NEW x \in 1 .. Len(r), NEW y \in 1 .. Len(r)
        PROVE  <<x, y>> \in R <=> (w[x] < w[y] \/ (~(w[y] < w[x]) /\ x < y))
    <3>2. <<x, y>> \in R <=> (r[x].displayName < r[y].displayName
                              \/ (~(r[y].displayName < r[x].displayName) /\ x < y))
      BY <2>1
    <3>3. w[x] = r[x].displayName /\ w[y] = r[y].displayName
      BY <2>3
    <3> HIDE DEF R
    <3> QED BY ONLY <3>2, <3>3
  <2> HIDE DEF R
  <2>5. StrictOrder(R, 1 .. Len(r))
    BY <2>1, <2>3, <2>4, ByNumber
  <2> QED BY <2>1, <2>5
<1> HIDE DEF R
<1>11. Permutes(t, r)
  BY <1>1, <1>8, <1>10, PutInOrder
<1>12. t \in Seq(ListedAgent) /\ KeepsLast(t, agents, keys)
  BY <1>3, <1>7, <1>8, <1>11, MergedIs
<1>13. PICK g \in [DOMAIN t -> DOMAIN agents] :
         /\ \A k \in DOMAIN t : t[k] = agents[g[k]]
         /\ \A k, l \in DOMAIN t : keys[g[k]] = keys[g[l]] => k = l
         /\ \A i \in DOMAIN agents : \E k \in DOMAIN t : keys[g[k]] = keys[i]
         /\ \A k \in DOMAIN t, j \in DOMAIN agents : keys[j] = keys[g[k]] => j <= g[k]
  BY <1>12, Zenon DEF KeepsLast
<1>14. \A k \in DOMAIN t : g[k] \in DOMAIN agents /\ t[k] = agents[g[k]] /\ keys[g[k]] = t[k].agentKey
  BY <1>6, <1>13
<1>15. \A k, l \in DOMAIN t : t[k].agentKey = t[l].agentKey => k = l
  BY <1>13, <1>14
<1>16. ASSUME NEW i \in DOMAIN platform
       PROVE  /\ Len(desktop) + i \in DOMAIN agents /\ agents[Len(desktop) + i] = platform[i]
              /\ keys[Len(desktop) + i] = platform[i].agentKey
  <2>1. Len(desktop) + i \in DOMAIN agents /\ agents[Len(desktop) + i] = platform[i]
    BY <1>3, <1>4
  <2> QED BY <1>6, <2>1
<1>17. ASSUME NEW k \in DOMAIN t
       PROVE  \/ (g[k] <= Len(desktop) /\ \E i \in DOMAIN desktop : t[k] = desktop[i])
              \/ \E i \in DOMAIN platform : t[k] = platform[i]
  <2>1. g[k] \in 1 .. Len(desktop) + Len(platform)
    BY <1>3, <1>4, <1>14
  <2>2. CASE g[k] <= Len(desktop)
    <3>1. g[k] \in DOMAIN desktop /\ agents[g[k]] = desktop[g[k]]
      BY <1>3, <2>1, <2>2
    <3> QED BY <1>14, <2>2, <3>1
  <2>3. CASE ~(g[k] <= Len(desktop))
    <3> DEFINE i == g[k] - Len(desktop)
    <3>1. i \in 1 .. Len(platform) /\ g[k] = Len(desktop) + i
      BY <1>3, <2>1, <2>3
    <3> HIDE DEF i
    <3>2. agents[g[k]] = platform[i] /\ i \in DOMAIN platform
      BY <1>3, <3>1
    <3> QED BY <1>14, <3>2
  <2> QED BY <2>2, <2>3
<1>18. \A i \in DOMAIN platform : \E k \in DOMAIN t : t[k].agentKey = platform[i].agentKey
  <2> TAKE i \in DOMAIN platform
  <2>1. PICK k \in DOMAIN t : keys[g[k]] = keys[Len(desktop) + i]
    BY <1>13, <1>16
  <2> QED BY <1>14, <1>16, <2>1
<1>19. ASSUME NEW k \in DOMAIN t, NEW i \in DOMAIN platform, t[k].agentKey = platform[i].agentKey
       PROVE  \E j \in DOMAIN platform : t[k] = platform[j]
  <2>1. Len(desktop) + i <= g[k]
    BY <1>13, <1>14, <1>16, <1>19
  <2>2. ~(g[k] <= Len(desktop))
    BY <1>3, <1>4, <1>14, <2>1
  <2> QED BY <1>17, <2>2
<1>20. \A k \in DOMAIN t : (\E i \in DOMAIN platform : t[k] = platform[i])
                           \/ (\E i \in DOMAIN desktop : t[k] = desktop[i])
  BY <1>17
<1> QED BY <1>12, <1>15, <1>18, <1>19, <1>20

-----------------------------------------------------------------------------
(* What is streamed, and how a conversation is read of its events.         *)

(* A set of numbers with 0 and with the next of each has all.              *)
LEMMA Induction ==
  ASSUME NEW S \in SUBSET Nat, 0 \in S, \A n \in S : n + 1 \in S
  PROVE  S = Nat
<1> DEFINE T == Nat \ S  R == OpToRel(<, Nat)
<1>1. SUFFICES ASSUME T # {} PROVE FALSE
  OBVIOUS
<1>2. IsWellFoundedOn(R, Nat)
  BY NatLessThanWellFounded
<1>3. T \subseteq Nat
  OBVIOUS
<1>4. \A x, y \in Nat : <<x, y>> \in R <=> x < y
  BY DEF OpToRel
<1> HIDE DEF T, R
<1>5. PICK x \in T : \A y \in T : ~(<<y, x>> \in R)
  BY <1>1, <1>2, <1>3, WFMin, Zenon
<1>6. x \in Nat /\ x # 0 /\ x - 1 \in Nat /\ x - 1 < x
  BY DEF T
<1>7. x - 1 \in T
  BY <1>5, <1>6 DEF T
<1> QED BY <1>3, <1>4, <1>5, <1>6, <1>7

(* What a stream can carry, and what a message can be.                     *)
SentTypes == {e.type : e \in Events} \cup {"response"}

Sent == [type : SentTypes, text : Nat, chatId : Nat]

Shown ==
  [id : Nat \X Nat, role : {"user", "assistant"}, agent : Nat, content : Seq(Nat),
   status : {"pending", "done", "error"}]

-----------------------------------------------------------------------------

(* One event after the other.                                              *)
ReadsSo(read, events, agent, k) ==
  /\ DOMAIN read = 0 .. k
  /\ read[0] = [list |-> <<>>, open |-> FALSE]
  /\ \A n \in 1 .. k : read[n] = WithEvent(read[n - 1], events[n], agent)

(* Such a list of readings exists: it is what LET read[n] in Reading       *)
(* defines.                                                                *)
IsReading(read, events, agent, k) ==
  read = [n \in 0 .. k |-> IF n = 0 THEN [list |-> <<>>, open |-> FALSE]
                           ELSE WithEvent(read[n - 1], events[n], agent)]

LEMMA CanBeRead ==
  ASSUME NEW events, NEW agent, NEW k \in Nat
  PROVE  \E read : IsReading(read, events, agent, k)
<1> DEFINE S == {n \in Nat : \E read : ReadsSo(read, events, agent, n) /\ read = [i \in 0 .. n |-> read[i]]}
<1>1. 0 \in S
  <2> DEFINE r == [i \in 0 .. 0 |-> [list |-> <<>>, open |-> FALSE]]
  <2>1. DOMAIN r = 0 .. 0 /\ r[0] = [list |-> <<>>, open |-> FALSE] /\ r = [i \in 0 .. 0 |-> r[i]]
    OBVIOUS
  <2> HIDE DEF r
  <2>2. ReadsSo(r, events, agent, 0)
    BY <2>1 DEF ReadsSo
  <2> QED BY <2>1, <2>2
<1>2. ASSUME NEW n \in S
      PROVE  n + 1 \in S
  <2>1. PICK f : ReadsSo(f, events, agent, n)
    OBVIOUS
  <2>2. n \in Nat
    OBVIOUS
  <2> HIDE DEF S
  <2> DEFINE e == WithEvent(f[n], events[n + 1], agent)
  <2>e. e = WithEvent(f[n], events[n + 1], agent)
    OBVIOUS
  <2> HIDE DEF e
  <2> DEFINE g == [i \in 0 .. n + 1 |-> IF i = n + 1 THEN e ELSE f[i]]
  <2>3. /\ DOMAIN g = 0 .. n + 1 /\ g[0] = f[0] /\ g[n + 1] = e
        /\ \A i \in 0 .. n : g[i] = f[i]
        /\ g = [i \in 0 .. n + 1 |-> g[i]]
    BY <2>2
  <2> HIDE DEF g
  <2>4. ASSUME NEW i \in 1 .. n + 1
        PROVE  g[i] = WithEvent(g[i - 1], events[i], agent)
    <3>1. CASE i = n + 1
      <4>1. i - 1 = n /\ n \in 0 .. n
        BY <2>2, <3>1
      <4>2. g[n] = f[n]
        BY <2>3, <4>1
      <4> QED BY <2>3, <2>e, <3>1, <4>1, <4>2
    <3>2. CASE i # n + 1
      <4>1. i \in 1 .. n /\ i \in 0 .. n /\ i - 1 \in 0 .. n
        BY <2>2, <3>2
      <4>2. f[i] = WithEvent(f[i - 1], events[i], agent)
        BY <2>1, <4>1 DEF ReadsSo
      <4> QED BY <2>3, <4>1, <4>2
    <3> QED BY <3>1, <3>2
  <2>5. ReadsSo(g, events, agent, n + 1)
    BY <2>1, <2>3, <2>4 DEF ReadsSo
  <2>6. n + 1 \in Nat
    BY <2>2
  <2>7. \E read : ReadsSo(read, events, agent, n + 1) /\ read = [i \in 0 .. n + 1 |-> read[i]]
    BY <2>3, <2>5, Zenon
  <2> QED BY <2>6, <2>7, Zenon DEF S
<1>3. S = Nat
  <2>1. S \in SUBSET Nat
    OBVIOUS
  <2> HIDE DEF S
  <2> QED BY <1>1, <1>2, <2>1, Induction
<1>4. PICK f : ReadsSo(f, events, agent, k) /\ f = [i \in 0 .. k |-> f[i]]
  <2>1. k \in S
    BY <1>3
  <2> QED BY <2>1, Zenon
<1>5. \A n \in 0 .. k : f[n] = IF n = 0 THEN [list |-> <<>>, open |-> FALSE]
                               ELSE WithEvent(f[n - 1], events[n], agent)
  BY <1>4 DEF ReadsSo
<1>6. f = [n \in 0 .. k |-> IF n = 0 THEN [list |-> <<>>, open |-> FALSE]
                            ELSE WithEvent(f[n - 1], events[n], agent)]
  BY <1>4, <1>5
<1> QED BY <1>6, Zenon DEF IsReading

(* A reading is the last of a list of readings, each of one event more.    *)
LEMMA ReadingIs ==
  ASSUME NEW events, NEW agent, Len(events) \in Nat
  PROVE  \E read : ReadsSo(read, events, agent, Len(events)) /\ Reading(events, agent) = read[Len(events)]
<1> DEFINE k == Len(events)
<1>3. k \in Nat
  OBVIOUS
<1>k. k = Len(events)
  OBVIOUS
<1> HIDE DEF k
<1> DEFINE read == CHOOSE read : IsReading(read, events, agent, k)
<1>1. IsReading(read, events, agent, k)
  <2>1. \E r : IsReading(r, events, agent, k)
    BY <1>3, CanBeRead
  <2> QED BY <2>1, Zenon
<1>2. Reading(events, agent) = read[k]
  BY <1>k DEF Reading, IsReading
<1> HIDE DEF read
<1>4. ReadsSo(read, events, agent, k)
  <2>1. DOMAIN read = 0 .. k
    BY <1>1 DEF IsReading
  <2>2. \A n \in 0 .. k : read[n] = IF n = 0 THEN [list |-> <<>>, open |-> FALSE]
                                    ELSE WithEvent(read[n - 1], events[n], agent)
    <3> DEFINE h(n) == IF n = 0 THEN [list |-> <<>>, open |-> FALSE]
                       ELSE WithEvent(read[n - 1], events[n], agent)
    <3>1. read = [n \in 0 .. k |-> h(n)]
      BY <1>1 DEF IsReading
    <3> HIDE DEF h
    <3>2. \A n \in 0 .. k : read[n] = h(n)
      BY <3>1
    <3> QED BY <3>2 DEF h
  <2>3. 0 \in 0 .. k /\ \A n \in 1 .. k : n \in 0 .. k /\ n # 0
    BY <1>3
  <2> QED BY <2>1, <2>2, <2>3 DEF ReadsSo
<1> QED BY <1>2, <1>4, <1>k

(* Messages that were loaded.                                              *)
Told ==
  [id : {0} \X Nat, role : {"user", "assistant"}, agent : Nat, content : Seq(Nat),
   status : {"done"}]

(* What a reading can be.                                                  *)
Readings == {so \in [list : Seq(Told), open : BOOLEAN] : so.open => so.list # <<>>}

(* The messages that reading makes.                                        *)
LEMMA ToldIs ==
  ASSUME NEW n \in Nat, NEW role \in {"user", "assistant"}, NEW agent \in Nat, NEW text \in Nat
  PROVE  Message(<<0, n>>, role, agent, <<text>>, "done") \in Told
<1>1. <<text>> \in Seq(Nat) /\ <<0, n>> \in {0} \X Nat
  OBVIOUS
<1> QED BY <1>1 DEF Message, Told

(* What one more event makes of a reading.                                 *)
LEMMA WithEventIs ==
  ASSUME NEW so \in Readings, NEW e, e.text \in Nat, NEW agent \in Nat
  PROVE  WithEvent(so, e, agent) \in Readings
<1> DEFINE n == Len(so.list)
           add(role) == Append(so.list, Message(<<0, n + 1>>, role, agent, <<e.text>>, "done"))
           upsert(append) ==
             [list |-> IF so.open
                       THEN [so.list EXCEPT ![n].content = HistoryText(@, e.text, append)]
                       ELSE add("assistant"),
              open |-> TRUE]
<1>1. so.list \in Seq(Told) /\ so.open \in BOOLEAN /\ n \in Nat /\ (so.open => so.list # <<>>)
  BY DEF Readings
<1>2. ASSUME NEW role \in {"user", "assistant"}
      PROVE  add(role) \in Seq(Told) /\ add(role) # <<>>
  <2> DEFINE m == Message(<<0, n + 1>>, role, agent, <<e.text>>, "done")
  <2>1. m \in Told
    BY <1>1, ToldIs
  <2> HIDE DEF m, n
  <2>2. Append(so.list, m) \in Seq(Told) /\ Len(Append(so.list, m)) = Len(so.list) + 1 /\ Len(so.list) \in Nat
    BY <1>1, <2>1
  <2> QED BY <2>2 DEF m
<1>3. ASSUME NEW append \in BOOLEAN, so.open
      PROVE  /\ [so.list EXCEPT ![n].content = HistoryText(@, e.text, append)] \in Seq(Told)
             /\ [so.list EXCEPT ![n].content = HistoryText(@, e.text, append)] # <<>>
  <2> DEFINE c == HistoryText(so.list[n].content, e.text, append)
             m == [so.list[n] EXCEPT !.content = c]
             l == so.list
  <2>1. l \in Seq(Told) /\ l # <<>> /\ n = Len(l) /\ n \in 1 .. Len(l)
    BY <1>1, <1>3
  <2>2. l[n] \in Told
    BY <2>1
  <2>3. l[n].content \in Seq(Nat)
    BY <2>2 DEF Told
  <2>4. c \in Seq(Nat)
    BY <2>3 DEF HistoryText
  <2>5. [so.list EXCEPT ![n].content = HistoryText(@, e.text, append)] = [l EXCEPT ![n] = m]
    BY <2>1, <2>2 DEF Told
  <2> HIDE DEF c
  <2>6. m \in Told
    BY <2>2, <2>4 DEF Told
  <2> HIDE DEF m, l, n
  <2>7. [l EXCEPT ![n] = m] \in Seq(Told) /\ Len([l EXCEPT ![n] = m]) = Len(l) /\ Len(l) \in Nat /\ Len(l) # 0
    BY <2>1, <2>6
  <2>8. [l EXCEPT ![n] = m] # <<>>
    BY <2>7
  <2> QED BY <2>5, <2>7, <2>8
<1>4. ASSUME NEW append \in BOOLEAN
      PROVE  upsert(append) \in Readings
  <2>1. CASE so.open
    <3> DEFINE l == [so.list EXCEPT ![n].content = HistoryText(@, e.text, append)]
    <3>1. upsert(append) = [list |-> l, open |-> TRUE]
      BY <2>1
    <3>2. l \in Seq(Told) /\ l # <<>>
      BY <1>3, <2>1
    <3> HIDE DEF l, upsert
    <3> QED BY <3>1, <3>2 DEF Readings
  <2>2. CASE ~so.open
    <3> DEFINE l == add("assistant")
    <3>1. upsert(append) = [list |-> l, open |-> TRUE]
      BY <2>2
    <3>2. l \in Seq(Told) /\ l # <<>>
      BY <1>2
    <3> HIDE DEF l, upsert
    <3> QED BY <3>1, <3>2 DEF Readings
  <2> QED BY <1>1, <2>1, <2>2
<1>5. [list |-> add("user"), open |-> FALSE] \in Readings
  <2> DEFINE l == add("user")
  <2>1. l \in Seq(Told)
    BY <1>2
  <2> HIDE DEF l
  <2>2. [list |-> l, open |-> FALSE] \in Readings
    BY <2>1 DEF Readings
  <2> QED BY <2>2 DEF l
<1>6. upsert(TRUE) \in Readings /\ upsert(FALSE) \in Readings
  BY <1>4
<1>7. WithEvent(so, e, agent) =
        IF e.text = 0 THEN so
        ELSE CASE e.type = "request.query" -> [list |-> add("user"), open |-> FALSE]
        [] e.type \in SetsContent \cup {"run.complete"} -> upsert(FALSE)
        [] e.type = "content.delta" -> upsert(TRUE)
        [] OTHER -> so
  BY DEF WithEvent
<1> HIDE DEF add, upsert
<1>8. \/ WithEvent(so, e, agent) = so
      \/ WithEvent(so, e, agent) = [list |-> add("user"), open |-> FALSE]
      \/ WithEvent(so, e, agent) = upsert(FALSE)
      \/ WithEvent(so, e, agent) = upsert(TRUE)
  BY <1>7
<1> QED BY <1>5, <1>6, <1>8

(* A reading of any number of events is one.                               *)
LEMMA ReadingTypes ==
  ASSUME NEW events, NEW agent \in Nat, Len(events) \in Nat,
         \A i \in 1 .. Len(events) : events[i].text \in Nat
  PROVE  Reading(events, agent) \in Readings
<1>1. Len(events) \in Nat /\ \A i \in 1 .. Len(events) : events[i].text \in Nat
  OBVIOUS
<1>2. PICK read : ReadsSo(read, events, agent, Len(events)) /\ Reading(events, agent) = read[Len(events)]
  BY <1>1, ReadingIs
<1> DEFINE S == {n \in Nat : n <= Len(events) => read[n] \in Readings}
<1>3. 0 \in S
  <2>1. [list |-> <<>>, open |-> FALSE] \in Readings
    BY DEF Readings
  <2> QED BY <1>2, <2>1 DEF ReadsSo
<1>4. ASSUME NEW n \in S
      PROVE  n + 1 \in S
  <2>1. n \in Nat
    OBVIOUS
  <2>2. CASE n + 1 <= Len(events)
    <3>1. n + 1 \in 1 .. Len(events) /\ n + 1 - 1 = n /\ n <= Len(events)
      BY <1>1, <2>1, <2>2
    <3>2. read[n + 1] = WithEvent(read[n], events[n + 1], agent)
      BY <1>2, <3>1 DEF ReadsSo
    <3>3. read[n] \in Readings /\ events[n + 1].text \in Nat
      BY <1>1, <3>1
    <3> QED BY <2>1, <3>2, <3>3, WithEventIs
  <2> QED BY <2>1, <2>2
<1>5. S = Nat
  <2>1. S \in SUBSET Nat
    OBVIOUS
  <2> HIDE DEF S
  <2> QED BY <1>3, <1>4, <2>1, Induction
<1> QED BY <1>1, <1>2, <1>5

(* A reading goes on where it was.                                         *)
LEMMA ReadingGoesOn ==
  ASSUME NEW events, NEW longer, NEW agent, Len(events) \in Nat, Len(longer) = Len(events) + 1,
         \A i \in 1 .. Len(events) : longer[i] = events[i]
  PROVE  Reading(longer, agent) = WithEvent(Reading(events, agent), longer[Len(events) + 1], agent)
<1> DEFINE k == Len(events)
<1>0. k \in Nat /\ k + 1 \in Nat /\ Len(longer) = k + 1 /\ Len(longer) \in Nat
  OBVIOUS
<1>1. PICK f : ReadsSo(f, events, agent, k) /\ Reading(events, agent) = f[k]
  BY <1>0, ReadingIs
<1>2. PICK g : ReadsSo(g, longer, agent, k + 1) /\ Reading(longer, agent) = g[k + 1]
  BY <1>0, ReadingIs
<1>3. \A i \in 1 .. k : longer[i] = events[i]
  OBVIOUS
<1> HIDE DEF k
<1> DEFINE S == {n \in Nat : n <= k => g[n] = f[n]}
<1>4. 0 \in S
  BY <1>1, <1>2 DEF ReadsSo
<1>5. ASSUME NEW n \in S
      PROVE  n + 1 \in S
  <2>1. n \in Nat
    OBVIOUS
  <2>2. CASE n + 1 <= k
    <3>1. n + 1 \in 1 .. k /\ n + 1 \in 1 .. k + 1 /\ n + 1 - 1 = n /\ n <= k
      BY <1>0, <2>1, <2>2
    <3>2. f[n + 1] = WithEvent(f[n], events[n + 1], agent)
      BY <1>1, <3>1 DEF ReadsSo
    <3>3. g[n + 1] = WithEvent(g[n], longer[n + 1], agent)
      BY <1>2, <3>1 DEF ReadsSo
    <3>4. g[n] = f[n] /\ longer[n + 1] = events[n + 1]
      BY <1>3, <3>1
    <3> QED BY <2>1, <3>2, <3>3, <3>4
  <2> QED BY <2>1, <2>2
<1>6. S = Nat
  <2>1. S \in SUBSET Nat
    OBVIOUS
  <2> HIDE DEF S
  <2> QED BY <1>4, <1>5, <2>1, Induction
<1>7. g[k] = f[k]
  BY <1>0, <1>6
<1>8. k + 1 \in 1 .. k + 1 /\ k + 1 - 1 = k
  BY <1>0
<1>9. g[k + 1] = WithEvent(g[k], longer[k + 1], agent)
  BY <1>2, <1>8 DEF ReadsSo
<1> QED BY <1>1, <1>2, <1>7, <1>9 DEF k

-----------------------------------------------------------------------------
(* What is streamed and what is read of it agree.                          *)

(* What Append does.                                                       *)
LEMMA OneMore ==
  ASSUME NEW S, NEW q \in Seq(S), NEW x \in S
  PROVE  /\ Append(q, x) \in Seq(S) /\ Len(Append(q, x)) = Len(q) + 1
         /\ Append(q, x)[Len(q) + 1] = x
         /\ \A i \in 1 .. Len(q) : Append(q, x)[i] = q[i]
OBVIOUS

(* The status of a message.                                                *)
Statuses == {"pending", "done", "error"}

(* m with another content and status.                                      *)
With(m, content, status) == [m EXCEPT !.content = content, !.status = status]

(* It is still a message.                                                  *)
LEMMA WithIs ==
  ASSUME NEW m \in Shown, NEW c \in Seq(Nat), NEW s \in Statuses
  PROVE  /\ With(m, c, s) \in Shown
         /\ With(m, c, s).id = m.id /\ With(m, c, s).role = m.role /\ With(m, c, s).agent = m.agent
         /\ With(m, c, s).content = c /\ With(m, c, s).status = s
BY DEF Shown, With, Statuses

(* What an event makes of a message is the message with another content    *)
(* and status; only a failure changes the content but by a text.           *)
LEMMA StreamedIs ==
  ASSUME NEW m \in Shown, NEW e, e.text \in Nat
  PROVE  \E s \in Statuses : \E c \in Seq(Nat) :
           /\ Streamed(m, e) = With(m, c, s)
           /\ e.type # "run.error" =>
                c = IF e.type \in SetsContent /\ e.text # 0 THEN <<e.text>>
                    ELSE IF e.type = "content.delta" /\ e.text # 0
                    THEN IF m.content = Thinking THEN <<e.text>> ELSE Append(m.content, e.text)
                    ELSE m.content
<1> DEFINE whole == [m EXCEPT !.content = <<e.text>>,
                              !.status = IF e.type = "content.start" THEN @ ELSE "done"]
           more == [m EXCEPT !.content = IF @ = Thinking THEN <<e.text>> ELSE Append(@, e.text),
                             !.status = "pending"]
           thought == [m EXCEPT !.status = "done"]
           thinks == [m EXCEPT !.status = "pending"]
           broken == [m EXCEPT !.content = Failure, !.status = "error"]
           over == [m EXCEPT !.status = IF @ = "error" THEN "error" ELSE "done"]
           text == IF m.content = Thinking THEN <<e.text>> ELSE Append(m.content, e.text)
           status == IF e.type = "content.start" THEN m.status ELSE "done"
           end == IF m.status = "error" THEN "error" ELSE "done"
<1>1. Streamed(m, e) =
        CASE e.type \in SetsContent /\ e.text # 0 -> whole
          [] e.type = "content.delta" /\ e.text # 0 -> more
          [] e.type = "reasoning.end" /\ m.content # <<>> -> thought
          [] e.type = "reasoning.delta" /\ e.text # 0 -> thinks
          [] e.type = "run.error" -> broken
          [] e.type \in {"run.complete", "run.cancel"} -> over
          [] OTHER -> m
  BY DEF Streamed
<1>2. m.content \in Seq(Nat) /\ m.status \in Statuses /\ DOMAIN m = {"id", "role", "agent", "content", "status"}
  BY DEF Shown, Statuses
<1>3. <<e.text>> \in Seq(Nat) /\ Append(m.content, e.text) \in Seq(Nat) /\ Failure \in Seq(Nat)
  BY <1>2 DEF Failure
<1>4. text \in Seq(Nat) /\ status \in Statuses /\ end \in Statuses /\ "done" \in Statuses
      /\ "pending" \in Statuses /\ "error" \in Statuses
  BY <1>2, <1>3 DEF Statuses
<1>5. /\ whole = With(m, <<e.text>>, status) /\ more = With(m, text, "pending")
      /\ broken = With(m, Failure, "error")
  BY DEF With
<1>6. /\ thought = With(m, m.content, "done") /\ thinks = With(m, m.content, "pending")
      /\ over = With(m, m.content, end) /\ m = With(m, m.content, m.status)
  BY DEF With, Shown
<1>t. text = IF m.content = Thinking THEN <<e.text>> ELSE Append(m.content, e.text)
  OBVIOUS
<1> HIDE DEF whole, more, thought, thinks, broken, over, text, status, end
<1>7. CASE e.type \in SetsContent /\ e.text # 0
  <2>1. Streamed(m, e) = whole
    BY <1>1, <1>7 DEF SetsContent
  <2> QED BY <1>3, <1>4, <1>5, <1>7, <2>1
<1>8. CASE e.type = "content.delta" /\ e.text # 0
  <2>1. Streamed(m, e) = more /\ e.type \notin SetsContent
    BY <1>1, <1>8 DEF SetsContent
  <2> QED BY <1>4, <1>5, <1>8, <1>t, <2>1
<1>9. CASE e.type = "run.error"
  <2>1. Streamed(m, e) = broken
    BY <1>1, <1>9 DEF SetsContent
  <2> QED BY <1>3, <1>4, <1>5, <1>9, <2>1
<1>10. CASE ~(e.type \in SetsContent /\ e.text # 0) /\ ~(e.type = "content.delta" /\ e.text # 0)
            /\ e.type # "run.error"
  <2>1. Streamed(m, e) \in {m, thought, thinks, over}
    BY <1>1, <1>10
  <2>2. \E s \in Statuses : Streamed(m, e) = With(m, m.content, s)
    BY <1>2, <1>4, <1>6, <2>1
  <2> QED BY <1>2, <1>10, <2>2
<1> QED BY <1>7, <1>8, <1>9, <1>10

(* The content after an event.                                             *)
LEMMA StreamedContent ==
  ASSUME NEW m \in Shown, NEW e, e.text \in Nat, e.type # "run.error"
  PROVE  Streamed(m, e).content =
           IF e.type \in SetsContent /\ e.text # 0 THEN <<e.text>>
           ELSE IF e.type = "content.delta" /\ e.text # 0
           THEN IF m.content = Thinking THEN <<e.text>> ELSE Append(m.content, e.text)
           ELSE m.content
<1> DEFINE text == IF e.type \in SetsContent /\ e.text # 0 THEN <<e.text>>
                    ELSE IF e.type = "content.delta" /\ e.text # 0
                    THEN IF m.content = Thinking THEN <<e.text>> ELSE Append(m.content, e.text)
                    ELSE m.content
<1>1. PICK s \in Statuses : \E c \in Seq(Nat) :
           /\ Streamed(m, e) = With(m, c, s)
           /\ e.type # "run.error" => c = text
  BY StreamedIs
<1> HIDE DEF text
<1>2. PICK c \in Seq(Nat) : Streamed(m, e) = With(m, c, s) /\ (e.type # "run.error" => c = text)
  BY <1>1
<1>3. Streamed(m, e).content = text
  BY <1>2, WithIs
<1> QED BY <1>3 DEF text

(* The second of two.                                                      *)
LEMMA SecondIs ==
  ASSUME NEW q \in Seq(Told), NEW x \in Told
  PROVE  Len(q) = 1 => Len(Append(q, x)) = 2 /\ Append(q, x)[2] = x
<1> DEFINE r == Append(q, x)  n == Len(q)
<1>1. Len(r) = n + 1 /\ r[n + 1] = x
  BY OneMore
<1> HIDE DEF r, n
<1> SUFFICES ASSUME n = 1 PROVE Len(r) = 2 /\ r[2] = x
  BY DEF n, r
<1> QED BY ONLY <1>1, n = 1

(* What is shown of a query that goes on and what would be read of it.     *)
ReadAlike(so, content) ==
  \/ content = Thinking /\ Len(so.list) = 1 /\ ~so.open
  \/ /\ content \notin {Thinking, NoAnswer, <<>>}
     /\ so.open /\ Len(so.list) = 2 /\ so.list[2].content = content

(* They are still alike after one more event of content or thought.        *)
LEMMA AlikeGoesOn ==
  ASSUME NEW m \in Shown, NEW e, e.text \in Nat, NEW so \in Readings, NEW agent \in Nat,
         e.type \notin {"request.query", "run.error", "run.complete", "response"},
         <<e.text>> \notin {Thinking, NoAnswer},
         ReadAlike(so, m.content)
  PROVE  ReadAlike(WithEvent(so, e, agent), Streamed(m, e).content)
<1> DEFINE n == Len(so.list)
           add(role) == Append(so.list, Message(<<0, n + 1>>, role, agent, <<e.text>>, "done"))
           upsert(append) ==
             [list |-> IF so.open
                       THEN [so.list EXCEPT ![n].content = HistoryText(@, e.text, append)]
                       ELSE add("assistant"),
              open |-> TRUE]
           asks == [list |-> add("user"), open |-> FALSE]
           c == m.content
           d == Streamed(m, e).content
<1>1. so.list \in Seq(Told) /\ so.open \in BOOLEAN /\ c \in Seq(Nat)
  BY DEF Readings, Shown
<1>2. d = IF e.type \in SetsContent /\ e.text # 0 THEN <<e.text>>
           ELSE IF e.type = "content.delta" /\ e.text # 0
           THEN IF c = Thinking THEN <<e.text>> ELSE Append(c, e.text)
           ELSE c
  BY StreamedContent
<1>3. WithEvent(so, e, agent) =
        IF e.text = 0 THEN so
        ELSE CASE e.type = "request.query" -> asks
        [] e.type \in SetsContent \cup {"run.complete"} -> upsert(FALSE)
        [] e.type = "content.delta" -> upsert(TRUE)
        [] OTHER -> so
  BY DEF WithEvent
<1>4. ASSUME NEW append \in BOOLEAN, NEW x \in Seq(Nat), x \notin {Thinking, NoAnswer, <<>>},
             IF so.open THEN x = HistoryText(c, e.text, append) ELSE x = <<e.text>>
      PROVE  ReadAlike(upsert(append), x)
  <2>1. CASE so.open
    <3>1. n = 2 /\ so.list[2].content = c
      BY <2>1 DEF ReadAlike
    <3> DEFINE l == [so.list EXCEPT ![2].content = HistoryText(@, e.text, append)]
    <3>2. upsert(append) = [list |-> l, open |-> TRUE]
      BY <2>1, <3>1
    <3>3. so.list[2] \in Told /\ 2 \in DOMAIN so.list
      BY <1>1, <3>1
    <3>4. Len(l) = 2 /\ l[2].content = HistoryText(so.list[2].content, e.text, append)
      BY <1>1, <3>1, <3>3 DEF Told
    <3>5. l[2].content = x
      BY <1>4, <2>1, <3>1, <3>4
    <3> HIDE DEF l, upsert
    <3> QED BY <1>4, <3>2, <3>4, <3>5 DEF ReadAlike
  <2>2. CASE ~so.open
    <3> DEFINE w == Message(<<0, n + 1>>, "assistant", agent, <<e.text>>, "done")
               l == Append(so.list, w)
    <3>1. n = 1
      BY <2>2 DEF ReadAlike
    <3>2. upsert(append) = [list |-> l, open |-> TRUE]
      BY <2>2
    <3>3. w.content = <<e.text>> /\ w \in Told
      <4>1. w \in Told
        BY <3>1, ToldIs
      <4> QED BY <4>1 DEF Message
    <3> HIDE DEF w
    <3>4. Len(l) = 2 /\ l[2] = w
      <4>1. so.list \in Seq(Told) /\ w \in Told /\ Len(so.list) = 1
        BY <1>1, <3>1, <3>3
      <4> QED BY <4>1, SecondIs
    <3> HIDE DEF l, upsert
    <3> QED BY <1>4, <2>2, <3>2, <3>3, <3>4 DEF ReadAlike
  <2> QED BY <1>1, <2>1, <2>2
<1> HIDE DEF upsert, add, asks, d
<1>5. <<e.text>> \in Seq(Nat) /\ <<e.text>> # <<>>
  OBVIOUS
<1>6. CASE e.text # 0 /\ e.type \in SetsContent
  <2>1. WithEvent(so, e, agent) = upsert(FALSE) /\ d = <<e.text>>
    BY <1>2, <1>3, <1>6 DEF SetsContent
  <2>2. HistoryText(c, e.text, FALSE) = <<e.text>>
    BY DEF HistoryText
  <2>3. ReadAlike(upsert(FALSE), <<e.text>>)
    BY <1>4, <1>5, <2>2
  <2> QED BY <2>1, <2>3 DEF d
<1>7. CASE e.text # 0 /\ e.type = "content.delta"
  <2>1. WithEvent(so, e, agent) = upsert(TRUE) /\ d = IF c = Thinking THEN <<e.text>> ELSE Append(c, e.text)
    BY <1>2, <1>3, <1>7 DEF SetsContent
  <2>2. CASE c = Thinking
    <3>1. ~so.open
      BY <2>2 DEF ReadAlike
    <3>2. ReadAlike(upsert(TRUE), <<e.text>>)
      BY <1>4, <1>5, <3>1
    <3> QED BY <2>1, <2>2, <3>2 DEF d
  <2>3. CASE c # Thinking
    <3>1. so.open /\ c # <<>>
      BY <2>3 DEF ReadAlike
    <3> DEFINE x == Append(c, e.text)
    <3>2. x \in Seq(Nat) /\ Len(x) = Len(c) + 1 /\ Len(c) \in Nat /\ Len(c) # 0
      BY <1>1, <3>1
    <3>3. x = HistoryText(c, e.text, TRUE)
      BY DEF HistoryText
    <3> HIDE DEF x
    <3>4. x \notin {Thinking, NoAnswer, <<>>}
      <4>1. Len(Thinking) = 1 /\ Len(NoAnswer) = 1
        BY DEF Thinking, NoAnswer
      <4>2. Len(x) # 1 /\ Len(x) # 0
        BY ONLY <3>2
      <4>3. x # Thinking /\ x # NoAnswer
        BY <4>1, <4>2
      <4>4. x # <<>>
        BY <4>2
      <4> QED BY <4>3, <4>4
    <3>5. ReadAlike(upsert(TRUE), x)
      BY <1>4, <3>1, <3>2, <3>3, <3>4
    <3> QED BY <2>1, <2>3, <3>5 DEF d, x
  <2> QED BY <2>2, <2>3
<1>8. CASE e.text = 0 \/ (e.type \notin SetsContent /\ e.type # "content.delta")
  <2>1. WithEvent(so, e, agent) = so
    <3>1. CASE e.text = 0
      BY <1>3, <3>1
    <3>3. CASE e.text # 0 /\ e.type \notin SetsContent /\ e.type # "content.delta"
      <4>1. e.type # "request.query" /\ e.type # "run.complete"
        OBVIOUS
      <4> QED BY <1>3, <3>3, <4>1 DEF SetsContent
    <3> QED BY <1>8, <3>1, <3>3
  <2>2. d = c
    BY <1>2, <1>8
  <2> QED BY <2>1, <2>2 DEF d
<1> QED BY <1>6, <1>7, <1>8

(* The question alone.                                                     *)
LEMMA QuestionRead ==
  ASSUME NEW agent \in Nat
  PROVE  /\ Len(Reading(<<question>>, agent).list) = 1
         /\ ~Reading(<<question>>, agent).open
<1>1. Len(<<question>>) = 1 /\ <<question>>[1] = question /\ 1 \in Nat
  OBVIOUS
<1>2. PICK read : ReadsSo(read, <<question>>, agent, 1) /\ Reading(<<question>>, agent) = read[1]
  BY <1>1, ReadingIs
<1>3. 1 \in 1 .. 1 /\ 1 - 1 = 0
  OBVIOUS
<1> DEFINE none == [list |-> <<>>, open |-> FALSE]
<1>4. read[1] = WithEvent(none, question, agent)
  BY <1>1, <1>2, <1>3 DEF ReadsSo
<1>5. question.text = 1 /\ question.type = "request.query"
  BY DEF question
<1> DEFINE asked == [list |-> Append(<<>>, Message(<<0, 1>>, "user", agent, <<1>>, "done")),
                     open |-> FALSE]
<1>6. WithEvent(none, question, agent) = asked
  <2> DEFINE n == Len(none.list)
             add(role) == Append(none.list, Message(<<0, n + 1>>, role, agent, <<question.text>>, "done"))
             upsert(append) ==
               [list |-> IF none.open
                         THEN [none.list EXCEPT ![n].content = HistoryText(@, question.text, append)]
                         ELSE add("assistant"),
                open |-> TRUE]
             asks == [list |-> add("user"), open |-> FALSE]
  <2>1. WithEvent(none, question, agent) =
          IF question.text = 0 THEN none
          ELSE CASE question.type = "request.query" -> asks
          [] question.type \in SetsContent \cup {"run.complete"} -> upsert(FALSE)
          [] question.type = "content.delta" -> upsert(TRUE)
          [] OTHER -> none
    BY DEF WithEvent
  <2>2. asks = asked
    BY <1>5
  <2> HIDE DEF add, upsert, asks, asked, none
  <2>3. WithEvent(none, question, agent) = asks
    BY <1>5, <2>1 DEF SetsContent
  <2> QED BY <2>2, <2>3
<1>7. Len(Append(<<>>, Message(<<0, 1>>, "user", agent, <<1>>, "done"))) = 1
  OBVIOUS
<1> QED BY <1>2, <1>4, <1>6, <1>7

-----------------------------------------------------------------------------
(* A conversation that is loaded.                                          *)

(* Two places for each run.                                                *)
LEMMA HalfOf ==
  ASSUME NEW n \in Nat, NEW i \in 1 .. 2 * n
  PROVE  (i + 1) \div 2 \in 1 .. n
BY Z3

(* The messages made of runs, and those made of a conversation.            *)
LEMMA FromRuns ==
  ASSUME NEW runs \in Seq([question : Nat, answer : Nat]), NEW agent \in Nat
  PROVE  createMessagesFromRuns(runs, agent) \in Seq(Told)
<1> DEFINE Said == {"user", "assistant"} \X Nat
           texts == [i \in 1 .. 2 * Len(runs) |->
                  LET run == runs[(i + 1) \div 2]
                  IN  IF i % 2 = 1 THEN <<"user", run.question>>
                                   ELSE <<"assistant", run.answer>>]
           P == {i \in DOMAIN texts : texts[i][2] # 0}
           said == ItemsAt(texts, P)
<1>1. createMessagesFromRuns(runs, agent) =
        [i \in DOMAIN said |-> Message(<<0, i>>, said[i][1], agent, <<said[i][2]>>, "done")]
  BY DEF createMessagesFromRuns, Filtered
<1>2. texts \in Seq(Said)
  <2>0. Len(runs) \in Nat /\ \A j \in 1 .. Len(runs) : runs[j] \in [question : Nat, answer : Nat]
    <3> DEFINE Run == [question : Nat, answer : Nat]
    <3>1. runs \in Seq(Run)
      OBVIOUS
    <3> HIDE DEF Run
    <3>2. Len(runs) \in Nat /\ \A j \in 1 .. Len(runs) : runs[j] \in Run
      BY ONLY <3>1
    <3> QED BY <3>2 DEF Run
  <2>1. Len(runs) \in Nat /\ \A j \in 1 .. Len(runs) : runs[j].question \in Nat /\ runs[j].answer \in Nat
    BY <2>0
  <2>2. ASSUME NEW i \in 1 .. 2 * Len(runs)
        PROVE  texts[i] \in Said
    <3> DEFINE run == runs[(i + 1) \div 2]
    <3>1. run.question \in Nat /\ run.answer \in Nat
      BY <2>1, HalfOf
    <3>2. texts[i] = IF i % 2 = 1 THEN <<"user", run.question>> ELSE <<"assistant", run.answer>>
      OBVIOUS
    <3> HIDE DEF texts, run
    <3> QED BY <3>1, <3>2
  <2>3. 2 * Len(runs) \in Nat /\ texts = [i \in 1 .. 2 * Len(runs) |-> texts[i]]
    BY <2>1
  <2> DEFINE n == 2 * Len(runs)
  <2> HIDE DEF texts, n, Said
  <2>4. texts \in [1 .. n -> Said] /\ n \in Nat
    BY <2>2, <2>3 DEF n
  <2> QED BY ONLY <2>4
<1>3. P \in SUBSET DOMAIN texts
  OBVIOUS
<1> HIDE DEF texts, P, Said
<1>4. said \in Seq(Said)
  BY <1>2, <1>3, KeptItems
<1> HIDE DEF said
<1>5. Len(said) \in Nat /\ DOMAIN said = 1 .. Len(said) /\ \A i \in 1 .. Len(said) : said[i] \in Said
  BY <1>4
<1>6. ASSUME NEW i \in 1 .. Len(said)
      PROVE  Message(<<0, i>>, said[i][1], agent, <<said[i][2]>>, "done") \in Told
  <2>1. i \in Nat /\ said[i][1] \in {"user", "assistant"} /\ said[i][2] \in Nat
    BY <1>5 DEF Said
  <2> QED BY <2>1, ToldIs
<1> DEFINE t == createMessagesFromRuns(runs, agent)  n == Len(said)
<1>7. t \in [1 .. n -> Told] /\ n \in Nat
  BY <1>1, <1>5, <1>6
<1> HIDE DEF t, n
<1>8. t \in Seq(Told)
  BY ONLY <1>7
<1> QED BY <1>8 DEF t

LEMMA FromDetail ==
  ASSUME NEW detail \in [runs : Seq([question : Nat, answer : Nat]), events : Seq(StreamEvent)],
         NEW chat \in ListedChat, NEW agent \in Nat
  PROVE  createMessagesFromChatDetail(detail, chat, agent) \in Seq(Told)
<1>1. createMessagesFromRuns(detail.runs, agent) \in Seq(Told)
  BY FromRuns
<1>2. createMessagesFromEvents(detail.events, agent) \in Seq(Told)
  <2> DEFINE events == detail.events
  <2>1. events \in Seq(StreamEvent)
    OBVIOUS
  <2> HIDE DEF events
  <2>2. Len(events) \in Nat /\ \A i \in 1 .. Len(events) : events[i] \in StreamEvent
    BY <2>1
  <2>3. \A i \in 1 .. Len(events) : events[i].text \in Nat
    BY <2>2 DEF StreamEvent
  <2>4. Reading(events, agent) \in Readings
    BY <2>2, <2>3, ReadingTypes
  <2> QED BY <2>4 DEF createMessagesFromEvents, Readings, events
<1>3. <<Message(<<0, 1>>, "assistant", agent, <<chat.lastRunContent>>, "done")>> \in Seq(Told)
  <2> DEFINE m == Message(<<0, 1>>, "assistant", agent, <<chat.lastRunContent>>, "done")
  <2>1. chat.lastRunContent \in Nat
    BY DEF ListedChat
  <2>2. m \in Told
    BY <2>1, ToldIs
  <2> HIDE DEF m
  <2>3. <<m>> \in Seq(Told)
    BY <2>2
  <2> QED BY <2>3 DEF m
<1>4. <<>> \in Seq(Told)
  OBVIOUS
<1> DEFINE a == createMessagesFromRuns(detail.runs, agent)
           b == createMessagesFromEvents(detail.events, agent)
           c == <<Message(<<0, 1>>, "assistant", agent, <<chat.lastRunContent>>, "done")>>
<1>5. createMessagesFromChatDetail(detail, chat, agent) =
        IF a # <<>> THEN a ELSE IF b # <<>> THEN b ELSE IF chat.lastRunContent = 0 THEN <<>> ELSE c
  BY DEF createMessagesFromChatDetail
<1> HIDE DEF a, b, c
<1>6. createMessagesFromChatDetail(detail, chat, agent) \in {a, b, <<>>, c}
  BY <1>5
<1> QED BY <1>1, <1>2, <1>3, <1>4, <1>6 DEF a, b, c

-----------------------------------------------------------------------------
(* The parts of the invariant of the conversations.                        *)

(* Who is known, and who is selected.                                      *)
AgentsKnown ==
  /\ desktopAgents \in Seq(ListedAgent) /\ platformAgents \in Seq(ListedAgent)
  /\ \A i \in DOMAIN desktopAgents : OneRowEach(desktopAgents[i].recentChats)
  /\ \A i \in DOMAIN platformAgents : OneRowEach(platformAgents[i].recentChats)
  /\ IF allAgents = <<>> THEN selectedAgentKey = 0
                         ELSE selectedAgentKey \in KeysOf(allAgents)

(* What the drawer shows.                                                  *)
DrawerShown == chatHistory \in Seq(ListedChat) /\ OneRowEach(chatHistory)

(* A query or a request for history.                                       *)
CallRecord ==
  [id : Nat, op : {"query", "chats", "chat"}, agent : Nat, chat : ListedChat,
   cached : Seq(ListedChat)]

(* Each call has a number of its own; a query waits until its promise is   *)
(* settled.                                                                *)
CallsNumbered ==
  /\ calls \in Nat /\ calls <= MaxCalls
  /\ waiting \subseteq CallRecord
  /\ \A c \in waiting : c.id \in 1 .. calls
  /\ \A c, d \in waiting : c.id = d.id => c = d
  /\ ended \subseteq 1 .. calls
  /\ \A c \in Queries : c.id \notin ended

(* Nothing was sent to queries that were not made.                         *)
StreamsKept ==
  /\ stream \in [1 .. MaxCalls -> Seq(Sent)]
  /\ \A n \in 1 .. MaxCalls : n > calls => stream[n] = <<>>

(* No two messages of queries have the same id.                            *)
MessagesNumbered ==
  /\ messages \in Seq(Shown)
  /\ \A i \in DOMAIN messages : messages[i].id[1] <= calls
  /\ \A i, j \in DOMAIN messages :
       messages[i].id = messages[j].id /\ messages[i].id[1] # 0 => i = j

(* Read again, what a query was sent is what its message shows: while it   *)
(* goes on, and when it is over.                                           *)
GoesOn(events, m) == ReadAlike(Reading(<<question>> \o events, m.agent), m.content)

ReadsBack(events, m) ==
  LET list == Reading(<<question>> \o events, m.agent).list
  IN  m.status = "done" =>
        IF m.content = NoAnswer THEN Len(list) = 1
        ELSE Len(list) = 2 /\ list[2].content = m.content

(* What HistoryAgreesWithLive says, for every query that has a message.    *)
ReadingsAgree ==
  \A i \in DOMAIN messages, n \in 1 .. calls :
    messages[i].id = Assistant(n) /\ ContentOnly(stream[n]) =>
      IF n \in ended THEN ReadsBack(stream[n], messages[i])
                     ELSE GoesOn(stream[n], messages[i])

(* The other variables.                                                    *)
Others ==
  /\ online \in BOOLEAN /\ refreshing \in {"no", "both", "fallback"}
  /\ activeChatId \in Nat /\ historyOpen \in BOOLEAN
  /\ historyStatus \in {"idle", "loading", "error"}

-----------------------------------------------------------------------------

(* What a catalogue can be.                                                *)
Catalogue(agents) ==
  agents \in Seq(ListedAgent) /\ \A i \in DOMAIN agents : OneRowEach(agents[i].recentChats)

(* The lists that are answered are normalised to catalogues, and so is     *)
(* none.                                                                   *)
LEMMA CataloguesAre ==
  ASSUME NEW source \in {"desktop", "agent-platform"},
         NEW list \in DesktopLists \cup PlatformLists \cup {<<>>}
  PROVE  Catalogue(normalizeAgents(list, source))
<1>1. list \in Seq(RawAgent) /\ \A i \in DOMAIN list : NamedOnce(list[i])
  <2>1. CASE list = <<>>
    BY <2>1
  <2>2. CASE list \in DesktopLists \cup PlatformLists
    BY <2>2, CatalogueTypes DEF NamedOnce
  <2> QED BY <2>1, <2>2
<1> QED BY <1>1, AgentsAre DEF Catalogue

LEMMA NoneIsCatalogue == Catalogue(<<>>)
BY DEF Catalogue

(* Whatever catalogues are set, the selected agent is listed.              *)
LEMMA AgentsSet ==
  ASSUME NEW desktop, NEW platform, Catalogue(desktop), Catalogue(platform), SetAgents(desktop, platform)
  PROVE  AgentsKnown'
<1> DEFINE t == mergeAgents(desktop, platform)
<1>1. t \in Seq(ListedAgent)
  BY MergedAgents DEF Catalogue
<1>2. desktopAgents' = desktop /\ platformAgents' = platform /\ allAgents' = t
      /\ selectedAgentKey' = SelectedOf(t, selectedAgentKey)
  BY DEF SetAgents, allAgents
<1> HIDE DEF t
<1>3. IF t = <<>> THEN SelectedOf(t, selectedAgentKey) = 0
      ELSE SelectedOf(t, selectedAgentKey) \in KeysOf(t)
  <2>1. CASE t = <<>>
    <3>1. KeysOf(t) = {}
      BY <2>1 DEF KeysOf, ToSet
    <3> QED BY <2>1, <3>1 DEF SelectedOf
  <2>2. CASE t # <<>>
    <3>1. 1 \in DOMAIN t
      BY <1>1, <2>2
    <3>2. t[1].agentKey \in KeysOf(t)
      BY <3>1 DEF KeysOf, ToSet
    <3> QED BY <2>2, <3>2 DEF SelectedOf
  <2> QED BY <2>1, <2>2
<1>4. IF allAgents' = <<>> THEN selectedAgentKey' = 0 ELSE selectedAgentKey' \in KeysOf(allAgents')
  BY <1>2, <1>3
<1>5. /\ desktopAgents' \in Seq(ListedAgent) /\ platformAgents' \in Seq(ListedAgent)
      /\ \A i \in DOMAIN desktopAgents' : OneRowEach(desktopAgents'[i].recentChats)
      /\ \A i \in DOMAIN platformAgents' : OneRowEach(platformAgents'[i].recentChats)
  BY <1>2 DEF Catalogue
<1>6. KeysOf(allAgents)' = KeysOf(allAgents')
  BY DEF KeysOf
<1> QED BY <1>4, <1>5, <1>6 DEF AgentsKnown

(* What the page knows of the selected agent.                              *)
LEMMA SelectedIs ==
  ASSUME AgentsKnown
  PROVE  /\ selectedAgentKey \in Nat
         /\ selectedAgentRecentChats \in Seq(ListedChat) /\ OneRowEach(selectedAgentRecentChats)
<1> DEFINE t == allAgents
<1>1. desktopAgents \in Seq(ListedAgent) /\ platformAgents \in Seq(ListedAgent)
  BY DEF AgentsKnown
<1>2. /\ t \in Seq(ListedAgent)
      /\ \A k \in DOMAIN t :
              \/ \E i \in DOMAIN platformAgents : t[k] = platformAgents[i]
              \/ \E i \in DOMAIN desktopAgents : t[k] = desktopAgents[i]
  BY <1>1, MergedAgents DEF allAgents
<1>3. IF t = <<>> THEN selectedAgentKey = 0 ELSE selectedAgentKey \in KeysOf(t)
  BY DEF AgentsKnown
<1> HIDE DEF t
<1>4. \A a \in ToSet(t) : a \in ListedAgent /\ OneRowEach(a.recentChats)
  <2> TAKE a \in ToSet(t)
  <2>1. PICK k \in DOMAIN t : a = t[k]
    BY DEF ToSet
  <2>2. t[k] \in ListedAgent
    BY <1>2
  <2>3. OneRowEach(t[k].recentChats)
    BY <1>2 DEF AgentsKnown
  <2> QED BY <2>1, <2>2, <2>3
<1>5. \A a \in ListedAgent : a.agentKey \in Nat /\ a.recentChats \in Seq(ListedChat)
  BY DEF ListedAgent
<1>6. CASE t = <<>>
  <2>1. selectedAgentKey = 0 /\ selectedAgentRecentChats = <<>>
    BY <1>3, <1>6 DEF selectedAgentRecentChats
  <2> QED BY <2>1 DEF OneRowEach
<1>7. CASE t # <<>>
  <2>1. PICK a \in ToSet(t) : a.agentKey = selectedAgentKey
    BY <1>3, <1>7 DEF KeysOf
  <2>2. selectedAgentKey \in Nat
    BY <1>4, <1>5, <2>1
  <2>3. CASE selectedAgentKey = 0
    BY <2>2, <2>3 DEF selectedAgentRecentChats, OneRowEach
  <2>4. CASE selectedAgentKey # 0
    <3> DEFINE b == CHOOSE b \in ToSet(t) : b.agentKey = selectedAgentKey
    <3>1. b \in ToSet(t)
      BY <2>1
    <3>2. selectedAgentRecentChats = b.recentChats
      BY <2>4 DEF selectedAgentRecentChats, t
    <3> HIDE DEF b
    <3> QED BY <1>4, <1>5, <2>2, <3>1, <3>2
  <2> QED BY <2>3, <2>4
<1> QED BY <1>6, <1>7

-----------------------------------------------------------------------------
(* Agents, and what the drawer shows.                                      *)

(* The steps that change the agents; all others leave them.                *)
SetsAgents ==
  AgentsListed \/ PlatformFails \/ FallbackListed \/ Disconnect
    \/ \E key \in KeysOf(allAgents) : selectAgentKey(key)

LEMMA AgentsSameBut ==
  ASSUME [ChatNext]_chatVars
  PROVE  SetsAgents \/ UNCHANGED <<desktopAgents, platformAgents, selectedAgentKey>>
<1>1. SUFFICES ASSUME ChatNext, ~SetsAgents
               PROVE  UNCHANGED <<desktopAgents, platformAgents, selectedAgentKey>>
  BY DEF chatVars, agentVars
<1>2. CASE Connect \/ ClickRefreshAgents \/ runAgentQuery \/ startNewConversation
           \/ openHistory \/ ClickRefreshHistory \/ CloseHistory
  BY <1>2 DEF Connect, ClickRefreshAgents, runAgentQuery, startNewConversation, openHistory,
              ClickRefreshHistory, CloseHistory, agentVars
<1>3. CASE \E chat \in ToSet(chatHistory) : loadHistoryChat(chat)
  BY <1>3 DEF loadHistoryChat, agentVars
<1>4. CASE \E chat \in PushedChats, refreshes \in BOOLEAN : PushArrives(chat, refreshes)
  BY <1>4 DEF PushArrives
<1>5. CASE \E c \in Queries :
             \/ \E e \in Events : StreamFrame(c, e)
             \/ \E data \in Answers, chat \in PushedChats : QueryAnswered(c, data, chat)
             \/ QueryFails(c)
  BY <1>5 DEF StreamFrame, QueryAnswered, QueryFails, agentVars
<1>6. CASE \E c \in waiting : c.op = "chats" /\
             ((\E list \in ChatLists : ChatsListed(c, list)) \/ ChatsFail(c))
  BY <1>6 DEF ChatsListed, ChatsFail, agentVars
<1>7. CASE \E c \in waiting : c.op = "chat" /\
             ((\E detail \in Details : ChatLoaded(c, detail)) \/ ChatLoadFails(c))
  BY <1>7 DEF ChatLoaded, ChatLoadFails, agentVars
<1> QED BY <1>1, <1>2, <1>3, <1>4, <1>5, <1>6, <1>7 DEF ChatNext, SetsAgents

(* Each step keeps what is known of the agents,                            *)
LEMMA AgentsStep ==
  ASSUME AgentsKnown, [ChatNext]_chatVars
  PROVE  AgentsKnown'
<1>0. Catalogue(desktopAgents) /\ Catalogue(platformAgents) /\ Catalogue(<<>>)
  BY NoneIsCatalogue DEF AgentsKnown, Catalogue
<1>1. CASE UNCHANGED <<desktopAgents, platformAgents, selectedAgentKey>>
  BY <1>1 DEF AgentsKnown, allAgents, KeysOf
<1>2. CASE AgentsListed
  <2>1. PICK d \in DesktopLists \cup {<<>>}, p \in PlatformLists :
          SetAgents(normalizeAgents(d, "desktop"), normalizeAgents(p, "agent-platform"))
    BY <1>2 DEF AgentsListed
  <2>2. Catalogue(normalizeAgents(d, "desktop")) /\ Catalogue(normalizeAgents(p, "agent-platform"))
    BY CataloguesAre
  <2> QED BY <2>1, <2>2, AgentsSet
<1>3. CASE PlatformFails
  <2>1. PICK d \in DesktopLists \cup {<<>>} : SetAgents(normalizeAgents(d, "desktop"), platformAgents)
    BY <1>3 DEF PlatformFails
  <2>2. Catalogue(normalizeAgents(d, "desktop"))
    BY CataloguesAre
  <2> QED BY <1>0, <2>1, <2>2, AgentsSet
<1>4. CASE FallbackListed
  <2>1. PICK p \in PlatformLists \cup {<<>>} : SetAgents(desktopAgents, normalizeAgents(p, "agent-platform"))
    BY <1>4 DEF FallbackListed
  <2>2. Catalogue(normalizeAgents(p, "agent-platform"))
    BY CataloguesAre
  <2> QED BY <1>0, <2>1, <2>2, AgentsSet
<1>5. CASE Disconnect
  <2>1. CASE refreshing = "no"
    <3>1. UNCHANGED <<desktopAgents, platformAgents, selectedAgentKey>>
      BY <1>5, <2>1 DEF Disconnect
    <3> QED BY <1>1, <3>1
  <2>2. CASE refreshing = "both"
    <3>1. SetAgents(<<>>, <<>>)
      BY <1>5, <2>2 DEF Disconnect
    <3> QED BY <1>0, <3>1, AgentsSet
  <2>3. CASE refreshing # "no" /\ refreshing # "both"
    <3>1. SetAgents(desktopAgents, <<>>)
      BY <1>5, <2>3 DEF Disconnect
    <3> QED BY <1>0, <3>1, AgentsSet
  <2> QED BY <2>1, <2>2, <2>3
<1>6. CASE \E key \in KeysOf(allAgents) : selectAgentKey(key)
  <2>1. PICK key \in KeysOf(allAgents) : selectAgentKey(key)
    BY <1>6
  <2>2. selectedAgentKey' = key /\ desktopAgents' = desktopAgents /\ platformAgents' = platformAgents
        /\ allAgents' = allAgents /\ KeysOf(allAgents)' = KeysOf(allAgents)
    BY <2>1 DEF selectAgentKey, allAgents, KeysOf
  <2>3. allAgents # <<>>
    BY <2>1 DEF KeysOf, ToSet
  <2> QED BY <2>1, <2>2, <2>3 DEF AgentsKnown
<1> QED BY <1>1, <1>2, <1>3, <1>4, <1>5, <1>6, AgentsSameBut DEF SetsAgents

-----------------------------------------------------------------------------

(* and each conversation one row in the drawer.                            *)
LEMMA DrawerStep ==
  ASSUME AgentsKnown, DrawerShown, CallsNumbered, [ChatNext]_chatVars
  PROVE  DrawerShown'
<1>0. /\ selectedAgentRecentChats \in Seq(ListedChat) /\ OneRowEach(selectedAgentRecentChats)
      /\ chatHistory \in Seq(ListedChat) /\ OneRowEach(chatHistory)
  BY SelectedIs DEF DrawerShown
<1>1. CASE UNCHANGED chatHistory
  BY <1>0, <1>1 DEF DrawerShown, OneRowEach
<1>2. CASE chatHistory' = selectedAgentRecentChats
  BY <1>0, <1>2 DEF DrawerShown, OneRowEach
<1>3. ASSUME NEW c \in waiting, NEW list \in ChatLists, ChatsListed(c, list)
      PROVE  DrawerShown'
  <2>1. list \in Seq(RawChat) /\ c.agent \in Nat /\ c.cached \in Seq(ListedChat)
    BY CatalogueTypes DEF CallsNumbered, CallRecord
  <2>2. normalizeChatSummaries(list, c.agent) \in Seq(ListedChat)
    BY <2>1, ChatsAre
  <2> DEFINE t == mergeChatSummaries(normalizeChatSummaries(list, c.agent), c.cached)
  <2>3. t \in Seq(ListedChat) /\ OneRowEach(t)
    BY <2>1, <2>2, MergedChats
  <2>4. chatHistory' = t
    BY <1>3 DEF ChatsListed
  <2> HIDE DEF t
  <2> QED BY <2>3, <2>4 DEF DrawerShown, OneRowEach
<1>4. SUFFICES ASSUME ChatNext PROVE DrawerShown'
  BY <1>1 DEF chatVars, historyVars
<1>5. CASE Connect \/ Disconnect \/ AgentsListed \/ PlatformFails \/ FallbackListed \/ ClickRefreshAgents
           \/ runAgentQuery \/ startNewConversation \/ CloseHistory
           \/ \E key \in KeysOf(allAgents) : selectAgentKey(key)
  BY <1>1, <1>5 DEF Connect, Disconnect, AgentsListed, PlatformFails, FallbackListed, ClickRefreshAgents,
              runAgentQuery, startNewConversation, CloseHistory, selectAgentKey, historyVars
<1>6. CASE openHistory \/ ClickRefreshHistory
  <2>1. chatHistory' = selectedAgentRecentChats \/ UNCHANGED chatHistory
    BY <1>6 DEF openHistory, ClickRefreshHistory, refreshChatHistory
  <2> QED BY <1>1, <1>2, <2>1
<1>7. CASE \/ \E chat \in ToSet(chatHistory) : loadHistoryChat(chat)
           \/ \E chat \in PushedChats, refreshes \in BOOLEAN : PushArrives(chat, refreshes)
  BY <1>1, <1>7 DEF loadHistoryChat, PushArrives, historyVars
<1>8. CASE \E c \in Queries :
             \/ \E e \in Events : StreamFrame(c, e)
             \/ \E data \in Answers, chat \in PushedChats : QueryAnswered(c, data, chat)
             \/ QueryFails(c)
  BY <1>1, <1>8 DEF StreamFrame, QueryAnswered, QueryFails, historyVars
<1>9. CASE \E c \in waiting : c.op = "chats" /\
             ((\E list \in ChatLists : ChatsListed(c, list)) \/ ChatsFail(c))
  <2>1. (\E c \in waiting, list \in ChatLists : ChatsListed(c, list)) \/ \E c \in waiting : ChatsFail(c)
    BY <1>9
  <2> QED BY <1>1, <1>3, <2>1 DEF ChatsFail
<1>10. CASE \E c \in waiting : c.op = "chat" /\
             ((\E detail \in Details : ChatLoaded(c, detail)) \/ ChatLoadFails(c))
  BY <1>1, <1>10 DEF ChatLoaded, ChatLoadFails, historyVars
<1> QED BY <1>4, <1>5, <1>6, <1>7, <1>8, <1>9, <1>10 DEF ChatNext

-----------------------------------------------------------------------------
(* The numbers of the calls.                                               *)

(* A call is made; calls are settled.                                      *)
LEMMA CallMade ==
  ASSUME CallsNumbered, calls < MaxCalls, NEW c \in CallRecord, c.id = calls + 1,
         calls' = calls + 1, waiting' = waiting \cup {c}, ended' = ended
  PROVE  CallsNumbered'
<1>1. calls \in Nat /\ calls + 1 \in Nat /\ calls + 1 <= MaxCalls
  BY TalkTypes DEF CallsNumbered
<1>2. \A d \in waiting : d.id \in 1 .. calls /\ d.id # calls + 1 /\ d.id \in 1 .. calls + 1
  BY <1>1 DEF CallsNumbered
<1>3. \A d \in waiting' : d = c \/ d \in waiting
  OBVIOUS
<1>4. \A d \in waiting' : d.id \in 1 .. calls'
  BY <1>1, <1>2, <1>3
<1>5. \A d, e \in waiting' : d.id = e.id => d = e
  BY <1>2, <1>3 DEF CallsNumbered
<1>6. ended' \subseteq 1 .. calls' /\ calls + 1 \notin ended
  BY <1>1 DEF CallsNumbered
<1>7. \A d \in Queries' : d.id \notin ended'
  <2> TAKE d \in Queries'
  <2>1. d \in waiting' /\ d.op = "query"
    BY DEF Queries
  <2> QED BY <1>3, <1>6, <2>1 DEF CallsNumbered, Queries
<1> QED BY <1>1, <1>4, <1>5, <1>6, <1>7 DEF CallsNumbered

LEMMA CallsGone ==
  ASSUME CallsNumbered, UNCHANGED calls, waiting' \subseteq waiting, ended' \subseteq 1 .. calls,
         \A c \in waiting' : c.op = "query" => c.id \notin ended'
  PROVE  CallsNumbered'
<1>1. \A c \in Queries' : c.id \notin ended'
  BY DEF Queries
<1> QED BY <1>1 DEF CallsNumbered

(* A call of the selected agent.                                           *)
LEMMA CallIs ==
  ASSUME AgentsKnown, CallsNumbered, NEW op \in {"query", "chats", "chat"}, NEW chat \in ListedChat,
         NEW cached \in Seq(ListedChat)
  PROVE  Call(op, chat, cached) \in CallRecord /\ Call(op, chat, cached).id = calls + 1
         /\ Call(op, chat, cached).op = op
BY SelectedIs DEF CallsNumbered, Call, CallRecord

(* A conversation of which only the id is known.                           *)
LEMMA ChatWithIs ==
  ASSUME NEW id \in Nat
  PROVE  ChatWith(id) \in ListedChat
BY DEF ChatWith, ListedChat

(* Each step keeps the calls numbered apart, and no query waits that is    *)
(* settled.                                                                *)
LEMMA CallsStep ==
  ASSUME AgentsKnown, DrawerShown, CallsNumbered, activeChatId \in Nat, [ChatNext]_chatVars
  PROVE  CallsNumbered'
<1>0. /\ selectedAgentRecentChats \in Seq(ListedChat) /\ <<>> \in Seq(ListedChat)
      /\ ChatWith(activeChatId) \in ListedChat /\ ChatWith(0) \in ListedChat
  BY SelectedIs, ChatWithIs
<1>1. CASE UNCHANGED <<calls, waiting, ended>>
  BY <1>1 DEF CallsNumbered, Queries
<1>2. ASSUME NEW c \in waiting, UNCHANGED calls, waiting' = waiting \ {c},
             ended' = ended \cup {c.id} \/ (ended' = ended)
      PROVE  CallsNumbered'
  <2>1. ended' \subseteq 1 .. calls
    BY <1>2 DEF CallsNumbered
  <2>2. ASSUME NEW d \in waiting', d.op = "query"
        PROVE  d.id \notin ended'
    <3>1. d \in waiting /\ d # c /\ d.id # c.id
      BY <1>2 DEF CallsNumbered
    <3>2. d.id \notin ended
      BY <2>2, <3>1 DEF CallsNumbered, Queries
    <3> QED BY <1>2, <3>1, <3>2
  <2> QED BY <1>2, <2>1, <2>2, CallsGone
<1>3. SUFFICES ASSUME ChatNext PROVE CallsNumbered'
  BY <1>1 DEF chatVars, callVars
<1>4. CASE Connect \/ AgentsListed \/ PlatformFails \/ FallbackListed \/ ClickRefreshAgents
           \/ startNewConversation \/ CloseHistory
           \/ \E key \in KeysOf(allAgents) : selectAgentKey(key)
  BY <1>1, <1>4 DEF Connect, AgentsListed, PlatformFails, FallbackListed, ClickRefreshAgents,
              startNewConversation, CloseHistory, selectAgentKey, callVars
<1>5. CASE \E chat \in PushedChats, refreshes \in BOOLEAN : PushArrives(chat, refreshes)
  BY <1>1, <1>5 DEF PushArrives, callVars
<1>6. CASE runAgentQuery
  <2>1. CASE online
    <3> DEFINE c == Call("query", ChatWith(activeChatId), <<>>)
    <3>1. calls < MaxCalls /\ calls' = calls + 1 /\ waiting' = waiting \cup {c} /\ ended' = ended
      BY <1>6, <2>1 DEF runAgentQuery
    <3>2. c \in CallRecord /\ c.id = calls + 1
      BY <1>0, CallIs
    <3> HIDE DEF c
    <3> QED BY <3>1, <3>2, CallMade
  <2>2. CASE ~online
    <3>1. calls < MaxCalls /\ calls' = calls + 1 /\ waiting' = waiting /\ ended' = ended \cup {calls + 1}
      BY <1>6, <2>2 DEF runAgentQuery
    <3>2. calls \in Nat /\ calls + 1 \in Nat /\ calls + 1 <= MaxCalls
      BY <3>1, TalkTypes DEF CallsNumbered
    <3>3. \A d \in waiting : d.id \in 1 .. calls /\ d.id # calls + 1 /\ d.id \in 1 .. calls + 1
      BY <3>2 DEF CallsNumbered
    <3>4. ended' \subseteq 1 .. calls'
      BY <3>1, <3>2 DEF CallsNumbered
    <3>5. \A d \in Queries' : d.id \notin ended'
      BY <3>1, <3>3 DEF CallsNumbered, Queries
    <3> QED BY <3>1, <3>2, <3>3, <3>4, <3>5 DEF CallsNumbered
  <2> QED BY <2>1, <2>2
<1>7. ASSUME NEW force \in BOOLEAN, refreshChatHistory(force), UNCHANGED ended
      PROVE  CallsNumbered'
  <2>1. CASE UNCHANGED <<calls, waiting>>
    BY <1>1, <1>7, <2>1
  <2>2. CASE ~ UNCHANGED <<calls, waiting>>
    <3> DEFINE c == Call("chats", ChatWith(0), selectedAgentRecentChats)
    <3>1. calls < MaxCalls /\ calls' = calls + 1 /\ waiting' = waiting \cup {c} /\ ended' = ended
      BY <1>7, <2>2 DEF refreshChatHistory
    <3>2. c \in CallRecord /\ c.id = calls + 1
      BY <1>0, CallIs
    <3> HIDE DEF c
    <3> QED BY <3>1, <3>2, CallMade
  <2> QED BY <2>1, <2>2
<1>8. CASE openHistory
  BY <1>7, <1>8 DEF openHistory
<1>9. CASE ClickRefreshHistory
  <2>1. (refreshChatHistory(TRUE) \/ UNCHANGED <<calls, waiting>>) /\ UNCHANGED ended
    BY <1>9 DEF ClickRefreshHistory
  <2> QED BY <1>1, <1>7, <2>1
<1>10. CASE \E chat \in ToSet(chatHistory) : loadHistoryChat(chat)
  <2>1. PICK chat \in ToSet(chatHistory) : loadHistoryChat(chat)
    BY <1>10
  <2> DEFINE c == Call("chat", chat, <<>>)
  <2>2. calls < MaxCalls /\ calls' = calls + 1 /\ waiting' = waiting \cup {c} /\ ended' = ended
    BY <2>1 DEF loadHistoryChat
  <2>3. chat \in ListedChat
    BY DEF DrawerShown, ToSet
  <2>4. c \in CallRecord /\ c.id = calls + 1
    BY <1>0, <2>3, CallIs
  <2> HIDE DEF c
  <2> QED BY <2>2, <2>4, CallMade
<1>11. CASE \E c \in Queries :
             \/ \E e \in Events : StreamFrame(c, e)
             \/ \E data \in Answers, chat \in PushedChats : QueryAnswered(c, data, chat)
             \/ QueryFails(c)
  <2>1. PICK c \in Queries :
             \/ \E e \in Events : StreamFrame(c, e)
             \/ \E data \in Answers, chat \in PushedChats : QueryAnswered(c, data, chat)
             \/ QueryFails(c)
    BY <1>11
  <2>2. c \in waiting
    BY DEF Queries
  <2>3. CASE \E e \in Events : StreamFrame(c, e)
    BY <1>1, <2>3 DEF StreamFrame
  <2>4. CASE \E data \in Answers, chat \in PushedChats : QueryAnswered(c, data, chat)
    BY <1>2, <2>2, <2>4 DEF QueryAnswered, Settled
  <2>5. CASE QueryFails(c)
    BY <1>2, <2>2, <2>5 DEF QueryFails
  <2> QED BY <2>1, <2>3, <2>4, <2>5
<1>12. CASE \E c \in waiting : c.op = "chats" /\
             ((\E list \in ChatLists : ChatsListed(c, list)) \/ ChatsFail(c))
  BY <1>2, <1>12 DEF ChatsListed, ChatsFail
<1>13. CASE \E c \in waiting : c.op = "chat" /\
             ((\E detail \in Details : ChatLoaded(c, detail)) \/ ChatLoadFails(c))
  BY <1>2, <1>13 DEF ChatLoaded, ChatLoadFails
<1>14. CASE Disconnect
  <2>1. waiting' = {} /\ calls' = calls /\ ended' = ended \cup {c.id : c \in Queries}
    BY <1>14 DEF Disconnect
  <2>2. \A c \in Queries : c.id \in 1 .. calls
    BY DEF Queries, CallsNumbered
  <2>3. ended' \subseteq 1 .. calls
    BY <2>1, <2>2 DEF CallsNumbered
  <2> QED BY <2>1, <2>3, CallsGone
<1> QED BY <1>3, <1>4, <1>5, <1>6, <1>8, <1>9, <1>10, <1>11, <1>12, <1>13, <1>14 DEF ChatNext

-----------------------------------------------------------------------------
(* The steps of the talk, and the streams.                                 *)

(* A query that waits.                                                     *)
LEMMA QueryIs ==
  ASSUME CallsNumbered, NEW c \in Queries
  PROVE  /\ c \in waiting /\ c.op = "query" /\ c.id \in 1 .. calls /\ c.id \in 1 .. MaxCalls
         /\ c.id \in Nat /\ c.id # 0 /\ c.id \notin ended
<1>1. calls \in Nat /\ MaxCalls \in Nat /\ calls <= MaxCalls
  BY TalkTypes DEF CallsNumbered
<1>2. c \in waiting /\ c.op = "query" /\ c.id \in 1 .. calls /\ c.id \notin ended
  BY DEF CallsNumbered, Queries
<1> QED BY <1>1, <1>2

(* What frames and answers add to a stream.                                *)
LEMMA EventsAreSent ==
  /\ \A e \in Events : e \in Sent /\ e.text \in Nat /\ e.chatId \in Nat
  /\ [type |-> "response", text |-> 0, chatId |-> 0] \in Sent
<1>1. ASSUME NEW e \in Events
      PROVE  e \in Sent /\ e.text \in Nat /\ e.chatId \in Nat
  <2>1. e \in StreamEvent
    BY TalkTypes
  <2>2. e.type \in SentTypes
    BY DEF SentTypes
  <2>3. e.text \in Nat /\ e.chatId \in Nat
    BY <2>1 DEF StreamEvent
  <2>4. e = [type |-> e.type, text |-> e.text, chatId |-> e.chatId]
    BY <2>1 DEF StreamEvent
  <2> QED BY <2>2, <2>3, <2>4 DEF Sent
<1>2. "response" \in SentTypes
  BY DEF SentTypes
<1> QED BY <1>1, <1>2 DEF Sent

(* Calls that are made leave the streams; a frame is put after the others. *)
LEMMA StreamsStay ==
  ASSUME StreamsKept, UNCHANGED stream, calls' >= calls, calls \in Nat, calls' \in Nat
  PROVE  StreamsKept'
<1>1. \A n \in 1 .. MaxCalls : n > calls' => n > calls
  BY TalkTypes
<1> QED BY <1>1 DEF StreamsKept

LEMMA StreamGrows ==
  ASSUME StreamsKept, CallsNumbered, UNCHANGED calls, NEW c \in Queries, NEW e \in Sent,
         stream' = [stream EXCEPT ![c.id] = Append(@, e)]
  PROVE  /\ StreamsKept'
         /\ stream'[c.id] = Append(stream[c.id], e)
         /\ \A n \in 1 .. MaxCalls : n # c.id => stream'[n] = stream[n]
<1>1. c.id \in 1 .. MaxCalls /\ c.id \in 1 .. calls /\ calls \in Nat
  BY QueryIs DEF CallsNumbered
<1>2. stream[c.id] \in Seq(Sent) /\ stream \in [1 .. MaxCalls -> Seq(Sent)]
  BY <1>1 DEF StreamsKept
<1>3. Append(stream[c.id], e) \in Seq(Sent)
  BY <1>2
<1>4. /\ stream'[c.id] = Append(stream[c.id], e)
      /\ \A n \in 1 .. MaxCalls : n # c.id => stream'[n] = stream[n]
      /\ stream' \in [1 .. MaxCalls -> Seq(Sent)]
  BY <1>1, <1>2, <1>3
<1>5. \A n \in 1 .. MaxCalls : n > calls => n # c.id
  BY <1>1, TalkTypes
<1> QED BY <1>4, <1>5 DEF StreamsKept

(* The steps that no message and no stream sees.                           *)
TalkQuiet == UNCHANGED <<messages, stream, ended>> /\ Queries \subseteq Queries' /\ calls' >= calls

TalkCleared == messages' = <<>> /\ UNCHANGED <<calls, waiting, stream, ended>>

(* Any other step is one of these.                                         *)
LEMMA TalkSteps ==
  ASSUME CallsNumbered, [ChatNext]_chatVars
  PROVE  \/ TalkQuiet \/ TalkCleared \/ runAgentQuery \/ Disconnect
         \/ \E c \in Queries :
              \/ \E e \in Events : StreamFrame(c, e)
              \/ \E data \in Answers, chat \in PushedChats : QueryAnswered(c, data, chat)
              \/ QueryFails(c)
         \/ \E c \in waiting : c.op = "chat" /\ \E detail \in Details : ChatLoaded(c, detail)
<1>0. calls \in Nat /\ calls + 1 > calls
  BY DEF CallsNumbered
<1>1. CASE UNCHANGED <<messages, stream, ended, calls, waiting>>
  BY <1>0, <1>1 DEF TalkQuiet, Queries
<1>2. ASSUME UNCHANGED <<messages, stream, ended, calls>>, NEW c \in waiting, c.op \in {"chat", "chats"},
             waiting' = waiting \ {c}
      PROVE  TalkQuiet
  <2>1. Queries \subseteq Queries'
    BY <1>2 DEF Queries
  <2> QED BY <1>0, <1>2, <2>1 DEF TalkQuiet
<1>3. ASSUME UNCHANGED <<messages, stream, ended>>, calls' = calls + 1, NEW c,
             waiting' = waiting \cup {c}
      PROVE  TalkQuiet
  <2>1. Queries \subseteq Queries'
    BY <1>3 DEF Queries
  <2> QED BY <1>0, <1>3, <2>1 DEF TalkQuiet
<1>4. CASE UNCHANGED chatVars
  BY <1>1, <1>4 DEF chatVars, talkVars, callVars
<1>5. CASE Connect \/ AgentsListed \/ PlatformFails \/ FallbackListed \/ ClickRefreshAgents \/ CloseHistory
  BY <1>1, <1>5 DEF Connect, AgentsListed, PlatformFails, FallbackListed, ClickRefreshAgents,
              CloseHistory, callVars, talkVars
<1>6. CASE startNewConversation \/ \E key \in KeysOf(allAgents) : selectAgentKey(key)
  BY <1>6 DEF startNewConversation, selectAgentKey, callVars, TalkCleared
<1>7. CASE \E chat \in PushedChats, refreshes \in BOOLEAN : PushArrives(chat, refreshes)
  BY <1>1, <1>7 DEF PushArrives, callVars
<1>8. CASE openHistory
  <2>1. refreshChatHistory(FALSE) /\ UNCHANGED <<messages, stream, ended>>
    BY <1>8 DEF openHistory, talkVars
  <2> QED BY <1>1, <1>3, <2>1 DEF refreshChatHistory
<1>9. CASE ClickRefreshHistory
  <2>1. (refreshChatHistory(TRUE) \/ UNCHANGED <<calls, waiting>>) /\ UNCHANGED <<messages, stream, ended>>
    BY <1>9 DEF ClickRefreshHistory, talkVars
  <2> QED BY <1>1, <1>3, <2>1 DEF refreshChatHistory
<1>10. CASE \E chat \in ToSet(chatHistory) : loadHistoryChat(chat)
  BY <1>3, <1>10 DEF loadHistoryChat, talkVars
<1>11. CASE \E c \in waiting : c.op = "chats" /\
             ((\E list \in ChatLists : ChatsListed(c, list)) \/ ChatsFail(c))
  BY <1>2, <1>11 DEF ChatsListed, ChatsFail, talkVars
<1>12. CASE \E c \in waiting : c.op = "chat" /\ ChatLoadFails(c)
  BY <1>2, <1>12 DEF ChatLoadFails, talkVars
<1>13. SUFFICES ASSUME ChatNext
       PROVE  \/ TalkQuiet \/ TalkCleared \/ runAgentQuery \/ Disconnect
              \/ \E c \in Queries :
                   \/ \E e \in Events : StreamFrame(c, e)
                   \/ \E data \in Answers, chat \in PushedChats : QueryAnswered(c, data, chat)
                   \/ QueryFails(c)
              \/ \E c \in waiting : c.op = "chat" /\ \E detail \in Details : ChatLoaded(c, detail)
  BY <1>4
<1> QED BY <1>5, <1>6, <1>7, <1>8, <1>9, <1>10, <1>11, <1>12, <1>13, Zenon DEF ChatNext

(* Each step keeps the streams,                                            *)
LEMMA StreamsStep ==
  ASSUME StreamsKept, CallsNumbered, [ChatNext]_chatVars
  PROVE  StreamsKept'
<1>0. calls \in Nat
  BY DEF CallsNumbered
<1>1. CASE TalkQuiet
  <2>1. calls' \in Nat
    <3>1. calls' = calls \/ calls' = calls + 1
      BY DEF ChatNext, chatVars, callVars, Connect, Disconnect, AgentsListed, PlatformFails,
             FallbackListed, ClickRefreshAgents, selectAgentKey, runAgentQuery, startNewConversation,
             openHistory, ClickRefreshHistory, CloseHistory, loadHistoryChat, PushArrives,
             StreamFrame, QueryAnswered, QueryFails, ChatsListed, ChatsFail, ChatLoaded,
             ChatLoadFails, refreshChatHistory
    <3> QED BY <1>0, <3>1
  <2> QED BY <1>0, <1>1, <2>1, StreamsStay DEF TalkQuiet
<1>2. CASE TalkCleared
  BY <1>0, <1>2, StreamsStay DEF TalkCleared
<1>3. CASE runAgentQuery
  BY <1>0, <1>3, StreamsStay DEF runAgentQuery
<1>4. CASE Disconnect
  BY <1>0, <1>4, StreamsStay DEF Disconnect
<1>5. ASSUME NEW c \in Queries, NEW e \in Events, StreamFrame(c, e)
      PROVE  StreamsKept'
  BY <1>5, EventsAreSent, StreamGrows DEF StreamFrame
<1>6. ASSUME NEW c \in Queries, NEW data \in Answers, NEW chat \in PushedChats, QueryAnswered(c, data, chat)
      PROVE  StreamsKept'
  <2> DEFINE e == [type |-> "response", text |-> 0, chatId |-> 0]
  <2>1. e \in Sent /\ UNCHANGED calls
    BY <1>6, EventsAreSent DEF QueryAnswered
  <2>2. stream' = [stream EXCEPT ![c.id] = IF readAgentAnswer(data) = 0 THEN @ ELSE Append(@, e)]
    BY <1>6 DEF QueryAnswered
  <2> HIDE DEF e
  <2>3. CASE readAgentAnswer(data) = 0
    <3>1. UNCHANGED stream
      BY <2>2, <2>3 DEF StreamsKept
    <3> QED BY <1>0, <2>1, <3>1, StreamsStay
  <2>4. CASE readAgentAnswer(data) # 0
    <3>1. stream' = [stream EXCEPT ![c.id] = Append(@, e)]
      BY <2>2, <2>4
    <3> QED BY <2>1, <3>1, StreamGrows
  <2> QED BY <2>3, <2>4
<1>7. ASSUME NEW c \in Queries, QueryFails(c)
      PROVE  StreamsKept'
  BY <1>0, <1>7, StreamsStay DEF QueryFails
<1>8. ASSUME NEW c \in waiting, NEW detail \in Details, ChatLoaded(c, detail)
      PROVE  StreamsKept'
  BY <1>0, <1>8, StreamsStay DEF ChatLoaded
<1> QED BY <1>1, <1>2, <1>3, <1>4, <1>5, <1>6, <1>7, <1>8, TalkSteps

(* and the types of the rest.                                              *)
LEMMA OthersStep ==
  ASSUME Others, CallsNumbered, [ChatNext]_chatVars
  PROVE  Others'
<1>0. \A chat \in PushedChats : chat \in Nat
  BY TalkTypes
<1>1. \A chat \in Nat : NamedChat(chat) \in Nat
  BY DEF NamedChat, Others
<1>2. CASE UNCHANGED <<online, refreshing, activeChatId, historyOpen, historyStatus>>
  BY <1>2 DEF Others
<1>3. SUFFICES ASSUME ChatNext PROVE Others'
  BY <1>2 DEF chatVars, agentVars, talkVars, historyVars
<1>4. CASE Connect \/ AgentsListed \/ PlatformFails \/ FallbackListed \/ ClickRefreshAgents
  <2>1. /\ online' = online \/ online' = TRUE
        /\ refreshing' \in {"no", "both", "fallback"}
        /\ UNCHANGED <<activeChatId, historyOpen, historyStatus>>
    BY <1>4 DEF Connect, AgentsListed, PlatformFails, FallbackListed, ClickRefreshAgents, RefreshAgents,
                talkVars, historyVars
  <2> QED BY <2>1 DEF Others
<1>5. CASE runAgentQuery \/ startNewConversation \/ CloseHistory
           \/ \E key \in KeysOf(allAgents) : selectAgentKey(key)
  <2>1. /\ activeChatId' = activeChatId \/ activeChatId' = 0
        /\ historyOpen' = historyOpen \/ historyOpen' = FALSE
        /\ UNCHANGED <<online, refreshing, historyStatus>>
    BY <1>5 DEF runAgentQuery, startNewConversation, CloseHistory, selectAgentKey, agentVars,
                talkVars, historyVars
  <2>2. activeChatId' \in Nat
    BY <2>1 DEF Others
  <2>3. historyOpen' \in BOOLEAN
    BY <2>1 DEF Others
  <2>4. online' = online /\ refreshing' = refreshing /\ historyStatus' = historyStatus
    BY <2>1
  <2> QED BY <2>2, <2>3, <2>4 DEF Others
<1>6. CASE openHistory \/ ClickRefreshHistory
  BY <1>6 DEF openHistory, ClickRefreshHistory, refreshChatHistory, agentVars, talkVars, Others
<1>7. CASE \/ \E chat \in ToSet(chatHistory) : loadHistoryChat(chat)
           \/ \E chat \in PushedChats, refreshes \in BOOLEAN : PushArrives(chat, refreshes)
  BY <1>0, <1>1, <1>7 DEF loadHistoryChat, PushArrives, agentVars, talkVars, historyVars, Others
<1>8. CASE \E c \in Queries :
             \/ \E e \in Events : StreamFrame(c, e)
             \/ \E data \in Answers, chat \in PushedChats : QueryAnswered(c, data, chat)
             \/ QueryFails(c)
  BY <1>0, <1>1, <1>8, EventsAreSent DEF StreamFrame, QueryAnswered, QueryFails, RefreshAgents, agentVars,
              historyVars, Others
<1>9. CASE \E c \in waiting : c.op = "chats" /\
             ((\E list \in ChatLists : ChatsListed(c, list)) \/ ChatsFail(c))
  BY <1>9 DEF ChatsListed, ChatsFail, StatusAfterFailure, agentVars, talkVars, Others
<1>10. CASE \E c \in waiting : c.op = "chat" /\
             ((\E detail \in Details : ChatLoaded(c, detail)) \/ ChatLoadFails(c))
  <2>1. \A c \in waiting : c.chat.chatId \in Nat
    BY DEF CallsNumbered, CallRecord, ListedChat
  <2> QED BY <1>10, <2>1 DEF ChatLoaded, ChatLoadFails, agentVars, talkVars, historyVars, Others
<1>11. CASE Disconnect
  BY <1>11 DEF Disconnect, StatusAfterFailure, Others
<1> QED BY <1>3, <1>4, <1>5, <1>6, <1>7, <1>8, <1>9, <1>10, <1>11 DEF ChatNext

-----------------------------------------------------------------------------

(* The step changes no messages but those of the queries N.                *)
OnlyTheirs(N) ==
  /\ messages' \in Seq(Shown) /\ DOMAIN messages' = DOMAIN messages
  /\ \A i \in DOMAIN messages :
       /\ messages'[i].id = messages[i].id /\ messages'[i].agent = messages[i].agent
       /\ (\A n \in N : messages[i].id # Assistant(n)) => messages'[i] = messages[i]

(* So does updateMessage.                                                  *)
LEMMA MessageUpdated ==
  ASSUME messages \in Seq(Shown), NEW n, NEW updater,
         \A m \in ToSet(messages) : /\ updater[m] \in Shown
                                    /\ updater[m].id = m.id /\ updater[m].agent = m.agent,
         updateMessage(Assistant(n), updater)
  PROVE  /\ OnlyTheirs({n})
         /\ \A i \in DOMAIN messages : messages[i].id = Assistant(n) => messages'[i] = updater[messages[i]]
<1> DEFINE new(m) == IF m.id = Assistant(n) THEN updater[m] ELSE m
<1>1. messages' = [i \in DOMAIN messages |-> new(messages[i])]
  BY DEF updateMessage, Mapped
<1>2. DOMAIN messages = 1 .. Len(messages) /\ Len(messages) \in Nat
  OBVIOUS
<1>3. \A i \in DOMAIN messages : messages[i] \in Shown /\ messages[i] \in ToSet(messages)
  BY DEF ToSet
<1>4. \A i \in DOMAIN messages :
        /\ new(messages[i]) \in Shown
        /\ new(messages[i]).id = messages[i].id /\ new(messages[i]).agent = messages[i].agent
        /\ messages[i].id # Assistant(n) => new(messages[i]) = messages[i]
        /\ messages[i].id = Assistant(n) => new(messages[i]) = updater[messages[i]]
  BY <1>3
<1> HIDE DEF new
<1>5. DOMAIN messages' = DOMAIN messages /\ \A i \in DOMAIN messages : messages'[i] = new(messages[i])
  BY <1>1
<1>6. messages' \in Seq(Shown)
  <2> DEFINE k == Len(messages)
  <2>1. k \in Nat /\ messages' \in [1 .. k -> Shown]
    BY <1>1, <1>2, <1>4
  <2> HIDE DEF k
  <2> QED BY ONLY <2>1
<1> QED BY <1>4, <1>5, <1>6 DEF OnlyTheirs

(* An answer, a failure and a frame keep the id and the agent of a         *)
(* message.                                                                *)
LEMMA AnsweredIs ==
  ASSUME NEW m \in Shown, NEW answer \in Nat
  PROVE  /\ Answered(m, answer) \in Shown
         /\ Answered(m, answer).id = m.id /\ Answered(m, answer).agent = m.agent
         /\ Answered(m, answer).status = "done"
         /\ Answered(m, answer).content = IF answer # 0 THEN <<answer>>
                        ELSE IF m.content \in {Thinking, <<>>} THEN NoAnswer ELSE m.content
<1> DEFINE c == IF answer # 0 THEN <<answer>>
                ELSE IF m.content \in {Thinking, <<>>} THEN NoAnswer ELSE m.content
<1>1. Answered(m, answer) = With(m, c, "done")
  BY DEF Answered, With
<1>2. m.content \in Seq(Nat) /\ "done" \in Statuses
  BY DEF Shown, Statuses
<1>3. c \in Seq(Nat)
  BY <1>2 DEF NoAnswer
<1> HIDE DEF c
<1>4. With(m, c, "done") \in Shown /\ With(m, c, "done").id = m.id /\ With(m, c, "done").agent = m.agent
      /\ With(m, c, "done").status = "done" /\ With(m, c, "done").content = c
  BY <1>2, <1>3, WithIs
<1> QED BY <1>1, <1>4 DEF c

LEMMA RejectedIs ==
  ASSUME NEW m \in Shown
  PROVE  /\ Rejected(m) \in Shown
         /\ Rejected(m).id = m.id /\ Rejected(m).agent = m.agent
         /\ Rejected(m).status = "error"
<1>1. Rejected(m) = With(m, Failure, "error")
  BY DEF Rejected, With
<1>2. Failure \in Seq(Nat) /\ "error" \in Statuses
  BY DEF Failure, Statuses
<1> QED BY <1>1, <1>2, WithIs

LEMMA FrameIs ==
  ASSUME NEW m \in Shown, NEW e, e.text \in Nat
  PROVE  /\ Streamed(m, e) \in Shown
         /\ Streamed(m, e).id = m.id /\ Streamed(m, e).agent = m.agent
<1>1. \E s \in Statuses : \E c \in Seq(Nat) : Streamed(m, e) = With(m, c, s)
  BY StreamedIs
<1> QED BY <1>1, WithIs

-----------------------------------------------------------------------------
(* What the steps of the talk make of the messages.                        *)

(* A frame changes the message of its query,                               *)
LEMMA AfterFrame ==
  ASSUME messages \in Seq(Shown), NEW c \in Queries, NEW e \in Events, StreamFrame(c, e)
  PROVE  /\ OnlyTheirs({c.id})
         /\ \A i \in DOMAIN messages :
              messages[i].id = Assistant(c.id) => messages'[i] = Streamed(messages[i], e)
<1> DEFINE updater == [m \in ToSet(messages) |-> Streamed(m, e)]  n == c.id
<1>1. updateMessage(Assistant(n), updater)
  BY DEF StreamFrame
<1>2. \A i \in DOMAIN messages : messages[i] \in Shown /\ messages[i] \in ToSet(messages)
  BY DEF ToSet
<1>3. \A m \in ToSet(messages) : m \in Shown
  BY <1>2 DEF ToSet
<1>4. \A m \in ToSet(messages) : updater[m] = Streamed(m, e)
  OBVIOUS
<1> HIDE DEF updater, n
<1>5. \A m \in ToSet(messages) : updater[m] \in Shown /\ updater[m].id = m.id /\ updater[m].agent = m.agent
  BY <1>3, <1>4, EventsAreSent, FrameIs
<1>6. /\ OnlyTheirs({n})
      /\ \A i \in DOMAIN messages : messages[i].id = Assistant(n) => messages'[i] = updater[messages[i]]
  BY <1>1, <1>5, MessageUpdated
<1> QED BY <1>2, <1>4, <1>6 DEF n

(* so does an answer,                                                      *)
LEMMA AfterAnswer ==
  ASSUME messages \in Seq(Shown), NEW c \in Queries, NEW data \in Answers, NEW chat, QueryAnswered(c, data, chat)
  PROVE  /\ OnlyTheirs({c.id}) /\ readAgentAnswer(data) \in Nat
         /\ \A i \in DOMAIN messages :
              messages[i].id = Assistant(c.id) => messages'[i] = Answered(messages[i], readAgentAnswer(data))
<1> DEFINE a == readAgentAnswer(data)  updater == [m \in ToSet(messages) |-> Answered(m, a)]  n == c.id
<1>1. updateMessage(Assistant(n), updater)
  BY DEF QueryAnswered
<1>2. \A i \in DOMAIN messages : messages[i] \in Shown /\ messages[i] \in ToSet(messages)
  BY DEF ToSet
<1>3. \A m \in ToSet(messages) : m \in Shown
  BY <1>2 DEF ToSet
<1>4. \A m \in ToSet(messages) : updater[m] = Answered(m, a)
  OBVIOUS
<1>d. data \in Seq(Nat)
  BY TalkTypes
<1>a. a \in Nat
  BY <1>d, FirstTextIs DEF readAgentAnswer
<1> HIDE DEF updater, n, a
<1>5. \A m \in ToSet(messages) : updater[m] \in Shown /\ updater[m].id = m.id /\ updater[m].agent = m.agent
  <2> TAKE m \in ToSet(messages)
  <2>1. m \in Shown /\ updater[m] = Answered(m, a)
    BY <1>3, <1>4
  <2>2. Answered(m, a) \in Shown /\ Answered(m, a).id = m.id /\ Answered(m, a).agent = m.agent
    BY <1>a, <2>1, AnsweredIs
  <2> QED BY <2>1, <2>2
<1>6. /\ OnlyTheirs({n})
      /\ \A i \in DOMAIN messages : messages[i].id = Assistant(n) => messages'[i] = updater[messages[i]]
  BY <1>1, <1>5, MessageUpdated
<1> QED BY <1>2, <1>4, <1>6, <1>a DEF n, a

(* so does a failure.                                                      *)
LEMMA AfterFailure ==
  ASSUME messages \in Seq(Shown), NEW c \in Queries, QueryFails(c)
  PROVE  /\ OnlyTheirs({c.id})
         /\ \A i \in DOMAIN messages :
              messages[i].id = Assistant(c.id) => messages'[i] = Rejected(messages[i])
<1> DEFINE updater == [m \in ToSet(messages) |-> Rejected(m)]  n == c.id
<1>1. updateMessage(Assistant(n), updater)
  BY DEF QueryFails
<1>2. \A i \in DOMAIN messages : messages[i] \in Shown /\ messages[i] \in ToSet(messages)
  BY DEF ToSet
<1>3. \A m \in ToSet(messages) : m \in Shown
  BY <1>2 DEF ToSet
<1>4. \A m \in ToSet(messages) : updater[m] = Rejected(m)
  OBVIOUS
<1> HIDE DEF updater, n
<1>5. \A m \in ToSet(messages) : updater[m] \in Shown /\ updater[m].id = m.id /\ updater[m].agent = m.agent
  BY <1>3, <1>4, RejectedIs
<1>6. /\ OnlyTheirs({n})
      /\ \A i \in DOMAIN messages : messages[i].id = Assistant(n) => messages'[i] = updater[messages[i]]
  BY <1>1, <1>5, MessageUpdated
<1> QED BY <1>2, <1>4, <1>6 DEF n

(* The end of the session rejects the messages of all queries that wait.   *)
LEMMA AfterDisconnect ==
  ASSUME messages \in Seq(Shown), Disconnect
  PROVE  /\ OnlyTheirs({c.id : c \in Queries})
         /\ \A i \in DOMAIN messages :
              (\E c \in Queries : messages[i].id = Assistant(c.id)) => messages'[i] = Rejected(messages[i])
<1> DEFINE theirs(m) == \E c \in Queries : m.id = Assistant(c.id)
           new(m) == IF theirs(m) THEN Rejected(m) ELSE m
<1>1. messages' = [i \in DOMAIN messages |-> new(messages[i])]
  BY DEF Disconnect, Mapped
<1>2. DOMAIN messages = 1 .. Len(messages) /\ Len(messages) \in Nat
  OBVIOUS
<1>3. \A i \in DOMAIN messages : messages[i] \in Shown
  OBVIOUS
<1>t. \A i \in DOMAIN messages :
        (\A n \in {c.id : c \in Queries} : messages[i].id # Assistant(n)) => ~theirs(messages[i])
  OBVIOUS
<1> HIDE DEF theirs
<1>4. \A i \in DOMAIN messages :
        /\ new(messages[i]) \in Shown
        /\ new(messages[i]).id = messages[i].id /\ new(messages[i]).agent = messages[i].agent
        /\ ~theirs(messages[i]) => new(messages[i]) = messages[i]
        /\ theirs(messages[i]) => new(messages[i]) = Rejected(messages[i])
  BY <1>3, RejectedIs
<1> HIDE DEF new
<1>5. DOMAIN messages' = DOMAIN messages /\ \A i \in DOMAIN messages : messages'[i] = new(messages[i])
  BY <1>1
<1>6. messages' \in Seq(Shown)
  <2> DEFINE k == Len(messages)
  <2>1. k \in Nat /\ messages' \in [1 .. k -> Shown]
    BY <1>1, <1>2, <1>4
  <2> HIDE DEF k
  <2> QED BY ONLY <2>1
<1>7. OnlyTheirs({c.id : c \in Queries})
  BY <1>4, <1>5, <1>6, <1>t DEF OnlyTheirs
<1> QED BY <1>4, <1>5, <1>7 DEF theirs

(* The composer adds two messages, the second of which fails at once       *)
(* without a session.                                                      *)
LEMMA AfterAsking ==
  ASSUME messages \in Seq(Shown), AgentsKnown, CallsNumbered, runAgentQuery
  PROVE  LET k == Len(messages)
         IN  /\ messages' \in Seq(Shown) /\ k \in Nat
             /\ DOMAIN messages = 1 .. k /\ DOMAIN messages' = 1 .. k + 2
             /\ \A i \in 1 .. k : messages'[i] = messages[i]
             /\ messages'[k + 1].id = User(calls + 1) /\ messages'[k + 1].status = "done"
             /\ messages'[k + 2].id = Assistant(calls + 1)
             /\ messages'[k + 2].agent = selectedAgentKey
             /\ online => messages'[k + 2].content = Thinking
             /\ ~online => messages'[k + 2].status = "error"
<1> DEFINE k == Len(messages)
           asked == Message(User(calls + 1), "user", selectedAgentKey, <<>>, "done")
           begun == Message(Assistant(calls + 1), "assistant", selectedAgentKey, Thinking, "pending")
           second == IF online THEN begun ELSE Rejected(begun)
<1>1. messages' = messages \o <<asked, second>>
  BY DEF runAgentQuery
<1>2. selectedAgentKey \in Nat /\ calls + 1 \in Nat
  BY SelectedIs DEF CallsNumbered
<1>3. asked \in Shown /\ asked.id = User(calls + 1) /\ asked.status = "done"
  BY <1>2 DEF Message, User, Shown
<1>4. begun \in Shown /\ begun.id = Assistant(calls + 1) /\ begun.agent = selectedAgentKey
      /\ begun.content = Thinking
  BY <1>2 DEF Message, Assistant, Shown, Thinking
<1> HIDE DEF asked, begun
<1>5. /\ second \in Shown /\ second.id = Assistant(calls + 1) /\ second.agent = selectedAgentKey
      /\ online => second.content = Thinking
      /\ ~online => second.status = "error"
  BY <1>4, RejectedIs
<1> HIDE DEF second
<1>6. <<asked, second>> \in Seq(Shown) /\ Len(<<asked, second>>) = 2
  BY <1>3, <1>5
<1>7. k \in Nat /\ DOMAIN messages = 1 .. k
  OBVIOUS
<1>8. messages' \in Seq(Shown) /\ Len(messages') = k + 2 /\ DOMAIN messages' = 1 .. k + 2
  BY <1>1, <1>6
<1>9. /\ \A i \in 1 .. k : messages'[i] = messages[i]
      /\ messages'[k + 1] = asked /\ messages'[k + 2] = second
  BY <1>1, <1>6, <1>7
<1> QED BY <1>3, <1>5, <1>7, <1>8, <1>9

(* A conversation that is loaded has no message of a query.                *)
LEMMA AfterLoading ==
  ASSUME CallsNumbered, NEW c \in waiting, NEW detail \in Details, ChatLoaded(c, detail)
  PROVE  /\ messages' \in Seq(Shown)
         /\ \A i \in DOMAIN messages' : messages'[i].id[1] = 0 /\ messages'[i].status = "done"
<1>1. c.chat \in ListedChat /\ c.agent \in Nat
  BY DEF CallsNumbered, CallRecord
<1>2. detail \in [runs : Seq([question : Nat, answer : Nat]), events : Seq(StreamEvent)]
  BY TalkTypes
<1>3. createMessagesFromChatDetail(detail, c.chat, c.agent) \in Seq(Told)
  BY <1>1, <1>2, FromDetail
<1>4. messages' \in Seq(Told)
  BY <1>3 DEF ChatLoaded
<1>5. \A m \in Told : m \in Shown /\ m.id[1] = 0 /\ m.status = "done"
  <2> TAKE m \in Told
  <2>1. m.id \in {0} \X Nat /\ m.role \in {"user", "assistant"} /\ m.agent \in Nat
        /\ m.content \in Seq(Nat) /\ m.status = "done"
        /\ m = [id |-> m.id, role |-> m.role, agent |-> m.agent, content |-> m.content, status |-> m.status]
    BY DEF Told
  <2>2. m.id \in Nat \X Nat /\ m.id[1] = 0
    BY <2>1
  <2> QED BY <2>1, <2>2 DEF Shown
<1> DEFINE k == Len(messages')
<1>6. k \in Nat /\ messages' \in [1 .. k -> Told] /\ DOMAIN messages' = 1 .. k
  BY <1>4
<1> HIDE DEF k
<1>7. \A i \in 1 .. k : messages'[i] \in Told
  BY <1>6
<1>8. messages' \in [1 .. k -> Shown]
  BY <1>5, <1>6, <1>7
<1>9. messages' \in Seq(Shown)
  BY ONLY <1>6, <1>8
<1> QED BY <1>5, <1>6, <1>7, <1>9

-----------------------------------------------------------------------------
(* Messages keep numbers of their own, and none is left pending.           *)

(* What a step makes of the messages: those of settled queries stay, those *)
(* of queries that wait are changed by their own events only.              *)
(* Numbers stay apart when nothing changes, when messages change in place, *)
(* and when two are added.                                                 *)
LEMMA Kept ==
  ASSUME MessagesNumbered, UNCHANGED messages, calls \in Nat, calls' \in Nat, calls' >= calls
  PROVE  MessagesNumbered'
<1>1. \A i \in DOMAIN messages : messages[i].id[1] <= calls'
  <2> TAKE i \in DOMAIN messages
  <2>1. messages[i] \in Shown /\ messages[i].id[1] <= calls
    BY DEF MessagesNumbered
  <2>2. messages[i].id[1] \in Nat
    BY <2>1 DEF Shown
  <2> QED BY <2>1, <2>2
<1> QED BY <1>1 DEF MessagesNumbered

LEMMA TheirsNumbered ==
  ASSUME MessagesNumbered, NEW N, OnlyTheirs(N), UNCHANGED calls
  PROVE  MessagesNumbered'
BY DEF MessagesNumbered, OnlyTheirs

LEMMA AskedNumbered ==
  ASSUME MessagesNumbered, AgentsKnown, CallsNumbered, runAgentQuery
  PROVE  MessagesNumbered'
<1> DEFINE k == Len(messages)
<1>1. calls \in Nat /\ calls' = calls + 1 /\ messages \in Seq(Shown)
  BY DEF CallsNumbered, runAgentQuery, MessagesNumbered
<1>2. /\ messages' \in Seq(Shown) /\ k \in Nat
      /\ DOMAIN messages = 1 .. k /\ DOMAIN messages' = 1 .. k + 2
      /\ \A i \in 1 .. k : messages'[i] = messages[i]
      /\ messages'[k + 1].id = User(calls + 1)
      /\ messages'[k + 2].id = Assistant(calls + 1)
  BY <1>1, AfterAsking
<1>3. \A i \in 1 .. k : /\ messages[i].id[1] \in Nat
                        /\ messages[i].id[1] <= calls /\ messages[i].id[1] # calls + 1
  <2> TAKE i \in 1 .. k
  <2>1. messages[i] \in Shown /\ messages[i].id[1] <= calls
    BY <1>1, <1>2 DEF MessagesNumbered
  <2>2. messages[i].id[1] \in Nat
    BY <2>1 DEF Shown
  <2> QED BY <1>1, <2>1, <2>2
<1>4. /\ User(calls + 1)[1] = calls + 1 /\ Assistant(calls + 1)[1] = calls + 1
      /\ User(calls + 1) # Assistant(calls + 1)
  BY DEF User, Assistant
<1>5. \A i, j \in 1 .. k : messages[i].id = messages[j].id /\ messages[i].id[1] # 0 => i = j
  BY <1>2 DEF MessagesNumbered
<1>6. \A i \in 1 .. k + 2 : i \in 1 .. k \/ i = k + 1 \/ i = k + 2
  BY <1>2
<1> HIDE DEF k
<1>7. \A i \in 1 .. k + 2 : messages'[i].id[1] <= calls'
  <2> TAKE i \in 1 .. k + 2
  <2>1. CASE i \in 1 .. k
    <3>1. messages'[i].id[1] = messages[i].id[1] /\ messages[i].id[1] \in Nat /\ messages[i].id[1] <= calls
      BY <1>2, <1>3, <2>1
    <3> QED BY <1>1, <3>1
  <2>2. CASE i = k + 1
    BY <1>1, <1>2, <1>4, <2>2
  <2>3. CASE i = k + 2
    BY <1>1, <1>2, <1>4, <2>3
  <2> QED BY <1>6, <2>1, <2>2, <2>3
<1>8. \A i, j \in 1 .. k + 2 :
        messages'[i].id = messages'[j].id /\ messages'[i].id[1] # 0 => i = j
  <2> TAKE i, j \in 1 .. k + 2
  <2>1. \A x \in 1 .. k : messages'[x].id # User(calls + 1) /\ messages'[x].id # Assistant(calls + 1)
    BY <1>2, <1>3, <1>4
  <2>2. CASE i \in 1 .. k /\ j \in 1 .. k
    BY <1>2, <1>5, <2>2
  <2>3. CASE i \notin 1 .. k \/ j \notin 1 .. k
    BY <1>2, <1>4, <1>6, <2>1, <2>3
  <2> QED BY <2>2, <2>3
<1> QED BY <1>2, <1>7, <1>8 DEF MessagesNumbered

(* Each step keeps the messages numbered apart.                            *)
LEMMA MessagesStep ==
  ASSUME MessagesNumbered, AgentsKnown, CallsNumbered, CallsNumbered', [ChatNext]_chatVars
  PROVE  MessagesNumbered'
<1>0. calls \in Nat /\ calls' \in Nat /\ messages \in Seq(Shown)
  BY DEF CallsNumbered, MessagesNumbered
<1>1. CASE TalkQuiet
  BY <1>0, <1>1, Kept DEF TalkQuiet
<1>2. CASE TalkCleared
  BY <1>2 DEF TalkCleared, MessagesNumbered
<1>3. CASE runAgentQuery
  BY <1>3, AskedNumbered
<1>4. CASE Disconnect
  <2>1. OnlyTheirs({c.id : c \in Queries}) /\ UNCHANGED calls
    BY <1>0, <1>4, AfterDisconnect DEF Disconnect
  <2> QED BY <2>1, TheirsNumbered
<1>5. ASSUME NEW c \in Queries, NEW e \in Events, StreamFrame(c, e)
      PROVE  MessagesNumbered'
  <2>1. OnlyTheirs({c.id}) /\ UNCHANGED calls
    BY <1>0, <1>5, AfterFrame DEF StreamFrame
  <2> QED BY <2>1, TheirsNumbered
<1>6. ASSUME NEW c \in Queries, NEW data \in Answers, NEW chat \in PushedChats, QueryAnswered(c, data, chat)
      PROVE  MessagesNumbered'
  <2>1. OnlyTheirs({c.id}) /\ UNCHANGED calls
    BY <1>0, <1>6, AfterAnswer DEF QueryAnswered
  <2> QED BY <2>1, TheirsNumbered
<1>7. ASSUME NEW c \in Queries, QueryFails(c)
      PROVE  MessagesNumbered'
  <2>1. OnlyTheirs({c.id}) /\ UNCHANGED calls
    BY <1>0, <1>7, AfterFailure DEF QueryFails
  <2> QED BY <2>1, TheirsNumbered
<1>8. ASSUME NEW c \in waiting, NEW detail \in Details, ChatLoaded(c, detail)
      PROVE  MessagesNumbered'
  <2>1. /\ messages' \in Seq(Shown)
        /\ \A i \in DOMAIN messages' : messages'[i].id[1] = 0
    BY <1>8, AfterLoading
  <2> QED BY <1>0, <2>1 DEF MessagesNumbered
<1> QED BY <1>1, <1>2, <1>3, <1>4, <1>5, <1>6, <1>7, <1>8, TalkSteps

-----------------------------------------------------------------------------

(* PendingIsWorking, message by message.                                   *)
Working(m, working) == m.status = "pending" => \E c \in working : m.id = Assistant(c.id)

LEMMA WorkingIs == PendingIsWorking <=> \A i \in DOMAIN messages : Working(messages[i], Queries)
BY DEF PendingIsWorking, Working, ToSet

LEMMA WorkingThen ==
  ASSUME \A i \in DOMAIN messages' : Working(messages'[i], Queries')
  PROVE  PendingIsWorking'
BY DEF PendingIsWorking, Working, ToSet

(* Each of the queries that stop waiting leaves its message with a status  *)
(* of its own.                                                             *)
LEMMA TheirsWork ==
  ASSUME PendingIsWorking, NEW N, OnlyTheirs(N),
         \A c \in Queries : c.id \in N \/ c \in Queries',
         \A i \in DOMAIN messages : \A n \in N : messages[i].id = Assistant(n) => messages'[i].status # "pending"
  PROVE  PendingIsWorking'
<1> SUFFICES ASSUME NEW i \in DOMAIN messages', messages'[i].status = "pending"
    PROVE  \E c \in Queries' : messages'[i].id = Assistant(c.id)
  BY WorkingThen DEF Working
<1>1. /\ i \in DOMAIN messages /\ messages'[i].id = messages[i].id
      /\ (\A n \in N : messages[i].id # Assistant(n)) => messages'[i] = messages[i]
  BY DEF OnlyTheirs
<1>2. \A n \in N : messages[i].id # Assistant(n)
  BY <1>1
<1>3. messages[i].status = "pending"
  BY <1>1, <1>2
<1>4. PICK c \in Queries : messages[i].id = Assistant(c.id)
  BY <1>1, <1>3, WorkingIs DEF Working
<1> QED BY <1>1, <1>2, <1>4

(* Each step leaves only messages pending whose query waits.               *)
LEMMA PendingStep ==
  ASSUME PendingIsWorking, MessagesNumbered, AgentsKnown, CallsNumbered, [ChatNext]_chatVars
  PROVE  PendingIsWorking'
<1>0. messages \in Seq(Shown)
  BY DEF MessagesNumbered
<1>s. \A i \in DOMAIN messages : messages[i] \in Shown
  BY <1>0
<1>r. \A m \in Shown : Rejected(m).status # "pending"
  BY RejectedIs
<1>1. CASE TalkQuiet
  BY <1>1 DEF TalkQuiet, PendingIsWorking
<1>2. CASE TalkCleared
  <2>1. messages' = <<>>
    BY <1>2 DEF TalkCleared
  <2> QED BY <2>1 DEF PendingIsWorking, ToSet
<1>3. CASE runAgentQuery
  <2> DEFINE k == Len(messages)
  <2>1. /\ messages' \in Seq(Shown) /\ k \in Nat
        /\ DOMAIN messages = 1 .. k /\ DOMAIN messages' = 1 .. k + 2
        /\ \A i \in 1 .. k : messages'[i] = messages[i]
        /\ messages'[k + 1].status = "done"
        /\ messages'[k + 2].id = Assistant(calls + 1)
        /\ ~online => messages'[k + 2].status = "error"
    BY <1>0, <1>3, AfterAsking
  <2>2. \A i \in 1 .. k + 2 : i \in 1 .. k \/ i = k + 1 \/ i = k + 2
    BY <2>1
  <2>3. Queries \subseteq Queries'
    BY <1>3 DEF runAgentQuery, Queries
  <2>4. online => \E c \in Queries' : c.id = calls + 1
    <3> SUFFICES ASSUME online PROVE \E c \in Queries' : c.id = calls + 1
      OBVIOUS
    <3> DEFINE q == Call("query", ChatWith(activeChatId), <<>>)
    <3>1. q.op = "query" /\ q.id = calls + 1
      BY DEF Call
    <3>2. q \in waiting'
      BY <1>3 DEF runAgentQuery
    <3> HIDE DEF q
    <3> QED BY <3>1, <3>2 DEF Queries
  <2>5. \A i \in 1 .. k : Working(messages[i], Queries)
    BY <2>1, WorkingIs
  <2>6. online \/ ~online
    OBVIOUS
  <2> HIDE DEF k
  <2>7. \A i \in 1 .. k + 2 : Working(messages'[i], Queries')
    <3> TAKE i \in 1 .. k + 2
    <3>1. CASE i \in 1 .. k
      BY <2>1, <2>3, <2>5, <3>1 DEF Working
    <3>2. CASE i = k + 1
      BY <2>1, <3>2 DEF Working
    <3>3. CASE i = k + 2
      BY <2>1, <2>4, <2>6, <3>3 DEF Working
    <3> QED BY <2>2, <3>1, <3>2, <3>3
  <2> QED BY <2>1, <2>7, WorkingThen
<1>4. CASE Disconnect
  <2> DEFINE N == {c.id : c \in Queries}
  <2>1. /\ OnlyTheirs(N)
        /\ \A i \in DOMAIN messages :
              (\E c \in Queries : messages[i].id = Assistant(c.id)) => messages'[i] = Rejected(messages[i])
    BY <1>0, <1>4, AfterDisconnect
  <2>2. \A i \in DOMAIN messages : \A n \in N : messages[i].id = Assistant(n) => messages'[i].status # "pending"
    BY <1>s, <1>r, <2>1
  <2>3. \A c \in Queries : c.id \in N
    OBVIOUS
  <2> HIDE DEF N
  <2> QED BY <2>1, <2>2, <2>3, TheirsWork
<1>5. ASSUME NEW c \in Queries, NEW e \in Events, StreamFrame(c, e)
      PROVE  PendingIsWorking'
  <2>1. OnlyTheirs({c.id}) /\ Queries' = Queries
    BY <1>0, <1>5, AfterFrame DEF StreamFrame, Queries
  <2>2. \A i \in DOMAIN messages : messages'[i].id = messages[i].id
         /\ (messages[i].id = Assistant(c.id) \/ messages'[i] = messages[i])
         /\ DOMAIN messages' = DOMAIN messages
    BY <2>1 DEF OnlyTheirs
  <2>3. \A i \in DOMAIN messages : Working(messages'[i], Queries)
    BY <2>2, WorkingIs DEF Working
  <2>4. DOMAIN messages' = DOMAIN messages
    BY <2>1 DEF OnlyTheirs
  <2> QED BY <2>1, <2>3, <2>4, WorkingThen
<1>6. ASSUME NEW c \in Queries, NEW data \in Answers, NEW chat \in PushedChats, QueryAnswered(c, data, chat)
      PROVE  PendingIsWorking'
  <2>1. /\ OnlyTheirs({c.id}) /\ readAgentAnswer(data) \in Nat
        /\ \A i \in DOMAIN messages :
              messages[i].id = Assistant(c.id) => messages'[i] = Answered(messages[i], readAgentAnswer(data))
    BY <1>0, <1>6, AfterAnswer
  <2>2. \A m \in Shown : Answered(m, readAgentAnswer(data)).status # "pending"
    BY <2>1, AnsweredIs
  <2>3. \A d \in Queries : d.id \in {c.id} \/ d \in Queries'
    BY <1>6 DEF QueryAnswered, Settled, Queries
  <2>4. \A i \in DOMAIN messages : \A n \in {c.id} : messages[i].id = Assistant(n) => messages'[i].status # "pending"
    BY <1>s, <2>1, <2>2
  <2> QED BY <2>1, <2>3, <2>4, TheirsWork
<1>7. ASSUME NEW c \in Queries, QueryFails(c)
      PROVE  PendingIsWorking'
  <2>1. /\ OnlyTheirs({c.id})
        /\ \A i \in DOMAIN messages :
              messages[i].id = Assistant(c.id) => messages'[i] = Rejected(messages[i])
    BY <1>0, <1>7, AfterFailure
  <2>3. \A d \in Queries : d.id \in {c.id} \/ d \in Queries'
    BY <1>7 DEF QueryFails, Queries
  <2>4. \A i \in DOMAIN messages : \A n \in {c.id} : messages[i].id = Assistant(n) => messages'[i].status # "pending"
    BY <1>s, <1>r, <2>1
  <2> QED BY <2>1, <2>3, <2>4, TheirsWork
<1>8. ASSUME NEW c \in waiting, NEW detail \in Details, ChatLoaded(c, detail)
      PROVE  PendingIsWorking'
  <2>1. \A i \in DOMAIN messages' : messages'[i].status = "done"
    BY <1>8, AfterLoading
  <2> QED BY <2>1, WorkingThen DEF Working
<1> QED BY <1>1, <1>2, <1>3, <1>4, <1>5, <1>6, <1>7, <1>8, TalkSteps

-----------------------------------------------------------------------------
(* Messages whose query is settled stay as they are.                       *)

(* No step changes a message whose query is settled: the steps that change *)
(* messages are those of queries that wait, and ids do not recur.          *)
LEMMA SettledSteps ==
  ASSUME MessagesNumbered, AgentsKnown, CallsNumbered, [ChatNext]_chatVars,
         NEW m \in ToSet(messages), NEW n \in ToSet(messages'), m.id[1] \in ended, n.id = m.id
  PROVE  n = m
<1>0. messages \in Seq(Shown) /\ calls \in Nat /\ ended \subseteq 1 .. calls
  BY DEF MessagesNumbered, CallsNumbered
<1>1. PICK i \in DOMAIN messages : m = messages[i]
  BY DEF ToSet
<1>2. PICK j \in DOMAIN messages' : n = messages'[j]
  BY DEF ToSet
<1>3. m.id[1] # 0 /\ m.id[1] # calls + 1
  BY <1>0
<1>4. \A k \in DOMAIN messages : messages[k].id = messages[i].id => k = i
  BY <1>1, <1>3 DEF MessagesNumbered
<1>5. CASE UNCHANGED messages
  BY <1>1, <1>2, <1>4, <1>5
<1>6. ASSUME NEW N, OnlyTheirs(N), \A x \in N : x \notin ended
      PROVE  n = m
  <2>1. DOMAIN messages' = DOMAIN messages /\ messages'[j].id = messages[j].id
    BY <1>2, <1>6 DEF OnlyTheirs
  <2>2. j = i
    BY <1>1, <1>2, <1>4, <2>1
  <2>3. \A x \in N : messages[i].id # Assistant(x)
    <3> SUFFICES ASSUME NEW x \in N, messages[i].id = Assistant(x) PROVE FALSE
      OBVIOUS
    <3>1. m.id[1] = x
      BY <1>1 DEF Assistant
    <3> QED BY <1>6, <3>1
  <2> QED BY <1>1, <1>2, <1>6, <2>2, <2>3 DEF OnlyTheirs
<1>7. CASE TalkQuiet
  BY <1>5, <1>7 DEF TalkQuiet
<1>8. CASE TalkCleared
  BY <1>2, <1>8 DEF TalkCleared
<1>9. CASE runAgentQuery
  <2> DEFINE k == Len(messages)
  <2>1. /\ k \in Nat
        /\ DOMAIN messages = 1 .. k /\ DOMAIN messages' = 1 .. k + 2
        /\ \A x \in 1 .. k : messages'[x] = messages[x]
        /\ messages'[k + 1].id = User(calls + 1)
        /\ messages'[k + 2].id = Assistant(calls + 1)
    BY <1>0, <1>9, AfterAsking
  <2>2. j \in 1 .. k \/ j = k + 1 \/ j = k + 2
    BY <1>2, <2>1
  <2> HIDE DEF k
  <2>3. j \in 1 .. k
    <3>1. n.id[1] # calls + 1
      BY <1>3
    <3> QED BY <1>2, <2>1, <2>2, <3>1 DEF User, Assistant
  <2> QED BY <1>1, <1>2, <1>4, <2>1, <2>3
<1>10. CASE Disconnect
  <2> DEFINE N == {c.id : c \in Queries}
  <2>1. OnlyTheirs(N)
    BY <1>0, <1>10, AfterDisconnect
  <2>2. \A x \in N : x \notin ended
    BY QueryIs
  <2> HIDE DEF N
  <2> QED BY <1>6, <2>1, <2>2
<1>11. ASSUME NEW c \in Queries, OnlyTheirs({c.id})
       PROVE  n = m
  BY <1>6, <1>11, QueryIs
<1>12. ASSUME NEW c \in Queries, NEW e \in Events, StreamFrame(c, e)
       PROVE  n = m
  BY <1>0, <1>11, <1>12, AfterFrame
<1>13. ASSUME NEW c \in Queries, NEW data \in Answers, NEW chat \in PushedChats, QueryAnswered(c, data, chat)
       PROVE  n = m
  BY <1>0, <1>11, <1>13, AfterAnswer
<1>14. ASSUME NEW c \in Queries, QueryFails(c)
       PROVE  n = m
  BY <1>0, <1>11, <1>14, AfterFailure
<1>15. ASSUME NEW c \in waiting, NEW detail \in Details, ChatLoaded(c, detail)
       PROVE  n = m
  BY <1>2, <1>3, <1>15, AfterLoading
<1> QED BY <1>7, <1>8, <1>9, <1>10, <1>12, <1>13, <1>14, <1>15, TalkSteps

-----------------------------------------------------------------------------

-----------------------------------------------------------------------------
(* Read again, what a query was sent is what its message shows.            *)

(* Before the first event only the question is read.                       *)
LEMMA AskedAlone ==
  ASSUME NEW m \in Shown, m.content = Thinking
  PROVE  GoesOn(<<>>, m)
<1>1. m.agent \in Nat
  BY DEF Shown
<1>2. <<question>> \o <<>> = <<question>>
  OBVIOUS
<1> QED BY <1>1, <1>2, QuestionRead DEF GoesOn, ReadAlike

(* One event more.                                                         *)
LEMMA GoesOnSo ==
  ASSUME NEW events \in Seq(Sent), NEW e \in Sent, NEW m \in Shown, GoesOn(events, m),
         ContentOnly(Append(events, e))
  PROVE  GoesOn(Append(events, e), Streamed(m, e))
<1> DEFINE q == <<question>> \o events
           r == <<question>> \o Append(events, e)
<1>1. m.agent \in Nat
  BY DEF Shown
<1>2. \A x \in Sent : x.text \in Nat
  BY DEF Sent
<1>3. question.text \in Nat
  BY DEF question
<1>4. /\ Len(q) \in Nat /\ Len(r) = Len(q) + 1 /\ r[Len(q) + 1] = e
      /\ \A i \in 1 .. Len(q) : r[i] = q[i]
  <2>1. DEFINE A == Sent \cup {question}
  <2>2. q \in Seq(A) /\ events \in Seq(A) /\ <<question>> \in Seq(A) /\ e \in A
    OBVIOUS
  <2>3. r = Append(q, e)
    BY <2>2
  <2> HIDE DEF q, r, A
  <2>4. Len(q) \in Nat
    BY <2>2
  <2> QED BY <2>2, <2>3, <2>4, OneMore
<1>5. \A i \in 1 .. Len(q) : q[i].text \in Nat
  <2>1. Len(events) \in Nat /\ Len(q) = Len(events) + 1 /\ q[1] = question
    OBVIOUS
  <2>2. \A i \in 1 .. Len(events) : q[i + 1] = events[i] /\ events[i] \in Sent
    OBVIOUS
  <2> HIDE DEF q
  <2>3. \A i \in 1 .. Len(q) : i = 1 \/ (i - 1 \in 1 .. Len(events) /\ (i - 1) + 1 = i)
    BY <2>1
  <2> QED BY <1>2, <1>3, <2>1, <2>2, <2>3
<1>6. e \in ToSet(Append(events, e))
  BY OneMore DEF ToSet
<1>7. /\ e.type \notin {"request.query", "run.error", "run.complete", "response"}
      /\ <<e.text>> \notin {Thinking, NoAnswer}
  BY <1>6 DEF ContentOnly
<1> HIDE DEF q, r
<1>8. Reading(r, m.agent) = WithEvent(Reading(q, m.agent), e, m.agent)
  BY <1>4, ReadingGoesOn
<1>9. Reading(q, m.agent) \in Readings
  BY <1>1, <1>4, <1>5, ReadingTypes
<1>10. ReadAlike(Reading(q, m.agent), m.content)
  BY DEF GoesOn, q
<1>11. e.text \in Nat
  BY <1>2
<1>12. ReadAlike(WithEvent(Reading(q, m.agent), e, m.agent), Streamed(m, e).content)
  BY <1>1, <1>7, <1>9, <1>10, <1>11, AlikeGoesOn
<1>13. Streamed(m, e).agent = m.agent
  BY <1>11, FrameIs
<1> QED BY <1>8, <1>12, <1>13 DEF GoesOn, r

(* What is content only was so before its last event.                      *)
LEMMA OnlyContentBefore ==
  ASSUME NEW events \in Seq(Sent), NEW e \in Sent, ContentOnly(Append(events, e))
  PROVE  ContentOnly(events) /\ e.type # "response"
<1>1. \A x \in ToSet(events) \cup {e} : x \in ToSet(Append(events, e))
  <2>1. e \in ToSet(Append(events, e))
    BY OneMore DEF ToSet
  <2>2. ASSUME NEW x \in ToSet(events) PROVE x \in ToSet(Append(events, e))
    <3>1. PICK i \in DOMAIN events : x = events[i]
      BY DEF ToSet
    <3>2. i \in 1 .. Len(events) /\ i \in DOMAIN Append(events, e)
      OBVIOUS
    <3>3. Append(events, e)[i] = x
      BY <3>1, <3>2, OneMore
    <3> QED BY <3>2, <3>3 DEF ToSet
  <2> QED BY <2>1, <2>2
<1> QED BY <1>1 DEF ContentOnly

(* The end of it, without an answer of its own.                            *)
LEMMA ReadBackThen ==
  ASSUME NEW events, NEW m \in Shown, GoesOn(events, m)
  PROVE  ReadsBack(events, Answered(m, 0))
<1>1. /\ Answered(m, 0).agent = m.agent
      /\ Answered(m, 0).content = IF m.content \in {Thinking, <<>>} THEN NoAnswer ELSE m.content
  BY AnsweredIs
<1>2. Thinking # NoAnswer /\ <<>> # Thinking
  BY DEF Thinking, NoAnswer
<1> QED BY <1>1, <1>2 DEF ReadsBack, GoesOn, ReadAlike

(* ReadingsAgree of one message.                                           *)
ReadsWell(n, m, events, over) ==
  m.id = Assistant(n) /\ ContentOnly(events) =>
    /\ over => ReadsBack(events, m)
    /\ ~over => GoesOn(events, m)

LEMMA AgreeingIs ==
  ReadingsAgree <=> \A i \in DOMAIN messages, n \in 1 .. calls :
                       ReadsWell(n, messages[i], stream[n], n \in ended)
BY DEF ReadingsAgree, ReadsWell

LEMMA AgreeingThen ==
  ASSUME \A i \in DOMAIN messages', n \in 1 .. calls' :
            ReadsWell(n, messages'[i], stream'[n], n \in ended')
  PROVE  ReadingsAgree'
BY DEF ReadingsAgree, ReadsWell

(* The steps that change the messages of the queries N only.               *)
LEMMA TheirsAgree ==
  ASSUME ReadingsAgree, UNCHANGED calls, NEW N, OnlyTheirs(N),
         \A n \in 1 .. calls : n \notin N => stream'[n] = stream[n] /\ (n \in ended' <=> n \in ended),
         \A i \in DOMAIN messages, n \in N :
            messages[i].id = Assistant(n) /\ ContentOnly(stream'[n]) /\ n \in 1 .. calls =>
              /\ n \in ended' => ReadsBack(stream'[n], messages'[i])
              /\ n \notin ended' => GoesOn(stream'[n], messages'[i])
  PROVE  ReadingsAgree'
<1> SUFFICES ASSUME NEW i \in DOMAIN messages', NEW n \in 1 .. calls
    PROVE  ReadsWell(n, messages'[i], stream'[n], n \in ended')
  BY AgreeingThen
<1>1. i \in DOMAIN messages /\ messages'[i].id = messages[i].id
  BY DEF OnlyTheirs
<1>2. CASE n \in N
  BY <1>1, <1>2 DEF ReadsWell
<1>3. CASE n \notin N
  <2>1. ReadsWell(n, messages[i], stream[n], n \in ended)
    BY <1>1, AgreeingIs
  <2>2. messages[i].id = Assistant(n) => messages'[i] = messages[i]
    <3> SUFFICES ASSUME messages[i].id = Assistant(n) PROVE messages'[i] = messages[i]
      OBVIOUS
    <3>1. \A x \in N : Assistant(x) # Assistant(n)
      BY <1>3 DEF Assistant
    <3> QED BY <1>1, <3>1 DEF OnlyTheirs
  <2>3. stream'[n] = stream[n] /\ (n \in ended' <=> n \in ended)
    BY <1>3
  <2> QED BY <1>1, <2>1, <2>2, <2>3 DEF ReadsWell
<1> QED BY <1>2, <1>3

(* A new query was sent nothing yet, or has failed.                        *)
LEMMA AskedAgrees ==
  ASSUME ReadingsAgree, MessagesNumbered, AgentsKnown, CallsNumbered, StreamsKept, runAgentQuery
  PROVE  ReadingsAgree'
<1> DEFINE k == Len(messages)
<1>1. messages \in Seq(Shown) /\ calls \in Nat /\ calls' = calls + 1 /\ calls + 1 <= MaxCalls
      /\ MaxCalls \in Nat /\ ended \subseteq 1 .. calls
  BY TalkTypes DEF MessagesNumbered, CallsNumbered, runAgentQuery
<1>2. /\ messages' \in Seq(Shown) /\ k \in Nat
      /\ DOMAIN messages = 1 .. k /\ DOMAIN messages' = 1 .. k + 2
      /\ \A i \in 1 .. k : messages'[i] = messages[i]
      /\ messages'[k + 1].id = User(calls + 1)
      /\ messages'[k + 2].id = Assistant(calls + 1)
      /\ online => messages'[k + 2].content = Thinking
      /\ ~online => messages'[k + 2].status = "error"
  BY <1>1, AfterAsking
<1>3. stream' = stream /\ (online => ended' = ended) /\ (~online => ended' = ended \cup {calls + 1})
  BY DEF runAgentQuery
<1>4. stream[calls + 1] = <<>>
  BY <1>1 DEF StreamsKept
<1>5. \A i \in 1 .. k : messages[i].id[1] # calls + 1
  <2> TAKE i \in 1 .. k
  <2>1. messages[i] \in Shown /\ messages[i].id[1] <= calls
    BY <1>1, <1>2 DEF MessagesNumbered
  <2>2. messages[i].id[1] \in Nat
    BY <2>1 DEF Shown
  <2> QED BY <1>1, <2>1, <2>2
<1>6. \A i \in 1 .. k, n \in 1 .. calls : ReadsWell(n, messages[i], stream[n], n \in ended)
  BY <1>2, AgreeingIs
<1>7. online \/ ~online
  OBVIOUS
<1>8. messages'[k + 2] \in Shown
  BY <1>2
<1> HIDE DEF k
<1> SUFFICES ASSUME NEW i \in 1 .. k + 2, NEW n \in 1 .. calls + 1
    PROVE  ReadsWell(n, messages'[i], stream'[n], n \in ended')
  BY <1>1, <1>2, AgreeingThen
<1>9. i \in 1 .. k \/ i = k + 1 \/ i = k + 2
  BY <1>2
<1>10. n \in 1 .. calls \/ n = calls + 1
  BY <1>1
<1>11. n \in 1 .. calls => n # calls + 1 /\ (n \in ended' <=> n \in ended)
  BY <1>1, <1>3, <1>7
<1>12. CASE i \in 1 .. k
  <2>1. CASE n = calls + 1
    <3>1. messages'[i].id # Assistant(n)
      BY <1>2, <1>5, <1>12, <2>1 DEF Assistant
    <3> QED BY <3>1 DEF ReadsWell
  <2>2. CASE n \in 1 .. calls
    BY <1>2, <1>3, <1>6, <1>11, <1>12, <2>2 DEF ReadsWell
  <2> QED BY <1>10, <2>1, <2>2
<1>13. CASE i = k + 1
  BY <1>2, <1>13 DEF ReadsWell, User, Assistant
<1>14. CASE i = k + 2
  <2>1. CASE n # calls + 1
    BY <1>2, <1>14, <2>1 DEF ReadsWell, Assistant
  <2>2. CASE n = calls + 1 /\ online
    <3>1. n \notin ended'
      BY <1>1, <1>3, <2>2
    <3>2. GoesOn(stream'[n], messages'[i])
      BY <1>2, <1>3, <1>4, <1>8, <1>14, <2>2, AskedAlone
    <3> QED BY <3>1, <3>2 DEF ReadsWell
  <2>3. CASE n = calls + 1 /\ ~online
    <3>1. n \in ended' /\ messages'[i].status = "error"
      BY <1>2, <1>3, <1>14, <2>3
    <3> QED BY <3>1 DEF ReadsWell, ReadsBack
  <2> QED BY <1>7, <2>1, <2>2, <2>3
<1> QED BY <1>9, <1>12, <1>13, <1>14

(* Nothing is said of a query that failed.                                 *)
LEMMA NoReadingOfRejected ==
  ASSUME NEW m \in Shown, NEW events
  PROVE  ReadsBack(events, Rejected(m))
<1>1. Rejected(m).status = "error"
  BY RejectedIs
<1> QED BY <1>1 DEF ReadsBack

(* Each step keeps the readings.                                           *)
LEMMA ReadingsStep ==
  ASSUME ReadingsAgree, MessagesNumbered, AgentsKnown, CallsNumbered, StreamsKept, [ChatNext]_chatVars
  PROVE  ReadingsAgree'
<1>0. /\ messages \in Seq(Shown) /\ calls \in Nat /\ ended \subseteq 1 .. calls
      /\ \A i \in DOMAIN messages : messages[i] \in Shown
  BY DEF MessagesNumbered, CallsNumbered
<1>s. \A n \in 1 .. calls : stream[n] \in Seq(Sent)
  BY <1>0, TalkTypes DEF StreamsKept, CallsNumbered
<1>g. \A i \in DOMAIN messages, n \in 1 .. calls :
        messages[i].id = Assistant(n) /\ ContentOnly(stream[n]) /\ n \notin ended =>
          GoesOn(stream[n], messages[i])
  BY DEF ReadingsAgree
<1>1. CASE TalkQuiet
  <2> SUFFICES ASSUME NEW i \in DOMAIN messages, NEW n \in 1 .. calls'
      PROVE  ReadsWell(n, messages[i], stream[n], n \in ended)
    BY <1>1, AgreeingThen DEF TalkQuiet
  <2>1. CASE n \in 1 .. calls
    BY <2>1, AgreeingIs
  <2>2. CASE n \notin 1 .. calls
    <3>1. n > calls /\ n \in Nat
      BY <1>0, <2>2
    <3>2. messages[i].id[1] <= calls /\ messages[i] \in Shown
      BY <1>0 DEF MessagesNumbered
    <3>3. messages[i].id # Assistant(n)
      BY <1>0, <3>1, <3>2 DEF Assistant
    <3> QED BY <3>3 DEF ReadsWell
  <2> QED BY <2>1, <2>2
<1>2. CASE TalkCleared
  <2>1. messages' = <<>>
    BY <1>2 DEF TalkCleared
  <2> QED BY <2>1, AgreeingThen
<1>3. CASE runAgentQuery
  BY <1>3, AskedAgrees
<1>4. CASE Disconnect
  <2> DEFINE N == {c.id : c \in Queries}
  <2>1. /\ OnlyTheirs(N) /\ UNCHANGED <<calls, stream>> /\ ended' = ended \cup N
        /\ \A i \in DOMAIN messages :
              (\E c \in Queries : messages[i].id = Assistant(c.id)) => messages'[i] = Rejected(messages[i])
    BY <1>0, <1>4, AfterDisconnect DEF Disconnect
  <2>2. \A i \in DOMAIN messages, n \in N :
          messages[i].id = Assistant(n) => messages'[i] = Rejected(messages[i])
    BY <2>1
  <2> HIDE DEF N
  <2>3. \A i \in DOMAIN messages, n \in N :
          messages[i].id = Assistant(n) => n \in ended' /\ ReadsBack(stream'[n], messages'[i])
    BY <1>0, <2>1, <2>2, NoReadingOfRejected
  <2> QED BY <2>1, <2>3, TheirsAgree
<1>5. ASSUME NEW c \in Queries, NEW e \in Events, StreamFrame(c, e)
      PROVE  ReadingsAgree'
  <2>1. /\ OnlyTheirs({c.id})
        /\ \A i \in DOMAIN messages :
              messages[i].id = Assistant(c.id) => messages'[i] = Streamed(messages[i], e)
    BY <1>0, <1>5, AfterFrame
  <2>2. /\ UNCHANGED <<calls, ended>> /\ stream' = [stream EXCEPT ![c.id] = Append(@, e)]
    BY <1>5 DEF StreamFrame
  <2>3. e \in Sent /\ c.id \in 1 .. calls /\ c.id \notin ended
    BY EventsAreSent, QueryIs
  <2>4. /\ stream'[c.id] = Append(stream[c.id], e)
        /\ \A n \in 1 .. MaxCalls : n # c.id => stream'[n] = stream[n]
    BY <2>2, <2>3, StreamGrows
  <2>5. \A n \in 1 .. calls : n \in 1 .. MaxCalls
    BY <1>0, TalkTypes DEF CallsNumbered
  <2>6. ASSUME NEW i \in DOMAIN messages, messages[i].id = Assistant(c.id), ContentOnly(stream'[c.id])
        PROVE  c.id \notin ended' /\ GoesOn(stream'[c.id], messages'[i])
    <3>1. stream[c.id] \in Seq(Sent) /\ ContentOnly(Append(stream[c.id], e))
      BY <1>s, <2>3, <2>4, <2>6
    <3>2. ContentOnly(stream[c.id])
      BY <2>3, <3>1, OnlyContentBefore
    <3>3. GoesOn(stream[c.id], messages[i]) /\ messages[i] \in Shown
      BY <1>0, <1>g, <2>3, <2>6, <3>2
    <3>4. GoesOn(Append(stream[c.id], e), Streamed(messages[i], e))
      BY <2>3, <3>1, <3>3, GoesOnSo
    <3> QED BY <2>1, <2>2, <2>3, <2>4, <2>6, <3>4
  <2>7. \A n \in 1 .. calls : n \notin {c.id} => stream'[n] = stream[n] /\ (n \in ended' <=> n \in ended)
    BY <2>2, <2>4, <2>5
  <2>8. \A i \in DOMAIN messages, n \in {c.id} :
            messages[i].id = Assistant(n) /\ ContentOnly(stream'[n]) /\ n \in 1 .. calls =>
              /\ n \in ended' => ReadsBack(stream'[n], messages'[i])
              /\ n \notin ended' => GoesOn(stream'[n], messages'[i])
    BY <2>6
  <2> QED BY <2>1, <2>2, <2>7, <2>8, TheirsAgree
<1>6. ASSUME NEW c \in Queries, NEW data \in Answers, NEW chat \in PushedChats, QueryAnswered(c, data, chat)
      PROVE  ReadingsAgree'
  <2> DEFINE a == readAgentAnswer(data)  response == [type |-> "response", text |-> 0, chatId |-> 0]
  <2>1. /\ OnlyTheirs({c.id}) /\ a \in Nat
        /\ \A i \in DOMAIN messages :
              messages[i].id = Assistant(c.id) => messages'[i] = Answered(messages[i], a)
    BY <1>0, <1>6, AfterAnswer
  <2>2. /\ UNCHANGED calls /\ ended' = ended \cup {c.id}
        /\ stream' = [stream EXCEPT ![c.id] = IF a = 0 THEN @ ELSE Append(@, response)]
    BY <1>6 DEF QueryAnswered
  <2>3. response \in Sent /\ c.id \in 1 .. calls /\ c.id \notin ended /\ response.type = "response"
    BY EventsAreSent, QueryIs
  <2>5. \A n \in 1 .. calls : n \in 1 .. MaxCalls
    BY <1>0, TalkTypes DEF CallsNumbered
  <2>s. c.id \in DOMAIN stream /\ DOMAIN stream = 1 .. MaxCalls
    BY <2>3, <2>5 DEF StreamsKept
  <2> HIDE DEF response, a
  <2>4. /\ stream'[c.id] = IF a = 0 THEN stream[c.id] ELSE Append(stream[c.id], response)
        /\ \A n \in 1 .. MaxCalls : n # c.id => stream'[n] = stream[n]
    BY <2>2, <2>s
  <2>6. ASSUME NEW i \in DOMAIN messages, messages[i].id = Assistant(c.id), ContentOnly(stream'[c.id])
        PROVE  c.id \in ended' /\ ReadsBack(stream'[c.id], messages'[i])
    <3>1. stream[c.id] \in Seq(Sent)
      BY <1>s, <2>3
    <3>2. a = 0
      <4> SUFFICES ASSUME a # 0 PROVE FALSE
        OBVIOUS
      <4>1. ContentOnly(Append(stream[c.id], response))
        BY <2>4, <2>6
      <4> QED BY <2>3, <3>1, <4>1, OnlyContentBefore
    <3>3. ContentOnly(stream[c.id]) /\ stream'[c.id] = stream[c.id]
      BY <2>4, <2>6, <3>2
    <3>4. GoesOn(stream[c.id], messages[i]) /\ messages[i] \in Shown
      BY <1>0, <1>g, <2>3, <2>6, <3>3
    <3>5. ReadsBack(stream[c.id], Answered(messages[i], 0))
      BY <3>4, ReadBackThen
    <3> QED BY <2>1, <2>2, <2>6, <3>2, <3>3, <3>5
  <2>7. \A n \in 1 .. calls : n \notin {c.id} => stream'[n] = stream[n] /\ (n \in ended' <=> n \in ended)
    BY <2>2, <2>4, <2>5
  <2>8. \A i \in DOMAIN messages, n \in {c.id} :
            messages[i].id = Assistant(n) /\ ContentOnly(stream'[n]) /\ n \in 1 .. calls =>
              /\ n \in ended' => ReadsBack(stream'[n], messages'[i])
              /\ n \notin ended' => GoesOn(stream'[n], messages'[i])
    BY <2>6
  <2> QED BY <2>1, <2>2, <2>7, <2>8, TheirsAgree
<1>7. ASSUME NEW c \in Queries, QueryFails(c)
      PROVE  ReadingsAgree'
  <2>1. /\ OnlyTheirs({c.id}) /\ UNCHANGED <<calls, stream>> /\ ended' = ended \cup {c.id}
        /\ \A i \in DOMAIN messages :
              messages[i].id = Assistant(c.id) => messages'[i] = Rejected(messages[i])
    BY <1>0, <1>7, AfterFailure DEF QueryFails
  <2>2. \A i \in DOMAIN messages, n \in {c.id} :
          messages[i].id = Assistant(n) => n \in ended' /\ ReadsBack(stream'[n], messages'[i])
    BY <1>0, <2>1, NoReadingOfRejected
  <2> QED BY <2>1, <2>2, TheirsAgree
<1>8. ASSUME NEW c \in waiting, NEW detail \in Details, ChatLoaded(c, detail)
      PROVE  ReadingsAgree'
  <2> SUFFICES ASSUME NEW i \in DOMAIN messages', NEW n \in 1 .. calls'
      PROVE  ReadsWell(n, messages'[i], stream'[n], n \in ended')
    BY AgreeingThen
  <2>1. messages'[i].id[1] = 0
    BY <1>8, AfterLoading
  <2>2. n # 0
    OBVIOUS
  <2> QED BY <2>1, <2>2 DEF ReadsWell, Assistant
<1> QED BY <1>1, <1>2, <1>3, <1>4, <1>5, <1>6, <1>7, <1>8, TalkSteps

-----------------------------------------------------------------------------

-----------------------------------------------------------------------------
(* The invariant of the conversations, and the theorems.                   *)

(* The inductive invariant: the types and numbers of agents, drawer,       *)
(* calls, streams and messages, that none is left pending, and that the    *)
(* readings agree.                                                         *)
ChatInv ==
  /\ AgentsKnown /\ DrawerShown /\ Others
  /\ CallsNumbered /\ StreamsKept /\ MessagesNumbered
  /\ PendingIsWorking /\ ReadingsAgree

(* It holds at first and every step keeps it.                              *)
LEMMA ChatBegins == ChatInit => ChatInv
<1> SUFFICES ASSUME ChatInit PROVE ChatInv
  OBVIOUS
<1>1. MaxCalls \in Nat
  BY TalkTypes
<1>2. allAgents = <<>>
  <2>1. desktopAgents = <<>> /\ platformAgents = <<>>
        /\ desktopAgents \in Seq(ListedAgent) /\ platformAgents \in Seq(ListedAgent)
    BY DEF ChatInit
  <2>0. desktopAgents \in Seq(ListedAgent) /\ platformAgents \in Seq(ListedAgent)
    BY <2>1
  <2> DEFINE t == allAgents
  <2>2. t = mergeAgents(desktopAgents, platformAgents)
    BY DEF allAgents
  <2> HIDE DEF t
  <2>3. /\ t \in Seq(ListedAgent)
        /\ \A k \in DOMAIN t :
              \/ \E i \in DOMAIN platformAgents : t[k] = platformAgents[i]
              \/ \E i \in DOMAIN desktopAgents : t[k] = desktopAgents[i]
    BY ONLY <2>0, <2>2, MergedAgents
  <2>4. \A k \in DOMAIN t : FALSE
    BY <2>1, <2>3
  <2>5. t = <<>>
    BY <2>3, <2>4
  <2> QED BY <2>5 DEF t
<1>a. /\ desktopAgents = <<>> /\ platformAgents = <<>> /\ chatHistory = <<>> /\ selectedAgentKey = 0
      /\ online = FALSE /\ refreshing = "no" /\ activeChatId = 0 /\ historyOpen = FALSE
      /\ historyStatus = "idle"
  BY DEF ChatInit
<1>b. \A S : <<>> \in Seq(S)
  OBVIOUS
<1>c. OneRowEach(<<>>)
  BY DEF OneRowEach
<1>d. AgentsKnown
  BY <1>2, <1>a, <1>b DEF AgentsKnown
<1>e. DrawerShown
  BY <1>a, <1>b, <1>c DEF DrawerShown
<1>f. Others
  BY <1>a DEF Others
<1>3. AgentsKnown /\ DrawerShown /\ Others
  BY <1>d, <1>e, <1>f
<1>4. CallsNumbered
  BY <1>1 DEF ChatInit, CallsNumbered, Queries
<1>5. StreamsKept
  BY DEF ChatInit, StreamsKept
<1>6. MessagesNumbered /\ ReadingsAgree
  BY DEF ChatInit, MessagesNumbered, ReadingsAgree
<1>7. PendingIsWorking
  BY DEF ChatInit, PendingIsWorking, ToSet
<1> QED BY <1>3, <1>4, <1>5, <1>6, <1>7 DEF ChatInv

LEMMA ChatGoesOn == ChatInv /\ [ChatNext]_chatVars => ChatInv'
<1> SUFFICES ASSUME ChatInv, [ChatNext]_chatVars PROVE ChatInv'
  OBVIOUS
<1>1. /\ AgentsKnown /\ DrawerShown /\ Others
      /\ CallsNumbered /\ StreamsKept /\ MessagesNumbered
      /\ PendingIsWorking /\ ReadingsAgree
      /\ activeChatId \in Nat
  BY DEF ChatInv, Others
<1>2. AgentsKnown' /\ DrawerShown' /\ Others'
  BY <1>1, AgentsStep, DrawerStep, OthersStep
<1>3. CallsNumbered' /\ StreamsKept'
  BY <1>1, CallsStep, StreamsStep
<1>4. MessagesNumbered' /\ PendingIsWorking'
  BY <1>1, <1>3, MessagesStep, PendingStep
<1>5. ReadingsAgree'
  BY <1>1, ReadingsStep
<1> QED BY <1>2, <1>3, <1>4, <1>5 DEF ChatInv

(* The variables of the conversations keep their types, calls and messages *)
(* have numbers of their own, and what a query was sent reads as its       *)
(* message shows, however many queries, agents and conversations there     *)
(* are.                                                                    *)
THEOREM ChatInvHolds == ChatSpec => []ChatInv
BY ChatBegins, ChatGoesOn, PTL DEF ChatSpec

(* No order of frames, answers, failures, changes of the conversation and  *)
(* ends of sessions leaves a message pending whose query does not wait,    *)
(* however many queries there are.                                         *)
THEOREM PendingIsWorkingHolds == ChatSpec => []PendingIsWorking
<1>1. ChatInv => PendingIsWorking
  BY DEF ChatInv
<1> QED BY <1>1, ChatInvHolds, PTL

(* No frame, answer or failure, however late, changes the message of a     *)
(* query that was settled.                                                 *)
THEOREM SettledStaysHolds == ChatSpec => SettledStays
<1>1. ChatInv /\ [ChatNext]_chatVars =>
        [\A m \in ToSet(messages), n \in ToSet(messages') :
           m.id[1] \in ended /\ n.id = m.id => n = m]_chatVars
  BY SettledSteps DEF ChatInv
<1> QED BY <1>1, ChatInvHolds, PTL DEF ChatSpec, SettledStays

(* Any stream of content and thoughts, however long, reads the same when   *)
(* the conversation is loaded from its events as it did while they         *)
(* streamed in.                                                            *)
THEOREM HistoryAgreesWithLiveHolds == ChatSpec => []HistoryAgreesWithLive
<1>1. ChatInv => HistoryAgreesWithLive
  <2> SUFFICES ASSUME ChatInv, NEW m \in ToSet(messages), NEW n, n = m.id[1],
                      m.id = Assistant(n), m.status = "done", n \in ended, ContentOnly(stream[n])
      PROVE  LET reloaded == createMessagesFromEvents(<<question>> \o stream[n], m.agent)
             IN  IF m.content = NoAnswer THEN Len(reloaded) = 1
                 ELSE Len(reloaded) = 2 /\ reloaded[2].content = m.content
    BY DEF HistoryAgreesWithLive
  <2>1. PICK i \in DOMAIN messages : m = messages[i]
    BY DEF ToSet
  <2>2. n \in 1 .. calls
    BY DEF ChatInv, CallsNumbered
  <2>3. ReadsBack(stream[n], m)
    BY <2>1, <2>2 DEF ChatInv, ReadingsAgree
  <2> QED BY <2>3 DEF ReadsBack, createMessagesFromEvents
<1> QED BY <1>1, ChatInvHolds, PTL

(* As many rows as keys of rows.                                           *)
LEMMA RowsCounted ==
  ASSUME NEW S, NEW rows \in Seq(S), NEW key \in [S -> Nat],
         \A i, j \in DOMAIN rows : key[rows[i]] = key[rows[j]] => i = j
  PROVE  Cardinality({key[x] : x \in ToSet(rows)}) = Len(rows)
<1> DEFINE n == Len(rows)  k == [i \in 1 .. n |-> key[rows[i]]]
<1>1. n \in Nat /\ DOMAIN rows = 1 .. n /\ \A i \in 1 .. n : rows[i] \in S
  OBVIOUS
<1>2. k \in [1 .. n -> Nat]
  BY <1>1
<1>3. \A i, j \in 1 .. n : k[i] = k[j] => i = j
  BY <1>1
<1>4. {key[x] : x \in ToSet(rows)} = {k[i] : i \in 1 .. n}
  BY <1>1 DEF ToSet
<1> HIDE DEF n, k
<1>5. Cardinality({k[i] : i \in 1 .. n}) = n
  BY <1>1, <1>2, <1>3, OneKeyEach
<1> QED BY <1>4, <1>5 DEF n

(* It follows from what is known of agents and drawer.                     *)
LEMMA MergedLists == AgentsKnown /\ DrawerShown => ListsAreMerged
<1> SUFFICES ASSUME AgentsKnown, DrawerShown PROVE ListsAreMerged
  OBVIOUS
<1> DEFINE t == allAgents
<1>1. desktopAgents \in Seq(ListedAgent) /\ platformAgents \in Seq(ListedAgent)
  BY DEF AgentsKnown
<1>2. t = mergeAgents(desktopAgents, platformAgents)
  BY DEF allAgents
<1>a. allAgents = t
  OBVIOUS
<1>l. IF t = <<>> THEN selectedAgentKey = 0 ELSE selectedAgentKey \in KeysOf(t)
  BY DEF AgentsKnown
<1> HIDE DEF t
<1>3. /\ t \in Seq(ListedAgent)
      /\ \A k, l \in DOMAIN t : t[k].agentKey = t[l].agentKey => k = l
      /\ \A k \in DOMAIN t :
              \/ \E i \in DOMAIN platformAgents : t[k] = platformAgents[i]
              \/ \E i \in DOMAIN desktopAgents : t[k] = desktopAgents[i]
      /\ \A i \in DOMAIN platformAgents :
              \E k \in DOMAIN t : t[k].agentKey = platformAgents[i].agentKey
      /\ \A k \in DOMAIN t : \A i \in DOMAIN platformAgents :
              t[k].agentKey = platformAgents[i].agentKey => \E j \in DOMAIN platformAgents : t[k] = platformAgents[j]
  BY ONLY <1>1, <1>2, MergedAgents
<1>4. Cardinality(KeysOf(t)) = Len(t)
  <2> DEFINE key == [a \in ListedAgent |-> a.agentKey]
  <2>1. \A a \in ListedAgent : a.agentKey \in Nat
    BY DEF ListedAgent
  <2>2. key \in [ListedAgent -> Nat]
    BY <2>1
  <2>3. \A k \in DOMAIN t : t[k] \in ListedAgent
    BY <1>3
  <2>4. \A k, l \in DOMAIN t : key[t[k]] = key[t[l]] => k = l
    BY <1>3, <2>3
  <2>5. {key[a] : a \in ToSet(t)} = KeysOf(t)
    BY <2>3 DEF KeysOf, ToSet
  <2> HIDE DEF key
  <2>6. Cardinality({key[a] : a \in ToSet(t)}) = Len(t)
    BY <1>3, <2>2, <2>4, RowsCounted
  <2> QED BY <2>5, <2>6
<1>5. KeysOf(platformAgents) \subseteq KeysOf(t)
  <2> SUFFICES ASSUME NEW i \in DOMAIN platformAgents PROVE platformAgents[i].agentKey \in KeysOf(t)
    BY DEF KeysOf, ToSet
  <2>1. PICK k \in DOMAIN t : t[k].agentKey = platformAgents[i].agentKey
    BY <1>3
  <2> QED BY <2>1 DEF KeysOf, ToSet
<1>6. \A agent \in ToSet(t) :
        agent.agentKey \in KeysOf(platformAgents) => agent \in ToSet(platformAgents)
  <2> SUFFICES ASSUME NEW k \in DOMAIN t, t[k].agentKey \in KeysOf(platformAgents)
      PROVE  t[k] \in ToSet(platformAgents)
    BY DEF ToSet
  <2>1. PICK i \in DOMAIN platformAgents : t[k].agentKey = platformAgents[i].agentKey
    BY DEF KeysOf, ToSet
  <2>2. PICK j \in DOMAIN platformAgents : t[k] = platformAgents[j]
    BY <1>3, <2>1
  <2> QED BY <2>2 DEF ToSet
<1>7. \A agent \in ToSet(t), seed \in 0 .. 4 :
        LET sampled == pickSampledWonders(agent.wonders, seed)
        IN  Cardinality(ToSet(sampled)) = Len(sampled) /\ Len(sampled) <= 3
  <2> TAKE agent \in ToSet(t), seed \in 0 .. 4
  <2>1. agent \in ListedAgent
    BY <1>3 DEF ToSet
  <2>2. agent.wonders \in Seq(Nat) /\ seed \in Nat
    BY <2>1 DEF ListedAgent
  <2> QED BY <2>2, SampledDiffer
<1>8. Cardinality({chat.chatId : chat \in ToSet(chatHistory)}) = Len(chatHistory)
  <2> DEFINE key == [chat \in ListedChat |-> chat.chatId]
  <2>1. \A chat \in ListedChat : chat.chatId \in Nat
    BY DEF ListedChat
  <2>2. key \in [ListedChat -> Nat]
    BY <2>1
  <2>3. chatHistory \in Seq(ListedChat) /\ \A k \in DOMAIN chatHistory : chatHistory[k] \in ListedChat
    BY DEF DrawerShown
  <2>4. \A k, l \in DOMAIN chatHistory : key[chatHistory[k]] = key[chatHistory[l]] => k = l
    BY <2>3 DEF DrawerShown, OneRowEach
  <2>5. {key[chat] : chat \in ToSet(chatHistory)} = {chat.chatId : chat \in ToSet(chatHistory)}
    BY <2>3 DEF ToSet
  <2> HIDE DEF key
  <2>6. Cardinality({key[chat] : chat \in ToSet(chatHistory)}) = Len(chatHistory)
    BY <2>2, <2>3, <2>4, RowsCounted
  <2> QED BY <2>5, <2>6
<1> QED BY <1>4, <1>5, <1>6, <1>7, <1>8, <1>a, <1>l DEF ListsAreMerged

(* For any catalogues in which no agent's entry names a conversation twice *)
(* (CatalogueTypes) and any histories, in whatever order they are          *)
(* answered: each agent is listed once, as the platform describes it if it *)
(* does, the selected one is among them, at most three different questions *)
(* are suggested, and each conversation has one row in the drawer.         *)
THEOREM ListsAreMergedHolds == ChatSpec => []ListsAreMerged
<1>1. ChatInv => ListsAreMerged
  BY MergedLists DEF ChatInv
<1> QED BY <1>1, ChatInvHolds, PTL

=============================================================================
