-------------------------- MODULE NodeServerProofs --------------------------
EXTENDS NodeServer, SequenceTheorems, WellFoundedInduction, FiniteSetTheorems, TLAPS

(***************************************************************************)
(* The P2P node, for any set of peers, seeds, priority peers and limits,   *)
(* and any number of connections, events, lists and faults.                *)
(***************************************************************************)

(* What the variables hold.  An outgoing connection has the address it was *)
(* made to, and a connection that waits for a ping the id it pings.        *)
Place == {"start", "accept", "sleep", "connect", "handshake", "seedFailed", "priority", "stages",
          "draw", "read", "ping", "yield", "stopEvent", "join", "returned", "ended"}
ConnectionRecord ==
  [m_remote : Address \cup {"unknown"}, m_is_income : BOOLEAN, peerId : Address \cup {"unknown"}]
Maker ==
  [stage : Seq([white : BOOLEAN, expected : 0 .. ConnectionsCount]), next : Nat \ {0}, tries : Nat,
   count : Nat, tried : SUBSET Nat, target : Address, for : {"none", "seed", "priority", "list"}]

ContextTypes ==
  /\ pc \in [Context -> Place]
  /\ wake \in [Context -> {"none", "ready", "interrupted"}]
  /\ interrupted \in [Context -> BOOLEAN]
  /\ group \in Seq(Context)
  /\ pc["accept"] \in {"start", "accept", "ended"} /\ pc["main"] \in {"stopEvent", "join", "returned"}
ConnectionTypes ==
  /\ DOMAIN m_connections \subseteq Connection /\ IsFiniteSet(DOMAIN m_connections)
  /\ m_connections \in [DOMAIN m_connections -> ConnectionRecord]
  /\ \A c \in Outgoing : m_connections[c].m_remote \in Address
  /\ \A c \in Connection : pc[c] # "ended" => c \in DOMAIN m_connections
  /\ \A c \in Connection : pc[c] = "ping" => m_connections[c].peerId \in Address
MakerTypes == maker \in Maker /\ incoming \in Nat

(* The two lists of the PeerlistManager. *)
GoodList(s) == s \in Seq(Address) /\ IsInjective(s)
GoodGray(s) == GoodList(s) /\ Len(s) <= GrayLimit /\ ToSet(m_peers_white) \cap ToSet(s) = {}
ListsInv ==
  /\ GoodList(m_peers_white) /\ Len(m_peers_white) <= WhiteLimit
  /\ GoodGray(m_peers_gray)

(* While connections_maker waits for a peer nobody else connects to it, so *)
(* that what it asked before is still true.                                *)
MakerInv ==
  /\ pc["idle"] \in {"connect", "handshake"} =>
       /\ maker.for # "none"
       /\ maker.for # "seed" => ~is_addr_connected(maker.target)
       /\ maker.for = "priority" => maker.target \in ToSet(Priority)
       /\ maker.for = "list" => Cardinality(Outgoing) < ConnectionsCount /\ maker.stage # <<>>
  /\ pc["idle"] = "draw" => Cardinality(Outgoing) < ConnectionsCount /\ maker.stage # <<>>

(* There is a free id for each connection that is to come. *)
AcceptReady == pc["accept"] = "accept" /\ wake["accept"] = "ready" => incoming < MaxIncoming
CountInv ==
  /\ Cardinality(Incoming) <= incoming /\ incoming <= MaxIncoming
  /\ AcceptReady

(* The accept loop is in the group until it ends, and in the queue unless  *)
(* it waits.                                                               *)
AcceptInv ==
  /\ resuming \in Seq(Context)
  /\ pc["accept"] # "ended" => "accept" \in ToSet(group)
  /\ pc["accept"] = "start" \/ (pc["accept"] = "accept" /\ wake["accept"] # "none")
       => "accept" \in ToSet(resuming)

Ordered(queue) ==
  \A j, k \in DOMAIN queue : queue[j] = "main" /\ queue[k] = "accept" => k < j

(* Nothing is reported once the stop has put run into the queue, so that   *)
(* the accept loop does not stand behind it.                               *)
StopOrder ==
  /\ Ordered(resuming)
  /\ "main" \in ToSet(resuming) => m_stop /\ handlerStop

(* Before run interrupts its contexts, and after it.                       *)
StopInv ==
  /\ remote \/ pc["stopSignal"] # "ended" \/ pc["main"] # "stopEvent" => m_stop
  /\ pc["main"] = "stopEvent" => AcceptInv /\ StopOrder
  /\ pc["main"] # "stopEvent" =>
       pc["accept"] = "ended" \/ (pc["accept"] = "accept" /\ wake["accept"] = "interrupted")

NodeInv ==
  /\ ContextTypes /\ ConnectionTypes /\ MakerTypes /\ ListsInv
  /\ MakerInv /\ CountInv /\ OutgoingBounded /\ StopInv
-----------------------------------------------------------------------------
(* Numbers and sequences. *)
LEMMA LeastNatural ==
  ASSUME NEW T \in SUBSET Nat, T # {}
  PROVE  Min(T) \in T
  <1> DEFINE R == OpToRel(<, Nat)
  <1>1. IsWellFoundedOn(R, Nat)
    BY NatLessThanWellFounded
  <1>2. \E x \in T : \A y \in T : ~ (<<y, x>> \in R)
    <2> HIDE DEF R
    <2> QED BY <1>1, WFMin
  <1>3. PICK x \in T : \A y \in T : ~ (<<y, x>> \in R)
    BY <1>2
  <1>4. \A y \in T : ~ (y < x)
    BY <1>3 DEF OpToRel
  <1>5. \E z \in T : \A y \in T : z <= y
    BY <1>4
  <1> QED BY <1>5 DEF Min

(* A sequence without its k-th element.                                    *)
LEMMA RemoveAtElements ==
  ASSUME NEW S, NEW s \in Seq(S), NEW k \in 1 .. Len(s)
  PROVE  /\ RemoveAt(s, k) \in Seq(S) /\ Len(RemoveAt(s, k)) = Len(s) - 1
         /\ \A j \in 1 .. Len(s) - 1 : RemoveAt(s, k)[j] = IF j < k THEN s[j] ELSE s[j + 1]
  <1> DEFINE l == SubSeq(s, 1, k - 1)
             r == SubSeq(s, k + 1, Len(s))
  <1>1. l \in Seq(S) /\ Len(l) = k - 1 /\ \A j \in 1 .. k - 1 : l[j] = s[j]
    OBVIOUS
  <1>2. r \in Seq(S) /\ Len(r) = Len(s) - k /\ \A j \in 1 .. Len(s) - k : r[j] = s[k + j]
    OBVIOUS
  <1> HIDE DEF l, r
  <1>0. Len(s) \in Nat /\ k \in Nat
    OBVIOUS
  <1>3. l \o r \in Seq(S) /\ Len(l \o r) = Len(s) - 1
    <2>1. l \o r \in Seq(S) /\ Len(l \o r) = Len(l) + Len(r)
      BY <1>1, <1>2, ConcatProperties
    <2>2. Len(l) + Len(r) = Len(s) - 1
      BY <1>0, <1>1, <1>2
    <2> QED BY <2>1, <2>2
  <1>4. ASSUME NEW j \in 1 .. Len(s) - 1
        PROVE  (l \o r)[j] = IF j < k THEN s[j] ELSE s[j + 1]
    <2>1. CASE j < k
      BY <2>1, <1>1, <1>2
    <2>2. CASE j >= k
      <3>1. (l \o r)[j] = r[j - (k - 1)]
        BY <2>2, <1>1, <1>2
      <3>2. j - (k - 1) \in 1 .. Len(s) - k
        BY <2>2
      <3>3. r[j - (k - 1)] = s[k + (j - (k - 1))]
        BY <3>2, <1>2
      <3>4. k + (j - (k - 1)) = j + 1 /\ ~(j < k)
        BY <2>2, <1>0
      <3> QED BY <3>1, <3>3, <3>4
    <2>3. j < k \/ j >= k
      BY <1>0
    <2> QED BY <2>1, <2>2, <2>3
  <1>5. RemoveAt(s, k) = l \o r
    BY DEF RemoveAt, l, r
  <1> QED BY <1>3, <1>4, <1>5

(* RemoveFirst takes out the element, once.                                *)
LEMMA RemoveFirstElements ==
  ASSUME NEW S, NEW s \in Seq(S), NEW e
  PROVE  /\ RemoveFirst(s, e) \in Seq(S) /\ Len(RemoveFirst(s, e)) <= Len(s)
         /\ ToSet(RemoveFirst(s, e)) \subseteq ToSet(s)
         /\ ToSet(s) \ {e} \subseteq ToSet(RemoveFirst(s, e))
         /\ IsInjective(s) => IsInjective(RemoveFirst(s, e)) /\ e \notin ToSet(RemoveFirst(s, e))
  <1>1. CASE \E i \in 1 .. Len(s) : s[i] = e
    <2> DEFINE I == {i \in 1 .. Len(s) : s[i] = e}
               k == Min(I)
               t == RemoveAt(s, k)
    <2>1. I \in SUBSET Nat /\ I # {}
      BY <1>1
    <2>2. k \in I
      BY <2>1, LeastNatural
    <2>3. RemoveFirst(s, e) = t
      BY <1>1, <2>1 DEF RemoveFirst, SelectInSeq
    <2>4. k \in 1 .. Len(s) /\ s[k] = e
      BY <2>2
    <2> HIDE DEF k, I
    <2>5. /\ t \in Seq(S) /\ Len(t) = Len(s) - 1
          /\ \A j \in 1 .. Len(s) - 1 : t[j] = IF j < k THEN s[j] ELSE s[j + 1]
      BY <2>4, RemoveAtElements
    <2> HIDE DEF t
    <2>6. Len(s) \in Nat /\ DOMAIN s = 1 .. Len(s) /\ DOMAIN t = 1 .. Len(s) - 1
      BY <2>5
    <2>7. ToSet(t) \subseteq ToSet(s)
      <3> SUFFICES ASSUME NEW j \in 1 .. Len(s) - 1 PROVE t[j] \in ToSet(s)
        BY <2>6 DEF ToSet
      <3>1. j \in DOMAIN s /\ j + 1 \in DOMAIN s
        BY <2>6
      <3> QED BY <3>1, <2>5 DEF ToSet
    <2>8. ToSet(s) \ {e} \subseteq ToSet(t)
      <3> SUFFICES ASSUME NEW i \in 1 .. Len(s), s[i] # e PROVE s[i] \in ToSet(t)
        BY <2>6 DEF ToSet
      <3>1. CASE i < k
        <4>1. i \in 1 .. Len(s) - 1 /\ t[i] = s[i]
          BY <3>1, <2>4, <2>5, <2>6
        <4> QED BY <4>1, <2>6 DEF ToSet
      <3>2. CASE i > k
        <4>1. i - 1 \in 1 .. Len(s) - 1 /\ t[i - 1] = s[i - 1 + 1] /\ i - 1 + 1 = i
          BY <3>2, <2>4, <2>5, <2>6
        <4> QED BY <4>1, <2>6 DEF ToSet
      <3> QED BY <3>1, <3>2, <2>4, <2>6
    <2>9. ASSUME IsInjective(s) PROVE IsInjective(t) /\ e \notin ToSet(t)
      <3>1. \A a, b \in 1 .. Len(s) : s[a] = s[b] => a = b
        BY <2>9, <2>6 DEF IsInjective
      <3>2. ASSUME NEW a \in 1 .. Len(s) - 1, NEW b \in 1 .. Len(s) - 1, t[a] = t[b] PROVE a = b
        <4>1. CASE a < k /\ b < k
          BY <4>1, <3>1, <3>2, <2>4, <2>5, <2>6
        <4>2. CASE a < k /\ b >= k
          BY <4>2, <3>1, <3>2, <2>4, <2>5, <2>6
        <4>3. CASE a >= k /\ b < k
          BY <4>3, <3>1, <3>2, <2>4, <2>5, <2>6
        <4>4. CASE a >= k /\ b >= k
          BY <4>4, <3>1, <3>2, <2>4, <2>5, <2>6
        <4> QED BY <4>1, <4>2, <4>3, <4>4, <2>4, <2>6
      <3>3. ASSUME NEW a \in 1 .. Len(s) - 1 PROVE t[a] # e
        <4>1. CASE a < k
          BY <4>1, <3>1, <2>4, <2>5, <2>6
        <4>2. CASE a >= k
          BY <4>2, <3>1, <2>4, <2>5, <2>6
        <4> QED BY <4>1, <4>2, <2>4, <2>6
      <3>4. IsInjective(t)
        BY <3>2, <2>6 DEF IsInjective
      <3> QED BY <3>3, <3>4, <2>6 DEF ToSet
    <2>10. Len(t) <= Len(s)
      BY <2>5, <2>6
    <2> QED BY <2>3, <2>5, <2>7, <2>8, <2>9, <2>10
  <1>2. CASE ~ \E i \in 1 .. Len(s) : s[i] = e
    <2>1. RemoveFirst(s, e) = s
      BY <1>2 DEF RemoveFirst
    <2>2. e \notin ToSet(s)
      BY <1>2 DEF ToSet
    <2>3. Len(s) <= Len(s)
      OBVIOUS
    <2> QED BY <2>1, <2>2, <2>3
  <1> QED BY <1>1, <1>2

(* The first elements of a list.                                           *)
LEMMA TrimElements ==
  ASSUME NEW S, NEW s \in Seq(S), NEW limit \in Nat
  PROVE  /\ trim(s, limit) \in Seq(S) /\ Len(trim(s, limit)) <= limit
         /\ ToSet(trim(s, limit)) \subseteq ToSet(s)
         /\ IsInjective(s) => IsInjective(trim(s, limit))
  <1> DEFINE n == Min({Len(s), limit})
  <1>1. Min({Len(s), limit}) = IF Len(s) <= limit THEN Len(s) ELSE limit
    <2>1. {Len(s), limit} \in SUBSET Nat /\ {Len(s), limit} # {}
      OBVIOUS
    <2>2. \E z \in {Len(s), limit} : \A y \in {Len(s), limit} : z <= y
      OBVIOUS
    <2>3. Min({Len(s), limit}) \in {Len(s), limit} /\ \A y \in {Len(s), limit} : Min({Len(s), limit}) <= y
      BY <2>2 DEF Min
    <2> QED BY <2>3
  <1>2. n \in Nat /\ n <= Len(s) /\ n <= limit /\ trim(s, limit) = SubSeq(s, 1, n)
    BY <1>1 DEF trim
  <1> HIDE DEF n
  <1>3. SubSeq(s, 1, n) \in Seq(S) /\ Len(SubSeq(s, 1, n)) = n /\ \A j \in 1 .. n : SubSeq(s, 1, n)[j] = s[j]
    BY <1>2
  <1>4. DOMAIN SubSeq(s, 1, n) = 1 .. n /\ 1 .. n \subseteq DOMAIN s
    BY <1>2, <1>3
  <1>5. ToSet(SubSeq(s, 1, n)) \subseteq ToSet(s)
    BY <1>3, <1>4 DEF ToSet
  <1>6. IsInjective(s) => IsInjective(SubSeq(s, 1, n))
    BY <1>3, <1>4 DEF IsInjective
  <1> QED BY <1>2, <1>3, <1>5, <1>6

(* An element that is not in the list comes to stand at any place of it.   *)
LEMMA InsertElements ==
  ASSUME NEW S, NEW s \in Seq(S), NEW e \in S, e \notin ToSet(s), NEW i \in 1 .. Len(s) + 1
  PROVE  /\ InsertAt(s, i, e) \in Seq(S) /\ ToSet(InsertAt(s, i, e)) \subseteq ToSet(s) \cup {e}
         /\ IsInjective(s) => IsInjective(InsertAt(s, i, e))
  <1> DEFINE l == SubSeq(s, 1, i - 1)
             r == SubSeq(s, i, Len(s))
             m == l \o <<e>>
             t == m \o r
  <1>0. Len(s) \in Nat /\ i \in Nat /\ DOMAIN s = 1 .. Len(s)
    OBVIOUS
  <1>1. l \in Seq(S) /\ Len(l) = i - 1 /\ \A j \in 1 .. i - 1 : l[j] = s[j]
    OBVIOUS
  <1>2. r \in Seq(S) /\ Len(r) = Len(s) - i + 1 /\ \A j \in 1 .. Len(s) - i + 1 : r[j] = s[i + j - 1]
    OBVIOUS
  <1> HIDE DEF l, r
  <1>3. m \in Seq(S) /\ Len(m) = i /\ (\A j \in 1 .. i - 1 : m[j] = s[j]) /\ m[i] = e
    <2>1. <<e>> \in Seq(S) /\ Len(<<e>>) = 1 /\ <<e>>[1] = e
      OBVIOUS
    <2>2. /\ m \in Seq(S) /\ Len(m) = Len(l) + 1
          /\ \A j \in 1 .. Len(l) + 1 : m[j] = IF j <= Len(l) THEN l[j] ELSE <<e>>[j - Len(l)]
      BY <2>1, <1>1, ConcatProperties
    <2> HIDE DEF m
    <2>3. Len(m) = i
      BY <2>2, <1>1, <1>0
    <2>4. ASSUME NEW j \in 1 .. i - 1 PROVE m[j] = s[j]
      BY <2>2, <1>1, <1>0
    <2>5. m[i] = <<e>>[i - (i - 1)]
      BY <2>2, <1>1, <1>0
    <2>6. i - (i - 1) = 1
      BY <1>0
    <2> QED BY <2>1, <2>2, <2>3, <2>4, <2>5, <2>6
  <1> HIDE DEF m
  <1>4. /\ t \in Seq(S) /\ Len(t) = Len(m) + Len(r)
        /\ \A j \in 1 .. Len(m) + Len(r) : t[j] = IF j <= Len(m) THEN m[j] ELSE r[j - Len(m)]
    BY <1>3, <1>2, ConcatProperties
  <1> HIDE DEF t
  <1>5. Len(t) = Len(s) + 1 /\ DOMAIN t = 1 .. Len(s) + 1
    BY <1>4, <1>3, <1>2, <1>0
  <1>6. ASSUME NEW j \in 1 .. Len(s) + 1
        PROVE  /\ j < i => t[j] = s[j] /\ j \in DOMAIN s
               /\ j = i => t[j] = e
               /\ j > i => t[j] = s[j - 1] /\ j - 1 \in DOMAIN s
    <2>1. CASE j < i
      <3>1. j \in 1 .. i - 1 /\ j \in 1 .. Len(m) + Len(r) /\ j <= Len(m) /\ j \in DOMAIN s
        BY <2>1, <1>3, <1>2, <1>0
      <3>2. t[j] = s[j]
        BY <3>1, <1>4, <1>3
      <3>3. ~(j = i) /\ ~(j > i)
        BY <2>1, <1>0
      <3> QED BY <3>1, <3>2, <3>3
    <2>2. CASE j = i
      BY <2>2, <1>4, <1>3, <1>2, <1>0
    <2>3. CASE j > i
      <3>1. t[j] = r[j - i] /\ j - i \in 1 .. Len(s) - i + 1
        BY <2>3, <1>4, <1>3, <1>2, <1>0
      <3>2. r[j - i] = s[i + (j - i) - 1] /\ i + (j - i) - 1 = j - 1
        BY <3>1, <1>2, <1>0
      <3> QED BY <3>1, <3>2, <2>3, <1>0
    <2> QED BY <2>1, <2>2, <2>3, <1>0
  <1>7. ToSet(t) \subseteq ToSet(s) \cup {e}
    BY <1>5, <1>6, <1>0 DEF ToSet
  <1>8. ASSUME IsInjective(s) PROVE IsInjective(t)
    <2>1. \A a, b \in DOMAIN s : s[a] = s[b] => a = b
      BY <1>8 DEF IsInjective
    <2>2. \A a \in DOMAIN s : s[a] # e
      BY DEF ToSet
    <2> SUFFICES ASSUME NEW a \in 1 .. Len(s) + 1, NEW b \in 1 .. Len(s) + 1, t[a] = t[b] PROVE a = b
      BY <1>5 DEF IsInjective
    <2>3. CASE a = i \/ b = i
      BY <2>3, <2>2, <1>6, <1>0
    <2>4. CASE a < i /\ b # i
      BY <2>4, <2>1, <1>6, <1>0
    <2>5. CASE a > i /\ b # i
      BY <2>5, <2>1, <1>6, <1>0
    <2> QED BY <2>3, <2>4, <2>5, <1>0
  <1>9. InsertAt(s, i, e) = t
    BY DEF InsertAt, t, m, l, r
  <1> QED BY <1>4, <1>7, <1>8, <1>9
-----------------------------------------------------------------------------
(* The lists of peers. *)
LEMMA WithoutIsGood ==
  ASSUME NEW s, GoodList(s), NEW a
  PROVE  /\ GoodList(Without(s, a)) /\ Len(Without(s, a)) <= Len(s)
         /\ ToSet(Without(s, a)) \subseteq ToSet(s) \ {a}
  BY RemoveFirstElements DEF GoodList, Without

(* What an entry of a list from a peer makes of the gray list.             *)
LEMMA GrayWithIsGood ==
  ASSUME NEW gray, GoodGray(gray), NEW a \in Address, NEW g \in GrayWith(gray, a)
  PROVE  GoodGray(g)
  <1>1. CASE is_ip_allowed(a) /\ ~Contains(m_peers_white, a)
    <2> DEFINE w == Without(gray, a)
    <2>1. GoodList(w) /\ ToSet(w) \subseteq ToSet(gray) \ {a}
      BY WithoutIsGood DEF GoodGray
    <2>2. PICK i \in 1 .. Len(w) + 1 : g = trim(InsertAt(w, i, a), GrayLimit)
      BY <1>1 DEF GrayWith
    <2> DEFINE t == InsertAt(w, i, a)
    <2>3. GoodList(t) /\ ToSet(t) \subseteq ToSet(w) \cup {a}
      <3>1. w \in Seq(Address) /\ a \notin ToSet(w) /\ IsInjective(w)
        BY <2>1 DEF GoodList
      <3> HIDE DEF w
      <3> QED BY <3>1, InsertElements DEF GoodList
    <2>4. g = trim(t, GrayLimit)
      BY <2>2
    <2> HIDE DEF t
    <2>5. GoodList(g) /\ Len(g) <= GrayLimit /\ ToSet(g) \subseteq ToSet(t)
      BY <2>3, <2>4, TrimElements, NodeAssumption DEF GoodList
    <2>6. a \notin ToSet(m_peers_white)
      BY <1>1 DEF Contains, ToSet
    <2> QED BY <2>1, <2>3, <2>5, <2>6 DEF GoodGray
  <1>2. CASE ~(is_ip_allowed(a) /\ ~Contains(m_peers_white, a))
    BY <1>2 DEF GrayWith
  <1> QED BY <1>1, <1>2

LEMMA MergedIsGood ==
  ASSUME GoodGray(m_peers_gray), NEW g \in Merged
  PROVE  GoodGray(g)
  <1>1. ASSUME NEW s, GoodGray(s), NEW t \in WithEntry(s) PROVE GoodGray(t)
    BY <1>1, GrayWithIsGood DEF WithEntry
  <1> QED BY <1>1 DEF Merged

(* A peer that was seen moves from the gray to the white list.             *)
LEMMA SeenIsGood ==
  ASSUME ListsInv, NEW gray, GoodGray(gray), NEW a \in Address, SeenWith(gray, a)
  PROVE  ListsInv'
  <1>1. CASE is_ip_allowed(a)
    <2> DEFINE w == Without(m_peers_white, a)
               s == <<a>> \o w
               t == Without(gray, a)
    <2>1. GoodList(w) /\ ToSet(w) \subseteq ToSet(m_peers_white) \ {a}
      BY WithoutIsGood DEF ListsInv
    <2>2. GoodList(t) /\ Len(t) <= Len(gray) /\ ToSet(t) \subseteq ToSet(gray) \ {a}
      BY WithoutIsGood DEF GoodGray
    <2>3. m_peers_white' = trim(s, WhiteLimit) /\ m_peers_gray' = t
      BY <1>1 DEF SeenWith
    <2> HIDE DEF w, t
    <2>4. GoodList(s) /\ ToSet(s) \subseteq ToSet(w) \cup {a}
      <3>1. w \in Seq(Address) /\ DOMAIN w = 1 .. Len(w) /\ Len(w) \in Nat
        BY <2>1 DEF GoodList
      <3>2. <<a>> \in Seq(Address) /\ Len(<<a>>) = 1 /\ <<a>>[1] = a
        OBVIOUS
      <3>3. /\ s \in Seq(Address) /\ Len(s) = 1 + Len(w)
            /\ \A j \in 1 .. 1 + Len(w) : s[j] = IF j <= 1 THEN <<a>>[j] ELSE w[j - 1]
        BY <3>1, <3>2, ConcatProperties
      <3> HIDE DEF s
      <3>4. DOMAIN s = 1 .. 1 + Len(w) /\ s[1] = a
        BY <3>1, <3>2, <3>3
      <3>5. \A j \in 2 .. 1 + Len(w) : s[j] = w[j - 1] /\ j - 1 \in DOMAIN w
        BY <3>1, <3>3
      <3>6. ToSet(s) \subseteq ToSet(w) \cup {a}
        BY <3>1, <3>4, <3>5 DEF ToSet
      <3>7. \A j \in DOMAIN w : w[j] # a
        BY <2>1 DEF ToSet
      <3>8. \A i, j \in DOMAIN w : w[i] = w[j] => i = j
        BY <2>1 DEF GoodList, IsInjective
      <3>9. ASSUME NEW i \in 1 .. 1 + Len(w), NEW j \in 1 .. 1 + Len(w), s[i] = s[j] PROVE i = j
        <4>1. CASE i = 1 \/ j = 1
          BY <4>1, <3>9, <3>1, <3>4, <3>5, <3>7
        <4>2. CASE i # 1 /\ j # 1
          BY <4>2, <3>9, <3>1, <3>5, <3>8
        <4> QED BY <4>1, <4>2
      <3> QED BY <3>3, <3>4, <3>6, <3>9 DEF GoodList, IsInjective
    <2> HIDE DEF s
    <2>5. GoodList(m_peers_white') /\ Len(m_peers_white') <= WhiteLimit /\ ToSet(m_peers_white') \subseteq ToSet(s)
      BY <2>3, <2>4, TrimElements, NodeAssumption DEF GoodList
    <2>6. Len(t) <= GrayLimit
      BY <2>2, NodeAssumption DEF GoodGray, GoodList
    <2>7. ToSet(m_peers_white') \cap ToSet(t) = {}
      BY <2>1, <2>2, <2>4, <2>5 DEF GoodGray
    <2> QED BY <2>2, <2>3, <2>5, <2>6, <2>7 DEF ListsInv, GoodGray, GoodList
  <1>2. CASE ~is_ip_allowed(a)
    BY <1>2 DEF SeenWith, ListsInv, GoodGray, GoodList
  <1> QED BY <1>1, <1>2
-----------------------------------------------------------------------------
(* Counting connections. *)
Preferred == {c \in Outgoing : m_connections[c].m_remote \in ToSet(Priority)}
Ordinary == {c \in Outgoing : m_connections[c].m_remote \notin ToSet(Priority)}

LEMMA FiniteConnections ==
  ASSUME ConnectionTypes
  PROVE  /\ IsFiniteSet(Outgoing) /\ Cardinality(Outgoing) \in Nat
         /\ IsFiniteSet(Incoming) /\ Cardinality(Incoming) \in Nat
         /\ IsFiniteSet(Preferred) /\ Cardinality(Preferred) \in Nat
         /\ IsFiniteSet(Ordinary) /\ Cardinality(Ordinary) \in Nat
  <1>1. \A T \in SUBSET DOMAIN m_connections : IsFiniteSet(T) /\ Cardinality(T) \in Nat
    BY FS_Subset, FS_CardinalityType DEF ConnectionTypes
  <1>2. /\ Outgoing \in SUBSET DOMAIN m_connections /\ Incoming \in SUBSET DOMAIN m_connections
        /\ Preferred \in SUBSET DOMAIN m_connections /\ Ordinary \in SUBSET DOMAIN m_connections
    BY DEF Outgoing, Incoming, Preferred, Ordinary
  <1> QED BY <1>1, <1>2

(* Connections to different priority peers have different positions in     *)
(* the list of them; a position of a peer without connection is left.      *)
LEMMA PreferredCount ==
  ASSUME ConnectionTypes, OutgoingBounded, NEW Q \in SUBSET (DOMAIN Priority),
         \A c \in Preferred : \E i \in Q : Priority[i] = m_connections[c].m_remote
  PROVE  Cardinality(Preferred) <= Cardinality(Q)
  <1> DEFINE place == [c \in Preferred |-> CHOOSE i \in Q : Priority[i] = m_connections[c].m_remote]
  <1>1. \A c \in Preferred : place[c] \in Q /\ Priority[place[c]] = m_connections[c].m_remote
    OBVIOUS
  <1>2. place \in [Preferred -> Q]
    BY <1>1
  <1>3. ASSUME NEW c \in Preferred, NEW d \in Preferred, place[c] = place[d] PROVE c = d
    <2>1. m_connections[c].m_remote = m_connections[d].m_remote
      BY <1>1, <1>3
    <2>2. c \in Outgoing /\ d \in Outgoing
      BY DEF Preferred
    <2> QED BY <2>1, <2>2 DEF OutgoingBounded
  <1>4. IsFiniteSet(Q) /\ Cardinality(Q) \in Nat
    <2>1. DOMAIN Priority = 1 .. Len(Priority) /\ Len(Priority) \in Nat
      BY NodeAssumption
    <2>2. IsFiniteSet(DOMAIN Priority)
      BY <2>1, FS_Interval
    <2> QED BY <2>2, FS_Subset, FS_CardinalityType
  <1>5. IsFiniteSet(Preferred) /\ Cardinality(Preferred) \in Nat
    BY FiniteConnections
  <1> HIDE DEF place
  <1>6. ~(Cardinality(Q) < Cardinality(Preferred))
    BY <1>2, <1>3, <1>4, <1>5, FS_PigeonHole
  <1> QED BY <1>4, <1>5, <1>6

LEMMA OutgoingCount ==
  ASSUME ConnectionTypes, OutgoingBounded
  PROVE  /\ Cardinality(Outgoing) <= ConnectionsCount + Len(Priority)
         /\ \A a \in ToSet(Priority) :
              ~is_addr_connected(a) => Cardinality(Outgoing) < ConnectionsCount + Len(Priority)
  <1>1. DOMAIN Priority = 1 .. Len(Priority) /\ Len(Priority) \in Nat /\ ConnectionsCount \in Nat
    BY NodeAssumption
  <1>2. IsFiniteSet(DOMAIN Priority) /\ Cardinality(DOMAIN Priority) = Len(Priority)
    <2>1. IsFiniteSet(1 .. Len(Priority)) /\ Cardinality(1 .. Len(Priority)) = IF 1 > Len(Priority) THEN 0 ELSE Len(Priority) - 1 + 1
      BY <1>1, FS_Interval
    <2>2. Cardinality(1 .. Len(Priority)) = Len(Priority)
      BY <2>1, <1>1
    <2> QED BY <2>1, <2>2, <1>1
  <1>3. Cardinality(Outgoing) = Cardinality(Preferred) + Cardinality(Ordinary)
    <2>1. Outgoing = Preferred \cup Ordinary /\ Preferred \cap Ordinary = {}
      BY DEF Preferred, Ordinary
    <2>2. Cardinality(Preferred \cup Ordinary) = Cardinality(Preferred) + Cardinality(Ordinary) - Cardinality(Preferred \cap Ordinary)
      BY FiniteConnections, FS_Union
    <2>3. Cardinality(Preferred \cap Ordinary) = 0
      BY <2>1, FS_EmptySet
    <2> QED BY <2>1, <2>2, <2>3, FiniteConnections
  <1>4. Cardinality(Ordinary) <= ConnectionsCount
    BY DEF OutgoingBounded, Ordinary
  <1>5. \A c \in Preferred : \E i \in DOMAIN Priority : Priority[i] = m_connections[c].m_remote
    BY DEF Preferred, ToSet
  <1>6. Cardinality(Preferred) <= Len(Priority)
    BY <1>2, <1>5, PreferredCount
  <1>7. ASSUME NEW a \in ToSet(Priority), ~is_addr_connected(a)
        PROVE  Cardinality(Preferred) < Len(Priority)
    <2>1. PICK k \in DOMAIN Priority : Priority[k] = a
      BY DEF ToSet
    <2> DEFINE Q == DOMAIN Priority \ {k}
    <2>2. \A c \in Preferred : m_connections[c].m_remote # a
      BY <1>7 DEF is_addr_connected, Preferred
    <2>3. \A c \in Preferred : \E i \in Q : Priority[i] = m_connections[c].m_remote
      BY <1>5, <2>1, <2>2
    <2>4. Cardinality(Q) = Len(Priority) - 1
      BY <1>2, FS_RemoveElement
    <2>5. Q \in SUBSET DOMAIN Priority
      OBVIOUS
    <2>6. Cardinality(Preferred) <= Cardinality(Q)
      <3> HIDE DEF Q
      <3> QED BY <2>3, <2>5, PreferredCount
    <2> QED BY <2>4, <2>6, <1>1, FiniteConnections
  <1> QED BY <1>1, <1>3, <1>4, <1>6, <1>7, FiniteConnections

(* CHOOSE finds an id for a new connection.                                *)
LEMMA FreeIdIsFree ==
  ASSUME ConnectionTypes, OutgoingBounded, CountInv, MakerTypes,
         \/ incoming < MaxIncoming
         \/ \E a \in ToSet(Priority) : ~is_addr_connected(a)
         \/ Cardinality(Outgoing) < ConnectionsCount
  PROVE  FreeId \in Connection /\ FreeId \notin DOMAIN m_connections
  <1>1. Cardinality(DOMAIN m_connections) = Cardinality(Outgoing) + Cardinality(Incoming)
    <2>1. DOMAIN m_connections = Outgoing \cup Incoming /\ Outgoing \cap Incoming = {}
      BY DEF Outgoing, Incoming
    <2>2. Cardinality(Outgoing \cup Incoming) = Cardinality(Outgoing) + Cardinality(Incoming) - Cardinality(Outgoing \cap Incoming)
      BY FiniteConnections, FS_Union
    <2>3. Cardinality(Outgoing \cap Incoming) = 0
      BY <2>1, FS_EmptySet
    <2> QED BY <2>1, <2>2, <2>3, FiniteConnections
  <1>2. /\ ConnectionsCount \in Nat /\ Len(Priority) \in Nat /\ MaxIncoming \in Nat
        /\ Cardinality(Connection) >= ConnectionsCount + Len(Priority) + MaxIncoming
    BY NodeAssumption
  <1>3. Cardinality(Incoming) <= incoming /\ incoming <= MaxIncoming /\ incoming \in Nat
    BY DEF CountInv, MakerTypes
  <1>4. Cardinality(DOMAIN m_connections) < ConnectionsCount + Len(Priority) + MaxIncoming
    BY <1>1, <1>2, <1>3, OutgoingCount, FiniteConnections
  <1>5. DOMAIN m_connections # Connection
    <2> SUFFICES ASSUME DOMAIN m_connections = Connection PROVE FALSE
      OBVIOUS
    <2>1. Cardinality(DOMAIN m_connections) \in Nat
      BY FS_CardinalityType DEF ConnectionTypes
    <2> QED BY <2>1, <1>2, <1>4
  <1>6. \E c \in Connection : c \notin DOMAIN m_connections
    BY <1>5 DEF ConnectionTypes
  <1> QED BY <1>6 DEF FreeId
-----------------------------------------------------------------------------
(* The queue of the dispatcher. *)
LEMMA TailOfQueue ==
  ASSUME NEW q \in Seq(Context), q # <<>>
  PROVE  /\ Tail(q) \in Seq(Context) /\ ToSet(Tail(q)) \subseteq ToSet(q)
         /\ ToSet(q) \subseteq ToSet(Tail(q)) \cup {Head(q)}
         /\ Ordered(q) => Ordered(Tail(q))
         /\ Ordered(q) /\ Head(q) = "main" => "accept" \notin ToSet(q)
  <1> DEFINE t == Tail(q)
  <1>1. /\ DOMAIN q = 1 .. Len(q) /\ Len(q) \in Nat /\ Len(q) >= 1 /\ Head(q) = q[1]
        /\ t \in Seq(Context) /\ Len(t) = Len(q) - 1 /\ DOMAIN t = 1 .. Len(q) - 1
        /\ \A i \in 1 .. Len(q) - 1 : t[i] = q[i + 1]
    OBVIOUS
  <1> HIDE DEF t
  <1>2. ToSet(t) \subseteq ToSet(q)
    <2> SUFFICES ASSUME NEW i \in 1 .. Len(q) - 1 PROVE t[i] \in ToSet(q)
      BY <1>1 DEF ToSet
    <2>1. i + 1 \in DOMAIN q
      BY <1>1
    <2> QED BY <2>1, <1>1 DEF ToSet
  <1>3. ToSet(q) \subseteq ToSet(t) \cup {Head(q)}
    <2> SUFFICES ASSUME NEW i \in 1 .. Len(q), i # 1 PROVE q[i] \in ToSet(t)
      BY <1>1 DEF ToSet
    <2>1. i - 1 \in DOMAIN t /\ t[i - 1] = q[i - 1 + 1] /\ i - 1 + 1 = i
      BY <1>1
    <2> QED BY <2>1 DEF ToSet
  <1>4. Ordered(q) => Ordered(t)
    <2> SUFFICES ASSUME Ordered(q), NEW j \in 1 .. Len(q) - 1, NEW k \in 1 .. Len(q) - 1,
                        t[j] = "main", t[k] = "accept"
                 PROVE  k < j
      BY <1>1 DEF Ordered
    <2>1. j + 1 \in DOMAIN q /\ k + 1 \in DOMAIN q /\ q[j + 1] = "main" /\ q[k + 1] = "accept"
      BY <1>1
    <2>2. k + 1 < j + 1
      BY <2>1 DEF Ordered
    <2> QED BY <2>2, <1>1
  <1>5. ASSUME Ordered(q), Head(q) = "main" PROVE "accept" \notin ToSet(q)
    <2> SUFFICES ASSUME NEW k \in DOMAIN q, q[k] = "accept" PROVE FALSE
      BY DEF ToSet
    <2>1. 1 \in DOMAIN q /\ q[1] = "main"
      BY <1>1, <1>5
    <2>2. k < 1
      BY <2>1, <1>5 DEF Ordered
    <2> QED BY <2>2, <1>1
  <1> QED BY <1>1, <1>2, <1>3, <1>4, <1>5 DEF t

LEMMA AppendToQueue ==
  ASSUME NEW q \in Seq(Context), NEW e \in Context
  PROVE  /\ Append(q, e) \in Seq(Context) /\ ToSet(Append(q, e)) = ToSet(q) \cup {e}
         /\ Ordered(q) /\ e # "accept" => Ordered(Append(q, e))
  <1> DEFINE t == Append(q, e)
  <1>1. /\ DOMAIN q = 1 .. Len(q) /\ Len(q) \in Nat
        /\ t \in Seq(Context) /\ Len(t) = Len(q) + 1 /\ DOMAIN t = 1 .. Len(q) + 1
        /\ (\A i \in 1 .. Len(q) : t[i] = q[i]) /\ t[Len(q) + 1] = e
    OBVIOUS
  <1> HIDE DEF t
  <1>2. ToSet(t) \subseteq ToSet(q) \cup {e}
    <2> SUFFICES ASSUME NEW i \in 1 .. Len(q) + 1 PROVE t[i] \in ToSet(q) \cup {e}
      BY <1>1 DEF ToSet
    <2>1. CASE i = Len(q) + 1
      BY <2>1, <1>1
    <2>2. CASE i # Len(q) + 1
      <3>1. i \in DOMAIN q /\ t[i] = q[i]
        BY <2>2, <1>1
      <3> QED BY <3>1 DEF ToSet
    <2> QED BY <2>1, <2>2
  <1>3. ToSet(q) \cup {e} \subseteq ToSet(t)
    <2>1. \A i \in 1 .. Len(q) : i \in DOMAIN t /\ t[i] = q[i]
      BY <1>1
    <2>2. Len(q) + 1 \in DOMAIN t
      BY <1>1
    <2> QED BY <2>1, <2>2, <1>1 DEF ToSet
  <1>4. ASSUME Ordered(q), e # "accept" PROVE Ordered(t)
    <2> SUFFICES ASSUME NEW j \in 1 .. Len(q) + 1, NEW k \in 1 .. Len(q) + 1,
                        t[j] = "main", t[k] = "accept"
                 PROVE  k < j
      BY <1>1 DEF Ordered
    <2>1. k \in 1 .. Len(q)
      BY <1>1, <1>4
    <2>2. CASE j \in 1 .. Len(q)
      BY <2>1, <2>2, <1>1, <1>4 DEF Ordered
    <2>3. CASE j = Len(q) + 1
      BY <2>1, <2>3, <1>1
    <2> QED BY <2>2, <2>3, <1>1
  <1> QED BY <1>1, <1>2, <1>3, <1>4 DEF t

(* What a yield puts into the queue.                                       *)
LEMMA YieldToQueue ==
  ASSUME NEW q \in Seq(Context), NEW s \in Seq(Context), NEW e \in Context
  PROVE  /\ q \o s \o <<e>> \in Seq(Context)
         /\ ToSet(q \o s \o <<e>>) = ToSet(q) \cup ToSet(s) \cup {e}
  <1> DEFINE t == q \o s
  <1>1. /\ t \in Seq(Context) /\ Len(t) = Len(q) + Len(s)
        /\ \A i \in 1 .. Len(q) + Len(s) : t[i] = IF i <= Len(q) THEN q[i] ELSE s[i - Len(q)]
    BY ConcatProperties
  <1> HIDE DEF t
  <1>2. /\ Len(q) \in Nat /\ Len(s) \in Nat /\ DOMAIN q = 1 .. Len(q) /\ DOMAIN s = 1 .. Len(s)
        /\ DOMAIN t = 1 .. Len(q) + Len(s)
    BY <1>1
  <1>3. ToSet(t) \subseteq ToSet(q) \cup ToSet(s)
    <2> SUFFICES ASSUME NEW i \in 1 .. Len(q) + Len(s) PROVE t[i] \in ToSet(q) \cup ToSet(s)
      BY <1>2 DEF ToSet
    <2>1. CASE i <= Len(q)
      BY <2>1, <1>1, <1>2, SMTT(30) DEF ToSet
    <2>2. CASE i > Len(q)
      <3>1. i - Len(q) \in DOMAIN s /\ t[i] = s[i - Len(q)]
        BY <2>2, <1>1, <1>2
      <3> QED BY <3>1 DEF ToSet
    <2> QED BY <2>1, <2>2, <1>2
  <1>4. ToSet(q) \subseteq ToSet(t)
    <2>1. \A i \in 1 .. Len(q) : i \in DOMAIN t /\ t[i] = q[i]
      BY <1>1, <1>2
    <2> QED BY <2>1, <1>2 DEF ToSet
  <1>5. ToSet(s) \subseteq ToSet(t)
    <2> SUFFICES ASSUME NEW i \in 1 .. Len(s) PROVE s[i] \in ToSet(t)
      BY <1>2 DEF ToSet
    <2> DEFINE j == Len(q) + i
    <2>1. j \in 1 .. Len(q) + Len(s) /\ ~(j <= Len(q)) /\ j - Len(q) = i
      BY <1>2
    <2> HIDE DEF j
    <2>2. t[j] = s[j - Len(q)] /\ j \in DOMAIN t
      BY <2>1, <1>1, <1>2
    <2> QED BY <2>1, <2>2 DEF ToSet
  <1>6. t \o <<e>> = Append(t, e)
    BY <1>1
  <1>7. t \o <<e>> \in Seq(Context) /\ ToSet(t \o <<e>>) = ToSet(t) \cup {e}
    BY <1>1, <1>6, AppendToQueue
  <1>8. ToSet(t) = ToSet(q) \cup ToSet(s)
    BY <1>3, <1>4, <1>5
  <1> QED BY <1>7, <1>8 DEF t
-----------------------------------------------------------------------------
(* What the calls of the dispatcher leave as it is. *)
Dispatched == ContextTypes /\ StopInv /\ AcceptReady

LEMMA Names ==
  /\ \A c \in Connection : c \in Context /\ c \notin {"accept", "idle", "timedSync", "main", "stopSignal"}
  /\ {"accept", "idle", "timedSync", "main", "stopSignal"} \subseteq Context
  BY NodeAssumption DEF Context, Loops

(* What Block does to the members of a context.                            *)
LEMMA BlockTypes ==
  ASSUME ContextTypes, NEW c \in Context, NEW p \in Place, Block(c, p)
  PROVE  /\ pc' \in [Context -> Place] /\ wake' \in [Context -> {"none", "ready", "interrupted"}]
         /\ interrupted' \in [Context -> BOOLEAN] /\ group' \in Seq(Context)
         /\ pc'[c] = p /\ \A d \in Context : d # c => pc'[d] = pc[d]
  <1>1. /\ pc \in [Context -> Place] /\ wake \in [Context -> {"none", "ready", "interrupted"}]
        /\ interrupted \in [Context -> BOOLEAN] /\ group \in Seq(Context)
    BY DEF ContextTypes
  <1>2. pc' = [pc EXCEPT ![c] = p] /\ group' = group
    BY DEF Block
  <1>3. wake' = [wake EXCEPT ![c] = "interrupted"] \/ wake' = [wake EXCEPT ![c] = "none"]
    BY DEF Block
  <1>4. interrupted' = [interrupted EXCEPT ![c] = FALSE] \/ interrupted' = interrupted
    BY DEF Block
  <1>5. wake' \in [Context -> {"none", "ready", "interrupted"}]
    BY <1>1, <1>3
  <1>6. interrupted' \in [Context -> BOOLEAN]
    BY <1>1, <1>4
  <1> QED BY <1>1, <1>2, <1>5, <1>6

LEMMA BlockKeeps ==
  ASSUME Dispatched, NEW c \in {"idle", "timedSync"} \cup Connection, NEW w, NEW p \in Place,
         Running(c, w), Block(c, p), UNCHANGED <<stopVars, incoming>>
  PROVE  Dispatched'
  <1>1. c \in Context /\ c \notin {"accept", "main", "stopSignal"}
    BY Names
  <1>2. /\ pc' = [pc EXCEPT ![c] = p] /\ group' = group /\ resuming # <<>> /\ Head(resuming) = c
        /\ resuming' = resuming \/ resuming' = Tail(resuming)
    BY DEF Block, Running
  <1>3. ContextTypes'
    BY <1>1, BlockTypes, Names DEF Dispatched, ContextTypes
  <1>4. pc'["accept"] = pc["accept"] /\ pc'["main"] = pc["main"] /\ pc'["stopSignal"] = pc["stopSignal"]
    BY <1>1, <1>2 DEF Dispatched, ContextTypes
  <1>5. wake'["accept"] = wake["accept"]
    BY <1>1, Names DEF Dispatched, ContextTypes, Block
  <1>6. ASSUME pc["main"] = "stopEvent" PROVE AcceptInv' /\ StopOrder'
    <2>1. AcceptInv /\ StopOrder
      BY <1>6 DEF Dispatched, StopInv
    <2>2. CASE resuming' = resuming
      BY <2>1, <2>2, <1>2, <1>4, <1>5 DEF AcceptInv, StopOrder, stopVars
    <2>3. CASE resuming' = Tail(resuming)
      <3>1. /\ resuming' \in Seq(Context) /\ ToSet(resuming') \subseteq ToSet(resuming)
            /\ ToSet(resuming) \subseteq ToSet(resuming') \cup {c} /\ Ordered(resuming')
        BY <2>1, <2>3, <1>2, TailOfQueue DEF AcceptInv, StopOrder
      <3> QED BY <3>1, <2>1, <1>1, <1>2, <1>4, <1>5 DEF AcceptInv, StopOrder, stopVars
    <2> QED BY <2>2, <2>3, <1>2
  <1>7. StopInv'
    BY <1>4, <1>5, <1>6 DEF Dispatched, StopInv, stopVars
  <1> QED BY <1>3, <1>4, <1>5, <1>7 DEF Dispatched, AcceptReady

LEMMA BlockAcceptKeeps ==
  ASSUME Dispatched, Running("accept", "start"), Block("accept", "accept"), UNCHANGED <<stopVars, incoming>>
  PROVE  Dispatched'
  <1>1. /\ pc' = [pc EXCEPT !["accept"] = "accept"] /\ group' = group /\ resuming # <<>>
        /\ Head(resuming) = "accept" /\ pc["accept"] = "start"
    BY DEF Block, Running
  <1>2. ContextTypes'
    BY BlockTypes, Names DEF Dispatched, ContextTypes, Place
  <1>3. pc'["accept"] = "accept" /\ pc'["main"] = pc["main"] /\ pc'["stopSignal"] = pc["stopSignal"]
    BY <1>1, Names DEF Dispatched, ContextTypes
  <1>4. \/ wake'["accept"] = "interrupted" /\ resuming' = resuming
        \/ wake'["accept"] = "none" /\ resuming' = Tail(resuming)
    BY Names DEF Dispatched, ContextTypes, Block
  <1>5. pc["main"] = "stopEvent" /\ AcceptInv /\ StopOrder
    BY <1>1 DEF Dispatched, StopInv, ContextTypes
  <1>6. AcceptInv' /\ StopOrder'
    <2>1. "accept" \in ToSet(resuming) /\ "accept" \in ToSet(group)
      BY <1>1, <1>5 DEF AcceptInv
    <2>2. CASE resuming' = resuming
      BY <2>1, <2>2, <1>1, <1>5 DEF AcceptInv, StopOrder, stopVars
    <2>3. CASE resuming' = Tail(resuming) /\ wake'["accept"] = "none"
      <3>1. resuming' \in Seq(Context) /\ ToSet(resuming') \subseteq ToSet(resuming) /\ Ordered(resuming')
        BY <2>3, <1>1, <1>5, TailOfQueue DEF AcceptInv, StopOrder
      <3> QED BY <3>1, <2>1, <2>3, <1>1, <1>3, <1>5 DEF AcceptInv, StopOrder, stopVars
    <2> QED BY <2>2, <2>3, <1>4
  <1>7. StopInv'
    BY <1>3, <1>5, <1>6 DEF Dispatched, StopInv, stopVars
  <1> QED BY <1>2, <1>3, <1>4, <1>7 DEF Dispatched, AcceptReady

LEMMA GotoKeeps ==
  ASSUME Dispatched, NEW p \in Place, Goto("idle", p), UNCHANGED <<stopVars, incoming>>
  PROVE  Dispatched'
  <1>1. pc' = [pc EXCEPT !["idle"] = p] /\ UNCHANGED <<resuming, group, wake, interrupted>>
    BY DEF Goto
  <1>2. ContextTypes'
    BY <1>1, Names DEF Dispatched, ContextTypes
  <1>3. pc'["accept"] = pc["accept"] /\ pc'["main"] = pc["main"] /\ pc'["stopSignal"] = pc["stopSignal"]
    BY <1>1, Names DEF Dispatched, ContextTypes
  <1>4. StopInv'
    BY <1>1, <1>3 DEF Dispatched, StopInv, AcceptInv, StopOrder, stopVars
  <1> QED BY <1>1, <1>2, <1>3, <1>4 DEF Dispatched, AcceptReady

LEMMA FinishKeeps ==
  ASSUME Dispatched, NEW c \in Loops \cup Connection, NEW w,
         Running(c, w), Finish(c), UNCHANGED <<stopVars, incoming>>
  PROVE  Dispatched'
  <1>1. c \in Context /\ c \notin {"main", "stopSignal"}
    BY Names DEF Loops
  <1>2. /\ pc' = [pc EXCEPT ![c] = "ended"] /\ group' = RemoveFirst(group, c)
        /\ resuming # <<>> /\ Head(resuming) = c /\ wake' = [wake EXCEPT ![c] = "none"]
        /\ UNCHANGED interrupted
    BY DEF Finish, Running
  <1>3. group' \in Seq(Context) /\ ToSet(group) \ {c} \subseteq ToSet(group')
    BY <1>2, RemoveFirstElements DEF Dispatched, ContextTypes
  <1>4. ContextTypes'
    BY <1>1, <1>2, <1>3, Names DEF Dispatched, ContextTypes, Place
  <1>5. /\ pc'["accept"] = IF c = "accept" THEN "ended" ELSE pc["accept"]
        /\ wake'["accept"] = IF c = "accept" THEN "none" ELSE wake["accept"]
        /\ pc'["main"] = pc["main"] /\ pc'["stopSignal"] = pc["stopSignal"]
    BY <1>1, <1>2, Names DEF Dispatched, ContextTypes
  <1>6. ASSUME pc["main"] = "stopEvent" PROVE AcceptInv' /\ StopOrder'
    <2>1. AcceptInv /\ StopOrder
      BY <1>6 DEF Dispatched, StopInv
    <2>2. /\ Tail(resuming) \in Seq(Context) /\ ToSet(Tail(resuming)) \subseteq ToSet(resuming)
          /\ ToSet(resuming) \subseteq ToSet(Tail(resuming)) \cup {c} /\ Ordered(Tail(resuming))
      BY <2>1, <1>2, TailOfQueue DEF AcceptInv, StopOrder
    <2>3. resuming' = Tail(resuming) \o <<>>
      BY <1>6 DEF Finish
    <2>4. resuming' = Tail(resuming)
      BY <2>2, <2>3
    <2> QED BY <2>1, <2>2, <2>4, <1>1, <1>3, <1>5 DEF AcceptInv, StopOrder, stopVars
  <1>7. StopInv'
    BY <1>5, <1>6 DEF Dispatched, StopInv, stopVars
  <1> QED BY <1>4, <1>5, <1>7 DEF Dispatched, AcceptReady

LEMMA SpawnKeeps ==
  ASSUME Dispatched, NEW c \in {"accept", "idle"}, NEW h \in Connection, NEW w \in Place \ {"ended"},
         NEW p \in Place,
         c = "accept" => p = "start", pc["main"] = "stopEvent",
         Running(c, w), Spawn(c, h, p), UNCHANGED stopVars, c = "accept" \/ UNCHANGED incoming
  PROVE  Dispatched'
  <1>1. c \in Context /\ h \in Context /\ c \notin {"main", "stopSignal"} /\ h \notin {"accept", "idle", "main", "stopSignal"}
    BY Names
  <1>2. /\ pc' = [pc EXCEPT ![c] = p, ![h] = "start"] /\ group' = Append(group, h)
        /\ resuming # <<>> /\ Head(resuming) = c /\ wake' = [wake EXCEPT ![h] = "none"]
        /\ interrupted' = [interrupted EXCEPT ![h] = FALSE] /\ resuming' = Append(resuming, h)
    BY DEF Spawn, Running
  <1>3. group' \in Seq(Context) /\ ToSet(group') = ToSet(group) \cup {h}
    BY <1>1, <1>2, AppendToQueue DEF Dispatched, ContextTypes
  <1>4. /\ pc'["accept"] = IF c = "accept" THEN "start" ELSE pc["accept"]
        /\ wake'["accept"] = wake["accept"]
        /\ pc'["main"] = pc["main"] /\ pc'["stopSignal"] = pc["stopSignal"]
    BY <1>1, <1>2, Names DEF Dispatched, ContextTypes
  <1>5. ContextTypes'
    <2>1. pc' \in [Context -> Place]
      BY <1>1, <1>2, Names DEF Dispatched, ContextTypes, Place
    <2>2. wake' \in [Context -> {"none", "ready", "interrupted"}] /\ interrupted' \in [Context -> BOOLEAN]
      BY <1>1, <1>2, Names DEF Dispatched, ContextTypes
    <2> QED BY <2>1, <2>2, <1>3, <1>4 DEF Dispatched, ContextTypes
  <1>6. AcceptInv' /\ StopOrder'
    <2>1. AcceptInv /\ StopOrder
      BY DEF Dispatched, StopInv
    <2>2. resuming' \in Seq(Context) /\ ToSet(resuming') = ToSet(resuming) \cup {h} /\ Ordered(resuming')
      BY <2>1, <1>1, <1>2, AppendToQueue DEF AcceptInv, StopOrder
    <2>3. c \in ToSet(resuming)
      BY <2>1, <1>2, TailOfQueue DEF AcceptInv, ToSet
    <2>4. pc["accept"] # "ended" => "accept" \in ToSet(group)
      BY <2>1 DEF AcceptInv
    <2>5. c = "accept" => pc["accept"] # "ended"
      BY <1>2 DEF Running
    <2> QED BY <2>1, <2>2, <2>3, <2>4, <2>5, <1>1, <1>3, <1>4 DEF AcceptInv, StopOrder, stopVars
  <1>7. StopInv'
    BY <1>4, <1>6 DEF Dispatched, StopInv, stopVars
  <1> QED BY <1>4, <1>5, <1>7 DEF Dispatched, AcceptReady

(* Events.  Neither run nor a loop that does not wait is ever reported.    *)
LEMMA ReportKeeps ==
  ASSUME Dispatched, NEW events \in Seq(Context), \A i \in DOMAIN events : Reported(events[i]),
         Report(events), UNCHANGED <<m_stop, incoming>>,
         pc'["accept"] = pc["accept"], pc'["main"] = pc["main"],
         pc'["stopSignal"] = IF "stopSignal" \in ToSet(events) THEN "start" ELSE pc["stopSignal"]
  PROVE  /\ wake' \in [Context -> {"none", "ready", "interrupted"}]
         /\ "main" \notin ToSet(events) /\ AcceptReady'
         /\ "accept" \notin ToSet(events) => wake'["accept"] = wake["accept"]
         /\ "accept" \in ToSet(events) => wake["accept"] = "none"
         /\ remote' \/ pc'["stopSignal"] # "ended" \/ pc'["main"] # "stopEvent" => m_stop'
  <1>1. \A e \in ToSet(events) : Reported(e)
    BY DEF ToSet
  <1>2. ~Reported("main")
    BY DEF Reported
  <1>3. Reported("stopSignal") => remote
    BY DEF Reported
  <1>4. Reported("accept") => wake["accept"] = "none" /\ incoming < MaxIncoming
    BY DEF Reported, Waiting
  <1>5. wake' = [c \in Context |-> IF c \in ToSet(events) THEN "ready" ELSE wake[c]]
    BY DEF Report
  <1>6. wake' \in [Context -> {"none", "ready", "interrupted"}]
    BY <1>5 DEF Dispatched, ContextTypes
  <1>7. wake'["accept"] = IF "accept" \in ToSet(events) THEN "ready" ELSE wake["accept"]
    BY <1>5, Names
  <1>8. AcceptReady'
    BY <1>1, <1>4, <1>7 DEF Dispatched, AcceptReady
  <1>9. remote' => remote
    BY DEF Report
  <1>10. remote' \/ pc'["stopSignal"] # "ended" \/ pc'["main"] # "stopEvent" => m_stop'
    BY <1>1, <1>3, <1>9 DEF Dispatched, StopInv
  <1> QED BY <1>1, <1>2, <1>4, <1>6, <1>7, <1>8, <1>10

LEMMA EpollKeeps ==
  ASSUME Dispatched, NEW s \in Context, Epoll(s)
  PROVE  Dispatched'
  <1> DEFINE events == <<s>>
  <1>1. /\ events \in Seq(Context) /\ ToSet(events) = {s} /\ DOMAIN events = {1} /\ events[1] = s
    BY DEF ToSet
  <1>2. /\ Reported(s) /\ Report(events) /\ resuming' = events
        /\ pc' = IF s = "stopSignal" THEN [pc EXCEPT ![s] = "start"] ELSE pc
        /\ UNCHANGED <<group, interrupted, m_stop, handlerStop, incoming>>
    BY DEF Epoll, boundVars
  <1>3. pc' \in [Context -> Place] /\ pc'["accept"] = pc["accept"] /\ pc'["main"] = pc["main"]
    BY <1>2, Names DEF Dispatched, ContextTypes, Place
  <1>4. pc'["stopSignal"] = IF "stopSignal" \in ToSet(events) THEN "start" ELSE pc["stopSignal"]
    BY <1>1, <1>2, Names DEF Dispatched, ContextTypes
  <1>5. /\ wake' \in [Context -> {"none", "ready", "interrupted"}]
        /\ "main" \notin ToSet(events) /\ AcceptReady'
        /\ "accept" \notin ToSet(events) => wake'["accept"] = wake["accept"]
        /\ "accept" \in ToSet(events) => wake["accept"] = "none"
        /\ remote' \/ pc'["stopSignal"] # "ended" \/ pc'["main"] # "stopEvent" => m_stop'
    <2> HIDE DEF events
    <2> QED BY <1>1, <1>2, <1>3, <1>4, ReportKeeps
  <1> HIDE DEF events
  <1>6. ContextTypes'
    BY <1>2, <1>3, <1>5 DEF Dispatched, ContextTypes
  <1>7. ASSUME pc["main"] = "stopEvent" PROVE AcceptInv' /\ StopOrder'
    <2>1. AcceptInv /\ resuming = <<>>
      BY <1>7 DEF Dispatched, StopInv, Epoll
    <2>2. ToSet(resuming) = {}
      BY <2>1 DEF ToSet
    <2>3. AcceptInv'
      BY <2>1, <2>2, <1>1, <1>2, <1>3, <1>5 DEF AcceptInv
    <2>4. StopOrder'
      BY <1>1, <1>2, <1>5 DEF StopOrder, Ordered
    <2> QED BY <2>3, <2>4
  <1>8. StopInv'
    BY <1>3, <1>5, <1>7 DEF Dispatched, StopInv
  <1> QED BY <1>5, <1>6, <1>8 DEF Dispatched

LEMMA YieldKeeps ==
  ASSUME Dispatched, NEW c \in Connection, NEW w, Running(c, w), ~handlerStop, Yield(c),
         UNCHANGED <<m_stop, handlerStop, incoming>>
  PROVE  Dispatched' /\ pc'["idle"] = pc["idle"]
         /\ \A d \in Connection : pc'[d] = IF d = c THEN "yield" ELSE pc[d]
  <1>1. PICK events \in Batches :
          /\ resuming' = Tail(resuming) \o events \o <<c>>
          /\ Report(events)
          /\ pc' = [pc EXCEPT !["stopSignal"] = IF "stopSignal" \in ToSet(events) THEN "start" ELSE @,
                              ![c] = "yield"]
          /\ UNCHANGED <<group, interrupted>>
    BY DEF Yield
  <1>2. events \in Seq(Context) /\ \A i \in DOMAIN events : Reported(events[i])
    <2>1. PICK n \in 0 .. MaxEvents : events \in [1 .. n -> {s \in Context : Reported(s)}]
      BY DEF Batches, BoundedSeq, SeqOf
    <2>2. n \in Nat /\ events \in [1 .. n -> Context]
      BY <2>1
    <2> QED BY <2>1, <2>2
  <1>3. c \in Context /\ c \notin {"accept", "idle", "main", "stopSignal"}
    BY Names
  <1>4. /\ pc' \in [Context -> Place] /\ pc'["accept"] = pc["accept"] /\ pc'["main"] = pc["main"]
        /\ pc'["idle"] = pc["idle"]
        /\ pc'["stopSignal"] = IF "stopSignal" \in ToSet(events) THEN "start" ELSE pc["stopSignal"]
    BY <1>1, <1>3, Names DEF Dispatched, ContextTypes, Place
  <1>5. \A d \in Connection : pc'[d] = IF d = c THEN "yield" ELSE pc[d]
    BY <1>1, <1>3, Names DEF Dispatched, ContextTypes
  <1>6. /\ wake' \in [Context -> {"none", "ready", "interrupted"}]
        /\ "main" \notin ToSet(events) /\ AcceptReady'
        /\ "accept" \notin ToSet(events) => wake'["accept"] = wake["accept"]
        /\ "accept" \in ToSet(events) => wake["accept"] = "none"
        /\ remote' \/ pc'["stopSignal"] # "ended" \/ pc'["main"] # "stopEvent" => m_stop'
    BY <1>1, <1>2, <1>4, ReportKeeps
  <1>7. ContextTypes'
    BY <1>1, <1>4, <1>6 DEF Dispatched, ContextTypes
  <1>8. ASSUME pc["main"] = "stopEvent" PROVE AcceptInv' /\ StopOrder'
    <2>1. AcceptInv /\ StopOrder /\ resuming # <<>> /\ Head(resuming) = c
      BY <1>8 DEF Dispatched, StopInv, Running
    <2>2. /\ Tail(resuming) \in Seq(Context) /\ ToSet(Tail(resuming)) \subseteq ToSet(resuming)
          /\ ToSet(resuming) \subseteq ToSet(Tail(resuming)) \cup {c}
      BY <2>1, TailOfQueue DEF AcceptInv
    <2>3. /\ resuming' \in Seq(Context)
          /\ ToSet(resuming') = ToSet(Tail(resuming)) \cup ToSet(events) \cup {c}
      <3> DEFINE q == Tail(resuming)
      <3>1. q \in Seq(Context) /\ resuming' = q \o events \o <<c>>
        BY <2>2, <1>1
      <3> HIDE DEF q
      <3>2. q \o events \o <<c>> \in Seq(Context) /\ ToSet(q \o events \o <<c>>) = ToSet(q) \cup ToSet(events) \cup {c}
        <4>1. q \in Seq(Context) /\ events \in Seq(Context) /\ c \in Context
          BY <3>1, <1>2, <1>3
        <4> QED BY ONLY <4>1, YieldToQueue
      <3> QED BY <3>1, <3>2 DEF q
    <2>4. "main" \notin ToSet(resuming')
      BY <2>1, <2>2, <2>3, <1>3, <1>6 DEF StopOrder
    <2>5. StopOrder'
      BY <2>4 DEF StopOrder, Ordered, ToSet
    <2>6. AcceptInv'
      BY <2>1, <2>2, <2>3, <1>1, <1>3, <1>4, <1>6 DEF AcceptInv
    <2> QED BY <2>5, <2>6
  <1>9. ASSUME pc["main"] # "stopEvent"
        PROVE  pc'["accept"] = "ended" \/ (pc'["accept"] = "accept" /\ wake'["accept"] = "interrupted")
    BY <1>9, <1>4, <1>6, <1>2 DEF Dispatched, StopInv, ToSet, Reported, Waiting
  <1>10. StopInv'
    BY <1>4, <1>6, <1>8, <1>9 DEF StopInv
  <1> QED BY <1>4, <1>5, <1>6, <1>7, <1>10 DEF Dispatched

(* sendStopSignal and run.                                                 *)
LEMMA StopSignalKeeps ==
  ASSUME Dispatched, StopSignal
  PROVE  Dispatched'
  <1>1. /\ Running("stopSignal", "start") /\ handlerStop' = TRUE
        /\ resuming' = Append(Tail(resuming), "main")
        /\ wake' = [wake EXCEPT !["stopSignal"] = "none", !["main"] = "ready"]
        /\ pc' = [pc EXCEPT !["stopSignal"] = "ended"]
        /\ UNCHANGED <<group, interrupted, m_stop, remote, incoming>>
    BY DEF StopSignal, boundVars
  <1>2. ContextTypes'
    BY <1>1, Names DEF Dispatched, ContextTypes, Place
  <1>3. /\ pc'["accept"] = pc["accept"] /\ pc'["main"] = pc["main"] /\ wake'["accept"] = wake["accept"]
        /\ pc["stopSignal"] = "start"
    BY <1>1, Names DEF Dispatched, ContextTypes, Running
  <1>4. m_stop
    BY <1>3 DEF Dispatched, StopInv
  <1>5. ASSUME pc["main"] = "stopEvent" PROVE AcceptInv' /\ StopOrder'
    <2>1. AcceptInv /\ StopOrder /\ resuming # <<>> /\ Head(resuming) = "stopSignal"
      BY <1>1, <1>5 DEF Dispatched, StopInv, Running
    <2>2. /\ Tail(resuming) \in Seq(Context) /\ ToSet(Tail(resuming)) \subseteq ToSet(resuming)
          /\ ToSet(resuming) \subseteq ToSet(Tail(resuming)) \cup {"stopSignal"} /\ Ordered(Tail(resuming))
      BY <2>1, TailOfQueue DEF AcceptInv, StopOrder
    <2>3. /\ resuming' \in Seq(Context) /\ ToSet(resuming') = ToSet(Tail(resuming)) \cup {"main"}
          /\ Ordered(resuming')
      BY <2>2, <1>1, Names, AppendToQueue
    <2>4. StopOrder'
      BY <2>3, <1>1, <1>4 DEF StopOrder
    <2>5. AcceptInv'
      BY <2>1, <2>2, <2>3, <1>1, <1>3 DEF AcceptInv
    <2> QED BY <2>4, <2>5
  <1>6. StopInv'
    BY <1>1, <1>3, <1>4, <1>5 DEF Dispatched, StopInv
  <1> QED BY <1>1, <1>2, <1>3, <1>6 DEF Dispatched, AcceptReady

(* run interrupts the accept loop, which waits or has ended.               *)
LEMMA StopGroupKeeps ==
  ASSUME Dispatched, StopGroup
  PROVE  Dispatched'
  <1>1. /\ Running("main", "stopEvent") /\ pc' = [pc EXCEPT !["main"] = "join"]
        /\ UNCHANGED <<group, m_stop, remote, incoming>>
    BY DEF StopGroup, stopVars, boundVars
  <1> DEFINE hit == {c \in ToSet(group) : Waiting(c)}
  <1>2. PICK expired \in SUBSET {c \in hit : pc[c] = "sleep"} :
          /\ wake' = [c \in Context |->
                        IF c \notin hit THEN wake[c]
                        ELSE IF c \in expired THEN "ready" ELSE "interrupted"]
          /\ interrupted' = [c \in Context |-> interrupted[c] \/ c \in ToSet(group) \ hit]
    BY DEF StopGroup, InterruptGroup
  <1> HIDE DEF hit
  <1>3. pc' \in [Context -> Place] /\ wake' \in [Context -> {"none", "ready", "interrupted"}]
    BY <1>1, <1>2, Names DEF Dispatched, ContextTypes, Place
  <1>4. interrupted' \in [Context -> BOOLEAN]
    BY <1>2
  <1>5. pc'["accept"] = pc["accept"] /\ pc'["main"] = "join" /\ pc["main"] = "stopEvent"
    BY <1>1, Names DEF Dispatched, ContextTypes, Running
  <1>6. AcceptInv /\ StopOrder /\ resuming # <<>> /\ Head(resuming) = "main"
    BY <1>1, <1>5 DEF Dispatched, StopInv, Running
  <1>7. "accept" \notin ToSet(resuming)
    BY <1>6, TailOfQueue DEF AcceptInv, StopOrder
  <1>8. pc["accept"] = "ended" \/ (pc["accept"] = "accept" /\ wake["accept"] = "none" /\ "accept" \in ToSet(group))
    BY <1>6, <1>7 DEF AcceptInv, Dispatched, ContextTypes
  <1>9. pc["accept"] = "accept" => wake'["accept"] = "interrupted"
    BY <1>2, <1>8, Names DEF hit, Waiting
  <1>10. m_stop
    <2>1. "main" \in ToSet(resuming)
      BY <1>6, TailOfQueue DEF AcceptInv, ToSet
    <2> QED BY <2>1, <1>6 DEF StopOrder
  <1>11. ContextTypes'
    BY <1>1, <1>3, <1>4, <1>5 DEF Dispatched, ContextTypes
  <1>12. StopInv'
    BY <1>1, <1>5, <1>8, <1>9, <1>10 DEF StopInv
  <1> QED BY <1>1, <1>5, <1>8, <1>9, <1>11, <1>12 DEF Dispatched, AcceptReady

LEMMA ReturnKeeps ==
  ASSUME Dispatched, Return
  PROVE  Dispatched'
  <1>1. /\ Running("main", "join") /\ pc' = [pc EXCEPT !["main"] = "returned"]
        /\ UNCHANGED <<group, wake, interrupted, m_stop, remote, incoming>>
    BY DEF Return, stopVars, boundVars
  <1>2. pc'["accept"] = pc["accept"] /\ pc'["main"] = "returned" /\ pc["main"] = "join"
        /\ pc'["stopSignal"] = pc["stopSignal"]
    BY <1>1, Names DEF Dispatched, ContextTypes, Running
  <1>3. ContextTypes'
    BY <1>1, <1>2, Names DEF Dispatched, ContextTypes, Place
  <1>4. StopInv'
    BY <1>1, <1>2 DEF Dispatched, StopInv
  <1> QED BY <1>1, <1>2, <1>3, <1>4 DEF Dispatched, AcceptReady
-----------------------------------------------------------------------------
(* Connections that come and go. *)
(* No outgoing connection is new, and none has another address.            *)
NoneNew ==
  Outgoing' \subseteq Outgoing /\ \A c \in Outgoing' : m_connections'[c].m_remote = m_connections[c].m_remote

LEMMA FewerKeeps ==
  ASSUME ConnectionTypes, OutgoingBounded, NoneNew
  PROVE  /\ OutgoingBounded' /\ Cardinality(Outgoing') \in Nat
         /\ Cardinality(Outgoing') <= Cardinality(Outgoing)
         /\ \A a : ~is_addr_connected(a) => ~ \E c \in Outgoing' : m_connections'[c].m_remote = a
  <1>1. \A a : ~is_addr_connected(a) => ~ \E c \in Outgoing' : m_connections'[c].m_remote = a
    BY DEF NoneNew, is_addr_connected
  <1>2. Cardinality(Outgoing') \in Nat /\ Cardinality(Outgoing') <= Cardinality(Outgoing)
    BY FiniteConnections, FS_Subset, FS_CardinalityType DEF NoneNew
  <1>3. Ordinary' \in SUBSET Ordinary
    BY DEF NoneNew, Ordinary
  <1>4. Cardinality(Ordinary') \in Nat /\ Cardinality(Ordinary') <= Cardinality(Ordinary)
    BY <1>3, FiniteConnections, FS_Subset, FS_CardinalityType
  <1>5. Cardinality(Ordinary) <= ConnectionsCount
    BY DEF Ordinary, OutgoingBounded
  <1>6. Cardinality(Ordinary') <= ConnectionsCount
    BY <1>4, <1>5, FiniteConnections, NodeAssumption
  <1>7. \A c, d \in Outgoing' : m_connections'[c].m_remote = m_connections'[d].m_remote => c = d
    BY DEF NoneNew, OutgoingBounded
  <1>8. OutgoingBounded'
    BY <1>6, <1>7 DEF OutgoingBounded, Ordinary
  <1> QED BY <1>1, <1>2, <1>8

(* A step of a context other than connections_maker.                       *)
LEMMA OthersKeep ==
  ASSUME NodeInv, Dispatched', ConnectionTypes', NoneNew, ListsInv',
         UNCHANGED maker, pc'["idle"] = pc["idle"],
         incoming' \in Nat, incoming' <= MaxIncoming, Cardinality(Incoming') <= incoming'
  PROVE  NodeInv'
  <1>1. /\ OutgoingBounded' /\ Cardinality(Outgoing') \in Nat
        /\ Cardinality(Outgoing') <= Cardinality(Outgoing)
        /\ \A a : ~is_addr_connected(a) => ~ \E c \in Outgoing' : m_connections'[c].m_remote = a
    BY FewerKeeps DEF NodeInv
  <1>2. Cardinality(Outgoing) \in Nat /\ ConnectionsCount \in Nat
    BY FiniteConnections, NodeAssumption DEF NodeInv
  <1>3. Cardinality(Outgoing) < ConnectionsCount => Cardinality(Outgoing') < ConnectionsCount
    BY <1>1, <1>2
  <1>4. ~is_addr_connected(maker.target) => ~is_addr_connected(maker.target)'
    BY <1>1 DEF is_addr_connected
  <1>5. MakerInv'
    BY <1>3, <1>4 DEF NodeInv, MakerInv
  <1>6. MakerTypes'
    BY DEF NodeInv, MakerTypes
  <1> QED BY <1>1, <1>5, <1>6 DEF NodeInv, Dispatched, CountInv

(* Nothing is connected or closed.                                         *)
LEMMA SameConnections ==
  ASSUME NodeInv, UNCHANGED m_connections,
         \A c \in Connection : /\ pc'[c] # "ended" => pc[c] # "ended"
                               /\ pc'[c] = "ping" => pc[c] = "ping"
  PROVE  /\ ConnectionTypes' /\ NoneNew /\ Outgoing' = Outgoing /\ Incoming' = Incoming
         /\ \A a : is_addr_connected(a) <=> \E c \in Outgoing' : m_connections'[c].m_remote = a
  <1>1. Outgoing' = Outgoing /\ Incoming' = Incoming
    BY DEF Outgoing, Incoming
  <1>2. ConnectionTypes'
    BY <1>1 DEF NodeInv, ConnectionTypes
  <1> QED BY <1>1, <1>2 DEF NoneNew, is_addr_connected

LEMMA QuietKeeps ==
  ASSUME NodeInv, Dispatched', ListsInv', UNCHANGED <<maker, m_connections, incoming>>,
         pc'["idle"] = pc["idle"],
         \A c \in Connection : /\ pc'[c] # "ended" => pc[c] # "ended"
                               /\ pc'[c] = "ping" => pc[c] = "ping"
  PROVE  NodeInv'
  <1>1. ConnectionTypes' /\ NoneNew /\ Incoming' = Incoming
    BY SameConnections
  <1>2. incoming' \in Nat /\ incoming' <= MaxIncoming /\ Cardinality(Incoming') <= incoming'
    BY <1>1 DEF NodeInv, MakerTypes, CountInv
  <1> QED BY <1>1, <1>2, OthersKeep

(* A step of connections_maker that opens no connection.                   *)
LEMMA MakerKeeps ==
  ASSUME NodeInv, Dispatched', ListsInv', MakerTypes', MakerInv', UNCHANGED <<m_connections, incoming>>,
         \A c \in Connection : pc'[c] = pc[c]
  PROVE  NodeInv'
  <1>1. ConnectionTypes' /\ NoneNew /\ Incoming' = Incoming
    BY SameConnections
  <1>2. OutgoingBounded'
    BY <1>1, FewerKeeps DEF NodeInv
  <1>3. CountInv'
    BY <1>1 DEF NodeInv, CountInv, Dispatched
  <1> QED BY <1>1, <1>2, <1>3 DEF NodeInv, Dispatched

LEMMA CloseKeeps ==
  ASSUME NodeInv, NEW c \in Connection, CloseConnection(c)
  PROVE  NodeInv'
  <1>1. /\ Finish(c) /\ m_connections' = [d \in DOMAIN m_connections \ {c} |-> m_connections[d]]
        /\ UNCHANGED <<stopVars, peerVars, maker, incoming>> /\ \E w : Running(c, w)
    BY DEF CloseConnection
  <1>2. Dispatched'
    BY <1>1, FinishKeeps DEF NodeInv, Dispatched, CountInv
  <1>3. pc' = [pc EXCEPT ![c] = "ended"] /\ pc'["idle"] = pc["idle"]
    BY <1>1, Names DEF Finish, NodeInv, ContextTypes
  <1>4. DOMAIN m_connections' = DOMAIN m_connections \ {c} /\ \A d \in DOMAIN m_connections' : m_connections'[d] = m_connections[d]
    BY <1>1
  <1>5. Outgoing' \subseteq Outgoing /\ Incoming' \subseteq Incoming
    BY <1>4 DEF Outgoing, Incoming
  <1>6. NoneNew
    BY <1>4, <1>5 DEF NoneNew, Outgoing
  <1>7. ConnectionTypes'
    <2>1. IsFiniteSet(DOMAIN m_connections') /\ DOMAIN m_connections' \subseteq Connection
      BY <1>4, FS_Subset DEF NodeInv, ConnectionTypes
    <2>2. m_connections' \in [DOMAIN m_connections' -> ConnectionRecord]
      BY <1>1, <1>4 DEF NodeInv, ConnectionTypes
    <2>3. \A d \in Outgoing' : m_connections'[d].m_remote \in Address
      BY <1>5, <1>6 DEF NodeInv, ConnectionTypes, NoneNew
    <2>4. \A d \in Connection : pc'[d] # "ended" => d # c /\ pc'[d] = pc[d]
      BY <1>3, Names DEF NodeInv, ContextTypes
    <2>5. \A d \in Connection : pc'[d] # "ended" => d \in DOMAIN m_connections'
      BY <2>4, <1>4 DEF NodeInv, ConnectionTypes
    <2>6. \A d \in Connection : pc'[d] = "ping" => m_connections'[d].peerId \in Address
      BY <2>4, <2>5, <1>4 DEF NodeInv, ConnectionTypes
    <2> QED BY <2>1, <2>2, <2>3, <2>5, <2>6 DEF ConnectionTypes
  <1>8. Cardinality(Incoming') <= incoming' /\ incoming' \in Nat /\ incoming' <= MaxIncoming
    <2>1. Cardinality(Incoming') \in Nat /\ Cardinality(Incoming') <= Cardinality(Incoming)
      BY <1>5, FiniteConnections, FS_Subset, FS_CardinalityType DEF NodeInv
    <2> QED BY <2>1, <1>1, FiniteConnections DEF NodeInv, CountInv, MakerTypes
  <1>9. ListsInv'
    BY <1>1 DEF peerVars, NodeInv, ListsInv, GoodGray, GoodList
  <1> QED BY <1>1, <1>2, <1>3, <1>6, <1>7, <1>8, <1>9, OthersKeep

LEMMA HandshakeKeeps ==
  ASSUME NodeInv, NEW c \in Connection, handle_handshake(c)
  PROVE  NodeInv'
  <1>1. PICK a \in Visitors, my_port \in BOOLEAN :
          /\ m_connections' = [m_connections EXCEPT ![c].peerId = a]
          /\ Block(c, IF my_port /\ is_ip_allowed(a) THEN "ping" ELSE "read")
    BY DEF handle_handshake
  <1> DEFINE p == IF my_port /\ is_ip_allowed(a) THEN "ping" ELSE "read"
  <1>2. p \in {"ping", "read"} /\ Block(c, p) /\ Running(c, "read")
    BY <1>1 DEF handle_handshake
  <1> HIDE DEF p
  <1>3. UNCHANGED <<stopVars, peerVars, maker, incoming>>
    BY DEF handle_handshake, boundVars
  <1>4. Dispatched'
    BY <1>2, <1>3, BlockKeeps DEF NodeInv, Dispatched, CountInv, Place
  <1>5. pc' = [pc EXCEPT ![c] = p] /\ pc'["idle"] = pc["idle"] /\ pc[c] = "read"
    BY <1>2, Names DEF Block, Running, NodeInv, ContextTypes
  <1>6. c \in DOMAIN m_connections /\ a \in Address
    BY <1>5, NodeAssumption DEF NodeInv, ConnectionTypes
  <1>7. /\ DOMAIN m_connections' = DOMAIN m_connections /\ m_connections' \in [DOMAIN m_connections -> ConnectionRecord]
        /\ m_connections'[c].peerId = a
        /\ \A d \in DOMAIN m_connections : d # c => m_connections'[d] = m_connections[d]
        /\ \A d \in DOMAIN m_connections : /\ m_connections'[d].m_is_income = m_connections[d].m_is_income
                                           /\ m_connections'[d].m_remote = m_connections[d].m_remote
    BY <1>1, <1>6 DEF NodeInv, ConnectionTypes, ConnectionRecord
  <1>8. Outgoing' = Outgoing /\ Incoming' = Incoming
    BY <1>7 DEF Outgoing, Incoming
  <1>9. NoneNew
    BY <1>7, <1>8 DEF NoneNew, Outgoing
  <1>10. ConnectionTypes'
    <2>1. \A d \in Connection : d # c => pc'[d] = pc[d]
      BY <1>5, Names DEF NodeInv, ContextTypes
    <2>2. \A d \in Connection : pc'[d] # "ended" => d \in DOMAIN m_connections'
      BY <2>1, <1>6, <1>7 DEF NodeInv, ConnectionTypes
    <2>3. \A d \in Connection : pc'[d] = "ping" => m_connections'[d].peerId \in Address
      BY <2>1, <2>2, <1>6, <1>7 DEF NodeInv, ConnectionTypes
    <2>4. \A d \in Outgoing' : m_connections'[d].m_remote \in Address
      BY <1>8, <1>9 DEF NodeInv, ConnectionTypes, NoneNew
    <2> QED BY <2>2, <2>3, <2>4, <1>7 DEF NodeInv, ConnectionTypes
  <1>11. Cardinality(Incoming') <= incoming' /\ incoming' \in Nat /\ incoming' <= MaxIncoming
    BY <1>3, <1>8 DEF NodeInv, CountInv, MakerTypes
  <1>12. ListsInv'
    BY <1>3 DEF peerVars, NodeInv, ListsInv, GoodGray, GoodList
  <1> QED BY <1>3, <1>4, <1>5, <1>9, <1>10, <1>11, <1>12, OthersKeep

(* A new connection has a record of its own; the others keep theirs.       *)
LEMMA NewConnectionKeeps ==
  ASSUME NodeInv, NEW h \in Connection, h \notin DOMAIN m_connections,
         NEW a \in Address \cup {"unknown"}, NEW income \in BOOLEAN, NEW peer \in Address \cup {"unknown"},
         income \/ a \in Address, NewConnection(h, a, income, peer),
         pc'[h] = "start", \A c \in Connection : c # h => pc'[c] = pc[c]
  PROVE  /\ ConnectionTypes'
         /\ m_connections'[h] = [m_remote |-> a, m_is_income |-> income, peerId |-> peer]
         /\ \A c \in DOMAIN m_connections : m_connections'[c] = m_connections[c]
         /\ Outgoing' = IF income THEN Outgoing ELSE Outgoing \cup {h}
         /\ Incoming' = IF income THEN Incoming \cup {h} ELSE Incoming
  <1>1. /\ DOMAIN m_connections' = DOMAIN m_connections \cup {h}
        /\ m_connections'[h] = [m_remote |-> a, m_is_income |-> income, peerId |-> peer]
        /\ \A c \in DOMAIN m_connections : m_connections'[c] = m_connections[c]
    BY DEF NewConnection
  <1>2. m_connections'[h].m_is_income = income /\ m_connections'[h].m_remote = a
        /\ m_connections'[h] \in ConnectionRecord
    BY <1>1 DEF ConnectionRecord
  <1>3. Outgoing' = IF income THEN Outgoing ELSE Outgoing \cup {h}
    BY <1>1, <1>2 DEF Outgoing, Incoming
  <1>4. Incoming' = IF income THEN Incoming \cup {h} ELSE Incoming
    BY <1>1, <1>2 DEF Incoming
  <1>5. IsFiniteSet(DOMAIN m_connections') /\ DOMAIN m_connections' \subseteq Connection
    BY <1>1, FS_AddElement DEF NodeInv, ConnectionTypes
  <1>6. m_connections' \in [DOMAIN m_connections' -> ConnectionRecord]
    <2>1. m_connections' = [d \in DOMAIN m_connections \cup {h} |->
            IF d = h THEN [m_remote |-> a, m_is_income |-> income, peerId |-> peer] ELSE m_connections[d]]
      BY DEF NewConnection
    <2>2. \A d \in DOMAIN m_connections : m_connections[d] \in ConnectionRecord
      BY DEF NodeInv, ConnectionTypes
    <2> QED BY <2>1, <2>2, <1>1, <1>2
  <1>7. \A c \in Outgoing' : m_connections'[c].m_remote \in Address
    <2>1. \A c \in Outgoing : c \in DOMAIN m_connections /\ m_connections[c].m_remote \in Address
      BY DEF NodeInv, ConnectionTypes, Outgoing
    <2> QED BY <2>1, <1>1, <1>2, <1>3
  <1>8. \A c \in Connection : pc'[c] # "ended" => c \in DOMAIN m_connections'
    BY <1>1 DEF NodeInv, ConnectionTypes
  <1>9. \A c \in Connection : pc'[c] = "ping" => m_connections'[c].peerId \in Address
    <2>1. \A c \in Connection : pc'[c] = "ping" => c # h /\ pc[c] = "ping"
      OBVIOUS
    <2> QED BY <2>1, <1>1 DEF NodeInv, ConnectionTypes
  <1> QED BY <1>1, <1>3, <1>4, <1>5, <1>6, <1>7, <1>8, <1>9 DEF ConnectionTypes

LEMMA AcceptKeeps ==
  ASSUME NodeInv, Accept
  PROVE  NodeInv'
  <1>1. Running("accept", "accept") /\ UNCHANGED <<stopVars, peerVars, maker>> /\ pc["accept"] = "accept"
    BY DEF Accept, Running
  <1>2. ListsInv'
    BY <1>1 DEF peerVars, NodeInv, ListsInv, GoodGray, GoodList
  <1>3. CASE wake["accept"] = "interrupted" /\ Finish("accept") /\ UNCHANGED <<m_connections, incoming>>
    <2>1. Dispatched'
      BY <1>1, <1>3, FinishKeeps DEF NodeInv, Dispatched, CountInv, Loops
    <2>2. pc' = [pc EXCEPT !["accept"] = "ended"]
      BY <1>3 DEF Finish
    <2>3. pc'["idle"] = pc["idle"] /\ \A c \in Connection : pc'[c] = pc[c]
      BY <2>2, Names DEF NodeInv, ContextTypes
    <2> QED BY <2>1, <2>3, <1>1, <1>2, <1>3, QuietKeeps
  <1>4. CASE /\ wake["accept"] = "ready" /\ Spawn("accept", FreeId, "start")
             /\ NewConnection(FreeId, "unknown", TRUE, "unknown") /\ incoming' = incoming + 1
    <2>1. incoming < MaxIncoming /\ incoming \in Nat /\ MaxIncoming \in Nat
      BY <1>1, <1>4, NodeAssumption DEF NodeInv, CountInv, AcceptReady, MakerTypes
    <2>2. FreeId \in Connection /\ FreeId \notin DOMAIN m_connections
      BY <2>1, FreeIdIsFree DEF NodeInv
    <2> DEFINE h == FreeId
    <2>3. h \in Connection /\ h \notin DOMAIN m_connections /\ Spawn("accept", h, "start") /\ NewConnection(h, "unknown", TRUE, "unknown")
      BY <2>2, <1>4
    <2> HIDE DEF h
    <2>4. pc["main"] = "stopEvent"
      BY <1>1, <1>4 DEF NodeInv, StopInv
    <2>5. Dispatched'
      BY <2>3, <2>4, <1>1, SpawnKeeps DEF NodeInv, Dispatched, CountInv, Place
    <2>6. pc' = [pc EXCEPT !["accept"] = "start", ![h] = "start"]
      BY <2>3 DEF Spawn
    <2>7. pc'["idle"] = pc["idle"] /\ pc'[h] = "start" /\ \A c \in Connection : c # h => pc'[c] = pc[c]
      BY <2>3, <2>6, Names DEF NodeInv, ContextTypes
    <2>8. /\ ConnectionTypes' /\ Outgoing' = Outgoing /\ Incoming' = Incoming \cup {h}
          /\ \A c \in DOMAIN m_connections : m_connections'[c] = m_connections[c]
      BY <2>3, <2>7, NewConnectionKeeps
    <2>9. NoneNew
      BY <2>8 DEF NoneNew, Outgoing
    <2>10. Cardinality(Incoming') <= incoming' /\ incoming' \in Nat /\ incoming' <= MaxIncoming
      <3>1. h \notin Incoming
        BY <2>3 DEF Incoming
      <3>2. IsFiniteSet(Incoming) /\ Cardinality(Incoming) \in Nat
        BY FiniteConnections DEF NodeInv
      <3>3. Cardinality(Incoming \cup {h}) = Cardinality(Incoming) + 1
        BY <3>1, <3>2, FS_AddElement
      <3> QED BY <2>1, <2>8, <3>2, <3>3, <1>4 DEF NodeInv, CountInv
    <2> QED BY <2>5, <2>7, <2>8, <2>9, <2>10, <1>1, <1>2, OthersKeep
  <1> QED BY <1>3, <1>4 DEF Accept

(* Steps that move one context other than connections_maker and touch no   *)
(* connection.                                                             *)
LEMMA WaitsKeep ==
  ASSUME NodeInv, NEW c \in {"timedSync"} \cup Connection, NEW w, NEW p \in Place \ {"ended", "ping"},
         Running(c, w), w # "ended", Block(c, p), UNCHANGED <<stopVars, m_connections, maker, incoming>>, ListsInv'
  PROVE  NodeInv'
  <1>1. Dispatched'
    BY BlockKeeps DEF NodeInv, Dispatched, CountInv
  <1>2. pc' = [pc EXCEPT ![c] = p] /\ pc[c] # "ended"
    BY DEF Block, Running
  <1>3. pc'["idle"] = pc["idle"]
    BY <1>2, Names DEF NodeInv, ContextTypes
  <1>4. \A d \in Connection : (pc'[d] # "ended" => pc[d] # "ended") /\ (pc'[d] = "ping" => pc[d] = "ping")
    BY <1>2, Names DEF NodeInv, ContextTypes
  <1> QED BY <1>1, <1>3, <1>4, QuietKeeps

LEMMA StartLoopKeeps ==
  ASSUME NodeInv, StartLoop
  PROVE  NodeInv'
  <1>1. ListsInv' /\ UNCHANGED <<stopVars, m_connections, maker, incoming>>
    BY DEF StartLoop, peerVars, boundVars, NodeInv, ListsInv, GoodGray, GoodList
  <1>2. CASE Running("accept", "start") /\ Block("accept", "accept")
    <2>1. Dispatched'
      BY <1>1, <1>2, BlockAcceptKeeps DEF NodeInv, Dispatched, CountInv
    <2>2. pc' = [pc EXCEPT !["accept"] = "accept"]
      BY <1>2 DEF Block
    <2>3. pc'["idle"] = pc["idle"] /\ \A c \in Connection : pc'[c] = pc[c]
      BY <2>2, Names DEF NodeInv, ContextTypes
    <2> QED BY <2>1, <2>3, <1>1, QuietKeeps
  <1>3. CASE Running("timedSync", "start") /\ Block("timedSync", "sleep")
    BY <1>1, <1>3, WaitsKeep DEF Place
  <1> QED BY <1>2, <1>3 DEF StartLoop

LEMMA TimedSyncKeeps ==
  ASSUME NodeInv, TimedSync
  PROVE  NodeInv'
  <1>1. ListsInv' /\ UNCHANGED <<stopVars, m_connections, maker, incoming>> /\ Running("timedSync", "sleep")
    BY DEF TimedSync, peerVars, boundVars, NodeInv, ListsInv, GoodGray, GoodList
  <1>2. CASE Block("timedSync", "sleep")
    BY <1>1, <1>2, WaitsKeep DEF Place
  <1>3. CASE Finish("timedSync")
    <2>1. Dispatched'
      BY <1>1, <1>3, FinishKeeps DEF NodeInv, Dispatched, CountInv, Loops
    <2>2. pc' = [pc EXCEPT !["timedSync"] = "ended"]
      BY <1>3 DEF Finish
    <2>3. pc'["idle"] = pc["idle"] /\ \A c \in Connection : pc'[c] = pc[c]
      BY <2>2, Names DEF NodeInv, ContextTypes
    <2> QED BY <2>1, <2>3, <1>1, QuietKeeps
  <1> QED BY <1>2, <1>3 DEF TimedSync

LEMMA HandlerKeeps ==
  ASSUME NodeInv, NEW c \in Connection, Handler(c)
  PROVE  NodeInv'
  <1>1. CASE StartHandler(c)
    <2>1. ListsInv' /\ UNCHANGED <<stopVars, m_connections, maker, incoming>>
      BY <1>1 DEF StartHandler, peerVars, boundVars, NodeInv, ListsInv, GoodGray, GoodList
    <2> QED BY <1>1, <2>1, WaitsKeep DEF StartHandler, Place
  <1>2. CASE EndObjects(c)
    <2>1. ListsInv' /\ UNCHANGED <<stopVars, m_connections, maker, incoming>>
      BY <1>2 DEF EndObjects, peerVars, boundVars, NodeInv, ListsInv, GoodGray, GoodList
    <2> QED BY <1>2, <2>1, WaitsKeep DEF EndObjects, Place
  <1>3. CASE PingAnswered(c)
    <2>1. /\ Running(c, "ping") /\ Block(c, "read")
          /\ UNCHANGED <<stopVars, m_connections, maker, incoming>>
      BY <1>3 DEF PingAnswered, boundVars
    <2>2. m_connections[c].peerId \in Address
      BY <2>1 DEF Running, NodeInv, ConnectionTypes
    <2>3. ListsInv'
      <3>1. CASE append_with_peer_white(m_connections[c].peerId)
        BY <3>1, <2>2, SeenIsGood DEF append_with_peer_white, NodeInv, ListsInv
      <3>2. CASE UNCHANGED peerVars
        BY <3>2 DEF peerVars, NodeInv, ListsInv, GoodGray, GoodList
      <3> QED BY <3>1, <3>2, <1>3 DEF PingAnswered
    <2> QED BY <2>1, <2>3, WaitsKeep DEF Place
  <1>4. CASE handleTimedSyncResponse(c)
    <2>1. /\ Running(c, "read") /\ Block(c, "read")
          /\ UNCHANGED <<stopVars, m_connections, maker, incoming>>
      BY <1>4 DEF handleTimedSyncResponse
    <2>2. c \in DOMAIN m_connections
      BY <2>1 DEF Running, NodeInv, ConnectionTypes
    <2>3. PICK gray \in Merged :
            IF m_connections[c].m_is_income
            THEN m_peers_gray' = gray /\ UNCHANGED m_peers_white
            ELSE SeenWith(gray, m_connections[c].m_remote)
      BY <1>4 DEF handleTimedSyncResponse
    <2>4. GoodGray(gray)
      BY MergedIsGood DEF NodeInv, ListsInv
    <2>5. ListsInv'
      <3>1. CASE m_connections[c].m_is_income
        BY <3>1, <2>3, <2>4 DEF NodeInv, ListsInv, GoodGray, GoodList
      <3>2. CASE ~m_connections[c].m_is_income
        <4>1. m_connections[c].m_remote \in Address
          BY <3>2, <2>2 DEF NodeInv, ConnectionTypes, Outgoing, Incoming
        <4> QED BY <4>1, <3>2, <2>3, <2>4, SeenIsGood DEF NodeInv
      <3> QED BY <3>1, <3>2
    <2> QED BY <2>1, <2>5, WaitsKeep DEF Place
  <1>5. CASE processObjects(c)
    <2>1. /\ \E w \in {"read", "yield"} : Running(c, w)
          /\ ~handlerStop /\ Yield(c) /\ UNCHANGED <<m_stop, handlerStop, peerVars, m_connections, maker, incoming>>
      BY <1>5 DEF processObjects, boundVars
    <2>2. pc[c] \in {"read", "yield"}
      BY <2>1 DEF Running
    <2>3. /\ Dispatched' /\ pc'["idle"] = pc["idle"]
          /\ \A d \in Connection : pc'[d] = IF d = c THEN "yield" ELSE pc[d]
      BY <2>1, YieldKeeps DEF NodeInv, Dispatched, CountInv
    <2>4. ListsInv'
      BY <2>1 DEF peerVars, NodeInv, ListsInv, GoodGray, GoodList
    <2> QED BY <2>1, <2>2, <2>3, <2>4, QuietKeeps
  <1> QED BY <1>1, <1>2, <1>3, <1>4, <1>5, CloseKeeps, HandshakeKeeps DEF Handler

LEMMA StopKeeps ==
  ASSUME NodeInv,
         StopSignal \/ StopGroup \/ Return \/ SetStop \/ RemoteSpawn \/ \E s \in Context : Epoll(s)
  PROVE  NodeInv'
  <1>1. ListsInv' /\ UNCHANGED <<m_connections, maker, incoming>>
    BY DEF StopSignal, StopGroup, Return, SetStop, RemoteSpawn, Epoll, peerVars, boundVars,
           NodeInv, ListsInv, GoodGray, GoodList
  <1>2. Dispatched
    BY DEF NodeInv, Dispatched, CountInv
  <1>3. CASE SetStop \/ RemoteSpawn
    <2>1. UNCHANGED <<resuming, group, pc, wake, interrupted, handlerStop>> /\ (m_stop => m_stop') /\ (remote' => m_stop' \/ remote)
      BY <1>3 DEF SetStop, RemoteSpawn, dispatcherVars
    <2>2. Dispatched'
      BY <2>1, <1>1, <1>2 DEF Dispatched, ContextTypes, StopInv, AcceptReady, AcceptInv, StopOrder
    <2> QED BY <2>1, <2>2, <1>1, QuietKeeps
  <1>4. CASE StopSignal
    <2>1. pc' = [pc EXCEPT !["stopSignal"] = "ended"]
      BY <1>4 DEF StopSignal
    <2>2. pc'["idle"] = pc["idle"] /\ \A c \in Connection : pc'[c] = pc[c]
      BY <2>1, Names DEF NodeInv, ContextTypes
    <2> QED BY <2>2, <1>1, <1>2, <1>4, StopSignalKeeps, QuietKeeps
  <1>5. CASE StopGroup
    <2>1. pc' = [pc EXCEPT !["main"] = "join"]
      BY <1>5 DEF StopGroup
    <2>2. pc'["idle"] = pc["idle"] /\ \A c \in Connection : pc'[c] = pc[c]
      BY <2>1, Names DEF NodeInv, ContextTypes
    <2> QED BY <2>2, <1>1, <1>2, <1>5, StopGroupKeeps, QuietKeeps
  <1>6. CASE Return
    <2>1. pc' = [pc EXCEPT !["main"] = "returned"]
      BY <1>6 DEF Return
    <2>2. pc'["idle"] = pc["idle"] /\ \A c \in Connection : pc'[c] = pc[c]
      BY <2>1, Names DEF NodeInv, ContextTypes
    <2> QED BY <2>2, <1>1, <1>2, <1>6, ReturnKeeps, QuietKeeps
  <1>7. ASSUME NEW s \in Context, Epoll(s) PROVE NodeInv'
    <2>1. pc' = IF s = "stopSignal" THEN [pc EXCEPT ![s] = "start"] ELSE pc
      BY <1>7 DEF Epoll
    <2>2. pc'["idle"] = pc["idle"] /\ \A c \in Connection : pc'[c] = pc[c]
      BY <2>1, Names DEF NodeInv, ContextTypes
    <2> QED BY <2>2, <1>1, <1>2, <1>7, EpollKeeps, QuietKeeps
  <1> QED BY <1>3, <1>4, <1>5, <1>6, <1>7
-----------------------------------------------------------------------------
(* connections_maker. *)
LEMMA ExpectedIsBounded ==
  ExpectedWhite \in 0 .. ConnectionsCount
  <1>1. ConnectionsCount \in Nat
    BY NodeAssumption
  <1>2. ExpectedWhite = (ConnectionsCount * 70) \div 100
    BY DEF ExpectedWhite, P2P_DEFAULT_WHITELIST_CONNECTIONS_PERCENT
  <1> QED BY <1>1, <1>2

LEMMA NoMakerTyped ==
  /\ NoMaker \in Maker /\ NoMaker.for = "none" /\ NoMaker.stage = <<>>
  /\ \A s \in Seq([white : BOOLEAN, expected : 0 .. ConnectionsCount]) :
       [NoMaker EXCEPT !.stage = s] \in Maker /\ [NoMaker EXCEPT !.stage = s].stage = s
  <1> DEFINE T == Seq([white : BOOLEAN, expected : 0 .. ConnectionsCount])
  <1>1. <<>> \in T /\ Own \in Address
    BY NodeAssumption
  <1> HIDE DEF T
  <1>2. Maker = [stage : T, next : Nat \ {0}, tries : Nat, count : Nat, tried : SUBSET Nat,
                 target : Address, for : {"none", "seed", "priority", "list"}]
    BY DEF Maker, T
  <1>3. NoMaker \in Maker /\ NoMaker.for = "none" /\ NoMaker.stage = <<>>
    BY <1>1, <1>2 DEF NoMaker
  <1>4. ASSUME NEW s \in T
        PROVE  [NoMaker EXCEPT !.stage = s] \in Maker /\ [NoMaker EXCEPT !.stage = s].stage = s
    BY <1>2, <1>3
  <1> QED BY <1>3, <1>4 DEF T

(* It goes to wait for a peer.                                             *)
LEMMA TryKeeps ==
  ASSUME NodeInv, NEW w, Running("idle", w),
         NEW a \in Address, NEW purpose \in {"seed", "priority", "list"},
         NEW next \in Nat \ {0}, NEW tries \in Nat, NEW tried \in SUBSET Nat,
         TryToConnect(a, purpose, next, tries, tried),
         purpose # "seed" => ~is_addr_connected(a),
         purpose = "priority" => a \in ToSet(Priority),
         purpose = "list" => Cardinality(Outgoing) < ConnectionsCount /\ maker.stage # <<>>,
         UNCHANGED <<stopVars, peerVars, m_connections, boundVars>>
  PROVE  NodeInv'
  <1>1. /\ maker' = [maker EXCEPT !.target = a, !.for = purpose, !.next = next, !.tries = tries, !.tried = tried]
        /\ Block("idle", "connect") /\ UNCHANGED incoming
    BY DEF TryToConnect, boundVars
  <1>2. Dispatched'
    BY <1>1, BlockKeeps DEF NodeInv, Dispatched, CountInv, Place
  <1>3. pc' = [pc EXCEPT !["idle"] = "connect"]
    BY <1>1 DEF Block
  <1>4. pc'["idle"] = "connect" /\ \A c \in Connection : pc'[c] = pc[c]
    BY <1>3, Names DEF NodeInv, ContextTypes
  <1>5. /\ maker' \in Maker /\ maker'.target = a /\ maker'.for = purpose /\ maker'.stage = maker.stage
    BY <1>1 DEF NodeInv, MakerTypes, Maker
  <1>6. MakerTypes'
    BY <1>1, <1>5 DEF NodeInv, MakerTypes
  <1>7. Outgoing' = Outgoing
    BY DEF Outgoing, Incoming
  <1>8. is_addr_connected(maker.target)' <=> is_addr_connected(a)
    BY <1>5, <1>7 DEF is_addr_connected
  <1>9. MakerInv'
    BY <1>4, <1>5, <1>7, <1>8 DEF MakerInv
  <1>10. ListsInv'
    BY DEF peerVars, NodeInv, ListsInv, GoodGray, GoodList
  <1> QED BY <1>1, <1>2, <1>4, <1>6, <1>9, <1>10, MakerKeeps

(* It goes on at another place, or to sleep.                               *)
LEMMA MoveKeeps ==
  ASSUME NodeInv, NEW p \in {"seedFailed", "priority", "stages", "draw"}, Goto("idle", p), maker' \in Maker,
         p = "draw" => Cardinality(Outgoing) < ConnectionsCount /\ maker'.stage # <<>>,
         UNCHANGED <<stopVars, m_connections, incoming>>, ListsInv'
  PROVE  NodeInv'
  <1>1. Dispatched'
    BY GotoKeeps DEF NodeInv, Dispatched, CountInv, Place
  <1>2. pc' = [pc EXCEPT !["idle"] = p]
    BY DEF Goto
  <1>3. pc'["idle"] = p /\ \A c \in Connection : pc'[c] = pc[c]
    BY <1>2, Names DEF NodeInv, ContextTypes
  <1>4. Outgoing' = Outgoing
    BY DEF Outgoing, Incoming
  <1>5. MakerInv' /\ MakerTypes'
    BY <1>3, <1>4 DEF MakerInv, MakerTypes, NodeInv
  <1> QED BY <1>1, <1>3, <1>5, MakerKeeps

LEMMA SleepKeeps ==
  ASSUME NodeInv, NEW w, Running("idle", w), Block("idle", "sleep") \/ Finish("idle"),
         maker' \in Maker, UNCHANGED <<stopVars, m_connections, incoming>>, ListsInv'
  PROVE  NodeInv'
  <1>1. Dispatched'
    BY BlockKeeps, FinishKeeps DEF NodeInv, Dispatched, CountInv, Place, Loops
  <1>2. pc' = [pc EXCEPT !["idle"] = "sleep"] \/ pc' = [pc EXCEPT !["idle"] = "ended"]
    BY DEF Block, Finish
  <1>3. pc'["idle"] \in {"sleep", "ended"} /\ \A c \in Connection : pc'[c] = pc[c]
    BY <1>2, Names DEF NodeInv, ContextTypes
  <1>4. MakerInv' /\ MakerTypes'
    BY <1>3 DEF MakerInv, MakerTypes, NodeInv
  <1> QED BY <1>1, <1>3, <1>4, MakerKeeps

(* connections_maker tries a seed.                                         *)
LEMMA TrySeedKeeps ==
  ASSUME NodeInv, NEW w, Running("idle", w), NEW a \in Address, NEW next \in Nat \ {0},
         NEW tries \in Nat, TryToConnect(a, "seed", next, tries, {}),
         UNCHANGED <<stopVars, peerVars, m_connections, boundVars>>
  PROVE  NodeInv'
  <1> DEFINE purpose == "seed"
             tried == {}
  <1>1. purpose \in {"seed", "priority", "list"} /\ tried \in SUBSET Nat
    OBVIOUS
  <1>2. /\ purpose # "seed" => ~is_addr_connected(a)
        /\ purpose = "priority" => a \in ToSet(Priority)
        /\ purpose = "list" => Cardinality(Outgoing) < ConnectionsCount /\ maker.stage # <<>>
    OBVIOUS
  <1>3. TryToConnect(a, purpose, next, tries, tried)
    OBVIOUS
  <1> HIDE DEF purpose, tried
  <1> QED BY <1>1, <1>2, <1>3, TryKeeps

LEMMA StartRoundKeeps ==
  ASSUME NodeInv, StartRound
  PROVE  NodeInv'
  <1>1. PICK w : Running("idle", w)
    BY DEF StartRound
  <1>2. UNCHANGED <<stopVars, peerVars, m_connections, boundVars>> /\ UNCHANGED <<stopVars, m_connections, incoming>> /\ ListsInv'
    BY DEF StartRound, peerVars, boundVars, NodeInv, ListsInv, GoodGray, GoodList
  <1>3. CASE Finish("idle") /\ UNCHANGED maker
    <2>1. maker' \in Maker
      BY <1>3 DEF NodeInv, MakerTypes
    <2> QED BY <2>1, <1>1, <1>2, <1>3, SleepKeeps
  <1>4. ASSUME NEW i \in DOMAIN Seeds, TryToConnect(Seeds[i], "seed", i, 0, {}) PROVE NodeInv'
    <2>1. Seeds[i] \in Address /\ i \in Nat \ {0}
      BY NodeAssumption
    <2> QED BY <2>1, <1>1, <1>2, <1>4, TrySeedKeeps
  <1>5. CASE maker' = NoMaker /\ Goto("idle", "priority")
    BY <1>2, <1>5, NoMakerTyped, MoveKeeps
  <1> QED BY <1>3, <1>4, <1>5 DEF StartRound

LEMMA SeedFailedKeeps ==
  ASSUME NodeInv, SeedFailed
  PROVE  NodeInv'
  <1>1. Running("idle", "seedFailed")
    BY DEF SeedFailed
  <1>2. UNCHANGED <<stopVars, peerVars, m_connections, boundVars>> /\ UNCHANGED <<stopVars, m_connections, incoming>> /\ ListsInv'
    BY DEF SeedFailed, peerVars, boundVars, NodeInv, ListsInv, GoodGray, GoodList
  <1>3. CASE maker' = NoMaker /\ Goto("idle", "priority")
    BY <1>2, <1>3, NoMakerTyped, MoveKeeps
  <1>4. CASE /\ maker.tries + 1 <= Len(Seeds)
             /\ LET i == (maker.next % Len(Seeds)) + 1 IN
                  TryToConnect(Seeds[i], "seed", i, maker.tries + 1, {})
    <2> DEFINE i == (maker.next % Len(Seeds)) + 1
    <2>1. maker.tries \in Nat /\ maker.next \in Nat /\ Len(Seeds) \in Nat /\ DOMAIN Seeds = 1 .. Len(Seeds)
      BY NodeAssumption DEF NodeInv, MakerTypes, Maker
    <2>2. Len(Seeds) > 0
      BY <2>1, <1>4
    <2>3. maker.next % Len(Seeds) \in 0 .. Len(Seeds) - 1
      BY <2>1, <2>2
    <2> DEFINE k == maker.tries + 1
    <2>4. i \in 1 .. Len(Seeds) /\ k \in Nat
      BY <2>1, <2>3
    <2>5. TryToConnect(Seeds[i], "seed", i, k, {})
      BY <1>4
    <2> HIDE DEF i, k
    <2>6. Seeds[i] \in Address /\ i \in Nat \ {0}
      BY <2>1, <2>4, NodeAssumption
    <2> QED BY <2>4, <2>5, <2>6, <1>1, <1>2, TrySeedKeeps
  <1> QED BY <1>3, <1>4 DEF SeedFailed

LEMMA PriorityKeeps ==
  ASSUME NodeInv, ConnectToPriority
  PROVE  NodeInv'
  <1>1. Running("idle", "priority")
    BY DEF ConnectToPriority
  <1>2. UNCHANGED <<stopVars, peerVars, m_connections, boundVars>> /\ UNCHANGED <<stopVars, m_connections, incoming>> /\ ListsInv'
    BY DEF ConnectToPriority, peerVars, boundVars, NodeInv, ListsInv, GoodGray, GoodList
  <1> DEFINE open == {i \in maker.next .. Len(Priority) : ~is_addr_connected(Priority[i])}
  <1>3. CASE open # {} /\ TryToConnect(Priority[Min(open)], "priority", Min(open) + 1, 0, {})
    <2>1. maker.next \in Nat \ {0} /\ Len(Priority) \in Nat /\ DOMAIN Priority = 1 .. Len(Priority)
      BY NodeAssumption DEF NodeInv, MakerTypes, Maker
    <2>2. open \in SUBSET Nat
      BY <2>1
    <2> DEFINE m == Min(open)
    <2>3. m \in open
      BY <2>2, <1>3, LeastNatural
    <2>4. m \in maker.next .. Len(Priority) /\ ~is_addr_connected(Priority[m])
      BY <2>3
    <2>5. TryToConnect(Priority[m], "priority", m + 1, 0, {})
      BY <1>3
    <2> HIDE DEF m, open
    <2>7. m \in DOMAIN Priority /\ m + 1 \in Nat \ {0}
      BY <2>1, <2>4
    <2>8. Priority[m] \in Address /\ Priority[m] \in ToSet(Priority)
      BY <2>7, NodeAssumption DEF ToSet
    <2> QED BY <2>4, <2>5, <2>7, <2>8, <1>1, <1>2, TryKeeps
  <1>4. CASE maker' = [NoMaker EXCEPT !.stage = Stages] /\ Goto("idle", "stages")
    <2>1. ConnectionsCount \in 0 .. ConnectionsCount
      BY NodeAssumption
    <2>2. \A b \in BOOLEAN : \A n \in 0 .. ConnectionsCount : Stage(b, n) \in [white : BOOLEAN, expected : 0 .. ConnectionsCount]
      BY DEF Stage
    <2> DEFINE T == [white : BOOLEAN, expected : 0 .. ConnectionsCount]
    <2>3. Stage(TRUE, ExpectedWhite) \in T /\ Stage(FALSE, ConnectionsCount) \in T /\ Stage(TRUE, ConnectionsCount) \in T
      BY <2>1, <2>2, ExpectedIsBounded
    <2> HIDE DEF T
    <2>4. Stages \in Seq(T)
      <3>0. <<>> \in Seq(T) /\ \A x, y \in T : <<x, y>> \in Seq(T)
        OBVIOUS
      <3>1. <<>> \in Seq(T) /\ <<Stage(TRUE, ExpectedWhite), Stage(FALSE, ConnectionsCount)>> \in Seq(T)
            /\ <<Stage(FALSE, ConnectionsCount), Stage(TRUE, ConnectionsCount)>> \in Seq(T)
        BY <2>3, <3>0
      <3> QED BY <3>1 DEF Stages
    <2>5. maker' \in Maker
      BY <2>4, <1>4, NoMakerTyped DEF T
    <2> QED BY <2>5, <1>2, <1>4, MoveKeeps
  <1> QED BY <1>3, <1>4 DEF ConnectToPriority

LEMMA StagesKeep ==
  ASSUME NodeInv, EndRound \/ EndStage \/ StartDraws
  PROVE  NodeInv'
  <1>1. UNCHANGED <<stopVars, m_connections, incoming>> /\ ListsInv'
    BY DEF EndRound, EndStage, StartDraws, peerVars, boundVars, NodeInv, ListsInv, GoodGray, GoodList
  <1> DEFINE T == [white : BOOLEAN, expected : 0 .. ConnectionsCount]
  <1>2. maker.stage \in Seq(T)
    BY DEF NodeInv, MakerTypes, Maker
  <1>3. CASE EndRound
    BY <1>1, <1>3, NoMakerTyped, SleepKeeps DEF EndRound
  <1>4. CASE EndStage
    <2>1. Tail(maker.stage) \in Seq(T)
      <3> HIDE DEF T
      <3> QED BY <1>2, <1>4 DEF EndStage
    <2>2. maker' \in Maker
      BY <2>1, <1>4, NoMakerTyped DEF EndStage
    <2> QED BY <2>2, <1>1, <1>4, MoveKeeps DEF EndStage
  <1>5. CASE StartDraws
    <2>1. /\ maker.stage # <<>> /\ Cardinality(Outgoing) < Head(maker.stage).expected
          /\ maker' = [NoMaker EXCEPT !.stage = maker.stage, !.count = Len(ListOf(Head(maker.stage)))]
          /\ Goto("idle", "draw")
      BY <1>5 DEF StartDraws, Missing
    <2>2. Head(maker.stage) \in T
      <3> HIDE DEF T
      <3> QED BY <1>2, <2>1
    <2>3. Head(maker.stage).expected \in 0 .. ConnectionsCount
      BY <2>2
    <2>4. Cardinality(Outgoing) < ConnectionsCount
      BY <2>1, <2>3, FiniteConnections, NodeAssumption, SMTT(30) DEF NodeInv
    <2>5. Len(ListOf(Head(maker.stage))) \in Nat
      BY DEF ListOf, NodeInv, ListsInv, GoodGray, GoodList
    <2>6. maker' \in Maker /\ maker'.stage = maker.stage
      <3> DEFINE n == Len(ListOf(Head(maker.stage)))
      <3>1. n \in Nat /\ maker' = [NoMaker EXCEPT !.stage = maker.stage, !.count = n]
        BY <2>1, <2>5
      <3> HIDE DEF n
      <3>2. NoMaker \in Maker
        BY NoMakerTyped
      <3> QED BY <3>1, <3>2, <1>2 DEF Maker
    <2> QED BY <2>1, <2>4, <2>6, <1>1, MoveKeeps
  <1> QED BY <1>3, <1>4, <1>5

LEMMA DrawKeeps ==
  ASSUME NodeInv, (\E i \in 0 .. 20 : Draw(i)) \/ GiveUp
  PROVE  NodeInv'
  <1>1. /\ UNCHANGED <<stopVars, peerVars, m_connections, boundVars>> /\ ListsInv'
        /\ UNCHANGED <<stopVars, m_connections, incoming>> /\ Running("idle", "draw")
    BY DEF Draw, GiveUp, peerVars, boundVars, NodeInv, ListsInv, GoodGray, GoodList
  <1>2. Cardinality(Outgoing) < ConnectionsCount /\ maker.stage # <<>>
    BY <1>1 DEF Running, NodeInv, MakerInv
  <1>3. maker \in Maker
    BY DEF NodeInv, MakerTypes
  <1>4. [NoMaker EXCEPT !.stage = Tail(maker.stage)] \in Maker
    <2> DEFINE T == [white : BOOLEAN, expected : 0 .. ConnectionsCount]
    <2>1. maker.stage \in Seq(T)
      BY <1>3 DEF Maker
    <2>2. Tail(maker.stage) \in Seq(T)
      <3> HIDE DEF T
      <3> QED BY <2>1, <1>2
    <2> QED BY <2>2, NoMakerTyped
  <1>5. CASE maker' = [NoMaker EXCEPT !.stage = Tail(maker.stage)] /\ Goto("idle", "stages")
    BY <1>1, <1>4, <1>5, MoveKeeps
  <1>6. ASSUME NEW i \in 0 .. 20, Draw(i) PROVE NodeInv'
    <2> DEFINE list == ListOf(Head(maker.stage))
    <2>1. CASE i < Len(list) /\ ~is_peer_used(list[i + 1]) /\ TryToConnect(list[i + 1], "list", 1, 0, maker.tried \cup {i})
      <3>1. list \in Seq(Address)
        BY DEF ListOf, NodeInv, ListsInv, GoodGray, GoodList
      <3> DEFINE a == list[i + 1]
                 U == maker.tried \cup {i}
      <3>2. a \in Address
        <4> HIDE DEF list
        <4> QED BY <3>1, <2>1
      <3>3. ~is_addr_connected(a)
        BY <2>1 DEF is_peer_used
      <3>4. U \in SUBSET Nat
        BY <1>3 DEF Maker
      <3>5. TryToConnect(a, "list", 1, 0, U)
        BY <2>1
      <3> HIDE DEF a, U
      <3> QED BY <3>2, <3>3, <3>4, <3>5, <1>1, <1>2, TryKeeps
    <2>2. CASE maker' = [maker EXCEPT !.tried = @ \cup {i}] /\ Goto("idle", "draw")
      <3>1. maker' \in Maker /\ maker'.stage = maker.stage
        BY <2>2, <1>3, SMTT(30) DEF Maker
      <3> QED BY <3>1, <2>2, <1>1, <1>2, MoveKeeps
    <2> QED BY <2>1, <2>2, <1>5, <1>6 DEF Draw
  <1> QED BY <1>5, <1>6 DEF GiveUp

LEMMA AtRestTyped ==
  ASSUME maker \in Maker
  PROVE  AtRest \in Maker /\ AtRest.stage = maker.stage
  BY NodeAssumption DEF AtRest, Maker

(* After a peer that did not answer, refused, or is the node itself.       *)
LEMMA FailureKeeps ==
  ASSUME NodeInv, pc["idle"] \in {"connect", "handshake"}, Goto("idle", AfterFailure(maker.for)), maker' = AtRest,
         UNCHANGED <<stopVars, m_connections, incoming>>, ListsInv'
  PROVE  NodeInv'
  <1>1. maker \in Maker /\ maker.for \in {"seed", "priority", "list"}
    BY DEF NodeInv, MakerTypes, MakerInv, Maker
  <1>2. maker' \in Maker /\ maker'.stage = maker.stage
    BY <1>1, AtRestTyped
  <1> DEFINE p == AfterFailure(maker.for)
  <1>3. p \in {"seedFailed", "priority", "draw"} /\ (p = "draw" => maker.for = "list")
    BY <1>1 DEF AfterFailure
  <1>4. Goto("idle", p)
    OBVIOUS
  <1> HIDE DEF p
  <1>5. p = "draw" => Cardinality(Outgoing) < ConnectionsCount /\ maker'.stage # <<>>
    BY <1>2, <1>3 DEF NodeInv, MakerInv
  <1> QED BY <1>2, <1>3, <1>4, <1>5, MoveKeeps

LEMMA AttemptKeeps ==
  ASSUME NodeInv, Connected \/ AttemptFails \/ PeerlistTaken
  PROVE  NodeInv'
  <1>1. CASE Connected
    <2>1. /\ Running("idle", "connect") /\ Block("idle", "handshake") /\ UNCHANGED <<stopVars, m_connections, maker, incoming>>
          /\ ListsInv'
      BY <1>1 DEF Connected, peerVars, boundVars, NodeInv, ListsInv, GoodGray, GoodList
    <2>2. Dispatched'
      BY <2>1, BlockKeeps DEF NodeInv, Dispatched, CountInv, Place
    <2>3. pc' = [pc EXCEPT !["idle"] = "handshake"] /\ pc["idle"] = "connect"
      BY <2>1 DEF Block, Running
    <2>4. pc'["idle"] = "handshake" /\ \A c \in Connection : pc'[c] = pc[c]
      BY <2>3, Names DEF NodeInv, ContextTypes
    <2>5. Outgoing' = Outgoing
      BY <2>1 DEF Outgoing, Incoming
    <2>6. MakerInv' /\ MakerTypes'
      BY <2>1, <2>3, <2>4, <2>5 DEF MakerInv, MakerTypes, NodeInv, is_addr_connected
    <2> QED BY <2>1, <2>2, <2>4, <2>6, MakerKeeps
  <1>2. CASE AttemptFails
    <2>1. /\ pc["idle"] \in {"connect", "handshake"} /\ Goto("idle", AfterFailure(maker.for)) /\ maker' = AtRest
          /\ UNCHANGED <<stopVars, m_connections, incoming>> /\ ListsInv'
      BY <1>2 DEF AttemptFails, Running, peerVars, NodeInv, ListsInv, GoodGray, GoodList
    <2> QED BY <2>1, FailureKeeps
  <1>3. CASE PeerlistTaken
    <2>1. PICK gray \in Merged : m_peers_gray' = gray
      BY <1>3 DEF PeerlistTaken
    <2>2. GoodGray(gray)
      BY MergedIsGood DEF NodeInv, ListsInv
    <2>3. ListsInv'
      BY <2>1, <2>2, <1>3 DEF PeerlistTaken, NodeInv, ListsInv, GoodGray, GoodList
    <2>4. maker' \in Maker /\ Goto("idle", "priority") /\ UNCHANGED <<stopVars, m_connections, incoming>>
      BY <1>3, NoMakerTyped DEF PeerlistTaken
    <2> QED BY <2>3, <2>4, MoveKeeps
  <1> QED BY <1>1, <1>2, <1>3

(* A handshake that succeeded opens a connection, unless there is a stop.  *)
LEMMA HandshakeDoneKeeps ==
  ASSUME NodeInv, HandshakeDone
  PROVE  NodeInv'
  <1>1. Running("idle", "handshake") /\ pc["idle"] = "handshake" /\ maker.for # "seed" /\ UNCHANGED <<stopVars, incoming>>
    BY DEF HandshakeDone, Running
  <1>2. maker \in Maker /\ maker.target \in Address
    BY DEF NodeInv, MakerTypes, Maker
  <1>3. ListsInv'
    <2>1. PICK gray \in Merged : SeenWith(gray, maker.target)
      BY DEF HandshakeDone
    <2>2. GoodGray(gray)
      BY MergedIsGood DEF NodeInv, ListsInv
    <2> QED BY <2>1, <2>2, <1>2, SeenIsGood DEF NodeInv
  <1>4. CASE Goto("idle", AfterFailure(maker.for)) /\ maker' = AtRest /\ UNCHANGED m_connections
    BY <1>1, <1>3, <1>4, FailureKeeps
  <1>5. CASE Block("idle", "sleep") /\ maker' = NoMaker /\ UNCHANGED m_connections
    BY <1>1, <1>3, <1>5, NoMakerTyped, SleepKeeps
  <1>6. CASE /\ ~m_stop /\ NewConnection(FreeId, maker.target, FALSE, maker.target)
             /\ Spawn("idle", FreeId, AfterSuccess(maker.for)) /\ maker' = AtRest
    <2>1. /\ maker.for \in {"priority", "list"} /\ ~is_addr_connected(maker.target)
          /\ maker.for = "priority" => maker.target \in ToSet(Priority)
          /\ maker.for = "list" => Cardinality(Outgoing) < ConnectionsCount
      BY <1>1, <1>2 DEF NodeInv, MakerInv, Maker
    <2>2. FreeId \in Connection /\ FreeId \notin DOMAIN m_connections
      BY <2>1, FreeIdIsFree DEF NodeInv
    <2> DEFINE h == FreeId
               p == AfterSuccess(maker.for)
               a == maker.target
    <2>3. /\ h \in Connection /\ h \notin DOMAIN m_connections /\ Spawn("idle", h, p)
          /\ NewConnection(h, a, FALSE, a) /\ a \in Address
      BY <2>2, <1>2, <1>6
    <2>4. p \in {"priority", "stages"}
      BY DEF AfterSuccess
    <2> HIDE DEF h, p
    <2>5. pc["main"] = "stopEvent"
      BY <1>6 DEF NodeInv, StopInv
    <2>6. Dispatched'
      BY <2>3, <2>4, <2>5, <1>1, SpawnKeeps DEF NodeInv, Dispatched, CountInv, Place
    <2>7. pc' = [pc EXCEPT !["idle"] = p, ![h] = "start"]
      BY <2>3 DEF Spawn
    <2>8. pc'["idle"] = p /\ pc'[h] = "start" /\ \A c \in Connection : c # h => pc'[c] = pc[c]
      BY <2>3, <2>7, Names DEF NodeInv, ContextTypes
    <2>9. /\ ConnectionTypes' /\ Outgoing' = Outgoing \cup {h} /\ Incoming' = Incoming
          /\ m_connections'[h] = [m_remote |-> a, m_is_income |-> FALSE, peerId |-> a]
          /\ \A c \in DOMAIN m_connections : m_connections'[c] = m_connections[c]
      <3>1. a \in Address \cup {"unknown"} /\ FALSE \in BOOLEAN /\ (FALSE \/ a \in Address)
        BY <2>3
      <3> HIDE DEF a
      <3> QED BY <3>1, <2>3, <2>8, NewConnectionKeeps
    <2>10. m_connections'[h].m_remote = a /\ \A c \in Outgoing : m_connections'[c].m_remote = m_connections[c].m_remote
      BY <2>9 DEF Outgoing
    <2>11. \A c \in Outgoing : m_connections[c].m_remote # a
      BY <2>1 DEF is_addr_connected
    <2>12. \A c, d \in Outgoing' : m_connections'[c].m_remote = m_connections'[d].m_remote => c = d
      BY <2>9, <2>10, <2>11 DEF NodeInv, OutgoingBounded
    <2>13. Cardinality(Ordinary') <= ConnectionsCount
      <3>1. CASE maker.for = "priority"
        <4>1. Ordinary' = Ordinary
          BY <3>1, <2>1, <2>9, <2>10 DEF Ordinary
        <4> QED BY <4>1 DEF NodeInv, OutgoingBounded, Ordinary
      <3>2. CASE maker.for = "list"
        <4>1. Ordinary' \in SUBSET (Outgoing \cup {h})
          BY <2>9 DEF Ordinary
        <4>2. h \notin Outgoing
          BY <2>3 DEF Outgoing
        <4>3. IsFiniteSet(Outgoing) /\ Cardinality(Outgoing) \in Nat /\ ConnectionsCount \in Nat
          BY FiniteConnections, NodeAssumption DEF NodeInv
        <4>4. IsFiniteSet(Outgoing \cup {h}) /\ Cardinality(Outgoing \cup {h}) = Cardinality(Outgoing) + 1
          BY <4>2, <4>3, FS_AddElement
        <4>5. Cardinality(Ordinary') <= Cardinality(Outgoing \cup {h}) /\ Cardinality(Ordinary') \in Nat
          BY <4>1, <4>4, FS_Subset, FS_CardinalityType
        <4> QED BY <3>2, <2>1, <4>3, <4>4, <4>5
      <3> QED BY <3>1, <3>2, <2>1
    <2>14. OutgoingBounded'
      BY <2>12, <2>13 DEF OutgoingBounded, Ordinary
    <2>15. MakerInv' /\ MakerTypes'
      <3>1. maker' \in Maker
        BY <1>2, <1>6, AtRestTyped
      <3> QED BY <3>1, <2>4, <2>8, <1>1 DEF MakerInv, MakerTypes, NodeInv
    <2>16. CountInv'
      BY <2>6, <2>9, <1>1 DEF NodeInv, CountInv, Dispatched
    <2> QED BY <2>6, <2>9, <2>14, <2>15, <2>16, <1>3 DEF NodeInv, Dispatched
  <1> QED BY <1>4, <1>5, <1>6 DEF HandshakeDone

LEMMA IdleKeeps ==
  ASSUME NodeInv, Idle
  PROVE  NodeInv'
  <1>1. CASE IdleInterrupted
    <2>1. /\ Running("idle", "sleep") /\ Finish("idle") /\ maker' \in Maker
          /\ UNCHANGED <<stopVars, m_connections, incoming>> /\ ListsInv'
      BY <1>1 DEF IdleInterrupted, boundVars, peerVars, NodeInv, ListsInv, GoodGray, GoodList, MakerTypes
    <2> QED BY <2>1, SleepKeeps
  <1> QED BY <1>1, StartRoundKeeps, SeedFailedKeeps, PriorityKeeps, StagesKeep, DrawKeeps, AttemptKeeps,
             HandshakeDoneKeeps DEF Idle
-----------------------------------------------------------------------------
LEMMA NodeInit == Init => NodeInv
  <1> SUFFICES ASSUME Init PROVE NodeInv
    OBVIOUS
  <1>1. /\ pc["accept"] = "start" /\ pc["idle"] = "start" /\ pc["main"] = "stopEvent" /\ pc["stopSignal"] = "ended"
        /\ \A c \in Connection : pc[c] = "ended"
    BY Names DEF Init, Loops
  <1>2. resuming \in Seq(Context) /\ resuming = <<"accept", "idle", "timedSync">>
    <2>1. "accept" \in Context /\ "idle" \in Context /\ "timedSync" \in Context
      BY Names
    <2> QED BY <2>1 DEF Init
  <1>3. "accept" \in ToSet(resuming) /\ "main" \notin ToSet(resuming)
    BY <1>2 DEF ToSet
  <1>4. ContextTypes
    BY <1>1, <1>2 DEF Init, ContextTypes, Place
  <1>5. DOMAIN m_connections = {} /\ Outgoing = {} /\ Incoming = {}
    BY DEF Init, Outgoing, Incoming
  <1>6. ConnectionTypes
    BY <1>1, <1>5, FS_EmptySet DEF Init, ConnectionTypes
  <1>7. MakerTypes
    BY NoMakerTyped DEF Init, MakerTypes
  <1>8. ListsInv
    <2>1. <<>> \in Seq(Address) /\ DOMAIN <<>> = {} /\ Len(<<>>) = 0
      OBVIOUS
    <2> QED BY <2>1, NodeAssumption DEF Init, ListsInv, GoodGray, GoodList, IsInjective, ToSet
  <1>9. MakerInv
    BY <1>1 DEF MakerInv
  <1>10. CountInv
    BY <1>1, <1>5, FS_EmptySet, NodeAssumption DEF Init, CountInv, AcceptReady
  <1>11. OutgoingBounded
    <2>1. {c \in Outgoing : m_connections[c].m_remote \notin ToSet(Priority)} = {}
      BY <1>5
    <2> QED BY <2>1, <1>5, FS_EmptySet, NodeAssumption DEF OutgoingBounded
  <1>12. AcceptInv /\ StopOrder
    BY <1>2, <1>3 DEF Init, AcceptInv, StopOrder, Ordered, ToSet
  <1>13. StopInv
    BY <1>1, <1>12 DEF Init, StopInv
  <1> QED BY <1>4, <1>6, <1>7, <1>8, <1>9, <1>10, <1>11, <1>13 DEF NodeInv

LEMMA NodeStep == NodeInv /\ [Next]_vars => NodeInv'
  <1> SUFFICES ASSUME NodeInv, [Next]_vars PROVE NodeInv'
    OBVIOUS
  <1>1. CASE StopSignal \/ StopGroup \/ Return \/ SetStop \/ RemoteSpawn \/ \E s \in Context : Epoll(s)
    BY <1>1, StopKeeps
  <1>2. CASE Loop
    BY <1>2, StartLoopKeeps, AcceptKeeps, TimedSyncKeeps DEF Loop
  <1>3. CASE Idle
    BY <1>3, IdleKeeps
  <1>4. ASSUME NEW c \in Connection, Handler(c) PROVE NodeInv'
    BY <1>4, HandlerKeeps
  <1>5. CASE UNCHANGED vars
    <2>1. /\ UNCHANGED <<resuming, group, pc, wake, interrupted, m_stop, remote, handlerStop,
                         m_connections, maker, incoming, m_peers_white, m_peers_gray>>
      BY <1>5 DEF vars, dispatcherVars, stopVars, peerVars, boundVars
    <2>2. Dispatched' /\ ListsInv'
      BY <2>1 DEF NodeInv, CountInv, Dispatched, ContextTypes, StopInv, AcceptReady, AcceptInv, StopOrder,
                  ListsInv, GoodGray, GoodList
    <2> QED BY <2>1, <2>2, QuietKeeps
  <1> QED BY <1>1, <1>2, <1>3, <1>4, <1>5 DEF Next, Step

(* connections_maker never makes two connections to one address, although  *)
(* it asks before it waits and others run meanwhile, and it never makes    *)
(* more than connections_count of them to peers that have no priority.     *)
THEOREM OutgoingAlwaysBounded == Spec => []OutgoingBounded
  <1>1. NodeInv => OutgoingBounded
    BY DEF NodeInv
  <1> QED BY <1>1, NodeInit, NodeStep, PTL DEF Spec

(* Handshakes, pings and lists from peers keep the white and the gray list *)
(* of the PeerlistManager apart and within their limits.                   *)
THEOREM ListsAlwaysDisjoint == Spec => []ListsDisjoint
  <1>1. NodeInv => ListsDisjoint
    BY DEF NodeInv, ListsInv, GoodGray, ListsDisjoint
  <1> QED BY <1>1, NodeInit, NodeStep, PTL DEF Spec

(* Once run has interrupted its contexts no connection is opened: the      *)
(* accept loop cannot stand behind run in the queue of the dispatcher with *)
(* a connection at hand, and connections_maker asks m_stop.                *)
THEOREM NothingEverOpensAfterStop == Spec => NothingOpensAfterStop
  <1>1. ASSUME NodeInv, [Next]_vars, pc["main"] = "join"
        PROVE  DOMAIN m_connections' \subseteq DOMAIN m_connections
    <2>1. m_stop /\ (wake["accept"] # "ready" \/ pc["accept"] # "accept")
      BY <1>1 DEF NodeInv, StopInv
    <2>2. CASE Accept
      BY <2>1, <2>2 DEF Accept, Running
    <2>3. CASE HandshakeDone
      BY <2>1, <2>3 DEF HandshakeDone
    <2>4. ASSUME NEW c \in Connection, CloseConnection(c) PROVE DOMAIN m_connections' \subseteq DOMAIN m_connections
      BY <2>4 DEF CloseConnection
    <2>5. ASSUME NEW c \in Connection, handle_handshake(c) PROVE DOMAIN m_connections' \subseteq DOMAIN m_connections
      BY <2>5 DEF handle_handshake
    <2>6. CASE UNCHANGED m_connections
      BY <2>6
    <2>7. ASSUME NEW c \in Connection, Handler(c), ~CloseConnection(c), ~handle_handshake(c) PROVE UNCHANGED m_connections
      BY <2>7 DEF Handler, StartHandler, PingAnswered, handleTimedSyncResponse, processObjects, EndObjects
    <2>8. ASSUME Idle, ~HandshakeDone PROVE UNCHANGED m_connections
      BY <2>8 DEF Idle, IdleInterrupted, StartRound, SeedFailed, ConnectToPriority, EndRound, EndStage, StartDraws,
                  Draw, GiveUp, Connected, AttemptFails, PeerlistTaken
    <2>9. ASSUME Loop, ~Accept PROVE UNCHANGED m_connections
      BY <2>9 DEF Loop, StartLoop, TimedSync
    <2>10. StopSignal \/ StopGroup \/ Return \/ SetStop \/ RemoteSpawn \/ (\E s \in Context : Epoll(s)) \/ UNCHANGED vars
             => UNCHANGED m_connections
      BY DEF StopSignal, StopGroup, Return, SetStop, RemoteSpawn, Epoll, vars
    <2> QED BY <1>1, <2>2, <2>3, <2>4, <2>5, <2>6, <2>7, <2>8, <2>9, <2>10 DEF Next, Step
  <1>2. NodeInv /\ [Next]_vars => [pc["main"] = "join" => DOMAIN m_connections' \subseteq DOMAIN m_connections]_vars
    BY <1>1
  <1> QED BY <1>2, NodeInit, NodeStep, PTL DEF Spec, NothingOpensAfterStop
=============================================================================
