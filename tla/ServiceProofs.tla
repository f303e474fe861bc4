---------------------------- MODULE ServiceProofs ----------------------------
(***************************************************************************)
(* Service's safety properties, for every set of databases and every size of *)
(* page and socket.  Three layers, each resting on the one before: the types *)
(* (InHand), what of an _outbox is spooled and in hand (BoxInv), and what a  *)
(* drain that ends owes to nudges and ticks (DebtInv).                       *)
(***************************************************************************)
EXTENDS Service, IntegerSets

Queued == {queue[i] : i \in DOMAIN queue}

(* One database is in hand at most, and a drain begins at seq 0. *)
InHand ==
  /\ \A c, d \in db : c = d
  /\ pc = "open" => after = 0
  /\ IsFiniteSet(page) /\ \A d \in db : page \subseteq 1..MaxSeq[d]

TypeInv == TypeOK /\ InHand

(* TypeInv in two parts: the files and the socket, the service itself.       *)
BoxTypes ==
  /\ announced \subseteq Dbs /\ ready \subseteq Dbs
  /\ outbox \in [Dbs -> SUBSET Nat] /\ spooled \in [Dbs -> SUBSET Nat]
  /\ malformed \in [Dbs -> SUBSET Nat] /\ asked \in [Dbs -> SUBSET Nat]
  /\ \A d \in Dbs : outbox[d] \cup spooled[d] \subseteq 1..MaxSeq[d]
  /\ owes \subseteq Dbs /\ queue \in Seq(Dbs \cup {Junk}) /\ Len(queue) <= QueueCap
  /\ due \in BOOLEAN /\ unheard \subseteq Dbs /\ mishaps \in Nat

Draining == pc \in {"open", "fetch", "publish", "prune"}

ServeTypes ==
  /\ Draining \/ pc \in {"down", "loop", "recv", "next"}
  /\ ticking \in BOOLEAN /\ (ticking \/ todo = {})
  /\ todo \subseteq Dbs /\ db \subseteq Dbs /\ after \in Nat /\ page \subseteq Nat
  /\ (db # {}) = Draining
  /\ (after # 0 => db # {})
  /\ (page # {}) = (pc \in {"publish", "prune"})
  /\ InHand

(* The seqs of the rows a database has ever had. *)
Rows(d) == outbox[d] \cup spooled[d]

NoHoles == \A d \in Dbs : \A s \in Rows(d) : 1..s \subseteq Rows(d)

(* What is left of the outbox in hand is behind after_seq, which is spooled, *)
(* and the page is the lowest of it.                                         *)
PageIsLowest ==
  /\ pc = "fetch" => \A d \in db : after \in spooled[d] \cup {0}
                                   /\ \A s \in outbox[d] : s > after
  /\ pc \in {"publish", "prune"} =>
       \A d \in db : page \subseteq outbox[d]
                     /\ \A s \in page : \A r \in outbox[d] : r < s => r \in page
  /\ pc = "prune" => \A d \in db : page \subseteq spooled[d]

MalformedAreRows == \A d \in Dbs : malformed[d] \subseteq Rows(d)

BoxInv == NoHoles /\ NoOvertaking /\ PageIsLowest /\ MalformedAreRows

(* Rows that are behind the last page of a drain were committed after it was *)
(* read, and are neither unannounced nor what a running tick has to spool.   *)
BehindLastPage ==
  pc \in {"publish", "prune"} /\ Cardinality(page) < Batch =>
    \A d \in db : /\ outbox[d] \subseteq page \/ d \in owes \cup unheard \cup Queued
                  /\ asked[d] \subseteq page \cup spooled[d]

(* What a running tick still has to spool is of sound databases, and behind  *)
(* those it has done there is nothing.                                       *)
TickOwes ==
  \A d \in Dbs :
    /\ asked[d] \subseteq Rows(d)
    /\ asked[d] # {} => Healthy(d)
    /\ d \notin todo \cup db => asked[d] \subseteq spooled[d]

DebtInv == BehindLastPage /\ TickOwes /\ NoLostWakeup
-----------------------------------------------------------------------------
(* The socket gets and gives datagrams. *)
LEMMA Datagrams ==
  ASSUME NEW S, NEW q \in Seq(S)
  PROVE  /\ \A e \in S : /\ Append(q, e) \in Seq(S) /\ Len(Append(q, e)) = Len(q) + 1
                         /\ {Append(q, e)[i] : i \in DOMAIN Append(q, e)}
                              = {q[i] : i \in DOMAIN q} \cup {e}
         /\ q # <<>> => /\ Head(q) \in S /\ Tail(q) \in Seq(S) /\ Len(Tail(q)) = Len(q) - 1
                        /\ {q[i] : i \in DOMAIN q}
                             = {Tail(q)[i] : i \in DOMAIN Tail(q)} \cup {Head(q)}
<1>1. ASSUME NEW e \in S
      PROVE  /\ Append(q, e) \in Seq(S) /\ Len(Append(q, e)) = Len(q) + 1
             /\ {Append(q, e)[i] : i \in DOMAIN Append(q, e)}
                  = {q[i] : i \in DOMAIN q} \cup {e}
  <2>1. /\ Append(q, e) \in Seq(S) /\ Len(Append(q, e)) = Len(q) + 1
        /\ DOMAIN Append(q, e) = 1..Len(q) + 1 /\ DOMAIN q = 1..Len(q) /\ Len(q) \in Nat
        /\ \A i \in 1..Len(q) : Append(q, e)[i] = q[i]
        /\ Append(q, e)[Len(q) + 1] = e
    OBVIOUS
  <2>2. 1..Len(q) + 1 = 1..Len(q) \cup {Len(q) + 1}
    BY <2>1
  <2> QED
    BY <2>1, <2>2
<1>2. ASSUME q # <<>>
      PROVE  /\ Head(q) \in S /\ Tail(q) \in Seq(S) /\ Len(Tail(q)) = Len(q) - 1
             /\ {q[i] : i \in DOMAIN q}
                  = {Tail(q)[i] : i \in DOMAIN Tail(q)} \cup {Head(q)}
  <2>1. /\ Head(q) \in S /\ Tail(q) \in Seq(S) /\ Len(Tail(q)) = Len(q) - 1
        /\ DOMAIN q = 1..Len(q) /\ DOMAIN Tail(q) = 1..Len(q) - 1
        /\ Len(q) \in Nat \ {0} /\ Head(q) = q[1]
        /\ \A i \in 1..Len(q) - 1 : Tail(q)[i] = q[i + 1]
    BY <1>2
  <2>2. \A i \in 1..Len(q) : i = 1 \/ (i - 1 \in 1..Len(q) - 1 /\ q[i] = Tail(q)[i - 1])
    BY <2>1
  <2>3. \A i \in 1..Len(q) - 1 : i + 1 \in 1..Len(q)
    BY <2>1
  <2>4. \A x : (\E i \in 1..Len(q) : x = q[i])
               <=> (\E i \in 1..Len(q) - 1 : x = Tail(q)[i]) \/ x = Head(q)
    BY <2>1, <2>2, <2>3
  <2>5. {q[i] : i \in 1..Len(q)} = {Tail(q)[i] : i \in 1..Len(q) - 1} \cup {Head(q)}
    BY <2>4, Zenon
  <2> QED
    BY <2>1, <2>5
<1> QED
  BY <1>1, <1>2

(* A page is the lowest of what is behind after_seq. *)
LEMMA PageOf ==
  ASSUME TypeInv, NEW d \in Dbs
  PROVE  LET later == {s \in outbox[d] : s > after} IN
           /\ NextPage(d) \subseteq later /\ IsFiniteSet(NextPage(d))
           /\ \A s \in NextPage(d) : \A r \in later : r < s => r \in NextPage(d)
           /\ Cardinality(NextPage(d)) < Batch => NextPage(d) = later
           /\ NextPage(d) = {} => later = {}
<1> DEFINE later == {s \in outbox[d] : s > after}
<1>1. /\ outbox[d] \subseteq 1..MaxSeq[d] /\ MaxSeq[d] \in Nat
      /\ Batch \in Nat \ {0} /\ later \subseteq outbox[d]
  BY ServiceConstants DEF TypeInv, TypeOK
<1>2. IsFiniteSet(1..MaxSeq[d])
  BY <1>1, FS_Interval
<1>3. IsFiniteSet(later) /\ later \in SUBSET Int
  BY <1>1, <1>2, FS_Subset
<1>4. NextPage(d) = {s \in later : Cardinality({r \in later : r < s}) < Batch}
  BY DEF NextPage
<1>5. NextPage(d) \subseteq later
  BY <1>4
<1> HIDE DEF later
<1>6. IsFiniteSet(NextPage(d))
  BY <1>3, <1>5, FS_Subset
<1>7. /\ \A s \in NextPage(d) : \A r \in later : r < s => r \in NextPage(d)
      /\ Cardinality(NextPage(d)) < Batch => NextPage(d) = later
      /\ NextPage(d) = {} => later = {}
  <2>1. LET low == {i \in later : Cardinality({j \in later : j < i}) < Batch} IN
          /\ \A i \in low : \A j \in later : j < i => j \in low
          /\ Cardinality(low) < Batch => low = later
          /\ Batch # 0 /\ later # {} => low # {}
    BY <1>1, <1>3, LowestAreLowest
  <2> QED
    BY <1>1, <1>4, <2>1
<1> QED
  BY <1>5, <1>6, <1>7 DEF later

(* The seq AUTOINCREMENT gives next is behind every row there ever was. *)
LEMMA LastSeqIsLast ==
  ASSUME TypeInv, NEW d \in Dbs
  PROVE  /\ LastSeq(d) \in Rows(d) \cup {0} /\ LastSeq(d) \in Nat
         /\ \A s \in Rows(d) : s <= LastSeq(d)
<1>1. Rows(d) \subseteq 1..MaxSeq[d] /\ MaxSeq[d] \in Nat
  BY ServiceConstants DEF TypeInv, TypeOK, Rows
<1>2. {0} \cup Rows(d) \subseteq 0..MaxSeq[d] /\ IsFiniteSet(0..MaxSeq[d])
  <2>1. \A s \in 1..MaxSeq[d] : s \in 0..MaxSeq[d]
    BY <1>1
  <2>2. 0 \in 0..MaxSeq[d]
    BY <1>1
  <2>3. IsFiniteSet(0..MaxSeq[d])
    BY <1>1, FS_Interval
  <2> QED
    BY <1>1, <2>1, <2>2, <2>3
<1>3. IsFiniteSet({0} \cup Rows(d)) /\ {0} \cup Rows(d) \in SUBSET Int
  BY <1>1, <1>2, FS_Subset
<1>4. LastSeq(d) = Max({0} \cup Rows(d))
  <2>1. {0} \cup outbox[d] \cup spooled[d] = {0} \cup Rows(d)
    BY DEF Rows
  <2> QED
    BY <2>1 DEF LastSeq
<1> QED
  BY <1>1, <1>3, <1>4, MaxOf

(* The last seq of a page. *)
LEMMA PageMax ==
  ASSUME TypeInv, page # {}
  PROVE  Max(page) \in page /\ Max(page) \in Nat /\ \A s \in page : s <= Max(page)
<1>1. page \in SUBSET Int /\ page \subseteq Nat /\ IsFiniteSet(page)
  BY DEF TypeInv, TypeOK, InHand
<1> QED
  BY <1>1, MaxOf
-----------------------------------------------------------------------------
(* The types, and that one database is in hand at most: recv hands over one  *)
(* name, drain_all one at a time.                                            *)
LEMMA TypeParts == TypeInv <=> BoxTypes /\ ServeTypes
BY DEF TypeInv, TypeOK, BoxTypes, ServeTypes, Draining

(* The types after a step, part by part. *)
LEMMA TypePartsNext == TypeInv' <=> BoxTypes' /\ ServeTypes'
BY DEF TypeInv, TypeOK, BoxTypes, ServeTypes, Draining, InHand

(* However a drain ends, nothing of it is left in hand. *)
LEMMA ReturnTypes ==
  ASSUME TypeInv, Return
  PROVE  ServeTypes'
<1>1. IsFiniteSet(page')
  BY FS_EmptySet DEF Return
<1> QED
  BY <1>1 DEF Return, TypeInv, TypeOK, ServeTypes, Draining, InHand

(* The service starts with the types. *)
LEMMA TypeInvInit == Init => TypeInv
<1> SUFFICES ASSUME Init PROVE BoxTypes /\ ServeTypes
  BY TypeParts
<1>1. IsFiniteSet({}) /\ page = {} /\ db = {} /\ pc = "loop" /\ after = 0 /\ todo = {}
  BY FS_EmptySet DEF Init
<1>2. ticking \in BOOLEAN
  BY DEF Init
<1>3. ServeTypes
  BY <1>1, <1>2 DEF ServeTypes, InHand, Draining
<1>4. queue \in Seq(Dbs \cup {Junk}) /\ Len(queue) <= QueueCap
  BY ServiceConstants DEF Init
<1>5. [d \in Dbs |-> {}] \in [Dbs -> SUBSET Nat]
  OBVIOUS
<1>6. \A d \in Dbs : outbox[d] \cup spooled[d] = {}
  BY DEF Init
<1>7. BoxTypes
  BY <1>4, <1>5, <1>6 DEF Init, BoxTypes
<1> QED
  BY <1>3, <1>7

(* Every step keeps the types. *)
LEMMA TypeInvStep == TypeInv /\ [Next]_vars => TypeInv'
<1> SUFFICES ASSUME TypeInv, [Next]_vars PROVE BoxTypes' /\ ServeTypes'
  BY TypePartsNext
<1>a. BoxTypes /\ ServeTypes
  BY TypeParts
<1>b. UNCHANGED serveVars => ServeTypes'
  BY <1>a DEF ServeTypes, Draining, InHand, serveVars
<1> USE ServiceConstants
<1>1. ASSUME NEW d \in Dbs, Commit(d) PROVE BoxTypes' /\ ServeTypes'
  <2>1. LastSeq(d) \in Nat /\ LastSeq(d) < MaxSeq[d] /\ MaxSeq[d] \in Nat
    BY <1>1, LastSeqIsLast DEF Commit
  <2>2. LastSeq(d) + 1 \in 1..MaxSeq[d] /\ LastSeq(d) + 1 \in Nat
    BY <2>1
  <2>3. /\ outbox' = [outbox EXCEPT ![d] = @ \cup {LastSeq(d) + 1}] /\ owes' = owes \cup {d}
        /\ malformed' \in [Dbs -> SUBSET Nat] /\ asked' \in [Dbs -> SUBSET Nat]
        /\ mishaps' \in Nat
        /\ UNCHANGED <<fileVars, spooled, queue, due, serveVars, unheard>>
    <3>1. CASE UNCHANGED <<malformed, asked, mishaps>>
      BY <1>a, <1>1, <3>1 DEF Commit, BoxTypes
    <3>2. CASE malformed' = [malformed EXCEPT ![d] = @ \cup {LastSeq(d) + 1}]
               /\ Excuse(d) /\ CountMishap
      BY <1>a, <1>1, <2>2, <3>2 DEF Commit, Excuse, CountMishap, BoxTypes
    <3> QED
      BY <1>1, <3>1, <3>2 DEF Commit
  <2>4. outbox' \in [Dbs -> SUBSET Nat]
        /\ \A c \in Dbs : outbox'[c] \cup spooled'[c] \subseteq 1..MaxSeq[c]
    BY <1>a, <2>2, <2>3 DEF BoxTypes
  <2> QED
    BY <1>a, <1>b, <2>3, <2>4 DEF BoxTypes, fileVars
<1>2. ASSUME NEW d \in Dbs, NudgeLost(d) PROVE BoxTypes' /\ ServeTypes'
  BY <1>a, <1>b, <1>2 DEF NudgeLost, BoxTypes, fileVars, boxVars
<1>3. ASSUME NEW d \in Dbs, Break(d) PROVE BoxTypes' /\ ServeTypes'
  <2>1. asked' \in [Dbs -> SUBSET Nat]
    BY <1>a, <1>3 DEF Break, Excuse, BoxTypes
  <2>2. announced' \subseteq Dbs /\ ready' \subseteq Dbs
    BY <1>a, <1>3 DEF Break, BoxTypes
  <2> QED
    BY <1>a, <1>b, <1>3, <2>1, <2>2 DEF Break, CountMishap, BoxTypes, boxVars
<1>4. ASSUME NEW d \in Dbs, Repair(d) PROVE BoxTypes' /\ ServeTypes'
  BY <1>a, <1>b, <1>4 DEF Repair, BoxTypes
<1>5. ASSUME NEW name \in Dbs \cup {Junk}, Nudge(name) PROVE BoxTypes' /\ ServeTypes'
  <2>1. queue' \in Seq(Dbs \cup {Junk}) /\ Len(queue') <= QueueCap
    BY <1>a, <1>5, Datagrams DEF Nudge, BoxTypes
  <2> QED
    BY <1>a, <1>b, <1>5, <2>1 DEF Nudge, BoxTypes, fileVars, boxVars
<1>6. ASSUME Elapse PROVE BoxTypes' /\ ServeTypes'
  BY <1>a, <1>b, <1>6 DEF Elapse, BoxTypes, fileVars, boxVars
<1>7. ASSUME Tick PROVE BoxTypes' /\ ServeTypes'
  <2>1. BoxTypes'
    BY <1>a, <1>7 DEF Tick, BoxTypes, fileVars, boxVars
  <2> QED
    BY <1>a, <1>7, <2>1 DEF Tick, LoadDir, BoxTypes, ServeTypes, Draining, InHand
<1>8. ASSUME TickNext PROVE BoxTypes' /\ ServeTypes'
  <2>1. IsFiniteSet(todo) /\ todo \in SUBSET Int
    BY <1>a, FS_Subset DEF ServeTypes
  <2>2. Min(todo) \in todo
    BY <1>8, <2>1, MinOf DEF TickNext
  <2>3. BoxTypes'
    BY <1>a, <1>8 DEF TickNext, BoxTypes, fileVars, boxVars
  <2>4. db' # {} /\ db' \subseteq Dbs /\ todo' \subseteq Dbs /\ \A c, d \in db' : c = d
    BY <1>a, <1>8, <2>2 DEF TickNext, ServeTypes
  <2>5. IsFiniteSet(page') /\ page' = {} /\ after' = 0 /\ pc' = "open"
        /\ ticking' \in BOOLEAN /\ (ticking' \/ todo' = {})
    BY <1>a, <1>8, FS_EmptySet DEF TickNext, ServeTypes, Draining
  <2> QED
    BY <2>3, <2>4, <2>5 DEF ServeTypes, Draining, InHand
<1>9. ASSUME TickDone PROVE BoxTypes' /\ ServeTypes'
  <2>1. asked' \in [Dbs -> SUBSET Nat]
    BY <1>9 DEF TickDone
  <2>2. BoxTypes'
    BY <1>a, <1>9, <2>1 DEF TickDone, BoxTypes, fileVars, boxVars
  <2>3. ticking' \in BOOLEAN
    BY <1>9 DEF TickDone
  <2>4. todo' = {} /\ pc' = "recv" /\ pc = "next" /\ UNCHANGED <<db, after, page>>
    BY <1>9 DEF TickDone
  <2> QED
    BY <1>a, <2>2, <2>3, <2>4 DEF ServeTypes, Draining, InHand
<1>10. ASSUME Listen PROVE BoxTypes' /\ ServeTypes'
  BY <1>a, <1>10 DEF Listen, BoxTypes, ServeTypes, Draining, InHand, fileVars, boxVars
<1>11. ASSUME Recv PROVE BoxTypes' /\ ServeTypes'
  <2>1. queue # <<>> => /\ Head(queue) \in Dbs \cup {Junk} /\ Len(queue') <= QueueCap
                        /\ queue' \in Seq(Dbs \cup {Junk})
    BY <1>a, <1>11, Datagrams DEF Recv, BoxTypes
  <2>2. BoxTypes'
    BY <1>a, <1>11, <2>1 DEF Recv, BoxTypes, fileVars, boxVars
  <2> QED
    BY <1>a, <1>11, <2>1, <2>2 DEF Recv, ServeTypes, Draining, InHand
<1>12. ASSUME Open PROVE BoxTypes' /\ ServeTypes'
  <2>1. unheard' \subseteq Dbs
    BY <1>a, <1>12 DEF Open, Fail, BoxTypes, ServeTypes
  <2>2. BoxTypes'
    BY <1>a, <1>12, <2>1 DEF Open, BoxTypes, fileVars, boxVars
  <2>3. CASE Return
    BY <2>2, <2>3, ReturnTypes
  <2>4. CASE pc' = "fetch" /\ UNCHANGED <<ticking, todo, db, after, page>>
    BY <1>a, <1>12, <2>2, <2>4 DEF Open, ServeTypes, Draining, InHand
  <2> QED
    BY <1>12, <2>3, <2>4 DEF Open, Fail
<1>13. ASSUME Fetch PROVE BoxTypes' /\ ServeTypes'
  <2>1. PICK d \in db : LET next == NextPage(d) IN
          IF next \cap malformed[d] # {} THEN Fail
          ELSE /\ unheard' = unheard \ db
               /\ IF next = {} THEN Return
                  ELSE /\ pc' = "publish" /\ page' = next
                       /\ UNCHANGED <<ticking, todo, db, after>>
    BY <1>13 DEF Fetch
  <2>2. /\ NextPage(d) \subseteq Nat /\ IsFiniteSet(NextPage(d))
        /\ \A c \in db : NextPage(d) \subseteq 1..MaxSeq[c]
    <3>1. d \in Dbs /\ outbox[d] \subseteq Nat /\ outbox[d] \subseteq 1..MaxSeq[d]
          /\ \A c \in db : c = d
      BY <1>a DEF ServeTypes, BoxTypes, InHand
    <3> QED
      BY <3>1, PageOf
  <2>3. unheard' \subseteq Dbs
    BY <1>a, <2>1 DEF Fail, BoxTypes, ServeTypes
  <2>4. BoxTypes'
    BY <1>a, <1>13, <2>3 DEF Fetch, BoxTypes, fileVars, boxVars
  <2>5. CASE Return
    BY <2>4, <2>5, ReturnTypes
  <2>6. CASE /\ pc' = "publish" /\ page' = NextPage(d) /\ NextPage(d) # {}
             /\ UNCHANGED <<ticking, todo, db, after>>
    BY <1>a, <1>13, <2>2, <2>4, <2>6 DEF Fetch, ServeTypes, Draining, InHand
  <2> QED
    BY <2>1, <2>5, <2>6 DEF Fail
<1>14. ASSUME Publish PROVE BoxTypes' /\ ServeTypes'
  <2>1. spooled' \in [Dbs -> SUBSET Nat]
    <3>1. \A c \in Dbs : (IF c \in db THEN spooled[c] \cup page ELSE spooled[c]) \in SUBSET Nat
      BY <1>a DEF BoxTypes, ServeTypes
    <3> QED
      BY <1>14, <3>1 DEF Publish
  <2>2. \A c \in Dbs : outbox'[c] \cup spooled'[c] \subseteq 1..MaxSeq[c]
    BY <1>a, <1>14 DEF Publish, BoxTypes, ServeTypes, InHand
  <2>3. BoxTypes'
    BY <1>a, <1>14, <2>1, <2>2 DEF Publish, BoxTypes, fileVars
  <2> QED
    BY <1>a, <1>14, <2>3 DEF Publish, ServeTypes, Draining, InHand
<1>15. ASSUME Prune PROVE BoxTypes' /\ ServeTypes'
  <2>1. Max(page) \in Nat
    BY <1>a, <1>15, PageMax DEF Prune, ServeTypes
  <2>2. \A c \in Dbs : /\ outbox'[c] \subseteq outbox[c]
                       /\ outbox'[c] = IF c \in db THEN {s \in outbox[c] : s > Max(page)}
                                       ELSE outbox[c]
    BY <1>15 DEF Prune
  <2>3. outbox' \in [Dbs -> SUBSET Nat]
    <3>1. \A c \in Dbs : (IF c \in db THEN {s \in outbox[c] : s > Max(page)} ELSE outbox[c])
                           \in SUBSET Nat
      BY <1>a DEF BoxTypes
    <3> QED
      BY <1>15, <3>1 DEF Prune
  <2>4. BoxTypes'
    BY <1>a, <1>15, <2>2, <2>3 DEF Prune, BoxTypes, fileVars
  <2>5. CASE Return
    BY <2>4, <2>5, ReturnTypes
  <2>6. CASE pc' = "fetch" /\ after' = Max(page) /\ page' = {}
             /\ UNCHANGED <<ticking, todo, db>>
    BY <1>a, <1>15, <2>1, <2>4, <2>6, FS_EmptySet DEF Prune, ServeTypes, Draining, InHand
  <2> QED
    BY <1>15, <2>5, <2>6 DEF Prune
<1>16. ASSUME Restart PROVE BoxTypes' /\ ServeTypes'
  <2>1. queue' \in Seq(Dbs \cup {Junk}) /\ Len(queue') <= QueueCap /\ unheard' \subseteq Dbs
    <3>1. CASE UNCHANGED <<queue, unheard>>
      BY <1>a, <3>1 DEF BoxTypes
    <3>2. CASE queue' = <<>> /\ unheard' = unheard \cup (Dbs \cap {queue[i] : i \in DOMAIN queue})
      <4>1. <<>> \in Seq(Dbs \cup {Junk}) /\ Len(<<>>) <= QueueCap
        OBVIOUS
      <4>2. unheard' \subseteq Dbs
        BY <1>a, <3>2 DEF BoxTypes
      <4> QED
        BY <3>2, <4>1, <4>2
    <3> QED
      BY <1>16, <3>1, <3>2 DEF Restart, BindSock
  <2> QED
    BY <1>a, <1>16, <2>1
       DEF Restart, BoxTypes, ServeTypes, Draining, InHand, fileVars, boxVars
<1>17. ASSUME CallFails PROVE BoxTypes' /\ ServeTypes'
  <2>1. asked' \in [Dbs -> SUBSET Nat] /\ unheard' \subseteq Dbs
    BY <1>a, <1>17 DEF CallFails, Fail, BoxTypes, ServeTypes
  <2>2. BoxTypes'
    BY <1>a, <1>17, <2>1 DEF CallFails, CountMishap, BoxTypes, fileVars, boxVars
  <2> QED
    BY <1>17, <2>2, ReturnTypes DEF CallFails, Fail
<1>18. ASSUME Die PROVE BoxTypes' /\ ServeTypes'
  <2>1. asked' \in [Dbs -> SUBSET Nat] /\ unheard' \subseteq Dbs
    BY <1>a, <1>18 DEF Die, BoxTypes, ServeTypes
  <2>2. BoxTypes'
    BY <1>a, <1>18, <2>1 DEF Die, CountMishap, BoxTypes, fileVars, boxVars
  <2>3. /\ IsFiniteSet(page') /\ pc' = "down" /\ todo' = {}
        /\ db' = {} /\ after' = 0 /\ page' = {}
    BY <1>18, FS_EmptySet DEF Die
  <2>4. ticking' \in BOOLEAN
    BY <1>18 DEF Die
  <2> QED
    BY <2>2, <2>3, <2>4 DEF ServeTypes, Draining, InHand
<1>19. ASSUME LoadDirFails PROVE BoxTypes' /\ ServeTypes'
  <2>1. mishaps' \in Nat
    BY <1>a, <1>19 DEF LoadDirFails, CountMishap, BoxTypes
  <2>2. due' \in BOOLEAN
    BY <1>19 DEF LoadDirFails
  <2>3. BoxTypes'
    BY <1>a, <1>19, <2>1, <2>2 DEF LoadDirFails, BoxTypes, fileVars, boxVars
  <2> QED
    BY <1>a, <1>19, <2>3 DEF LoadDirFails, ServeTypes, Draining, InHand
<1>20. CASE UNCHANGED vars
  BY <1>a, <1>20 DEF vars, BoxTypes, ServeTypes, Draining, InHand, fileVars, boxVars, serveVars
<1> QED
  BY <1>1, <1>2, <1>3, <1>4, <1>5, <1>6, <1>7, <1>8, <1>9, <1>10, <1>11, <1>12, <1>13, <1>14,
     <1>15, <1>16, <1>17, <1>18, <1>19, <1>20 DEF Next, Serve

(* The service's variables keep their types, whatever fails: a drain that    *)
(* ends leaves neither database nor page in hand, and after_seq is 0 again.  *)
THEOREM TypeCorrect == Spec => []TypeOK
<1>1. TypeInv => TypeOK
  BY DEF TypeInv
<1> QED
  BY <1>1, TypeInvInit, TypeInvStep, PTL DEF Spec
-----------------------------------------------------------------------------
(* What is spooled and in hand of each _outbox. *)
LEMMA BoxInvInit == Init => BoxInv
BY DEF Init, BoxInv, NoHoles, NoOvertaking, PageIsLowest, MalformedAreRows, Rows

(* A committed row is behind every row of its database. *)
LEMMA CommitAddsRow ==
  ASSUME TypeInv, NEW d \in Dbs, Commit(d)
  PROVE  LET new == LastSeq(d) + 1 IN
           /\ new \in Nat /\ \A s \in Rows(d) : s \in Nat /\ s < new
           /\ outbox'[d] = outbox[d] \cup {new}
           /\ \A c \in Dbs : c # d => outbox'[c] = outbox[c]
           /\ Rows(d)' = Rows(d) \cup {new}
           /\ \A c \in Dbs : c # d => Rows(c)' = Rows(c)
           /\ UNCHANGED <<fileVars, spooled, queue, serveVars, unheard>>
<1>1. BoxTypes
  BY TypeParts
<1>2. /\ LastSeq(d) \in Nat /\ \A s \in Rows(d) : s \in Nat /\ s <= LastSeq(d)
  BY <1>1, LastSeqIsLast DEF BoxTypes, Rows
<1>3. /\ outbox'[d] = outbox[d] \cup {LastSeq(d) + 1}
      /\ \A c \in Dbs : c # d => outbox'[c] = outbox[c]
      /\ UNCHANGED <<fileVars, spooled, queue, serveVars, unheard>>
  BY <1>1 DEF Commit, BoxTypes
<1> QED
  BY <1>2, <1>3 DEF Rows

(* What is published or deleted stays a row of its database. *)
LEMMA PublishKeepsRows ==
  ASSUME TypeInv, BoxInv, Publish
  PROVE  \A c \in Dbs : Rows(c)' = Rows(c)
<1>1. /\ \A c \in Dbs : spooled'[c] = IF c \in db THEN spooled[c] \cup page ELSE spooled[c]
      /\ pc = "publish" /\ UNCHANGED outbox
  BY DEF Publish
<1> QED
  BY <1>1 DEF BoxInv, PageIsLowest, Rows

(* A page that is deleted is in the spool, so no row is lost. *)
LEMMA PruneKeepsRows ==
  ASSUME TypeInv, BoxInv, Prune
  PROVE  \A c \in Dbs : Rows(c)' = Rows(c)
<1>1. BoxTypes /\ ServeTypes
  BY TypeParts
<1>2. /\ \A c \in Dbs : outbox'[c] = IF c \in db THEN {s \in outbox[c] : s > Max(page)}
                                     ELSE outbox[c]
      /\ pc = "prune" /\ UNCHANGED spooled
  BY DEF Prune
<1>3. Max(page) \in page /\ Max(page) \in Nat
  BY <1>1, <1>2, PageMax DEF ServeTypes
<1>4. \A d \in db : \A s \in outbox[d] : s \in outbox'[d] \/ s \in spooled[d]
  <2> SUFFICES ASSUME NEW d \in db, NEW s \in outbox[d], ~(s > Max(page))
               PROVE  s \in spooled[d]
    BY <1>1, <1>2 DEF ServeTypes
  <2>1. s \in Nat
    BY <1>1 DEF ServeTypes, BoxTypes
  <2>2. s = Max(page) \/ s < Max(page)
    BY <1>3, <2>1
  <2>3. s \in page
    BY <1>2, <1>3, <2>2 DEF BoxInv, PageIsLowest
  <2> QED
    BY <1>2, <2>3 DEF BoxInv, PageIsLowest
<1> QED
  BY <1>2, <1>4 DEF Rows

(* Every step keeps the page in step with the outbox. *)
LEMMA BoxInvStep == TypeInv /\ BoxInv /\ [Next]_vars => BoxInv'
<1> SUFFICES ASSUME TypeInv, BoxInv, [Next]_vars PROVE BoxInv'
  OBVIOUS
<1>a. BoxTypes /\ ServeTypes
  BY TypeParts
<1>t. \A d \in Dbs : /\ outbox[d] \subseteq Nat \ {0} /\ spooled[d] \subseteq Nat \ {0}
                     /\ \A s \in Rows(d) : s \in Nat \ {0}
  BY <1>a DEF BoxTypes, Rows
<1>b. ASSUME UNCHANGED boxVars, pc' \notin {"fetch", "publish", "prune"} PROVE BoxInv'
  BY <1>b DEF BoxInv, NoHoles, NoOvertaking, PageIsLowest, MalformedAreRows, Rows, boxVars
<1>c. ASSUME UNCHANGED boxVars, UNCHANGED serveVars PROVE BoxInv'
  BY <1>c DEF BoxInv, NoHoles, NoOvertaking, PageIsLowest, MalformedAreRows, Rows, boxVars,
              serveVars
<1>1. ASSUME NEW d \in Dbs, Commit(d) PROVE BoxInv'
  <2> DEFINE new == LastSeq(d) + 1
  <2>1. /\ LastSeq(d) \in Rows(d) \cup {0} /\ LastSeq(d) \in Nat
        /\ new \in Nat /\ \A s \in Rows(d) : s \in Nat /\ s < new
    BY <1>1, LastSeqIsLast, CommitAddsRow
  <2>2. /\ outbox'[d] = outbox[d] \cup {new}
        /\ \A c \in Dbs : c # d => outbox'[c] = outbox[c]
        /\ Rows(d)' = Rows(d) \cup {new}
        /\ \A c \in Dbs : c # d => Rows(c)' = Rows(c)
        /\ UNCHANGED <<spooled, serveVars>>
    BY <1>1, CommitAddsRow
  <2>3. \A c \in Dbs : malformed'[c] \subseteq malformed[c] \cup (IF c = d THEN {new} ELSE {})
    BY <1>a, <1>1 DEF Commit, BoxTypes
  <2>4. 1..new \subseteq Rows(d) \cup {new}
    <3>1. 1..LastSeq(d) \subseteq Rows(d)
      BY <2>1 DEF BoxInv, NoHoles
    <3>2. \A i \in 1..new : i \in 1..LastSeq(d) \/ i = new
      BY <2>1
    <3> QED
      BY <3>1, <3>2
  <2>5. NoHoles'
    BY <2>2, <2>4 DEF BoxInv, NoHoles
  <2>6. NoOvertaking'
    BY <2>2 DEF BoxInv, NoOvertaking
  <2>7. MalformedAreRows'
    BY <2>2, <2>3 DEF BoxInv, MalformedAreRows
  <2>8. PageIsLowest'
    <3> SUFFICES ASSUME NEW c \in db'
                 PROVE  /\ pc' = "fetch" => /\ after' \in spooled'[c] \cup {0}
                                            /\ \A s \in outbox'[c] : s > after'
                        /\ pc' \in {"publish", "prune"} =>
                             page' \subseteq outbox'[c]
                             /\ \A s \in page' : \A r \in outbox'[c] : r < s => r \in page'
                        /\ pc' = "prune" => page' \subseteq spooled'[c]
      BY DEF PageIsLowest
    <3>1. c \in db /\ c \in Dbs /\ UNCHANGED <<pc, db, after, page>>
      BY <1>a, <2>2 DEF ServeTypes, serveVars
    <3>2. CASE c # d
      BY <2>2, <3>1, <3>2 DEF BoxInv, PageIsLowest
    <3>3. CASE c = d
      <4>1. pc = "fetch" => new > after
        BY <2>1, <3>1, <3>3 DEF BoxInv, PageIsLowest, Rows
      <4>2. pc \in {"publish", "prune"} => \A s \in page : s \in Nat /\ new \in Nat /\ ~(new < s)
        BY <2>1, <3>1, <3>3 DEF BoxInv, PageIsLowest, Rows
      <4> QED
        BY <2>2, <3>1, <3>3, <4>1, <4>2 DEF BoxInv, PageIsLowest
    <3> QED
      BY <3>2, <3>3
  <2> QED
    BY <2>5, <2>6, <2>7, <2>8 DEF BoxInv
<1>2. ASSUME NEW d \in Dbs, NudgeLost(d) PROVE BoxInv'
  BY <1>c, <1>2 DEF NudgeLost
<1>3. ASSUME NEW d \in Dbs, Break(d) PROVE BoxInv'
  BY <1>c, <1>3 DEF Break
<1>4. ASSUME NEW d \in Dbs, Repair(d) PROVE BoxInv'
  <2>1. /\ \A c \in Dbs : malformed'[c] \subseteq malformed[c]
        /\ UNCHANGED <<outbox, spooled, serveVars>>
    BY <1>a, <1>4 DEF Repair, BoxTypes
  <2>2. MalformedAreRows'
    BY <2>1 DEF BoxInv, MalformedAreRows, Rows
  <2> QED
    BY <2>1, <2>2 DEF BoxInv, NoHoles, NoOvertaking, PageIsLowest, Rows, serveVars
<1>5. ASSUME NEW name \in Dbs \cup {Junk}, Nudge(name) PROVE BoxInv'
  BY <1>c, <1>5 DEF Nudge
<1>6. ASSUME Elapse PROVE BoxInv'
  BY <1>c, <1>6 DEF Elapse
<1>7. ASSUME Tick \/ TickNext \/ TickDone \/ LoadDirFails \/ Listen \/ Recv PROVE BoxInv'
  BY <1>b, <1>7 DEF Tick, TickNext, TickDone, LoadDirFails, Listen, Recv
<1>8. ASSUME Return, UNCHANGED boxVars PROVE BoxInv'
  BY <1>b, <1>8 DEF Return
<1>9. ASSUME Open PROVE BoxInv'
  <2>1. CASE Return
    BY <1>8, <1>9, <2>1 DEF Open
  <2>2. CASE pc' = "fetch" /\ UNCHANGED <<ticking, todo, db, after, page>>
    <3>1. UNCHANGED boxVars /\ after = 0 /\ pc = "open"
      BY <1>a, <1>9 DEF Open, ServeTypes, InHand
    <3>2. PageIsLowest'
      BY <1>a, <1>t, <2>2, <3>1 DEF PageIsLowest, ServeTypes, boxVars
    <3> QED
      BY <3>1, <3>2 DEF BoxInv, NoHoles, NoOvertaking, MalformedAreRows, Rows, boxVars
  <2> QED
    BY <1>9, <2>1, <2>2 DEF Open, Fail
<1>10. ASSUME Fetch PROVE BoxInv'
  <2>1. PICK d \in db : LET next == NextPage(d) IN
          IF next \cap malformed[d] # {} THEN Fail
          ELSE /\ unheard' = unheard \ db
               /\ IF next = {} THEN Return
                  ELSE /\ pc' = "publish" /\ page' = next
                       /\ UNCHANGED <<ticking, todo, db, after>>
    BY <1>10 DEF Fetch
  <2>2. UNCHANGED boxVars /\ pc = "fetch"
    BY <1>10 DEF Fetch
  <2>3. CASE Return
    BY <1>8, <2>2, <2>3
  <2>4. CASE pc' = "publish" /\ page' = NextPage(d) /\ UNCHANGED <<ticking, todo, db, after>>
    <3>1. d \in Dbs /\ \A c \in db : c = d
      BY <1>a DEF ServeTypes, InHand
    <3>2. /\ NextPage(d) \subseteq outbox[d]
          /\ \A s \in NextPage(d) : \A r \in outbox[d] : r > after /\ r < s => r \in NextPage(d)
      BY <3>1, PageOf
    <3>3. \A s \in outbox[d] : s > after
      BY <2>2 DEF BoxInv, PageIsLowest
    <3>4. PageIsLowest'
      BY <2>2, <2>4, <3>1, <3>2, <3>3 DEF PageIsLowest, boxVars
    <3> QED
      BY <2>2, <3>4 DEF BoxInv, NoHoles, NoOvertaking, MalformedAreRows, Rows, boxVars
  <2> QED
    BY <2>1, <2>3, <2>4 DEF Fail
<1>11. ASSUME Publish PROVE BoxInv'
  <2>1. /\ \A c \in Dbs : spooled'[c] = IF c \in db THEN spooled[c] \cup page ELSE spooled[c]
        /\ pc = "publish" /\ pc' = "prune" /\ UNCHANGED <<outbox, malformed, db, page>>
    BY <1>11 DEF Publish
  <2>2. \A c \in Dbs : Rows(c)' = Rows(c)
    BY <1>11, PublishKeepsRows
  <2>3. NoOvertaking'
    <3> SUFFICES ASSUME NEW d \in Dbs, NEW s \in spooled'[d], NEW i \in 1..s
                 PROVE  i \in spooled'[d]
      BY DEF NoOvertaking
    <3>1. CASE s \in spooled[d]
      BY <2>1, <3>1 DEF BoxInv, NoOvertaking
    <3>2. CASE d \in db /\ s \in page
      <4>1. s \in Rows(d) /\ i \in Rows(d)
        BY <2>1, <3>2 DEF BoxInv, PageIsLowest, NoHoles, Rows
      <4>2. i = s \/ i < s
        BY <1>t, <4>1
      <4>3. i \in outbox[d] => i \in page
        BY <2>1, <3>2, <4>2 DEF BoxInv, PageIsLowest
      <4> QED
        BY <2>1, <3>2, <4>1, <4>3 DEF Rows
    <3> QED
      BY <2>1, <3>1, <3>2
  <2>4. PageIsLowest'
    BY <1>a, <2>1 DEF BoxInv, PageIsLowest, ServeTypes
  <2> QED
    BY <2>1, <2>2, <2>3, <2>4 DEF BoxInv, NoHoles, MalformedAreRows
<1>12. ASSUME Prune PROVE BoxInv'
  <2>1. /\ \A c \in Dbs : outbox'[c] = IF c \in db THEN {s \in outbox[c] : s > Max(page)}
                                       ELSE outbox[c]
        /\ pc = "prune" /\ UNCHANGED <<malformed, spooled>>
    BY <1>12 DEF Prune
  <2>2. Max(page) \in page /\ Max(page) \in Nat
    BY <1>a, <2>1, PageMax DEF ServeTypes
  <2>3. \A c \in Dbs : Rows(c)' = Rows(c)
    BY <1>12, PruneKeepsRows
  <2>4. PageIsLowest'
    <3>1. CASE Return
      BY <3>1 DEF Return, PageIsLowest
    <3>2. CASE pc' = "fetch" /\ after' = Max(page) /\ UNCHANGED db
      BY <1>a, <2>1, <2>2, <3>2 DEF BoxInv, PageIsLowest, ServeTypes
    <3> QED
      BY <1>12, <3>1, <3>2 DEF Prune
  <2> QED
    BY <2>1, <2>3, <2>4 DEF BoxInv, NoHoles, NoOvertaking, MalformedAreRows
<1>13. ASSUME Restart \/ Die PROVE BoxInv'
  BY <1>b, <1>13 DEF Restart, Die
<1>14. ASSUME CallFails PROVE BoxInv'
  BY <1>8, <1>14 DEF CallFails, Fail
<1>15. CASE UNCHANGED vars
  BY <1>c, <1>15 DEF vars
<1> QED
  BY <1>1, <1>2, <1>3, <1>4, <1>5, <1>6, <1>7, <1>9, <1>10, <1>11, <1>12, <1>13, <1>14, <1>15
     DEF Next, Serve

(* Nothing is spooled past a row that could not be: a drain publishes the    *)
(* lowest rows of an _outbox or none, and deletes only what it published.    *)
THEOREM NothingOvertakes == Spec => []NoOvertaking
<1>1. BoxInv => NoOvertaking
  BY DEF BoxInv
<1> QED
  BY <1>1, TypeInvInit, TypeInvStep, BoxInvInit, BoxInvStep, PTL DEF Spec
-----------------------------------------------------------------------------
(* What a drain that ends leaves to nudges and ticks. *)
LEMMA DebtInvInit == Init => DebtInv
BY DEF Init, DebtInv, BehindLastPage, TickOwes, NoLostWakeup, Rows

(* A drain that ends leaves a nudge to come, or a failure on record, for     *)
(* whatever it leaves in the _outbox, and nothing of what the tick asked.    *)
LEMMA ReturnPaysDebts ==
  ASSUME TypeInv, DebtInv, Return,
         UNCHANGED <<fileVars, malformed, owes, queue>>,
         \A c \in Dbs : Rows(c)' = Rows(c) /\ outbox'[c] \subseteq outbox[c]
                        /\ spooled[c] \subseteq spooled'[c],
         \A c \in Dbs : asked'[c] \in {asked[c], {}},
         \A c \in Dbs \ db : c \in unheard => c \in unheard',
         \A c \in db : outbox'[c] = {} \/ c \in owes \cup unheard' \cup Queued,
         \A c \in db : asked'[c] \subseteq spooled'[c]
  PROVE  DebtInv'
<1>1. BehindLastPage'
  BY DEF Return, BehindLastPage
<1>2. TickOwes'
  BY DEF Return, DebtInv, TickOwes, Healthy, fileVars
<1>3. NoLostWakeup'
  BY DEF Return, DebtInv, NoLostWakeup, Queued
<1> QED
  BY <1>1, <1>2, <1>3 DEF DebtInv

(* Every step keeps account of what is owed. *)
LEMMA DebtInvStep == TypeInv /\ BoxInv /\ DebtInv /\ [Next]_vars => DebtInv'
<1> SUFFICES ASSUME TypeInv, BoxInv, DebtInv, [Next]_vars PROVE DebtInv'
  OBVIOUS
<1>a. BoxTypes /\ ServeTypes
  BY TypeParts
<1>b. db \subseteq Dbs /\ \A c, d \in db : c = d
  BY <1>a DEF ServeTypes, InHand
<1>1. ASSUME NEW d \in Dbs, Commit(d) PROVE DebtInv'
  <2> DEFINE new == LastSeq(d) + 1
  <2>1. /\ new \notin Rows(d)
        /\ outbox'[d] = outbox[d] \cup {new}
        /\ \A c \in Dbs : c # d => outbox'[c] = outbox[c]
        /\ \A c \in Dbs : Rows(c) \subseteq Rows(c)'
        /\ UNCHANGED <<fileVars, spooled, queue, serveVars, unheard>>
    BY <1>1, CommitAddsRow
  <2>2. /\ owes' = owes \cup {d}
        /\ \A c \in Dbs : asked'[c] = {} \/ (asked'[c] = asked[c] /\ malformed'[c] = malformed[c])
    BY <1>a, <1>1 DEF Commit, Excuse, BoxTypes
  <2>3. new \notin malformed[d]
    BY <2>1 DEF BoxInv, MalformedAreRows
  <2>4. BehindLastPage'
    BY <1>b, <2>1, <2>2 DEF DebtInv, BehindLastPage, Queued, serveVars
  <2>5. TickOwes'
    BY <2>1, <2>2, <2>3 DEF DebtInv, TickOwes, Healthy, fileVars, serveVars
  <2>6. NoLostWakeup'
    BY <2>1, <2>2 DEF DebtInv, NoLostWakeup, serveVars
  <2> QED
    BY <2>4, <2>5, <2>6 DEF DebtInv
<1>2. ASSUME NEW d \in Dbs, NudgeLost(d) PROVE DebtInv'
  <2>1. owes' \cup unheard' = owes \cup unheard
        /\ UNCHANGED <<fileVars, boxVars, queue, serveVars, asked>>
    BY <1>2 DEF NudgeLost
  <2> QED
    BY <2>1 DEF DebtInv, BehindLastPage, TickOwes, NoLostWakeup, Queued, Rows, Healthy,
                fileVars, boxVars, serveVars
<1>3. ASSUME NEW d \in Dbs, Break(d) PROVE DebtInv'
  <2>1. /\ asked'[d] = {} /\ \A c \in Dbs : c # d => asked'[c] = asked[c]
        /\ \A c \in Dbs : c # d => (Healthy(c) => Healthy(c)')
        /\ UNCHANGED <<boxVars, owes, queue, serveVars, unheard>>
    BY <1>a, <1>3 DEF Break, Excuse, Healthy, BoxTypes, boxVars
  <2>2. BehindLastPage'
    BY <1>b, <2>1 DEF DebtInv, BehindLastPage, Queued, boxVars, serveVars
  <2>3. TickOwes'
    BY <2>1 DEF DebtInv, TickOwes, Rows, boxVars, serveVars
  <2>4. NoLostWakeup'
    BY <2>1 DEF DebtInv, NoLostWakeup, boxVars, serveVars
  <2> QED
    BY <2>2, <2>3, <2>4 DEF DebtInv
<1>4. ASSUME NEW d \in Dbs, Repair(d) PROVE DebtInv'
  <2>1. /\ announced \subseteq announced' /\ ready \subseteq ready'
        /\ \A c \in Dbs : malformed'[c] \subseteq malformed[c]
        /\ UNCHANGED <<outbox, spooled, owes, queue, serveVars, unheard, asked>>
    BY <1>a, <1>4 DEF Repair, BoxTypes
  <2> QED
    BY <2>1 DEF DebtInv, BehindLastPage, TickOwes, NoLostWakeup, Queued, Rows, Healthy, serveVars
<1>5. ASSUME NEW name \in Dbs \cup {Junk}, Nudge(name) PROVE DebtInv'
  <2>1. Queued' = Queued \cup {name}
    BY <1>a, <1>5, Datagrams DEF Nudge, Queued, BoxTypes
  <2>2. owes \subseteq owes' \cup {name}
        /\ UNCHANGED <<fileVars, boxVars, serveVars, unheard, asked>>
    BY <1>5 DEF Nudge
  <2>3. BehindLastPage'
    BY <2>1, <2>2 DEF DebtInv, BehindLastPage, boxVars, serveVars
  <2>4. TickOwes'
    BY <2>2 DEF DebtInv, TickOwes, Rows, Healthy, fileVars, boxVars, serveVars
  <2>5. NoLostWakeup'
    BY <2>1, <2>2 DEF DebtInv, NoLostWakeup, Queued, boxVars, serveVars
  <2> QED
    BY <2>3, <2>4, <2>5 DEF DebtInv
<1>6. ASSUME Elapse \/ Listen \/ LoadDirFails \/ Restart PROVE DebtInv'
  <2>1. /\ UNCHANGED <<fileVars, boxVars, owes, todo, db, page, asked>>
        /\ (pc' = pc /\ UNCHANGED <<queue, unheard>>) \/ pc' \in {"recv", "loop"}
    BY <1>6 DEF Elapse, Listen, LoadDirFails, Restart, serveVars
  <2>2. \A d \in Dbs : d \in unheard \cup Queued => d \in unheard' \cup Queued'
    <3>1. CASE Restart
      BY <3>1 DEF Restart, BindSock, Queued
    <3>2. CASE UNCHANGED <<queue, unheard>>
      BY <3>2 DEF Queued
    <3> QED
      BY <1>6, <3>1, <3>2 DEF Elapse, Listen, LoadDirFails
  <2>3. NoLostWakeup'
    <3>1. \A d \in Dbs : outbox[d] # {} => d \in owes \cup unheard \cup db \cup Queued
      BY DEF DebtInv, NoLostWakeup, Queued
    <3>2. \A d \in Dbs : outbox'[d] # {} => d \in owes' \cup unheard' \cup db' \cup Queued'
      BY <2>1, <2>2, <3>1 DEF boxVars
    <3> QED
      BY <3>2 DEF NoLostWakeup, Queued
  <2>4. BehindLastPage'
    <3>1. pc' = pc /\ UNCHANGED <<queue, unheard>> => BehindLastPage'
      BY <2>1 DEF DebtInv, BehindLastPage, Queued, boxVars
    <3>2. pc' \in {"recv", "loop"} => BehindLastPage'
      BY DEF BehindLastPage
    <3> QED
      BY <2>1, <3>1, <3>2
  <2>5. TickOwes'
    BY <2>1 DEF DebtInv, TickOwes, Rows, Healthy, fileVars, boxVars
  <2> QED
    BY <2>3, <2>4, <2>5 DEF DebtInv
<1>7. ASSUME Tick PROVE DebtInv'
  <2>1. UNCHANGED <<fileVars, boxVars, owes, queue, db, unheard>> /\ pc' = "next"
    BY <1>7 DEF Tick
  <2>2. TickOwes'
    <3> SUFFICES ASSUME NEW d \in Dbs
                 PROVE  /\ asked'[d] \subseteq Rows(d) /\ (asked'[d] # {} => Healthy(d))
                        /\ d \notin announced => asked'[d] = {}
      BY <1>7, <2>1 DEF Tick, LoadDir, TickOwes, Rows, Healthy, fileVars, boxVars
    <3> QED
      BY <1>7 DEF Tick, Rows, Healthy
  <2> QED
    BY <2>1, <2>2 DEF DebtInv, BehindLastPage, NoLostWakeup, Queued, boxVars
<1>8. ASSUME TickNext PROVE DebtInv'
  <2>1. UNCHANGED <<fileVars, boxVars, owes, queue, unheard, asked>> /\ pc' = "open"
        /\ db = {} /\ todo \subseteq todo' \cup db'
    BY <1>a, <1>8 DEF TickNext, ServeTypes, Draining
  <2> QED
    BY <2>1 DEF DebtInv, BehindLastPage, TickOwes, NoLostWakeup, Queued, Rows, Healthy,
                fileVars, boxVars
<1>9. ASSUME TickDone PROVE DebtInv'
  <2>1. UNCHANGED <<fileVars, boxVars, owes, queue, db, unheard>> /\ pc' = "recv"
        /\ \A d \in Dbs : asked'[d] = {}
    BY <1>9 DEF TickDone
  <2> QED
    BY <2>1 DEF DebtInv, BehindLastPage, TickOwes, NoLostWakeup, Queued, boxVars
<1>10. ASSUME Recv PROVE DebtInv'
  <2>1. UNCHANGED <<fileVars, boxVars, owes, todo, unheard, asked>> /\ pc' \in {"loop", "open"}
        /\ db = {}
    BY <1>a, <1>10 DEF Recv, ServeTypes, Draining
  <2>2. Queued \subseteq Queued' \cup db' \cup {Junk}
    <3>1. CASE queue = <<>>
      BY <1>10, <3>1 DEF Recv, Queued
    <3>2. CASE queue # <<>>
      <4>1. Queued = {Tail(queue)[i] : i \in DOMAIN Tail(queue)} \cup {Head(queue)}
        BY <1>a, <3>2, Datagrams DEF Queued, BoxTypes
      <4>2. queue' = Tail(queue) /\ Head(queue) \in db' \cup {Junk}
        BY <1>10, <3>2 DEF Recv
      <4> QED
        BY <4>1, <4>2 DEF Queued
    <3> QED
      BY <3>1, <3>2
  <2>3. NoLostWakeup'
    BY <2>1, <2>2, ServiceConstants DEF DebtInv, NoLostWakeup, Queued, boxVars
  <2> QED
    BY <2>1, <2>3 DEF DebtInv, BehindLastPage, TickOwes, Rows, Healthy, fileVars, boxVars
<1>11. ASSUME Open PROVE DebtInv'
  <2>1. UNCHANGED <<fileVars, boxVars, owes, queue, asked>>
    BY <1>11 DEF Open
  <2>2. CASE Fail /\ ~(db \subseteq announced \cap ready)
    <3>1. \A c \in db : asked[c] = {}
      BY <1>b, <2>2 DEF DebtInv, TickOwes, Healthy
    <3>2. Return /\ unheard' = unheard \cup db
      BY <2>2 DEF Fail
    <3> QED
      BY <1>b, <2>1, <3>1, <3>2, ReturnPaysDebts DEF Rows, boxVars
  <2>3. CASE pc' = "fetch" /\ UNCHANGED <<ticking, todo, db, after, page, unheard>>
    BY <2>1, <2>3 DEF DebtInv, BehindLastPage, TickOwes, NoLostWakeup, Queued, Rows, Healthy,
                      fileVars, boxVars
  <2> QED
    BY <1>11, <2>2, <2>3 DEF Open
<1>12. ASSUME Fetch PROVE DebtInv'
  <2>1. PICK d \in db : LET next == NextPage(d) IN
          IF next \cap malformed[d] # {} THEN Fail
          ELSE /\ unheard' = unheard \ db
               /\ IF next = {} THEN Return
                  ELSE /\ pc' = "publish" /\ page' = next
                       /\ UNCHANGED <<ticking, todo, db, after>>
    BY <1>12 DEF Fetch
  <2>2. UNCHANGED <<fileVars, boxVars, owes, queue, asked>> /\ pc = "fetch"
    BY <1>12 DEF Fetch
  <2>3. d \in Dbs /\ db = {d}
    BY <1>b
  <2>4. /\ NextPage(d) \subseteq outbox[d]
        /\ Cardinality(NextPage(d)) < Batch => NextPage(d) = outbox[d]
        /\ NextPage(d) = {} => outbox[d] = {}
    <3>1. {s \in outbox[d] : s > after} = outbox[d]
      BY <2>2 DEF BoxInv, PageIsLowest
    <3> QED
      BY <2>3, <3>1, PageOf
  <2>5. CASE Fail /\ NextPage(d) \cap malformed[d] # {}
    <3>1. asked[d] = {}
      BY <2>3, <2>4, <2>5 DEF DebtInv, TickOwes, Healthy
    <3>2. Return /\ unheard' = unheard \cup db
      BY <2>5 DEF Fail
    <3> QED
      BY <2>2, <2>3, <3>1, <3>2, ReturnPaysDebts DEF Rows, boxVars
  <2>6. CASE Return /\ unheard' = unheard \ db /\ NextPage(d) = {}
    <3>1. outbox[d] = {} /\ asked[d] \subseteq spooled[d]
      BY <2>3, <2>4, <2>6 DEF DebtInv, TickOwes, Rows
    <3> QED
      BY <2>2, <2>3, <2>6, <3>1, ReturnPaysDebts DEF Rows, boxVars
  <2>7. CASE /\ unheard' = unheard \ db /\ pc' = "publish" /\ page' = NextPage(d)
             /\ UNCHANGED <<ticking, todo, db, after>>
    <3>1. BehindLastPage'
      BY <2>2, <2>3, <2>4, <2>7 DEF DebtInv, BehindLastPage, TickOwes, Rows, boxVars
    <3>2. TickOwes'
      BY <2>2, <2>7 DEF DebtInv, TickOwes, Rows, Healthy, fileVars, boxVars
    <3>3. NoLostWakeup'
      BY <2>2, <2>3, <2>7 DEF DebtInv, NoLostWakeup, boxVars
    <3> QED
      BY <3>1, <3>2, <3>3 DEF DebtInv
  <2> QED
    BY <2>1, <2>5, <2>6, <2>7
<1>13. ASSUME Publish PROVE DebtInv'
  <2>1. \A c \in Dbs : Rows(c)' = Rows(c)
    BY <1>13, PublishKeepsRows
  <2>2. \A c \in Dbs : spooled[c] \subseteq spooled'[c]
    BY <1>13 DEF Publish
  <2>3. UNCHANGED <<fileVars, outbox, malformed, owes, queue, todo, db, page, unheard, asked>>
        /\ pc = "publish"
    BY <1>13 DEF Publish
  <2>4. BehindLastPage'
    BY <1>b, <2>2, <2>3 DEF DebtInv, BehindLastPage, Queued
  <2>5. TickOwes'
    BY <2>1, <2>2, <2>3 DEF DebtInv, TickOwes, Healthy, fileVars
  <2>6. NoLostWakeup'
    BY <2>3 DEF DebtInv, NoLostWakeup
  <2> QED
    BY <2>4, <2>5, <2>6 DEF DebtInv
<1>14. ASSUME Prune PROVE DebtInv'
  <2>1. /\ \A c \in Dbs : outbox'[c] = IF c \in db THEN {s \in outbox[c] : s > Max(page)}
                                       ELSE outbox[c]
        /\ pc = "prune" /\ UNCHANGED <<fileVars, malformed, spooled, owes, queue, unheard, asked>>
    BY <1>14 DEF Prune
  <2>2. \A c \in Dbs : Rows(c)' = Rows(c) /\ outbox'[c] \subseteq outbox[c]
    BY <1>14, <2>1, PruneKeepsRows
  <2>3. CASE Return /\ Cardinality(page) < Batch
    <3>1. \A s \in page : s \in Nat /\ ~(s > Max(page))
      BY <1>a, <2>1, PageMax DEF ServeTypes
    <3>2. \A c \in db : outbox[c] \subseteq page => outbox'[c] = {}
      BY <1>b, <2>1, <3>1
    <3>3. \A c \in db : (outbox[c] \subseteq page \/ c \in owes \cup unheard \cup Queued)
                        /\ asked[c] \subseteq spooled[c]
      BY <2>1, <2>3 DEF DebtInv, BehindLastPage, BoxInv, PageIsLowest
    <3> QED
      BY <1>b, <2>1, <2>2, <2>3, <3>2, <3>3, ReturnPaysDebts
  <2>4. CASE pc' = "fetch" /\ UNCHANGED <<todo, db>>
    <3>1. BehindLastPage'
      BY <2>4 DEF BehindLastPage
    <3>2. TickOwes'
      BY <2>1, <2>2, <2>4 DEF DebtInv, TickOwes, Healthy, fileVars
    <3>3. NoLostWakeup'
      BY <2>1, <2>2, <2>4 DEF DebtInv, NoLostWakeup
    <3> QED
      BY <3>1, <3>2, <3>3 DEF DebtInv
  <2> QED
    BY <1>14, <2>3, <2>4 DEF Prune
<1>15. ASSUME CallFails PROVE DebtInv'
  <2>1. /\ Return /\ unheard' = unheard \cup db
        /\ \A c \in Dbs : asked'[c] = IF c \in db THEN {} ELSE asked[c]
        /\ UNCHANGED <<fileVars, boxVars, owes, queue>>
    BY <1>15 DEF CallFails, Fail
  <2> QED
    BY <1>b, <2>1, ReturnPaysDebts DEF Rows, boxVars
<1>16. ASSUME Die PROVE DebtInv'
  <2>1. /\ pc' = "down" /\ unheard' = unheard \cup db /\ db' = {}
        /\ \A c \in Dbs : asked'[c] = {}
        /\ UNCHANGED <<boxVars, owes, queue>>
    BY <1>16 DEF Die
  <2> QED
    BY <2>1 DEF DebtInv, BehindLastPage, TickOwes, NoLostWakeup, Queued, boxVars
<1>17. CASE UNCHANGED vars
  BY <1>17 DEF vars, DebtInv, BehindLastPage, TickOwes, NoLostWakeup, Queued, Rows, Healthy,
               fileVars, boxVars, serveVars
<1> QED
  BY <1>1, <1>2, <1>3, <1>4, <1>5, <1>6, <1>7, <1>8, <1>9, <1>10, <1>11, <1>12, <1>13, <1>14,
     <1>15, <1>16, <1>17 DEF Next, Serve

(* No wake-up is lost between a drain that is ending and a utility that has  *)
(* just committed, with any number of databases, datagrams and failures: a   *)
(* drain ends with a page that held all there was, or behind rows of a       *)
(* utility that has yet to nudge.                                            *)
THEOREM NoWakeupLost == Spec => []NoLostWakeup
<1>1. DebtInv => NoLostWakeup
  BY DEF DebtInv
<1> QED
  BY <1>1, TypeInvInit, TypeInvStep, BoxInvInit, BoxInvStep, DebtInvInit, DebtInvStep, PTL
     DEF Spec

(* When a tick ends, the sound databases have spooled what was there when it *)
(* began, however broken the others are.                                     *)
THEOREM TickDrains == Spec => TickDrainsAll
<1>1. TypeInv /\ DebtInv /\ [Next]_vars
        => [TickDone => \A d \in Dbs : asked[d] \subseteq spooled[d]]_vars
  <2> SUFFICES ASSUME TypeInv, DebtInv, TickDone, NEW d \in Dbs
               PROVE  asked[d] \subseteq spooled[d]
    OBVIOUS
  <2>1. todo = {} /\ db = {}
    BY TypeParts DEF TickDone, ServeTypes, Draining
  <2> QED
    BY <2>1 DEF DebtInv, TickOwes
<1> QED
  BY <1>1, TypeInvInit, TypeInvStep, BoxInvInit, BoxInvStep, DebtInvInit, DebtInvStep, PTL
     DEF Spec, TickDrainsAll
=============================================================================
