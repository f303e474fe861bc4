----------------------------- MODULE CollectProofs -----------------------------
(***************************************************************************)
(* Collect's proofs, for every table, size of page and number of collectors, *)
(* overlapping or not.  Layers, each over those before it:                   *)
(*   TypeInv     the types;                                                  *)
(*   LockInv     what sqlite, its write lock and the page in hand are to     *)
(*               each other;                                                 *)
(*   JournalInv  a seq is given out once, the outbox is the journal's tail,  *)
(*               and a page has no gaps; from here on a snapshot that has    *)
(*               published does not end early (NoneFailsLate);               *)
(*   TableInv    the journal rebuilds the table;                             *)
(*   Owned       a file that is not whole has a writer who completes it,     *)
(*               while nobody dies (MaxDeaths = 0);                          *)
(*   SpanInv     what left the outbox is in the name of a closed file, while *)
(*               nobody dies.                                                *)
(* SpoolProofs goes on from JournalInv, for collectors that do not overlap.  *)
(***************************************************************************)
EXTENDS Collect, IntegerSets

(* p has a page in hand; it came from the outbox, or from a captured table.  *)
Holding(p) == pc[p] \in {"open", "write", "rename", "syncdir", "delete"}
Drains(p) == Holding(p) /\ phase[p] = "drain"
Emits(p) == Holding(p) /\ phase[p] = "emit"

Finite ==
  /\ IsFiniteSet(box.rows) /\ IsFiniteSet(tx.rows)
  /\ \A p \in Procs : IsFiniteSet(page[p])

(* A page in hand has events, and an open file is there to be written.       *)
InHand ==
  \A p \in Procs :
    /\ Holding(p) => page[p] # {}
    /\ left[p] \subseteq page[p] /\ (left[p] # {} => pc[p] = "write")
    /\ fd[p] # "none" => pc[p] = "write"
    /\ fd[p] = "tmp" => NameOf(page[p]) \in DOMAIN tmp
    /\ fd[p] = "closed" => NameOf(page[p]) \in DOMAIN closed

TypeInv == TypeOK /\ Finite /\ InHand
-----------------------------------------------------------------------------
(* A collector emits under the write lock only. *)
PhaseFits(p) ==
  /\ phase[p] = "emit" => lock = p
  /\ pc[p] \in {"emit", "commit"} => phase[p] = "emit"
  /\ pc[p] \in {"idle", "fetch", "delete"} => phase[p] = "drain"

(* AUTOINCREMENT goes on from sqlite_sequence. *)
SeqOnTop ==
  /\ \A e \in box.rows : 0 < e.seq /\ e.seq <= box.seq
  /\ \A e \in tx.rows : e.seq <= tx.seq

(* A transaction takes rows away from below, and seqs from above. *)
TxOfBox ==
  /\ lock = "none" => tx = box
  /\ tx.rows \subseteq box.rows /\ box.seq <= tx.seq
  /\ \A d \in tx.rows : \A e \in box.rows : d.seq <= e.seq => e \in tx.rows

(* Nothing that is left of the outbox is below a page, whoever deletes.      *)
PageLow(p) ==
  /\ pc[p] = "idle" => after[p] = 0
  /\ pc[p] = "fetch" => after[p] <= box.seq /\ \A e \in Box(p).rows : e.seq > after[p]
  /\ Drains(p) => \A e \in page[p] :
       e.seq <= box.seq /\ \A d \in Box(p).rows : d.seq <= e.seq => d \in page[p]

(* The lock keeps the utility out of the outbox its holder drains: a page    *)
(* that is not full is all of it, and before it emits it has emptied it.     *)
TxPage(p) ==
  /\ Drains(p) /\ Cardinality(page[p]) < Batch => tx.rows \subseteq page[p]
  /\ phase[p] = "emit" => tx.rows = {}

LockFits ==
  \A p \in Procs : PhaseFits(p) /\ PageLow(p) /\ (lock = p => TxPage(p))

LockInv == SeqOnTop /\ TxOfBox /\ LockFits
-----------------------------------------------------------------------------
(* The operators the actions are built from. *)

(* Finitely many events have finitely many seqs, at most one each. *)
LEMMA SeqsFinite ==
  ASSUME NEW E \in SUBSET Event, IsFiniteSet(E)
  PROVE  /\ Seqs(E) \in SUBSET Int /\ Seqs(E) \subseteq Nat /\ IsFiniteSet(Seqs(E))
         /\ Cardinality(Seqs(E)) <= Cardinality(E)
         /\ E # {} => Seqs(E) # {}
         /\ \A e \in E : e.seq \in Seqs(E)
         /\ \A s \in Seqs(E) : \E e \in E : e.seq = s
<1>1. \A e \in E : e.seq \in Nat
  BY DEF Event
<1>2. [e \in E |-> e.seq] \in Surjection(E, Seqs(E))
  BY DEF Surjection, Seqs
<1>3. IsFiniteSet(Seqs(E)) /\ Cardinality(Seqs(E)) <= Cardinality(E)
  BY <1>2, FS_Surjection
<1> QED
  BY <1>1, <1>3 DEF Seqs

(* The name of a file: its first and its last seq. *)
LEMMA NameOfPage ==
  ASSUME NEW E \in SUBSET Event, IsFiniteSet(E), E # {}
  PROVE  /\ NameOf(E) \in Name
         /\ \A e \in E : NameOf(E).lo <= e.seq /\ e.seq <= NameOf(E).hi
         /\ \E e \in E : e.seq = NameOf(E).lo
         /\ \E e \in E : e.seq = NameOf(E).hi
<1>1. /\ Seqs(E) \in SUBSET Int /\ Seqs(E) \subseteq Nat /\ IsFiniteSet(Seqs(E))
      /\ Seqs(E) # {} /\ \A e \in E : e.seq \in Seqs(E)
      /\ \A s \in Seqs(E) : \E e \in E : e.seq = s
  BY SeqsFinite
<1>2. /\ Min(Seqs(E)) \in Seqs(E) /\ \A s \in Seqs(E) : Min(Seqs(E)) <= s
      /\ Max(Seqs(E)) \in Seqs(E) /\ \A s \in Seqs(E) : s <= Max(Seqs(E))
  BY <1>1, MinOf, MaxOf
<1>3. NameOf(E).lo = Min(Seqs(E)) /\ NameOf(E).hi = Max(Seqs(E))
      /\ NameOf(E) = [lo |-> Min(Seqs(E)), hi |-> Max(Seqs(E))]
  BY DEF NameOf
<1> QED
  BY <1>1, <1>2, <1>3 DEF Name

(* current_outbox_seq is sqlite_sequence's entry once that has caught up     *)
(* with the rows.                                                            *)
LEMMA CurrentSeqOf ==
  ASSUME NEW b \in Outbox, IsFiniteSet(b.rows)
  PROVE  /\ CurrentSeq(b) \in Nat /\ b.seq <= CurrentSeq(b)
         /\ \A e \in b.rows : e.seq <= CurrentSeq(b)
         /\ (\A e \in b.rows : e.seq <= b.seq) => CurrentSeq(b) = b.seq
<1> DEFINE S == {b.seq} \cup Seqs(b.rows)
<1>1. b.seq \in Nat /\ b.rows \in SUBSET Event
  BY DEF Outbox
<1>2. /\ Seqs(b.rows) \in SUBSET Int /\ Seqs(b.rows) \subseteq Nat /\ IsFiniteSet(Seqs(b.rows))
      /\ \A e \in b.rows : e.seq \in Seqs(b.rows)
      /\ \A s \in Seqs(b.rows) : \E e \in b.rows : e.seq = s
  BY <1>1, SeqsFinite
<1>3. S \in SUBSET Int /\ S \subseteq Nat /\ S # {} /\ IsFiniteSet(S)
  <2>1. IsFiniteSet(S)
    <3>1. IsFiniteSet({b.seq})
      BY FS_Singleton
    <3> QED
      BY <1>2, <3>1, FS_Union
  <2> QED
    BY <1>1, <1>2, <2>1
<1>4. CurrentSeq(b) = Max(S)
  BY DEF CurrentSeq
<1>5. b.seq \in S /\ \A e \in b.rows : e.seq \in S
  BY <1>2
<1>6. (\A e \in b.rows : e.seq <= b.seq) => \A s \in S : s <= b.seq
  BY <1>1, <1>2
<1> HIDE DEF S
<1>7. Max(S) \in S /\ \A s \in S : s <= Max(S)
  BY <1>3, MaxOf
<1> QED
  BY <1>3, <1>4, <1>5, <1>6, <1>7, MaxIs

(* fetch_outbox_page: the lowest rows behind after_seq, one at least and all *)
(* of them when the page is not full.                                        *)
LEMMA PageOf ==
  ASSUME NEW R \in SUBSET Event, IsFiniteSet(R), NEW a \in Int
  PROVE  LET later == {e \in R : e.seq > a}
             next == NextPage(R, a) IN
           /\ next \subseteq later /\ IsFiniteSet(next)
           /\ \A e \in next : \A d \in later : d.seq <= e.seq => d \in next
           /\ Cardinality(next) < Batch => next = later
           /\ next = {} => later = {}
<1> DEFINE later == {e \in R : e.seq > a}
           low == Lowest(Seqs(later), Batch)
           next == {e \in later : e.seq \in low}
<1>1. later \in SUBSET Event /\ IsFiniteSet(later) /\ next \subseteq later /\ Batch \in Nat \ {0}
  BY FS_Subset, CollectConstants
<1>2. next \in SUBSET Event /\ IsFiniteSet(next)
  BY <1>1, FS_Subset
<1>3. next = {e \in later : e.seq \in low}
  OBVIOUS
<1> HIDE DEF later, next
<1>4. /\ Seqs(later) \in SUBSET Int /\ IsFiniteSet(Seqs(later))
      /\ (later # {} => Seqs(later) # {}) /\ \A e \in later : e.seq \in Seqs(later)
      /\ \A s \in Seqs(later) : \E e \in later : e.seq = s
  BY <1>1, SeqsFinite
<1>5. low = {i \in Seqs(later) : Cardinality({j \in Seqs(later) : j < i}) < Batch}
  BY DEF Lowest
<1>6. /\ \A i \in low : \A j \in Seqs(later) : j < i => j \in low
      /\ Cardinality(low) < Batch => low = Seqs(later)
      /\ Seqs(later) # {} => low # {}
      /\ low \subseteq Seqs(later)
  <2>1. LET lowest == {i \in Seqs(later) : Cardinality({j \in Seqs(later) : j < i}) < Batch} IN
          /\ \A i \in lowest : \A j \in Seqs(later) : j < i => j \in lowest
          /\ Cardinality(lowest) < Batch => lowest = Seqs(later)
          /\ Batch # 0 /\ Seqs(later) # {} => lowest # {}
    BY <1>1, <1>4, LowestAreLowest
  <2> QED
    BY <1>1, <1>5, <2>1
<1> HIDE DEF low
<1>7. \A e \in next : \A d \in later : d.seq <= e.seq => d \in next
  <2> SUFFICES ASSUME NEW e \in next, NEW d \in later, d.seq <= e.seq PROVE d.seq \in low
    BY <1>3
  <2>1. e.seq \in low /\ d.seq \in Seqs(later) /\ e.seq \in Int /\ d.seq \in Int
    BY <1>1, <1>3, <1>4
  <2> QED
    BY <1>6, <2>1
<1>8. Cardinality(next) < Batch => next = later
  <2>1. low = Seqs(next)
    BY <1>3, <1>4, <1>6 DEF Seqs
  <2>2. Cardinality(low) <= Cardinality(next) /\ IsFiniteSet(low)
    BY <1>2, <2>1, SeqsFinite
  <2>3. Cardinality(low) \in Nat /\ Cardinality(next) \in Nat
    BY <1>2, <2>2, FS_CardinalityType
  <2>4. Cardinality(next) < Batch => Cardinality(low) < Batch
    BY <1>1, <2>2, <2>3
  <2> QED
    BY <1>3, <1>4, <1>6, <2>4
<1>9. next = {} => later = {}
  BY <1>3, <1>4, <1>6
<1> QED
  BY <1>1, <1>2, <1>7, <1>8, <1>9 DEF later, next, low, NextPage

(* emit_batch: as many new seqs behind the last one as there are rows, each  *)
(* row its own.                                                              *)
LEMMA ReemittedPage ==
  ASSUME TypeOK, NEW rows \in SUBSET Present, rows # {}, NEW cur \in Nat
  PROVE  /\ Reemitted(rows, cur) \in SUBSET Event /\ IsFiniteSet(Reemitted(rows, cur))
         /\ Reemitted(rows, cur) # {}
         /\ Cardinality(rows) \in Nat /\ Max(rows) \in Int
         /\ \A e \in Reemitted(rows, cur) : cur < e.seq /\ e.seq <= cur + Cardinality(rows)
         /\ \A d, e \in Reemitted(rows, cur) : d.seq = e.seq => d = e
<1> DEFINE Rank(k) == Cardinality({j \in rows : j <= k})
           Rows(k) == [src |-> Db, seq |-> cur + Rank(k), key |-> k, op |-> "I",
                       after |-> table[k]]
           P == Reemitted(rows, cur)
<1>1. rows \in SUBSET Int /\ rows \subseteq Keys /\ IsFiniteSet(rows)
  <2>1. Present \in SUBSET Keys /\ IsFiniteSet(Keys) /\ Keys \subseteq Int
    BY CollectConstants DEF Present
  <2>2. rows \in SUBSET Keys
    BY <2>1
  <2> QED
    BY <2>1, <2>2, FS_Subset
<1>2. Cardinality(rows) \in Nat /\ Max(rows) \in Int
  BY <1>1, FS_CardinalityType, MaxOf
<1>3. ASSUME NEW k \in rows
      PROVE  Rank(k) \in Nat /\ 0 < Rank(k) /\ Rank(k) <= Cardinality(rows)
  <2> DEFINE B == {j \in rows : j <= k}
  <2>1. B \in SUBSET rows /\ k \in B
    BY <1>1
  <2> HIDE DEF B
  <2>2. IsFiniteSet(B) /\ Cardinality(B) <= Cardinality(rows)
    BY <1>1, <2>1, FS_Subset
  <2>3. Cardinality(B) \in Nat /\ Cardinality(B) # 0
    BY <2>1, <2>2, FS_CardinalityType, FS_EmptySet
  <2> QED
    BY <1>2, <2>2, <2>3 DEF B
<1>4. ASSUME NEW i \in rows, NEW k \in rows, Rank(i) = Rank(k), i <= k
      PROVE  i = k
  <2> DEFINE A == {j \in rows : j <= i}
             B == {j \in rows : j <= k}
  <2>1. A \in SUBSET B
    <3>1. \A j \in rows : j <= i => j <= k
      BY <1>1, <1>4
    <3> QED
      BY <3>1
  <2>2. B \in SUBSET rows /\ (k \in A => k <= i) /\ k \in B
    BY <1>1
  <2>3. Cardinality(A) = Cardinality(B)
    BY <1>4
  <2> HIDE DEF A, B
  <2>4. IsFiniteSet(B)
    BY <1>1, <2>2, FS_Subset
  <2>5. A = B
    BY <2>1, <2>3, <2>4, FS_Subset
  <2> QED
    BY <1>1, <1>4, <2>2, <2>5
<1>5. \A i, k \in rows : Rank(i) = Rank(k) => i = k
  <2> SUFFICES ASSUME NEW i \in rows, NEW k \in rows, Rank(i) = Rank(k) PROVE i = k
    OBVIOUS
  <2>1. i <= k \/ k <= i
    BY <1>1
  <2> QED
    BY <1>4, <2>1
<1>6. P = {Rows(k) : k \in rows}
  BY DEF Reemitted
<1>7. \A k \in rows : Rows(k) \in Event
  BY <1>1, <1>3, CollectConstants DEF TypeOK, Event, Present, Ops
<1>8. [k \in rows |-> Rows(k)] \in Surjection(rows, P)
  BY <1>6 DEF Surjection
<1>9. IsFiniteSet(P)
  BY <1>1, <1>8, FS_Surjection
<1>10. \A k \in rows : Rows(k).seq = cur + Rank(k)
  OBVIOUS
<1> HIDE DEF Rows, Rank, P
<1>11. \A e \in P : cur < e.seq /\ e.seq <= cur + Cardinality(rows)
  <2> SUFFICES ASSUME NEW k \in rows
               PROVE  cur < Rows(k).seq /\ Rows(k).seq <= cur + Cardinality(rows)
    BY <1>6
  <2> QED
    BY <1>2, <1>3, <1>10
<1>12. \A d, e \in P : d.seq = e.seq => d = e
  <2> SUFFICES ASSUME NEW i \in rows, NEW k \in rows, Rows(i).seq = Rows(k).seq
               PROVE  Rows(i) = Rows(k)
    BY <1>6
  <2>1. Rank(i) = Rank(k)
    BY <1>3, <1>10
  <2> QED
    BY <1>5, <2>1
<1> QED
  BY <1>2, <1>6, <1>7, <1>9, <1>11, <1>12 DEF P
-----------------------------------------------------------------------------
(* The types, in parts. *)
SqlTypes ==
  /\ table \in [Keys -> Afters \cup {NoAfter}]
  /\ capturing \in BOOLEAN /\ missed \in BOOLEAN
  /\ box \in Outbox /\ tx \in Outbox /\ IsFiniteSet(box.rows) /\ IsFiniteSet(tx.rows)
  /\ journal \subseteq Event /\ deaths \in Nat

LockType == lock \in {"none"} \cup {p \in Procs : pc[p] # "idle"}

ProcTypes ==
  /\ pc \in [Procs -> {"idle", "fetch", "open", "write", "rename", "syncdir",
                       "delete", "emit", "commit"}]
  /\ phase \in [Procs -> {"drain", "emit"}]
  /\ page \in [Procs -> SUBSET Event] /\ left \in [Procs -> SUBSET Event]
  /\ after \in [Procs -> Int] /\ fd \in [Procs -> {"none", "tmp", "closed", "gone"}]

PageTypes ==
  \A p \in Procs : /\ IsFiniteSet(page[p]) /\ (Holding(p) => page[p] # {})
                   /\ left[p] \subseteq page[p] /\ (left[p] # {} => pc[p] = "write")
                   /\ fd[p] # "none" => pc[p] = "write"

DirTypes ==
  /\ DOMAIN tmp \cup DOMAIN closed \subseteq Name /\ durable \subseteq DOMAIN closed
  /\ \A n \in DOMAIN tmp : tmp[n] \in FileData
  /\ \A n \in DOMAIN closed : closed[n] \in FileData

OpenTypes ==
  \A p \in Procs : /\ fd[p] = "tmp" => NameOf(page[p]) \in DOMAIN tmp
                   /\ fd[p] = "closed" => NameOf(page[p]) \in DOMAIN closed

Types == SqlTypes /\ LockType /\ ProcTypes /\ PageTypes /\ DirTypes /\ OpenTypes

(* The types, as a list of parts a step can be checked against. *)
LEMMA TypeParts == TypeInv <=> Types
BY DEF TypeInv, TypeOK, Finite, InHand, Types, SqlTypes, LockType, ProcTypes, PageTypes,
       DirTypes, OpenTypes

(* The same after a step. *)
LEMMA TypePartsNext == TypeInv' <=> Types'
BY DEF TypeInv, TypeOK, Finite, InHand, Types, SqlTypes, LockType, ProcTypes, PageTypes,
       DirTypes, OpenTypes, Holding

(* The empty database has the types. *)
LEMMA TypeInvInit == Init => TypeInv
<1> SUFFICES ASSUME Init PROVE Types
  BY TypeParts
<1> USE DEF Init
<1>1. IsFiniteSet({})
  BY FS_EmptySet
<1>2. SqlTypes
  BY <1>1 DEF SqlTypes, Outbox
<1>3. LockType /\ ProcTypes
  BY DEF LockType, ProcTypes
<1>4. PageTypes
  BY <1>1 DEF PageTypes, Holding
<1>5. DirTypes /\ OpenTypes
  BY DEF DirTypes, OpenTypes
<1> QED
  BY <1>2, <1>3, <1>4, <1>5 DEF Types

(* The rowid a snapshot starts after is a number. *)
LEMMA FromStartType == FromStart \in Int
<1> DEFINE S == Keys \cup {0}
<1>1. S \in SUBSET Int /\ S # {}
  BY CollectConstants
<1>2. IsFiniteSet(S)
  BY CollectConstants, FS_AddElement
<1> HIDE DEF S
<1>3. Min(S) \in Int
  BY <1>1, <1>2, MinOf
<1> QED
  BY <1>3 DEF S, FromStart

(* However a run or a drain ends, nothing of it is left in hand. *)
LEMMA StopTypes ==
  ASSUME TypeInv, NEW p \in Procs, Stop(p)
  PROVE  /\ ProcTypes' /\ PageTypes'
         /\ UNCHANGED <<tmp, closed>> => OpenTypes'
         /\ \A q \in Procs : q # p => pc'[q] = pc[q]
<1>1. Types
  BY TypeParts
<1>2. ProcTypes'
  BY <1>1 DEF Types, ProcTypes, Stop, Goto
<1>3. \A q \in Procs :
        /\ q # p => /\ pc'[q] = pc[q] /\ page'[q] = page[q] /\ left'[q] = left[q]
                    /\ fd'[q] = fd[q]
        /\ q = p => pc'[q] = "idle" /\ page'[q] = {} /\ left'[q] = {} /\ fd'[q] = "none"
  BY <1>1 DEF Types, ProcTypes, Stop, Goto
<1>4. PageTypes'
  BY <1>1, <1>3, FS_EmptySet DEF Types, PageTypes, Holding
<1>5. UNCHANGED <<tmp, closed>> => OpenTypes'
  BY <1>1, <1>3 DEF Types, OpenTypes
<1> QED
  BY <1>2, <1>3, <1>4, <1>5

(* The end of a drain keeps the types. *)
LEMMA EndDrainTypes ==
  ASSUME TypeInv, NEW p \in Procs, pc[p] \in {"fetch", "delete"}, EndDrain(p), UNCHANGED lock
  PROVE  /\ LockType' /\ ProcTypes' /\ PageTypes'
         /\ UNCHANGED <<tmp, closed>> => OpenTypes'
<1>1. Types
  BY TypeParts
<1>2. CASE lock = p
  <2>1. /\ pc' = [pc EXCEPT ![p] = IF capturing THEN "emit" ELSE "commit"]
        /\ phase' = [phase EXCEPT ![p] = "emit"] /\ after' = [after EXCEPT ![p] = FromStart]
        /\ UNCHANGED <<page, left, fd>>
    BY <1>2 DEF EndDrain, Goto
  <2>2. ProcTypes'
    BY <1>1, <2>1, FromStartType DEF Types, ProcTypes
  <2>3. /\ pc'[p] \in {"emit", "commit"} /\ fd[p] = "none" /\ left[p] = {}
        /\ \A q \in Procs : q # p => pc'[q] = pc[q]
    BY <1>1, <2>1 DEF Types, ProcTypes, PageTypes
  <2>4. LockType' /\ PageTypes'
    BY <1>1, <2>1, <2>3 DEF Types, LockType, PageTypes, Holding
  <2>5. UNCHANGED <<tmp, closed>> => OpenTypes'
    BY <1>1, <2>1 DEF Types, OpenTypes
  <2> QED
    BY <2>2, <2>4, <2>5
<1>3. CASE lock # p
  <2>1. Stop(p)
    BY <1>3 DEF EndDrain
  <2>2. LockType'
    BY <1>1, <1>3, <2>1, StopTypes DEF Types, LockType
  <2> QED
    BY <2>1, <2>2, StopTypes
<1> QED
  BY <1>2, <1>3

(* What a connection sees and writes is an outbox. *)
LEMMA BoxTypes ==
  ASSUME TypeInv, NEW p
  PROVE  Box(p) \in Outbox /\ Box(p).rows \in SUBSET Event /\ IsFiniteSet(Box(p).rows)
BY TypeParts DEF Types, SqlTypes, Outbox, Box

(* Setting a file of a directory. *)
LEMMA PutFile ==
  ASSUME NEW dir, DOMAIN dir \subseteq Name, \A m \in DOMAIN dir : dir[m] \in FileData,
         NEW n \in Name, NEW file \in FileData
  PROVE  /\ DOMAIN Put(dir, n, file) = DOMAIN dir \cup {n}
         /\ DOMAIN Put(dir, n, file) \subseteq Name
         /\ \A m \in DOMAIN Put(dir, n, file) : Put(dir, n, file)[m] \in FileData
         /\ Put(dir, n, file)[n] = file
         /\ \A m \in DOMAIN dir : m # n => Put(dir, n, file)[m] = dir[m]
BY DEF Put

(* What a process writes goes to the file its descriptor refers to, and makes *)
(* no new one.                                                               *)
LEMMA SetFileTypes ==
  ASSUME TypeInv, NEW p \in Procs, pc[p] = "write", NEW file \in FileData, SetFile(p, file)
  PROVE  /\ DOMAIN tmp' = DOMAIN tmp /\ DOMAIN closed' = DOMAIN closed
         /\ UNCHANGED durable => DirTypes'
         /\ FileOf(p) \in FileData
         /\ fd[p] = "tmp" => /\ UNCHANGED closed /\ tmp'[NameOf(page[p])] = file
                            /\ FileOf(p) = tmp[NameOf(page[p])]
<1> DEFINE n == NameOf(page[p])
<1>1. Types
  BY TypeParts
<1>2. n \in Name
  BY <1>1, NameOfPage DEF Types, ProcTypes, PageTypes, Holding
<1>3. (fd[p] = "tmp" => n \in DOMAIN tmp) /\ (fd[p] = "closed" => n \in DOMAIN closed)
  BY <1>1 DEF Types, OpenTypes
<1>4. /\ tmp' = IF fd[p] = "tmp" THEN Put(tmp, n, file) ELSE tmp
      /\ closed' = IF fd[p] = "closed" THEN Put(closed, n, file) ELSE closed
  BY DEF SetFile
<1>5. /\ FileOf(p) = IF fd[p] = "tmp" THEN tmp[n]
                     ELSE IF fd[p] = "closed" THEN closed[n]
                     ELSE [lines |-> {}, stable |-> {}]
  BY DEF FileOf
<1> HIDE DEF n
<1>6. /\ DOMAIN tmp \subseteq Name /\ \A m \in DOMAIN tmp : tmp[m] \in FileData
      /\ DOMAIN closed \subseteq Name /\ \A m \in DOMAIN closed : closed[m] \in FileData
  BY <1>1 DEF Types, DirTypes
<1>7. /\ DOMAIN tmp' = DOMAIN tmp /\ \A m \in DOMAIN tmp' : tmp'[m] \in FileData
      /\ fd[p] = "tmp" => tmp'[n] = file
  <2>1. CASE fd[p] = "tmp"
    <3>1. /\ DOMAIN Put(tmp, n, file) = DOMAIN tmp \cup {n}
          /\ \A m \in DOMAIN Put(tmp, n, file) : Put(tmp, n, file)[m] \in FileData
      BY <1>2, <1>6, PutFile
    <3>2. Put(tmp, n, file)[n] = file
      BY DEF Put
    <3> QED
      BY <1>3, <1>4, <2>1, <3>1, <3>2
  <2> QED
    BY <1>4, <1>6, <2>1
<1>8. DOMAIN closed' = DOMAIN closed /\ \A m \in DOMAIN closed' : closed'[m] \in FileData
  <2>1. CASE fd[p] = "closed"
    <3>1. /\ DOMAIN Put(closed, n, file) = DOMAIN closed \cup {n}
          /\ \A m \in DOMAIN Put(closed, n, file) : Put(closed, n, file)[m] \in FileData
      BY <1>2, <1>6, PutFile
    <3> QED
      BY <1>3, <1>4, <2>1, <3>1
  <2> QED
    BY <1>4, <1>6, <2>1
<1>9. FileOf(p) \in FileData
  BY <1>3, <1>5, <1>6 DEF FileData
<1>10. UNCHANGED durable => DirTypes'
  BY <1>1, <1>7, <1>8 DEF Types, DirTypes
<1> QED
  BY <1>4, <1>5, <1>7, <1>8, <1>9, <1>10 DEF n

(* Every step keeps the types. *)
LEMMA TypeInvStep == TypeInv /\ [Next]_vars => TypeInv'
<1> SUFFICES ASSUME TypeInv, [Next]_vars PROVE Types'
  BY TypePartsNext
<1>a. Types
  BY TypeParts
<1>b. UNCHANGED <<sqlVars, journal, deaths>> => SqlTypes'
  BY <1>a DEF Types, SqlTypes, sqlVars, Present
<1>c. UNCHANGED spoolVars => DirTypes'
  BY <1>a DEF Types, DirTypes, spoolVars
<1>d. UNCHANGED spoolVars /\ UNCHANGED <<page, fd>> => OpenTypes'
  BY <1>a DEF Types, OpenTypes, spoolVars
<1>e. UNCHANGED procVars => ProcTypes' /\ PageTypes'
  BY <1>a DEF Types, ProcTypes, PageTypes, Holding, procVars
<1>f. UNCHANGED <<lock, pc>> => LockType'
  BY <1>a DEF Types, LockType
<1>1. ASSUME NEW k \in Keys, NEW op \in Ops, NEW image \in Afters \cup {NoAfter},
             Write(k, op, image)
      PROVE  Types'
  <2> DEFINE e == [src |-> Db, seq |-> CurrentSeq(box) + 1, key |-> k, op |-> op,
                   after |-> image]
  <2>1. CurrentSeq(box) + 1 \in Nat
    BY <1>a, CurrentSeqOf DEF Types, SqlTypes
  <2>2. e \in Event
    BY <2>1, CollectConstants DEF Event
  <2>3. /\ box' = [rows |-> box.rows \cup {e}, seq |-> CurrentSeq(box) + 1] /\ tx' = box'
        /\ journal' = journal \cup {e} /\ table' = [table EXCEPT ![k] = image]
        /\ UNCHANGED <<capturing, missed, lock, spoolVars, procVars, deaths>>
    BY <1>1 DEF Write, Change
  <2> HIDE DEF e
  <2>4. IsFiniteSet(box.rows \cup {e}) /\ box.rows \subseteq Event
    BY <1>a, FS_AddElement DEF Types, SqlTypes, Outbox
  <2>5. box' \in Outbox /\ box'.rows = box.rows \cup {e}
    BY <2>1, <2>2, <2>3, <2>4 DEF Outbox
  <2>6. SqlTypes'
    BY <1>a, <2>2, <2>3, <2>4, <2>5 DEF Types, SqlTypes
  <2> QED
    BY <1>c, <1>d, <1>e, <1>f, <2>3, <2>6 DEF Types, procVars
<1>2. ASSUME NEW k \in Keys, NEW op \in Ops, NEW image \in Afters \cup {NoAfter},
             MissedWrite(k, op, image)
      PROVE  Types'
  <2>1. /\ table' = [table EXCEPT ![k] = image] /\ missed' = TRUE
        /\ UNCHANGED <<capturing, box, lock, tx, spoolVars, procVars, journal, deaths>>
    BY <1>2 DEF MissedWrite, Change
  <2>2. missed' \in BOOLEAN
    BY <2>1
  <2>3. SqlTypes'
    BY <1>a, <2>1, <2>2 DEF Types, SqlTypes
  <2> QED
    BY <1>c, <1>d, <1>e, <1>f, <2>1, <2>3 DEF Types, procVars
<1>3. ASSUME BreakFeed \/ RepairFeed PROVE Types'
  <2>1. UNCHANGED <<table, missed, box, lock, tx, spoolVars, procVars, journal, deaths>>
        /\ capturing' \in BOOLEAN
    BY <1>3 DEF BreakFeed, RepairFeed
  <2>2. SqlTypes'
    BY <1>a, <2>1 DEF Types, SqlTypes
  <2> QED
    BY <1>c, <1>d, <1>e, <1>f, <2>1, <2>2 DEF Types, procVars
<1>4. ASSUME NEW p \in Procs, StartDrain(p) PROVE Types'
  <2>1. /\ pc' = [pc EXCEPT ![p] = "fetch"] /\ pc[p] = "idle"
        /\ UNCHANGED <<sqlVars, spoolVars, phase, page, left, after, fd, journal, deaths>>
    BY <1>4 DEF StartDrain, MayStart, Goto
  <2>2. LockType' /\ ProcTypes' /\ PageTypes'
    BY <1>a, <2>1 DEF Types, LockType, ProcTypes, PageTypes, Holding, sqlVars
  <2> QED
    BY <1>b, <1>c, <1>d, <2>1, <2>2 DEF Types
<1>5. ASSUME NEW p \in Procs, NEW min \in MinSeqs, NEW allowLarge \in BOOLEAN,
             StartSnapshot(p, min, allowLarge)
      PROVE  Types'
  <2>1. /\ pc' = [pc EXCEPT ![p] = "fetch"] /\ pc[p] = "idle" /\ lock' = p
        /\ tx' = IF CurrentSeq(box) >= min THEN box ELSE [box EXCEPT !.seq = min]
        /\ UNCHANGED <<table, capturing, missed, box, spoolVars, phase, page, left, after, fd,
                       journal, deaths>>
    BY <1>5 DEF StartSnapshot, MayStart, Goto
  <2>2. tx' \in Outbox /\ tx'.rows = box.rows
    BY <1>a, <2>1, CollectConstants DEF Types, SqlTypes, Outbox
  <2>3. SqlTypes'
    BY <1>a, <2>1, <2>2 DEF Types, SqlTypes
  <2>4. LockType' /\ ProcTypes' /\ PageTypes'
    BY <1>a, <2>1 DEF Types, LockType, ProcTypes, PageTypes, Holding
  <2> QED
    BY <1>c, <1>d, <2>1, <2>3, <2>4 DEF Types
<1>6. ASSUME NEW p \in Procs, Fetch(p) PROVE Types'
  <2> DEFINE next == NextPage(Box(p).rows, after[p])
  <2>1. pc[p] = "fetch" /\ UNCHANGED <<sqlVars, spoolVars, journal, deaths>>
    BY <1>6 DEF Fetch
  <2>2. CASE EndDrain(p)
    <3>1. LockType' /\ ProcTypes' /\ PageTypes' /\ OpenTypes'
      BY <2>1, <2>2, EndDrainTypes DEF sqlVars, spoolVars
    <3> QED
      BY <1>b, <1>c, <2>1, <3>1 DEF Types
  <2>3. CASE /\ next # {} /\ pc' = [pc EXCEPT ![p] = "open"] /\ page' = [page EXCEPT ![p] = next]
             /\ UNCHANGED <<phase, left, after, fd>>
    <3>1. next \subseteq Box(p).rows /\ IsFiniteSet(next) /\ next \in SUBSET Event
      BY <1>a, BoxTypes, PageOf DEF Types, ProcTypes
    <3>2. fd[p] = "none" /\ left[p] = {}
      BY <1>a, <2>1 DEF Types, ProcTypes, PageTypes
    <3> HIDE DEF next
    <3>3. LockType' /\ ProcTypes'
      BY <1>a, <2>1, <2>3, <3>1 DEF Types, LockType, ProcTypes, sqlVars
    <3>4. PageTypes' /\ OpenTypes'
      BY <1>a, <2>1, <2>3, <3>1, <3>2
         DEF Types, ProcTypes, PageTypes, OpenTypes, Holding, spoolVars
    <3> QED
      BY <1>b, <1>c, <2>1, <3>3, <3>4 DEF Types
  <2> QED
    BY <1>6, <2>2, <2>3 DEF Fetch, Goto
<1>7. ASSUME NEW p \in Procs, Emit(p) PROVE Types'
  <2> DEFINE rows == Lowest({k \in Present : k > after[p]}, Batch)
             cur == CurrentSeq(tx)
  <2>1. /\ pc[p] = "emit"
        /\ UNCHANGED <<table, capturing, missed, box, lock, spoolVars, phase, left, fd, journal,
                       deaths>>
    BY <1>7 DEF Emit
  <2>2. fd[p] = "none" /\ left[p] = {}
    BY <1>a, <2>1 DEF Types, ProcTypes, PageTypes
  <2>3. CASE pc' = [pc EXCEPT ![p] = "commit"] /\ UNCHANGED <<page, after, tx>>
    <3>1. SqlTypes'
      BY <1>a, <2>1, <2>3 DEF Types, SqlTypes
    <3>2. LockType' /\ ProcTypes' /\ PageTypes'
      BY <1>a, <2>1, <2>2, <2>3 DEF Types, LockType, ProcTypes, PageTypes, Holding
    <3> QED
      BY <1>c, <1>d, <2>1, <2>3, <3>1, <3>2 DEF Types
  <2>4. CASE /\ rows # {} /\ tx' = [tx EXCEPT !.seq = cur + Cardinality(rows)]
             /\ page' = [page EXCEPT ![p] = Reemitted(rows, cur)]
             /\ after' = [after EXCEPT ![p] = Max(rows)] /\ pc' = [pc EXCEPT ![p] = "open"]
    <3>1. rows \in SUBSET Present
      BY DEF Lowest
    <3>2. cur \in Nat
      BY <1>a, CurrentSeqOf DEF Types, SqlTypes
    <3>3. TypeOK
      BY DEF TypeInv
    <3> HIDE DEF rows, cur
    <3>4. /\ Reemitted(rows, cur) \in SUBSET Event /\ IsFiniteSet(Reemitted(rows, cur))
          /\ Reemitted(rows, cur) # {} /\ Cardinality(rows) \in Nat /\ Max(rows) \in Int
      BY <2>4, <3>1, <3>2, <3>3, ReemittedPage
    <3>5. tx' \in Outbox /\ tx'.rows = tx.rows
      BY <1>a, <2>4, <3>2, <3>4 DEF Types, SqlTypes, Outbox
    <3>6. SqlTypes'
      BY <1>a, <2>1, <3>5 DEF Types, SqlTypes
    <3>7. LockType' /\ ProcTypes'
      BY <1>a, <2>1, <2>4, <3>4 DEF Types, LockType, ProcTypes
    <3>8. PageTypes' /\ OpenTypes'
      BY <1>a, <2>1, <2>2, <2>4, <3>4
         DEF Types, ProcTypes, PageTypes, OpenTypes, Holding, spoolVars
    <3> QED
      BY <1>c, <2>1, <3>6, <3>7, <3>8 DEF Types
  <2> QED
    BY <1>7, <2>3, <2>4 DEF Emit, Goto
<1>8. ASSUME NEW p \in Procs, CommitSnapshot(p) PROVE Types'
  <2>1. /\ Stop(p) /\ box' = tx /\ lock' = "none" /\ missed' = (missed /\ ~capturing)
        /\ UNCHANGED <<table, capturing, tx, spoolVars, journal, deaths>>
    BY <1>8 DEF CommitSnapshot
  <2>2. missed' \in BOOLEAN
    BY <2>1
  <2>3. SqlTypes'
    BY <1>a, <2>1, <2>2 DEF Types, SqlTypes
  <2>4. LockType'
    BY <2>1 DEF LockType
  <2> QED
    BY <1>c, <2>1, <2>3, <2>4, StopTypes DEF Types, spoolVars
<1>9. ASSUME NEW p \in Procs, Open(p) PROVE Types'
  <2> DEFINE n == NameOf(page[p])
             empty == [lines |-> {}, stable |-> {}]
  <2>1. /\ pc[p] = "open" /\ tmp' = Put(tmp, n, empty)
        /\ left' = [left EXCEPT ![p] = page[p]] /\ fd' = [fd EXCEPT ![p] = "tmp"]
        /\ pc' = [pc EXCEPT ![p] = "write"]
        /\ UNCHANGED <<sqlVars, closed, durable, phase, page, after, journal, deaths>>
    BY <1>9 DEF Open, Goto
  <2>2. n \in Name /\ page[p] # {}
    BY <1>a, <2>1, NameOfPage DEF Types, ProcTypes, PageTypes, Holding
  <2>3. empty \in FileData
    BY DEF FileData
  <2> HIDE DEF n, empty
  <2>4. /\ DOMAIN tmp' = DOMAIN tmp \cup {n} /\ DOMAIN tmp' \subseteq Name
        /\ \A m \in DOMAIN tmp' : tmp'[m] \in FileData
    <3>1. DOMAIN tmp \subseteq Name /\ \A m \in DOMAIN tmp : tmp[m] \in FileData
      BY <1>a DEF Types, DirTypes
    <3>2. /\ DOMAIN Put(tmp, n, empty) = DOMAIN tmp \cup {n}
          /\ DOMAIN Put(tmp, n, empty) \subseteq Name
          /\ \A m \in DOMAIN Put(tmp, n, empty) : Put(tmp, n, empty)[m] \in FileData
      BY <2>2, <2>3, <3>1, PutFile
    <3> QED
      BY <2>1, <3>2
  <2>5. DirTypes'
    BY <1>a, <2>1, <2>4 DEF Types, DirTypes
  <2>6. LockType' /\ ProcTypes'
    BY <1>a, <2>1 DEF Types, LockType, ProcTypes, sqlVars
  <2>7. PageTypes' /\ OpenTypes'
    BY <1>a, <2>1, <2>2, <2>4 DEF Types, ProcTypes, PageTypes, OpenTypes, Holding, n
  <2> QED
    BY <1>b, <2>1, <2>5, <2>6, <2>7 DEF Types
<1>10. ASSUME NEW p \in Procs, WriteLine(p) PROVE Types'
  <2>1. PICK e \in left[p] : /\ left' = [left EXCEPT ![p] = @ \ {e}]
                             /\ SetFile(p, [FileOf(p) EXCEPT !.lines = @ \cup {e}])
    BY <1>10 DEF WriteLine
  <2>2. pc[p] = "write"
        /\ UNCHANGED <<sqlVars, durable, pc, phase, page, after, fd, journal, deaths>>
    BY <1>10 DEF WriteLine
  <2>3. e \in Event
    BY <1>a, <2>1 DEF Types, ProcTypes
  <2>4. FileOf(p) \in FileData
    BY <1>a DEF Types, DirTypes, OpenTypes, FileOf, FileData
  <2>5. [FileOf(p) EXCEPT !.lines = @ \cup {e}] \in FileData
    BY <2>3, <2>4 DEF FileData
  <2>6. DOMAIN tmp' = DOMAIN tmp /\ DOMAIN closed' = DOMAIN closed /\ DirTypes'
    BY <2>1, <2>2, <2>5, SetFileTypes
  <2>7. LockType' /\ ProcTypes'
    BY <1>a, <2>1, <2>2 DEF Types, LockType, ProcTypes, sqlVars
  <2>8. PageTypes' /\ OpenTypes'
    BY <1>a, <2>1, <2>2, <2>6 DEF Types, ProcTypes, PageTypes, OpenTypes, Holding
  <2> QED
    BY <1>b, <2>2, <2>6, <2>7, <2>8 DEF Types
<1>11. ASSUME NEW p \in Procs, Sync(p) PROVE Types'
  <2>1. /\ pc[p] = "write" /\ left[p] = {}
        /\ SetFile(p, [FileOf(p) EXCEPT !.stable = FileOf(p).lines])
        /\ fd' = [fd EXCEPT ![p] = "none"] /\ pc' = [pc EXCEPT ![p] = "rename"]
        /\ UNCHANGED <<sqlVars, durable, phase, page, left, after, journal, deaths>>
    BY <1>11 DEF Sync, Goto
  <2>2. FileOf(p) \in FileData
    BY <1>a DEF Types, DirTypes, OpenTypes, FileOf, FileData
  <2>3. [FileOf(p) EXCEPT !.stable = FileOf(p).lines] \in FileData
    BY <2>2 DEF FileData
  <2>4. DOMAIN tmp' = DOMAIN tmp /\ DOMAIN closed' = DOMAIN closed /\ DirTypes'
    BY <2>1, <2>3, SetFileTypes
  <2>5. LockType' /\ ProcTypes'
    BY <1>a, <2>1 DEF Types, LockType, ProcTypes, sqlVars
  <2>6. PageTypes' /\ OpenTypes'
    BY <1>a, <2>1, <2>4 DEF Types, ProcTypes, PageTypes, OpenTypes, Holding
  <2> QED
    BY <1>b, <2>1, <2>4, <2>5, <2>6 DEF Types
<1>12. ASSUME NEW p \in Procs, Rename(p) PROVE Types'
  <2> DEFINE n == NameOf(page[p])
             Moved(q) == fd[q] # "none" /\ NameOf(page[q]) = n
  <2>1. /\ pc[p] = "rename" /\ n \in DOMAIN tmp
        /\ closed' = Put(closed, n, tmp[n]) /\ tmp' = Drop(tmp, n)
        /\ fd' = [q \in Procs |-> IF ~Moved(q) THEN fd[q]
                                  ELSE IF fd[q] = "tmp" THEN "closed" ELSE "gone"]
        /\ journal' = journal \cup page[p] /\ pc' = [pc EXCEPT ![p] = "syncdir"]
        /\ UNCHANGED <<sqlVars, durable, phase, page, left, after, deaths>>
    BY <1>12 DEF Rename, Goto
  <2>2. n \in Name /\ tmp[n] \in FileData
    BY <1>a, <2>1 DEF Types, DirTypes
  <2>3. /\ \A q \in Procs : ~Moved(q) => fd'[q] = fd[q]
        /\ \A q \in Procs : Moved(q) => fd'[q] \in {"closed", "gone"} /\ fd[q] # "none"
        /\ \A q \in Procs : fd[q] = "tmp" /\ ~Moved(q) => NameOf(page[q]) # n
        /\ \A q \in Procs : fd'[q] = "closed" /\ Moved(q) => NameOf(page[q]) = n
        /\ fd' \in [Procs -> {"none", "tmp", "closed", "gone"}]
    BY <1>a, <2>1 DEF Types, ProcTypes
  <2> HIDE DEF n, Moved
  <2>4. /\ DOMAIN closed' = DOMAIN closed \cup {n} /\ DOMAIN closed' \subseteq Name
        /\ \A m \in DOMAIN closed' : closed'[m] \in FileData
    BY <1>a, <2>1, <2>2, PutFile DEF Types, DirTypes
  <2>5. DOMAIN tmp' = DOMAIN tmp \ {n} /\ \A m \in DOMAIN tmp' : tmp'[m] = tmp[m]
    BY <2>1 DEF Drop
  <2>6. DirTypes'
    BY <1>a, <2>1, <2>4, <2>5 DEF Types, DirTypes
  <2>7. OpenTypes'
    BY <1>a, <2>1, <2>3, <2>4, <2>5 DEF Types, OpenTypes
  <2>8. LockType' /\ ProcTypes'
    BY <1>a, <2>1, <2>3 DEF Types, LockType, ProcTypes, sqlVars
  <2>9. PageTypes'
    <3>1. left[p] = {} /\ fd[p] = "none" /\ page[p] # {}
      BY <1>a, <2>1 DEF Types, ProcTypes, PageTypes, Holding
    <3>2. ~Moved(p)
      BY <3>1 DEF Moved
    <3> QED
      BY <1>a, <2>1, <2>3, <3>1, <3>2 DEF Types, ProcTypes, PageTypes, Holding
  <2>10. SqlTypes'
    BY <1>a, <2>1 DEF Types, SqlTypes, ProcTypes, sqlVars
  <2> QED
    BY <2>6, <2>7, <2>8, <2>9, <2>10 DEF Types
<1>13. ASSUME NEW p \in Procs, SyncDir(p) PROVE Types'
  <2>1. /\ pc[p] = "syncdir" /\ durable' = DOMAIN closed
        /\ pc' = [pc EXCEPT ![p] = IF phase[p] = "emit" THEN "emit" ELSE "delete"]
        /\ UNCHANGED <<sqlVars, tmp, closed, phase, page, left, after, fd, journal, deaths>>
    BY <1>13 DEF SyncDir, Goto
  <2>2. DirTypes' /\ OpenTypes'
    BY <1>a, <2>1 DEF Types, DirTypes, OpenTypes
  <2>3. LockType' /\ ProcTypes'
    BY <1>a, <2>1 DEF Types, LockType, ProcTypes, sqlVars
  <2>4. PageTypes'
    BY <1>a, <2>1 DEF Types, ProcTypes, PageTypes, Holding
  <2> QED
    BY <1>b, <2>1, <2>2, <2>3, <2>4 DEF Types
<1>14. ASSUME NEW p \in Procs, Delete(p) PROVE Types'
  <2> DEFINE hi == NameOf(page[p]).hi
             b == [Box(p) EXCEPT !.rows = {e \in @ : e.seq > hi}]
  <2>1. /\ pc[p] = "delete" /\ SetBox(p, b)
        /\ UNCHANGED <<table, capturing, missed, lock, spoolVars, journal, deaths>>
    BY <1>14 DEF Delete
  <2>2. hi \in Int
    BY <1>a, <2>1, NameOfPage DEF Types, ProcTypes, PageTypes, Holding, Name
  <2>3. Box(p) \in Outbox /\ IsFiniteSet(Box(p).rows)
    BY BoxTypes
  <2>4. b \in Outbox /\ b.rows \in SUBSET Box(p).rows
    BY <2>3 DEF Outbox
  <2>5. IsFiniteSet(b.rows)
    BY <2>3, <2>4, FS_Subset
  <2> HIDE DEF b
  <2>6. box' \in {box, b} /\ tx' = b
    BY <2>1 DEF SetBox
  <2>7. SqlTypes'
    BY <1>a, <2>1, <2>4, <2>5, <2>6 DEF Types, SqlTypes
  <2>8. CASE EndDrain(p)
    <3>1. LockType' /\ ProcTypes' /\ PageTypes' /\ OpenTypes'
      BY <2>1, <2>8, EndDrainTypes DEF spoolVars
    <3> QED
      BY <1>c, <2>1, <2>7, <3>1 DEF Types
  <2>9. CASE /\ after' = [after EXCEPT ![p] = hi] /\ pc' = [pc EXCEPT ![p] = "fetch"]
             /\ UNCHANGED <<phase, page, left, fd>>
    <3>1. LockType' /\ ProcTypes' /\ PageTypes'
      BY <1>a, <2>1, <2>2, <2>9 DEF Types, LockType, ProcTypes, PageTypes, Holding
    <3> QED
      BY <1>c, <1>d, <2>1, <2>7, <2>9, <3>1 DEF Types
  <2> QED
    BY <1>14, <2>8, <2>9 DEF Delete, Goto
<1>15. ASSUME NEW p \in Procs, Abandon(p), deaths' \in Nat PROVE Types'
  <2>1. /\ Stop(p) /\ (lock' = "none" \/ (lock' = lock /\ lock # p)) /\ tx' \in {tx, box}
        /\ UNCHANGED <<table, capturing, missed, box, spoolVars, journal>>
    BY <1>15 DEF Abandon, Rollback
  <2>2. SqlTypes'
    BY <1>a, <1>15, <2>1 DEF Types, SqlTypes
  <2>3. LockType'
    BY <1>a, <2>1, StopTypes DEF Types, LockType
  <2> QED
    BY <1>c, <2>1, <2>2, <2>3, StopTypes DEF Types, spoolVars
<1>16. ASSUME NEW p \in Procs, RenameFails(p) \/ Die(p) PROVE Types'
  <2>1. Abandon(p) /\ deaths' \in Nat
    BY <1>a, <1>16 DEF RenameFails, Die, CountDeath, Types, SqlTypes
  <2> QED
    BY <1>15, <2>1
<1>17. ASSUME PowerLoss PROVE Types'
  <2>1. PICK kept \in SUBSET (DOMAIN closed \ durable) :
          /\ closed' = [n \in durable \cup kept |->
                          [closed[n] EXCEPT !.lines = closed[n].stable]]
          /\ durable' = durable \cup kept
    BY <1>17 DEF PowerLoss
  <2>2. /\ tmp' = [n \in {} |-> {}] /\ lock' = "none" /\ tx' = box /\ deaths' = deaths + 1
        /\ pc' = [p \in Procs |-> "idle"] /\ phase' = [p \in Procs |-> "drain"]
        /\ page' = [p \in Procs |-> {}] /\ left' = [p \in Procs |-> {}]
        /\ after' = [p \in Procs |-> 0] /\ fd' = [p \in Procs |-> "none"]
        /\ UNCHANGED <<table, capturing, missed, box, journal>>
    BY <1>17 DEF PowerLoss, CountDeath
  <2>3. DirTypes'
    <3>1. \A n \in durable \cup kept : n \in DOMAIN closed /\ closed[n] \in FileData
      BY <1>a, <2>1 DEF Types, DirTypes
    <3>2. \A n \in durable \cup kept : [closed[n] EXCEPT !.lines = closed[n].stable] \in FileData
      BY <3>1 DEF FileData
    <3>3. DOMAIN tmp' = {}
      BY <2>2
    <3> QED
      BY <1>a, <2>1, <3>1, <3>2, <3>3 DEF Types, DirTypes
  <2>4. SqlTypes' /\ LockType'
    BY <1>a, <2>2 DEF Types, SqlTypes, LockType
  <2>5. ProcTypes'
    BY <2>2 DEF ProcTypes
  <2>6. PageTypes' /\ OpenTypes'
    BY <2>2, FS_EmptySet DEF PageTypes, OpenTypes, Holding
  <2> QED
    BY <2>3, <2>4, <2>5, <2>6 DEF Types
<1>18. CASE UNCHANGED vars
  BY <1>b, <1>c, <1>d, <1>e, <1>f, <1>18 DEF vars, sqlVars, procVars, Types
<1> QED
  BY <1>1, <1>2, <1>3, <1>4, <1>5, <1>6, <1>7, <1>8, <1>9, <1>10, <1>11, <1>12, <1>13, <1>14,
     <1>16, <1>17, <1>18 DEF Next, Utility, Step

(* The collectors' variables keep their types, however the processes overlap *)
(* and die: a page in hand is never empty, so that its file has a name, and  *)
(* a descriptor refers to a file that is there or is known to be gone.       *)
THEOREM TypeCorrect == Spec => []TypeOK
<1>1. TypeInv => TypeOK
  BY DEF TypeInv
<1> QED
  BY <1>1, TypeInvInit, TypeInvStep, PTL DEF Spec
-----------------------------------------------------------------------------
(* sqlite and its write lock, however the collectors overlap. *)

(* A process changes its own run only; others find their file renamed. *)
LEMMA OthersStay ==
  ASSUME TypeInv, NEW p \in Procs,
         \/ StartDrain(p) \/ Step(p) \/ Die(p)
         \/ \E min \in MinSeqs, allowLarge \in BOOLEAN : StartSnapshot(p, min, allowLarge)
  PROVE  \A q \in Procs : q # p => /\ pc'[q] = pc[q] /\ phase'[q] = phase[q]
                                   /\ page'[q] = page[q] /\ left'[q] = left[q]
                                   /\ after'[q] = after[q]
<1>a. /\ pc \in [Procs -> {"idle", "fetch", "open", "write", "rename", "syncdir",
                           "delete", "emit", "commit"}]
      /\ phase \in [Procs -> {"drain", "emit"}]
      /\ page \in [Procs -> SUBSET Event] /\ left \in [Procs -> SUBSET Event]
      /\ after \in [Procs -> Int]
  BY TypeParts DEF Types, ProcTypes
<1>1. /\ pc' = pc \/ \E x : pc' = [pc EXCEPT ![p] = x]
      /\ phase' = phase \/ \E x : phase' = [phase EXCEPT ![p] = x]
      /\ page' = page \/ \E x : page' = [page EXCEPT ![p] = x]
      /\ left' = left \/ \E x : left' = [left EXCEPT ![p] = x]
      /\ after' = after \/ \E x : after' = [after EXCEPT ![p] = x]
  <2>1. CASE Stop(p)
    BY <2>1 DEF Stop, Goto
  <2>2. CASE EndDrain(p)
    BY <2>1, <2>2 DEF EndDrain, Goto
  <2>3. CASE \/ StartDrain(p) \/ Fetch(p) \/ Emit(p) \/ Open(p) \/ Sync(p) \/ Rename(p)
             \/ SyncDir(p) \/ Delete(p)
             \/ \E min \in MinSeqs, allowLarge \in BOOLEAN : StartSnapshot(p, min, allowLarge)
    BY <2>2, <2>3
       DEF StartDrain, StartSnapshot, Fetch, Emit, Open, Sync, Rename, SyncDir, Delete, Goto
  <2>4. CASE WriteLine(p)
    <3>1. PICK e \in left[p] : left' = [left EXCEPT ![p] = @ \ {e}]
      BY <2>4 DEF WriteLine
    <3>2. \E x : left' = [left EXCEPT ![p] = x]
      BY <3>1
    <3> QED
      BY <2>4, <3>2 DEF WriteLine
  <2> QED
    BY <2>1, <2>3, <2>4 DEF Step, CommitSnapshot, RenameFails, Die, Abandon
<1> QED
  BY <1>a, <1>1

(* An empty database has no page of another. *)
LEMMA LockInvInit == Init => LockInv
<1> SUFFICES ASSUME Init PROVE LockInv
  OBVIOUS
<1> USE DEF Init
<1>1. SeqOnTop /\ TxOfBox
  BY DEF SeqOnTop, TxOfBox
<1>2. LockFits
  BY CollectConstants DEF LockFits, PhaseFits, PageLow, Drains, Holding
<1> QED
  BY <1>1, <1>2 DEF LockInv

(* A step of p leaves the others' locks and pages as they are, and takes     *)
(* nothing but rows away from them.                                          *)
LEMMA OneLocks ==
  ASSUME TypeInv, LockInv, NEW p \in Procs,
         \A q \in Procs : q # p => /\ pc'[q] = pc[q] /\ phase'[q] = phase[q]
                                  /\ page'[q] = page[q] /\ after'[q] = after[q]
                                  /\ (lock = q => (lock' = q /\ UNCHANGED tx))
                                  /\ (lock' = q => lock = q),
         box'.rows \subseteq box.rows, box.seq <= box'.seq, box'.seq \in Nat,
         PhaseFits(p)', PageLow(p)', lock' = p => TxPage(p)'
  PROVE  LockFits'
<1> SUFFICES ASSUME NEW q \in Procs, q # p
             PROVE  PhaseFits(q)' /\ PageLow(q)' /\ (lock' = q => TxPage(q)')
  BY DEF LockFits
<1>a. /\ box.seq \in Nat /\ after[q] \in Int
      /\ \A e \in page[q] : e.seq \in Nat
  BY TypeParts DEF Types, SqlTypes, ProcTypes, Outbox, Event
<1>1. PhaseFits(q) /\ PageLow(q) /\ (lock = q => TxPage(q))
  BY DEF LockInv, LockFits
<1>2. PhaseFits(q)'
  BY <1>1 DEF PhaseFits
<1>3. Box(q)'.rows \subseteq Box(q).rows
  BY DEF Box
<1>4. PageLow(q)'
  BY <1>a, <1>1, <1>3 DEF PageLow, Drains, Holding
<1>5. lock' = q => TxPage(q)'
  BY <1>1 DEF TxPage, Drains, Holding
<1> QED
  BY <1>2, <1>4, <1>5

(* A drain that ends under the lock has emptied the outbox. *)
LEMMA EndDrainLock ==
  ASSUME TypeInv, LockInv, NEW p \in Procs, pc[p] # "idle", EndDrain(p), UNCHANGED lock,
         lock \in {"none", p} \/ UNCHANGED tx, lock = p => tx'.rows = {},
         box'.rows \subseteq box.rows, box.seq <= box'.seq, box'.seq \in Nat,
         \A q \in Procs : q # p => /\ pc'[q] = pc[q] /\ phase'[q] = phase[q]
                                  /\ page'[q] = page[q] /\ after'[q] = after[q]
  PROVE  LockFits'
<1>a. Types
  BY TypeParts
<1>1. CASE lock = p
  <2>1. pc'[p] \in {"emit", "commit"} /\ phase'[p] = "emit"
    BY <1>a, <1>1 DEF Types, ProcTypes, EndDrain, Goto
  <2>2. PhaseFits(p)' /\ PageLow(p)' /\ TxPage(p)'
    BY <1>1, <2>1 DEF PhaseFits, PageLow, TxPage, Drains
  <2> QED
    BY <1>1, <2>2, OneLocks
<1>2. CASE lock # p
  <2>1. pc'[p] = "idle" /\ phase'[p] = "drain" /\ after'[p] = 0
    BY <1>a, <1>2 DEF Types, ProcTypes, EndDrain, Stop, Goto
  <2>2. PhaseFits(p)' /\ PageLow(p)'
    BY <2>1 DEF PhaseFits, PageLow, Drains, Holding
  <2> QED
    BY <1>2, <2>2, CollectConstants, OneLocks
<1> QED
  BY <1>1, <1>2

(* Every step keeps the lock's holder alone with its transaction. *)
LEMMA LockInvStep == TypeInv /\ LockInv /\ [Next]_vars => LockInv'
<1> SUFFICES ASSUME TypeInv, LockInv, [Next]_vars PROVE LockInv'
  OBVIOUS
<1>a. Types
  BY TypeParts
<1>b. /\ box.seq \in Nat /\ \A e \in box.rows : e.seq \in Nat
      /\ tx.seq \in Nat /\ \A e \in tx.rows : e.seq \in Nat
  BY <1>a DEF Types, SqlTypes, Outbox, Event
<1>c. CurrentSeq(box) = box.seq /\ CurrentSeq(tx) = tx.seq
  BY <1>a, CurrentSeqOf DEF Types, SqlTypes, LockInv, SeqOnTop
<1>d. ASSUME UNCHANGED <<box, tx, lock, procVars>> PROVE LockInv'
  BY <1>d DEF LockInv, LockFits, PhaseFits, PageLow, Box, SeqOnTop, TxOfBox, TxPage, Drains,
              Holding,
              procVars
<1>e. "none" \notin Procs
  BY CollectConstants
<1>f. \A p \in Procs : PhaseFits(p) /\ PageLow(p)
                       /\ (lock = p => TxPage(p) /\ pc[p] # "idle")
  BY <1>a, <1>e DEF LockInv, LockFits, Types, LockType
<1>g. SeqOnTop /\ TxOfBox
  BY DEF LockInv
<1>1. ASSUME NEW k \in Keys, NEW op \in Ops, NEW image \in Afters \cup {NoAfter},
             Write(k, op, image)
      PROVE  LockInv'
  <2> DEFINE e == [src |-> Db, seq |-> box.seq + 1, key |-> k, op |-> op, after |-> image]
  <2>1. /\ lock = "none" /\ box' = [rows |-> box.rows \cup {e}, seq |-> box.seq + 1]
        /\ tx' = box' /\ UNCHANGED <<lock, procVars>>
    BY <1>1, <1>c DEF Write
  <2>2. e.seq = box.seq + 1
    OBVIOUS
  <2> HIDE DEF e
  <2>3. box'.rows = box.rows \cup {e} /\ box'.seq = box.seq + 1
    BY <2>1
  <2>4. LockFits'
    <3> SUFFICES ASSUME NEW p \in Procs
                 PROVE  PhaseFits(p)' /\ PageLow(p)' /\ (lock' = p => TxPage(p)')
      BY DEF LockFits
    <3>1. PhaseFits(p)' /\ lock' # p
      BY <1>e, <1>f, <2>1 DEF PhaseFits, procVars
    <3>2. Box(p) = box /\ Box(p)' = box'
      BY <1>e, <2>1 DEF Box
    <3>3. after[p] \in Int /\ \A d \in page[p] : d.seq \in Nat
      BY <1>a DEF Types, ProcTypes, Event
    <3>4. PageLow(p)'
      BY <1>b, <1>f, <2>1, <2>2, <2>3, <3>2, <3>3 DEF PageLow, Drains, Holding, procVars
    <3> QED
      BY <3>1, <3>4
  <2>5. SeqOnTop'
    BY <1>b, <1>g, <2>1, <2>2, <2>3 DEF SeqOnTop
  <2>6. TxOfBox'
    BY <1>b, <2>1, <2>2, <2>3 DEF TxOfBox
  <2> QED
    BY <2>4, <2>5, <2>6 DEF LockInv
<1>2. ASSUME NEW k \in Keys, NEW op \in Ops, NEW image \in Afters \cup {NoAfter},
             MissedWrite(k, op, image)
      PROVE  LockInv'
  BY <1>2, <1>d DEF MissedWrite
<1>3. ASSUME BreakFeed \/ RepairFeed PROVE LockInv'
  BY <1>3, <1>d DEF BreakFeed, RepairFeed
<1>4. ASSUME NEW p \in Procs, StartDrain(p) PROVE LockInv'
  <2>1. /\ pc[p] = "idle" /\ pc'[p] = "fetch" /\ UNCHANGED <<box, tx, lock, phase, page, after>>
        /\ \A q \in Procs : q # p => pc'[q] = pc[q]
    BY <1>a, <1>4 DEF StartDrain, MayStart, Goto, sqlVars, Types, ProcTypes
  <2>2. phase[p] = "drain" /\ lock # p
    BY <1>f, <2>1 DEF PhaseFits
  <2>3. PhaseFits(p)' /\ PageLow(p)'
    <3>1. after[p] = 0 /\ Box(p)' = box
      BY <1>f, <2>1, <2>2 DEF PageLow, Box
    <3>2. 0 <= box.seq /\ \A e \in box.rows : e.seq > 0
      BY <1>b, <1>g DEF SeqOnTop
    <3> QED
      BY <2>1, <2>2, <3>1, <3>2 DEF PhaseFits, PageLow, Drains, Holding
  <2>4. LockFits'
    BY <1>b, <2>1, <2>2, <2>3, OneLocks
  <2> QED
    BY <1>g, <2>1, <2>4 DEF LockInv, SeqOnTop, TxOfBox
<1>5. ASSUME NEW p \in Procs, NEW min \in MinSeqs, NEW allowLarge \in BOOLEAN,
             StartSnapshot(p, min, allowLarge)
      PROVE  LockInv'
  <2>1. /\ pc[p] = "idle" /\ pc'[p] = "fetch" /\ lock = "none" /\ lock' = p
        /\ tx' = IF box.seq >= min THEN box ELSE [box EXCEPT !.seq = min]
        /\ UNCHANGED <<box, phase, page, after>>
        /\ \A q \in Procs : q # p => pc'[q] = pc[q]
    BY <1>5, <1>a, <1>c DEF StartSnapshot, MayStart, Goto, Types, ProcTypes
  <2>2. tx'.rows = box.rows /\ tx'.seq \in Nat /\ box.seq <= tx'.seq
    BY <1>a, <1>b, <2>1, CollectConstants DEF Types, SqlTypes, Outbox
  <2>3. phase[p] = "drain" /\ after[p] = 0
    BY <1>f, <2>1 DEF PhaseFits, PageLow
  <2>4. SeqOnTop'
    BY <1>b, <1>g, <2>1, <2>2 DEF SeqOnTop
  <2>5. TxOfBox'
    BY <1>e, <2>1, <2>2 DEF TxOfBox
  <2>6. PhaseFits(p)' /\ TxPage(p)'
    BY <2>1, <2>3 DEF PhaseFits, TxPage, Drains, Holding
  <2>7. PageLow(p)'
    <3>1. 0 <= box.seq /\ \A e \in tx'.rows : e.seq > 0
      BY <1>b, <1>g, <2>2 DEF SeqOnTop
    <3>2. Box(p)' = tx'
      BY <2>1 DEF Box
    <3> QED
      BY <2>1, <2>3, <3>1, <3>2 DEF PageLow, Drains, Holding
  <2>8. LockFits'
    BY <1>b, <1>e, <2>1, <2>6, <2>7, OneLocks
  <2> QED
    BY <2>4, <2>5, <2>8 DEF LockInv
<1>6. ASSUME NEW p \in Procs, Fetch(p) PROVE LockInv'
  <2> DEFINE R == Box(p).rows
             next == NextPage(R, after[p])
  <2>1. pc[p] = "fetch" /\ UNCHANGED <<box, tx, lock>>
    BY <1>6 DEF Fetch, sqlVars
  <2>2. \A q \in Procs : q # p => /\ pc'[q] = pc[q] /\ phase'[q] = phase[q]
                                /\ page'[q] = page[q] /\ after'[q] = after[q]
    BY <1>6, OthersStay DEF Step
  <2>3. /\ next \subseteq R /\ \A e \in next : \A d \in R : d.seq <= e.seq => d \in next
        /\ Cardinality(next) < Batch => next = R
        /\ next = {} => R = {}
    <3>1. R \in SUBSET Event /\ IsFiniteSet(R) /\ after[p] \in Int
      BY <1>a, BoxTypes DEF Types, ProcTypes
    <3>2. {e \in R : e.seq > after[p]} = R
      BY <1>f, <2>1 DEF PageLow
    <3> HIDE DEF R
    <3> QED
      BY <3>1, <3>2, PageOf
  <2>4. /\ Box(p)'.rows = R /\ (lock = p => R = tx.rows)
        /\ \A e \in R : e.seq <= box.seq
    <3>1. R \subseteq box.rows /\ Box(p)' = Box(p) /\ (lock = p => R = tx.rows)
      BY <1>g, <2>1 DEF Box, TxOfBox
    <3> QED
      BY <1>g, <3>1 DEF SeqOnTop
  <2> HIDE DEF next, R
  <2>5. CASE next = {} /\ EndDrain(p)
    <3>1. lock = p => tx'.rows = {}
      BY <2>1, <2>3, <2>4, <2>5
    <3>2. LockFits'
      BY <1>b, <2>1, <2>2, <2>5, <3>1, EndDrainLock
    <3> QED
      BY <1>g, <2>1, <3>2 DEF LockInv, SeqOnTop, TxOfBox
  <2>6. CASE /\ pc' = [pc EXCEPT ![p] = "open"] /\ page' = [page EXCEPT ![p] = next]
             /\ UNCHANGED <<phase, left, after, fd>>
    <3>1. pc'[p] = "open" /\ page'[p] = next /\ phase'[p] = "drain"
      BY <1>a, <1>f, <2>1, <2>6 DEF Types, ProcTypes, PhaseFits
    <3>2. PhaseFits(p)'
      BY <3>1 DEF PhaseFits
    <3>3. PageLow(p)'
      BY <2>1, <2>3, <2>4, <3>1 DEF PageLow
    <3>4. lock' = p => TxPage(p)'
      BY <2>1, <2>3, <2>4, <3>1 DEF TxPage
    <3>5. LockFits'
      BY <1>b, <2>1, <2>2, <3>2, <3>3, <3>4, OneLocks
    <3> QED
      BY <1>g, <2>1, <3>5 DEF LockInv, SeqOnTop, TxOfBox
  <2> QED
    BY <1>6, <2>5, <2>6 DEF Fetch, Goto, next, R
<1>7. ASSUME NEW p \in Procs, Emit(p) PROVE LockInv'
  <2> DEFINE rows == Lowest({k \in Present : k > after[p]}, Batch)
  <2>1. pc[p] = "emit" /\ UNCHANGED <<box, lock, phase>>
    BY <1>7 DEF Emit
  <2>2. phase[p] = "emit" /\ lock = p /\ tx.rows = {}
    BY <1>f, <2>1 DEF PhaseFits, TxPage
  <2>3. tx'.rows = {} /\ tx'.seq \in Nat /\ tx.seq <= tx'.seq
    <3>1. CASE tx' = tx
      BY <1>b, <2>2, <3>1
    <3>2. CASE rows # {} /\ tx' = [tx EXCEPT !.seq = tx.seq + Cardinality(rows)]
      <4>1. rows \in SUBSET Present /\ TypeOK
        BY DEF Lowest, TypeInv
      <4>2. Cardinality(rows) \in Nat
        <5> HIDE DEF rows
        <5> QED
          BY <1>b, <3>2, <4>1, ReemittedPage
      <4> HIDE DEF rows
      <4> QED
        BY <1>a, <1>b, <2>2, <3>2, <4>2 DEF Types, SqlTypes, Outbox
    <3> QED
      BY <1>7, <1>c, <3>1, <3>2 DEF Emit
  <2>4. pc'[p] \in {"commit", "open"}
    BY <1>7, <1>a DEF Emit, Goto, Types, ProcTypes
  <2>5. \A q \in Procs : q # p => /\ pc'[q] = pc[q] /\ phase'[q] = phase[q]
                                /\ page'[q] = page[q] /\ after'[q] = after[q]
    BY <1>7, OthersStay DEF Step
  <2>6. PhaseFits(p)' /\ PageLow(p)' /\ TxPage(p)'
    BY <2>1, <2>2, <2>3, <2>4 DEF PhaseFits, PageLow, TxPage, Drains
  <2>7. LockFits'
    BY <1>b, <2>1, <2>2, <2>5, <2>6, OneLocks
  <2>8. SeqOnTop'
    BY <1>g, <2>1, <2>3 DEF SeqOnTop
  <2>9. TxOfBox'
    BY <1>b, <1>e, <1>g, <2>1, <2>2, <2>3 DEF TxOfBox
  <2> QED
    BY <2>7, <2>8, <2>9 DEF LockInv
<1>8. ASSUME NEW p \in Procs, CommitSnapshot(p) PROVE LockInv'
  <2>1. pc[p] = "commit" /\ Stop(p) /\ box' = tx /\ tx' = tx /\ lock' = "none"
    BY <1>8 DEF CommitSnapshot
  <2>2. lock = p /\ tx.rows = {}
    BY <1>f, <2>1 DEF PhaseFits, TxPage
  <2>3. pc'[p] = "idle" /\ phase'[p] = "drain" /\ after'[p] = 0
    BY <1>a, <2>1 DEF Stop, Goto, Types, ProcTypes
  <2>4. PhaseFits(p)' /\ PageLow(p)'
    BY <2>3 DEF PhaseFits, PageLow, Drains, Holding
  <2>5. \A q \in Procs : q # p => /\ pc'[q] = pc[q] /\ phase'[q] = phase[q]
                                /\ page'[q] = page[q] /\ after'[q] = after[q]
    BY <1>8, OthersStay DEF Step
  <2>6. LockFits'
    BY <1>b, <1>e, <1>g, <2>1, <2>2, <2>4, <2>5, OneLocks DEF TxOfBox
  <2>7. SeqOnTop' /\ TxOfBox'
    BY <1>b, <2>1, <2>2 DEF SeqOnTop, TxOfBox
  <2> QED
    BY <2>6, <2>7 DEF LockInv
<1>9. ASSUME NEW p \in Procs, Open(p) \/ WriteLine(p) \/ Sync(p) \/ Rename(p) \/ SyncDir(p)
      PROVE  LockInv'
  <2>1. Holding(p) /\ pc[p] # "delete" /\ UNCHANGED <<box, tx, lock, phase, page, after>>
    BY <1>9 DEF Open, WriteLine, Sync, Rename, SyncDir, Holding, sqlVars
  <2>2. pc'[p] \in {"write", "rename", "syncdir"}
        \/ pc'[p] = IF phase[p] = "emit" THEN "emit" ELSE "delete"
    BY <1>9, <1>a DEF Open, WriteLine, Sync, Rename, SyncDir, Goto, Types, ProcTypes
  <2>3. \A q \in Procs : q # p => pc'[q] = pc[q]
    BY <1>9, OthersStay DEF Step
  <2>4. phase[p] \in {"drain", "emit"} /\ pc'[p] # "idle"
    BY <1>a, <2>2 DEF Types, ProcTypes
  <2>5. PhaseFits(p)'
    BY <1>f, <2>1, <2>2, <2>4 DEF PhaseFits
  <2>6. PageLow(p)' /\ (lock' = p => TxPage(p)')
    <3>1. (Drains(p)' => Drains(p)) /\ Box(p)' = Box(p) /\ pc'[p] # "fetch"
      BY <2>1, <2>2 DEF Drains, Box
    <3> QED
      BY <1>f, <2>1, <2>2, <2>4, <3>1 DEF PageLow, TxPage
  <2>7. LockFits'
    BY <1>b, <2>1, <2>3, <2>5, <2>6, OneLocks
  <2> QED
    BY <1>g, <2>1, <2>7 DEF LockInv, SeqOnTop, TxOfBox
<1>10. ASSUME NEW p \in Procs, Delete(p) PROVE LockInv'
  <2> DEFINE hi == NameOf(page[p]).hi
             b == [Box(p) EXCEPT !.rows = {e \in @ : e.seq > hi}]
  <2>1. /\ pc[p] = "delete" /\ SetBox(p, b) /\ lock \in {"none", p} /\ UNCHANGED lock
    BY <1>10 DEF Delete
  <2>2. phase[p] = "drain" /\ Drains(p)
    BY <1>f, <2>1 DEF PhaseFits, Drains, Holding
  <2>3. PICK top \in page[p] : hi = top.seq /\ \A e \in page[p] : e.seq <= hi
    BY <1>a, <2>1, NameOfPage DEF Types, ProcTypes, PageTypes, Holding
  <2>4. b.rows = {e \in Box(p).rows : e.seq > hi} /\ b.seq = Box(p).seq
    BY BoxTypes DEF Outbox
  <2>5. hi \in Nat
    BY <1>a, <2>3 DEF Types, ProcTypes, Event
  <2> HIDE DEF b, hi
  <2>6. /\ tx' = b
        /\ lock = "none" => box' = b /\ Box(p) = box
        /\ lock = p => UNCHANGED box /\ Box(p) = tx
    BY <1>e, <2>1 DEF SetBox, Box
  <2>7. SeqOnTop'
    BY <1>g, <2>1, <2>4, <2>6 DEF SeqOnTop
  <2>8. TxOfBox'
    <3>1. CASE lock = "none"
      <4>1. tx' = b /\ box' = b /\ lock' = "none" /\ b.seq \in Nat
        BY <1>b, <2>1, <2>4, <2>6, <3>1
      <4> QED
        BY <4>1 DEF TxOfBox
    <3>2. CASE lock = p
      <4>1. /\ tx'.seq = tx.seq /\ UNCHANGED box /\ lock' # "none"
            /\ tx'.rows = {e \in tx.rows : e.seq > hi}
        BY <1>e, <2>1, <2>4, <2>6, <3>2
      <4>2. ASSUME NEW d \in tx'.rows, NEW e \in box.rows, d.seq <= e.seq
            PROVE  e \in tx'.rows
        <5>1. d \in tx.rows /\ d.seq > hi /\ d.seq \in Nat /\ e.seq \in Nat
          BY <1>b, <4>1
        <5>2. e \in tx.rows
          BY <1>g, <4>2, <5>1 DEF TxOfBox
        <5> QED
          BY <2>5, <4>1, <4>2, <5>1, <5>2
      <4> QED
        BY <1>g, <4>1, <4>2 DEF TxOfBox
    <3> QED
      BY <2>1, <3>1, <3>2
  <2>9. \A q \in Procs : q # p => /\ pc'[q] = pc[q] /\ phase'[q] = phase[q]
                                /\ page'[q] = page[q] /\ after'[q] = after[q]
                                /\ lock # q
    BY <1>10, <1>e, <2>1, OthersStay DEF Step
  <2>a. box'.rows \subseteq box.rows /\ box'.seq = box.seq
    BY <1>e, <2>1, <2>4, <2>6
  <2>10. CASE EndDrain(p) /\ Cardinality(page[p]) < Batch
    <3>1. lock = p => tx'.rows = {}
      <4>1. lock = p => tx.rows \subseteq page[p]
        BY <1>f, <2>2, <2>10 DEF TxPage
      <4>2. lock = p => \A e \in page[p] : e \in tx.rows => ~(e.seq > hi)
        BY <1>b, <2>3, <2>5
      <4> QED
        BY <2>4, <2>6, <4>1, <4>2
    <3>2. LockFits'
      BY <1>b, <2>1, <2>9, <2>10, <2>a, <3>1, EndDrainLock
    <3> QED
      BY <2>7, <2>8, <3>2 DEF LockInv
  <2>11. CASE /\ after' = [after EXCEPT ![p] = hi] /\ pc' = [pc EXCEPT ![p] = "fetch"]
              /\ UNCHANGED <<phase, page, left, fd>>
    <3>1. pc'[p] = "fetch" /\ after'[p] = hi
      BY <1>a, <2>11 DEF Types, ProcTypes
    <3>2. PhaseFits(p)'
      BY <2>2, <2>11, <3>1 DEF PhaseFits
    <3>3. TxPage(p)'
      BY <2>2, <2>11, <3>1 DEF TxPage, Drains, Holding
    <3>4. PageLow(p)'
      <4>1. \A e \in Box(p)'.rows : e.seq > hi
        BY <1>e, <2>1, <2>4, <2>6 DEF Box
      <4>2. hi <= box.seq
        BY <1>f, <2>2, <2>3 DEF PageLow
      <4> QED
        BY <2>a, <3>1, <4>1, <4>2 DEF PageLow, Drains, Holding
    <3>5. LockFits'
      BY <1>b, <2>1, <2>9, <2>a, <3>2, <3>3, <3>4, OneLocks
    <3> QED
      BY <2>7, <2>8, <3>5 DEF LockInv
  <2> QED
    BY <1>10, <2>10, <2>11 DEF Delete, Goto, hi
<1>11. ASSUME NEW p \in Procs, RenameFails(p) \/ Die(p) PROVE LockInv'
  <2>1. Stop(p) /\ Rollback(p) /\ UNCHANGED box
    BY <1>11 DEF RenameFails, Die, Abandon
  <2>2. pc'[p] = "idle" /\ phase'[p] = "drain" /\ after'[p] = 0
    BY <1>a, <2>1 DEF Stop, Goto, Types, ProcTypes
  <2>3. PhaseFits(p)' /\ PageLow(p)'
    BY <2>2 DEF PhaseFits, PageLow, Drains, Holding
  <2>4. \A q \in Procs : q # p => /\ pc'[q] = pc[q] /\ phase'[q] = phase[q]
                                /\ page'[q] = page[q] /\ after'[q] = after[q]
    BY <1>11, OthersStay DEF Step
  <2>5. LockFits'
    BY <1>b, <1>e, <2>1, <2>3, <2>4, OneLocks DEF Rollback
  <2>6. SeqOnTop' /\ TxOfBox'
    BY <1>b, <1>g, <2>1 DEF Rollback, SeqOnTop, TxOfBox
  <2> QED
    BY <2>5, <2>6 DEF LockInv
<1>12. CASE PowerLoss
  <2>1. /\ pc' = [q \in Procs |-> "idle"] /\ phase' = [q \in Procs |-> "drain"]
        /\ after' = [q \in Procs |-> 0] /\ tx' = box /\ box' = box /\ lock' = "none"
    BY <1>12 DEF PowerLoss
  <2>2. LockFits'
    BY <1>e, <2>1 DEF LockFits, PhaseFits, PageLow, Drains, Holding
  <2>3. SeqOnTop' /\ TxOfBox'
    BY <1>b, <1>g, <2>1 DEF SeqOnTop, TxOfBox
  <2> QED
    BY <2>2, <2>3 DEF LockInv
<1>13. CASE UNCHANGED vars
  BY <1>13, <1>d DEF vars, sqlVars
<1> QED
  BY <1>1, <1>2, <1>3, <1>4, <1>5, <1>6, <1>7, <1>8, <1>9, <1>10, <1>11, <1>12, <1>13
     DEF Next, Utility, Step
-----------------------------------------------------------------------------
(***************************************************************************)
(* The journal: a seq is given out once, the outbox is the journal's tail,   *)
(* and a page in hand is all the journal has under its name.  A snapshot     *)
(* that has published does not end early (NoneFailsLate); collectors may     *)
(* overlap.                                                                  *)
(***************************************************************************)

(* A snapshot that has published goes on to its commit. *)
NoneFailsLate == ~EmitMayFail \/ MaxDeaths = 0

(* What a file of this name should have. *)
Span(n) == {e \in journal : n.lo <= e.seq /\ e.seq <= n.hi}

(* Every event's seq was taken, once; a snapshot alone takes seqs the outbox *)
(* does not know of.                                                         *)
SeqsTaken == \A e \in journal : e.seq <= tx.seq
NoneAhead ==
  (\A p \in Procs : phase[p] = "drain") => \A e \in journal : e.seq <= box.seq

(* What the journal has behind a row of the outbox is in the outbox, up to   *)
(* what a running snapshot has reserved.                                     *)
BoxIsTail ==
  /\ box.rows \subseteq journal
  /\ \A d \in box.rows : \A e \in journal :
       d.seq <= e.seq /\ e.seq <= box.seq => e \in box.rows

PagesWhole == \A p \in Procs : Drains(p) => page[p] = Span(NameOf(page[p]))

(* A snapshot's page gets seqs nobody has, each row its own. *)
EmitsNew ==
  \A p \in Procs : Emits(p) =>
    /\ \A d, e \in page[p] : d.seq = e.seq => d = e
    /\ \A e \in page[p] : e.seq <= tx.seq
    /\ pc[p] \in {"open", "write", "rename"} =>
         \A e \in page[p] : box.seq < e.seq /\ \A d \in journal : d.seq < e.seq

(* So no drain takes the tmp file of a snapshot. *)
EmitsToTmp ==
  \A p \in Procs : phase[p] = "emit" =>
    /\ pc[p] = "write" => fd[p] = "tmp"
    /\ pc[p] = "rename" => NameOf(page[p]) \in DOMAIN tmp

JournalInv ==
  /\ SeqUnique /\ SeqsTaken /\ NoneAhead /\ BoxIsTail /\ PagesWhole
  /\ EmitsNew /\ EmitsToTmp
-----------------------------------------------------------------------------
(* An empty journal. *)
LEMMA JournalInvInit == Init => JournalInv
BY DEF Init, JournalInv, SeqUnique, SeqsTaken, NoneAhead, BoxIsTail, PagesWhole, EmitsNew,
       EmitsToTmp, Drains, Emits, Holding

(* A page in hand came in hand with this step, or was there before. *)
LEMMA PageStays ==
  ASSUME TypeInv, [Next]_vars, NEW q \in Procs, Holding(q)'
  PROVE  \/ /\ Holding(q) /\ page'[q] = page[q] /\ phase'[q] = phase[q]
            /\ pc'[q] \in {"open", "write", "rename"} => pc[q] \in {"open", "write", "rename"}
         \/ Fetch(q) \/ Emit(q)
<1>a. Types
  BY TypeParts
<1>1. CASE UNCHANGED procVars
  BY <1>1 DEF Holding, procVars
<1>2. ASSUME NEW p \in Procs, p # q,
             \/ StartDrain(p) \/ Step(p) \/ Die(p)
             \/ \E min \in MinSeqs, allowLarge \in BOOLEAN : StartSnapshot(p, min, allowLarge)
      PROVE  Holding(q) /\ page'[q] = page[q] /\ phase'[q] = phase[q] /\ pc'[q] = pc[q]
  <2>1. pc'[q] = pc[q] /\ page'[q] = page[q] /\ phase'[q] = phase[q]
    BY <1>2, OthersStay
  <2> QED
    BY <2>1 DEF Holding
<1>3. CASE Open(q) \/ WriteLine(q) \/ Sync(q) \/ Rename(q) \/ SyncDir(q)
  <2>1. Holding(q) /\ UNCHANGED <<page, phase>>
    BY <1>3 DEF Open, WriteLine, Sync, Rename, SyncDir, Holding
  <2>2. pc[q] \in {"open", "write", "rename"}
        \/ (pc[q] = "syncdir" /\ pc'[q] \in {"emit", "delete"})
    BY <1>a, <1>3 DEF Open, WriteLine, Sync, Rename, SyncDir, Goto, Types, ProcTypes
  <2> QED
    BY <2>1, <2>2
<1>4. CASE \/ StartDrain(q) \/ CommitSnapshot(q) \/ Delete(q) \/ RenameFails(q) \/ Die(q)
           \/ \E min \in MinSeqs, allowLarge \in BOOLEAN : StartSnapshot(q, min, allowLarge)
  <2>1. \E label \in {"idle", "fetch", "emit", "commit"} : pc' = [pc EXCEPT ![q] = label]
    BY <1>4 DEF StartDrain, StartSnapshot, CommitSnapshot, Delete, EndDrain, RenameFails, Die,
                Abandon, Stop, Goto
  <2>2. pc'[q] \in {"idle", "fetch", "emit", "commit"}
    BY <1>a, <2>1 DEF Types, ProcTypes
  <2> QED
    BY <2>2 DEF Holding
<1>5. CASE PowerLoss
  BY <1>5 DEF PowerLoss, Holding
<1>6. CASE Utility \/ UNCHANGED vars
  BY <1>1, <1>6 DEF Utility, Write, MissedWrite, BreakFeed, RepairFeed, vars
<1> QED
  BY <1>2, <1>3, <1>4, <1>5, <1>6 DEF Next, Step

(* A fetched page is a drain's, and in the journal it has no gaps. *)
LEMMA FetchedPage ==
  ASSUME TypeInv, LockInv, JournalInv, NEW q \in Procs, Fetch(q), Holding(q)'
  PROVE  /\ phase'[q] = "drain" /\ page'[q] = Span(NameOf(page'[q]))
         /\ UNCHANGED <<sqlVars, journal>>
<1> DEFINE R == Box(q).rows
           next == NextPage(R, after[q])
           n == NameOf(next)
<1>a. Types
  BY TypeParts
<1>b. /\ box.seq \in Nat /\ \A e \in journal : e.seq \in Nat
      /\ \A e \in box.rows : e.seq \in Nat
  BY <1>a DEF Types, SqlTypes, Outbox, Event
<1>1. pc[q] = "fetch" /\ phase[q] = "drain" /\ UNCHANGED <<sqlVars, journal>>
  BY DEF Fetch, LockInv, LockFits, PhaseFits
<1>2. pc'[q] \in {"emit", "commit", "idle"} => ~Holding(q)'
  BY DEF Holding
<1>3. EndDrain(q) => pc'[q] \in {"emit", "commit", "idle"}
  BY <1>a DEF EndDrain, Stop, Goto, Types, ProcTypes
<1>4. next # {} /\ page'[q] = next /\ phase'[q] = "drain"
  <2>1. next # {} /\ page' = [page EXCEPT ![q] = next] /\ UNCHANGED phase
    BY <1>2, <1>3 DEF Fetch
  <2> QED
    BY <1>1, <1>a, <2>1 DEF Types, ProcTypes
<1>5. /\ R \in SUBSET Event /\ IsFiniteSet(R) /\ after[q] \in Int
      /\ {e \in R : e.seq > after[q]} = R
  BY <1>1, <1>a, BoxTypes DEF Types, ProcTypes, LockInv, LockFits, PageLow
<1>6. /\ R \subseteq box.rows /\ \A e \in box.rows : e.seq <= box.seq
      /\ \A d \in R : \A e \in box.rows : d.seq <= e.seq => e \in R
  BY DEF Box, LockInv, TxOfBox, SeqOnTop
<1> HIDE DEF R
<1>7. /\ next \in SUBSET R /\ IsFiniteSet(next)
      /\ \A e \in next : \A d \in R : d.seq <= e.seq => d \in next
  BY <1>5, PageOf
<1> HIDE DEF next
<1>8. /\ \A e \in next : n.lo <= e.seq /\ e.seq <= n.hi
      /\ \E e \in next : e.seq = n.lo
      /\ \E e \in next : e.seq = n.hi
  BY <1>4, <1>5, <1>7, NameOfPage
<1> HIDE DEF n
<1>9. PICK bottom \in next : bottom.seq = n.lo
  BY <1>8
<1>10. PICK top \in next : top.seq = n.hi
  BY <1>8
<1>11. ASSUME NEW e \in journal, n.lo <= e.seq, e.seq <= n.hi PROVE e \in next
  <2>1. bottom \in box.rows /\ top \in box.rows /\ top.seq <= box.seq
    BY <1>6, <1>7
  <2>2. e.seq <= box.seq
    BY <1>10, <1>11, <1>b, <2>1
  <2>3. e \in box.rows
    BY <1>9, <1>11, <2>1, <2>2 DEF JournalInv, BoxIsTail
  <2>4. e \in R
    BY <1>6, <1>7, <1>9, <1>11, <2>3
  <2> QED
    BY <1>7, <1>10, <1>11, <2>4
<1>12. next \subseteq journal
  BY <1>6, <1>7 DEF JournalInv, BoxIsTail
<1>13. next = Span(n)
  BY <1>8, <1>11, <1>12 DEF Span
<1> QED
  BY <1>1, <1>4, <1>13 DEF n

(* What a drain renames is in the journal already; what a snapshot renames   *)
(* is new, and comes behind all that is in the journal or in the outbox.     *)
LEMMA NewEvents ==
  ASSUME TypeInv, LockInv, JournalInv, [Next]_vars
  PROVE  \E new \in SUBSET Event :
           /\ journal' = journal \cup new
           /\ \A e \in new : box.seq < e.seq /\ \A d \in journal : d.seq < e.seq
           /\ \A d, e \in new : d.seq = e.seq => d = e
<1>a. Types
  BY TypeParts
<1>b. box.seq \in Nat /\ \A e \in journal : e.seq \in Nat
  BY <1>a DEF Types, SqlTypes, Outbox, Event
<1>1. CASE UNCHANGED journal
  <2> WITNESS {} \in SUBSET Event
  <2> QED
    BY <1>1
<1>2. ASSUME NEW k \in Keys, NEW op \in Ops, NEW image \in Afters \cup {NoAfter},
             Write(k, op, image)
      PROVE  \E new \in SUBSET Event :
               /\ journal' = journal \cup new
               /\ \A e \in new : box.seq < e.seq /\ \A d \in journal : d.seq < e.seq
               /\ \A d, e \in new : d.seq = e.seq => d = e
  <2> DEFINE e == [src |-> Db, seq |-> CurrentSeq(box) + 1, key |-> k, op |-> op,
                   after |-> image]
  <2>1. CurrentSeq(box) = box.seq
    BY <1>a, CurrentSeqOf DEF Types, SqlTypes, LockInv, SeqOnTop
  <2>2. lock = "none" /\ journal' = journal \cup {e}
    BY <1>2 DEF Write
  <2>3. e \in Event /\ e.seq = box.seq + 1
    BY <1>b, <2>1, CollectConstants DEF Event
  <2> HIDE DEF e
  <2>4. \A d \in journal : d.seq < e.seq
    <3>1. tx = box
      BY <2>2 DEF LockInv, TxOfBox
    <3> QED
      BY <1>b, <2>3, <3>1 DEF JournalInv, SeqsTaken
  <2> DEFINE new == {e}
  <2>5. /\ new \in SUBSET Event /\ journal' = journal \cup new
        /\ \A d \in new : box.seq < d.seq /\ \A c \in journal : c.seq < d.seq
        /\ \A c, d \in new : c.seq = d.seq => c = d
    BY <1>b, <2>2, <2>3, <2>4
  <2> HIDE DEF new
  <2> QED
    BY <2>5
<1>3. ASSUME NEW p \in Procs, Rename(p)
      PROVE  \E new \in SUBSET Event :
               /\ journal' = journal \cup new
               /\ \A e \in new : box.seq < e.seq /\ \A d \in journal : d.seq < e.seq
               /\ \A d, e \in new : d.seq = e.seq => d = e
  <2>1. pc[p] = "rename" /\ journal' = journal \cup page[p] /\ page[p] \in SUBSET Event
    BY <1>a, <1>3 DEF Rename, Types, ProcTypes
  <2>2. CASE phase[p] = "drain"
    <3>1. page[p] \subseteq journal
      BY <2>1, <2>2 DEF JournalInv, PagesWhole, Span, Drains, Holding
    <3> QED
      BY <1>1, <2>1, <3>1
  <2>3. CASE phase[p] = "emit"
    <3>1. /\ \A d, e \in page[p] : d.seq = e.seq => d = e
          /\ \A e \in page[p] : box.seq < e.seq /\ \A d \in journal : d.seq < e.seq
      BY <2>1, <2>3 DEF JournalInv, EmitsNew, Emits, Holding
    <3> QED
      BY <2>1, <3>1
  <2> QED
    BY <1>a, <2>2, <2>3 DEF Types, ProcTypes
<1>4. CASE \/ \E p \in Procs :
                \/ StartDrain(p) \/ Fetch(p) \/ Emit(p) \/ CommitSnapshot(p) \/ Open(p)
                \/ WriteLine(p) \/ Sync(p) \/ SyncDir(p) \/ Delete(p) \/ RenameFails(p) \/ Die(p)
                \/ \E min \in MinSeqs, allowLarge \in BOOLEAN : StartSnapshot(p, min, allowLarge)
           \/ PowerLoss \/ UNCHANGED vars \/ BreakFeed \/ RepairFeed
           \/ \E k \in Keys, op \in Ops, image \in Afters \cup {NoAfter} :
                MissedWrite(k, op, image)
  <2>1. UNCHANGED journal
    BY <1>4 DEF StartDrain, StartSnapshot, Fetch, Emit, CommitSnapshot, Open, WriteLine, Sync,
                SyncDir, Delete, RenameFails, Die, Abandon, PowerLoss, BreakFeed, RepairFeed,
                MissedWrite, vars
  <2> QED
    BY <1>1, <2>1
<1> QED
  BY <1>2, <1>3, <1>4 DEF Next, Utility, Step

(* While a snapshot emits, the write lock keeps the utility and the other    *)
(* collectors from what it reads, and no seq is given out but by it.         *)
LEMMA OthersKeepOut ==
  ASSUME TypeInv, LockInv, JournalInv, NEW q \in Procs, phase[q] = "emit",
         NEW p \in Procs, p # q,
         \/ StartDrain(p) \/ Step(p) \/ Die(p)
         \/ \E min \in MinSeqs, allowLarge \in BOOLEAN : StartSnapshot(p, min, allowLarge)
  PROVE  UNCHANGED <<sqlVars, journal>>
<1>a. Types
  BY TypeParts
<1>1. lock # p /\ lock # "none" /\ phase[p] # "emit" /\ pc[p] \notin {"emit", "commit"}
  BY CollectConstants DEF LockInv, LockFits, PhaseFits
<1>2. ASSUME Rename(p) PROVE UNCHANGED <<sqlVars, journal>>
  <2>1. page[p] \subseteq journal
    BY <1>a, <1>1, <1>2
       DEF Rename, JournalInv, PagesWhole, Span, Drains, Holding, Types, ProcTypes
  <2> QED
    BY <1>2, <2>1 DEF Rename
<1>3. ASSUME Die(p) \/ RenameFails(p) PROVE UNCHANGED <<sqlVars, journal>>
  BY <1>1, <1>3 DEF Die, RenameFails, Abandon, Rollback, sqlVars
<1> QED
  BY <1>1, <1>2, <1>3
     DEF StartDrain, StartSnapshot, Step, Fetch, Emit, CommitSnapshot, Open, WriteLine, Sync,
         SyncDir, Delete

(* No event comes between those of a page that is drained. *)
LEMMA PagesWholeStep ==
  ASSUME TypeInv, LockInv, JournalInv, [Next]_vars
  PROVE  PagesWhole'
<1> SUFFICES ASSUME NEW q \in Procs, Drains(q)'
             PROVE  (page[q] = Span(NameOf(page[q])))'
  BY DEF PagesWhole
<1>a. Types
  BY TypeParts
<1>1. Holding(q)' /\ phase'[q] = "drain"
  BY DEF Drains
<1>2. CASE Holding(q) /\ page'[q] = page[q] /\ phase'[q] = phase[q]
  <2> DEFINE n == NameOf(page[q])
  <2>1. Drains(q) /\ page[q] = Span(n)
    BY <1>1, <1>2 DEF Drains, JournalInv, PagesWhole
  <2>2. /\ page[q] \in SUBSET Event /\ IsFiniteSet(page[q]) /\ page[q] # {}
        /\ \A e \in page[q] : e.seq <= box.seq
    BY <1>a, <2>1 DEF Types, ProcTypes, PageTypes, Drains, LockInv, LockFits, PageLow
  <2>3. n.hi <= box.seq /\ n.hi \in Nat /\ box.seq \in Nat
    BY <1>a, <2>2, NameOfPage DEF Types, SqlTypes, Outbox, Event
  <2>4. PICK new \in SUBSET Event :
               journal' = journal \cup new /\ \A e \in new : box.seq < e.seq
    BY NewEvents
  <2> HIDE DEF n
  <2>5. \A e \in new : ~(e.seq <= n.hi)
    BY <2>3, <2>4 DEF Event
  <2>6. page[q] = {e \in journal' : n.lo <= e.seq /\ e.seq <= n.hi}
    BY <2>1, <2>4, <2>5 DEF Span
  <2> QED
    BY <1>2, <2>6 DEF n, Span
<1>3. CASE Fetch(q)
  <2>1. page'[q] = Span(NameOf(page'[q])) /\ UNCHANGED journal
    BY <1>1, <1>3, FetchedPage
  <2> QED
    BY <2>1 DEF Span
<1>4. ASSUME Emit(q) PROVE FALSE
  BY <1>1, <1>4 DEF Emit, LockInv, LockFits, PhaseFits
<1> QED
  BY <1>1, <1>2, <1>3, <1>4, PageStays

(* A snapshot's page never has the name of a drain's. *)
LEMMA NamesApart ==
  ASSUME TypeInv, LockInv, JournalInv, NEW p \in Procs, Drains(p),
         NEW q \in Procs, Emits(q), pc[q] \in {"open", "write", "rename"}
  PROVE  NameOf(page[p]) # NameOf(page[q])
<1>a. Types
  BY TypeParts
<1>b. /\ box.seq \in Nat
      /\ page[p] \in SUBSET Event /\ IsFiniteSet(page[p]) /\ page[p] # {}
      /\ page[q] \in SUBSET Event /\ IsFiniteSet(page[q]) /\ page[q] # {}
  BY <1>a DEF Types, SqlTypes, ProcTypes, PageTypes, Outbox, Drains, Emits
<1>1. \A e \in page[p] : e.seq <= box.seq
  BY DEF LockInv, LockFits, PageLow
<1>2. \A e \in page[q] : box.seq < e.seq
  BY DEF JournalInv, EmitsNew
<1>3. \E e \in page[p] : e.seq = NameOf(page[p]).hi
  BY <1>b, NameOfPage
<1>4. \E e \in page[q] : e.seq = NameOf(page[q]).hi
  BY <1>b, NameOfPage
<1> QED
  BY <1>b, <1>1, <1>2, <1>3, <1>4 DEF Event

(* A line goes to the file that is open. *)
LEMMA WriteOf ==
  ASSUME TypeInv, NEW p \in Procs, WriteLine(p)
  PROVE  \E e \in left[p], file \in FileData :
           /\ SetFile(p, file) /\ file.lines = FileOf(p).lines \cup {e}
           /\ left'[p] = left[p] \ {e}
<1>a. Types
  BY TypeParts
<1>1. PICK e \in left[p] : /\ left' = [left EXCEPT ![p] = @ \ {e}]
                           /\ SetFile(p, [FileOf(p) EXCEPT !.lines = @ \cup {e}])
  BY DEF WriteLine
<1>2. FileOf(p) \in FileData /\ e \in Event
  BY <1>a, <1>1 DEF Types, DirTypes, OpenTypes, ProcTypes, FileOf, FileData
<1> DEFINE file == [FileOf(p) EXCEPT !.lines = @ \cup {e}]
<1>3. file \in FileData /\ file.lines = FileOf(p).lines \cup {e}
  BY <1>2 DEF FileData
<1>4. SetFile(p, file) /\ left'[p] = left[p] \ {e}
  BY <1>a, <1>1 DEF Types, ProcTypes
<1> HIDE DEF file
<1> QED
  BY <1>3, <1>4

(* A sync puts on disk what is written by then. *)
LEMMA SyncOf ==
  ASSUME TypeInv, NEW p \in Procs, Sync(p)
  PROVE  \E file \in FileData :
           SetFile(p, file) /\ file.lines = FileOf(p).lines /\ file.stable = FileOf(p).lines
<1>a. Types
  BY TypeParts
<1>1. FileOf(p) \in FileData
  BY <1>a DEF Types, DirTypes, OpenTypes, FileOf, FileData
<1> DEFINE file == [FileOf(p) EXCEPT !.stable = FileOf(p).lines]
<1>2. file \in FileData /\ file.lines = FileOf(p).lines /\ file.stable = FileOf(p).lines
  BY <1>1 DEF FileData
<1>3. SetFile(p, file)
  BY DEF Sync
<1> HIDE DEF file
<1> QED
  BY <1>2, <1>3

(* Nobody takes the tmp file of a snapshot. *)
LEMMA EmitsToTmpStep ==
  ASSUME TypeInv, LockInv, JournalInv, [Next]_vars
  PROVE  EmitsToTmp'
<1> SUFFICES ASSUME NEW q \in Procs, phase'[q] = "emit", pc'[q] \in {"write", "rename"}
             PROVE  /\ pc'[q] = "write" => fd'[q] = "tmp"
                    /\ pc'[q] = "rename" => NameOf(page[q])' \in DOMAIN tmp'
  BY DEF EmitsToTmp
<1>a. Types
  BY TypeParts
<1>b. phase[q] = "emit" => /\ pc[q] = "write" => fd[q] = "tmp"
                           /\ pc[q] = "rename" => NameOf(page[q]) \in DOMAIN tmp
  BY DEF JournalInv, EmitsToTmp
<1>1. CASE UNCHANGED <<spoolVars, procVars>>
  BY <1>1, <1>b DEF spoolVars, procVars
<1>2. CASE Open(q)
  BY <1>a, <1>2 DEF Open, Goto, Types, ProcTypes
<1>3. CASE WriteLine(q)
  BY <1>b, <1>3 DEF WriteLine
<1>4. CASE Sync(q)
  <2>1. /\ pc[q] = "write" /\ phase[q] = "emit" /\ pc'[q] = "rename" /\ UNCHANGED page
    BY <1>a, <1>4 DEF Sync, Goto, Types, ProcTypes
  <2>2. NameOf(page[q]) \in DOMAIN tmp
    BY <1>a, <1>b, <2>1 DEF Types, OpenTypes
  <2>3. DOMAIN tmp' = DOMAIN tmp
    BY <1>4, <2>1, SyncOf, SetFileTypes
  <2> QED
    BY <2>1, <2>2, <2>3
<1>5. ASSUME \/ StartDrain(q) \/ Fetch(q) \/ Emit(q) \/ CommitSnapshot(q) \/ Rename(q)
             \/ SyncDir(q) \/ Delete(q) \/ RenameFails(q) \/ Die(q)
             \/ \E min \in MinSeqs, allowLarge \in BOOLEAN : StartSnapshot(q, min, allowLarge)
      PROVE  FALSE
  <2>1. \E label : label \notin {"write", "rename"} /\ pc' = [pc EXCEPT ![q] = label]
    BY <1>5 DEF StartDrain, StartSnapshot, Fetch, Emit, CommitSnapshot, Rename, SyncDir, Delete,
                EndDrain, RenameFails, Die, Abandon, Stop, Goto
  <2> QED
    BY <1>a, <2>1 DEF Types, ProcTypes
<1>6. ASSUME NEW p \in Procs, p # q,
             \/ StartDrain(p) \/ Step(p) \/ Die(p)
             \/ \E min \in MinSeqs, allowLarge \in BOOLEAN : StartSnapshot(p, min, allowLarge)
      PROVE  /\ pc'[q] = "write" => fd'[q] = "tmp"
             /\ pc'[q] = "rename" => NameOf(page[q])' \in DOMAIN tmp'
  <2>1. pc'[q] = pc[q] /\ phase'[q] = phase[q] /\ page'[q] = page[q]
    BY <1>6, OthersStay
  <2>2. Emits(q) /\ pc[q] \in {"write", "rename"} /\ NameOf(page[q])' = NameOf(page[q])
    BY <2>1 DEF Emits, Holding
  <2>3. CASE Rename(p)
    <3>1. Drains(p)
      <4>1. lock = q /\ p # q /\ pc[p] = "rename"
        BY <1>6, <2>3, <2>2 DEF LockInv, LockFits, PhaseFits, Emits, Rename
      <4> QED
        BY <1>a, <4>1 DEF LockInv, LockFits, PhaseFits, Types, ProcTypes, Drains, Holding
    <3>2. NameOf(page[p]) # NameOf(page[q])
      BY <2>2, <3>1, NamesApart
    <3>3. fd'[q] = fd[q] /\ DOMAIN tmp' = DOMAIN tmp \ {NameOf(page[p])}
      BY <2>3, <3>2 DEF Rename, Drop
    <3> QED
      BY <1>b, <2>1, <2>2, <3>2, <3>3
  <2>4. ASSUME ~Rename(p) PROVE fd'[q] = fd[q] /\ DOMAIN tmp \subseteq DOMAIN tmp'
    <3>1. CASE Open(p)
      BY <1>a, <1>6, <3>1 DEF Open, Put, Types, ProcTypes
    <3>2. CASE WriteLine(p)
      <4>1. DOMAIN tmp' = DOMAIN tmp
        BY <3>2, WriteOf, SetFileTypes DEF WriteLine
      <4> QED
        BY <3>2, <4>1 DEF WriteLine
    <3>3. CASE Sync(p)
      <4>1. DOMAIN tmp' = DOMAIN tmp
        BY <3>3, SyncOf, SetFileTypes DEF Sync
      <4> QED
        BY <1>a, <1>6, <3>3, <4>1 DEF Sync, Types, ProcTypes
    <3>4. CASE \/ StartDrain(p) \/ Fetch(p) \/ Emit(p) \/ CommitSnapshot(p)
               \/ SyncDir(p) \/ Delete(p) \/ RenameFails(p) \/ Die(p)
               \/ \E min \in MinSeqs, allowLarge \in BOOLEAN : StartSnapshot(p, min, allowLarge)
      <4>1. UNCHANGED tmp
        BY <3>4 DEF StartDrain, StartSnapshot, Fetch, Emit, CommitSnapshot, SyncDir, Delete,
                    RenameFails, Die, Abandon, spoolVars
      <4>2. UNCHANGED fd \/ \E x : fd' = [fd EXCEPT ![p] = x]
        BY <3>4 DEF StartDrain, StartSnapshot, Fetch, Emit, CommitSnapshot, SyncDir, Delete,
                    EndDrain, RenameFails, Die, Abandon, Stop
      <4> QED
        BY <1>a, <1>6, <4>1, <4>2 DEF Types, ProcTypes
    <3> QED
      BY <1>6, <2>4, <3>1, <3>2, <3>3, <3>4 DEF Step
  <2> QED
    BY <1>b, <2>1, <2>2, <2>3, <2>4 DEF Emits
<1>7. CASE PowerLoss
  BY <1>7 DEF PowerLoss
<1>8. CASE Utility \/ UNCHANGED vars
  BY <1>1, <1>8 DEF Utility, Write, MissedWrite, BreakFeed, RepairFeed, vars
<1> QED
  BY <1>2, <1>3, <1>4, <1>5, <1>6, <1>7, <1>8 DEF Next, Step

(* The seqs of a snapshot's page stay its own until it is published. *)
LEMMA EmitsNewStep ==
  ASSUME TypeInv, LockInv, JournalInv, [Next]_vars
  PROVE  EmitsNew'
<1> SUFFICES ASSUME NEW q \in Procs, Holding(q)', phase'[q] = "emit"
             PROVE  /\ \A d, e \in page'[q] : d.seq = e.seq => d = e
                    /\ \A e \in page'[q] : e.seq <= tx'.seq
                    /\ pc'[q] \in {"open", "write", "rename"} =>
                         \A e \in page'[q] : box'.seq < e.seq /\ \A d \in journal' : d.seq < e.seq
  BY DEF EmitsNew, Emits
<1>a. Types
  BY TypeParts
<1>b. /\ box.seq \in Nat /\ tx.seq \in Nat /\ \A e \in journal : e.seq \in Nat
      /\ box.seq <= tx.seq /\ \A e \in journal : e.seq <= tx.seq
  BY <1>a DEF Types, SqlTypes, Outbox, Event, LockInv, TxOfBox, JournalInv, SeqsTaken
<1>1. CASE Emit(q)
  <2> DEFINE rows == Lowest({k \in Present : k > after[q]}, Batch)
  <2>1. CurrentSeq(tx) = tx.seq
    BY <1>a, CurrentSeqOf DEF Types, SqlTypes, LockInv, SeqOnTop
  <2>2. UNCHANGED <<box, journal>>
    BY <1>1 DEF Emit
  <2>3. rows = {} => pc'[q] = "commit"
    BY <1>a, <1>1 DEF Emit, Goto, Types, ProcTypes
  <2>4. /\ rows # {} /\ tx' = [tx EXCEPT !.seq = tx.seq + Cardinality(rows)]
        /\ page' = [page EXCEPT ![q] = Reemitted(rows, tx.seq)]
    BY <1>1, <2>1, <2>3 DEF Emit, Holding
  <2>5. rows \in SUBSET Present /\ TypeOK
    BY DEF Lowest, TypeInv
  <2> HIDE DEF rows
  <2>6. /\ Reemitted(rows, tx.seq) \in SUBSET Event /\ Cardinality(rows) \in Nat
        /\ \A e \in Reemitted(rows, tx.seq) :
             tx.seq < e.seq /\ e.seq <= tx.seq + Cardinality(rows)
        /\ \A d, e \in Reemitted(rows, tx.seq) : d.seq = e.seq => d = e
    BY <1>b, <2>4, <2>5, ReemittedPage
  <2>7. tx'.seq = tx.seq + Cardinality(rows) /\ page'[q] = Reemitted(rows, tx.seq)
    BY <1>a, <2>4 DEF Types, SqlTypes, ProcTypes, Outbox
  <2>8. \A e \in page'[q] : e.seq \in Nat /\ tx.seq < e.seq /\ e.seq <= tx'.seq
    BY <2>6, <2>7 DEF Event
  <2> QED
    BY <1>b, <2>2, <2>6, <2>7, <2>8
<1>2. ASSUME Fetch(q) PROVE FALSE
  BY <1>2, FetchedPage
<1>3. CASE /\ Holding(q) /\ page'[q] = page[q] /\ phase'[q] = phase[q]
           /\ pc'[q] \in {"open", "write", "rename"} => pc[q] \in {"open", "write", "rename"}
  <2>1. /\ \A d, e \in page[q] : d.seq = e.seq => d = e
        /\ \A e \in page[q] : e.seq <= tx.seq
        /\ pc[q] \in {"open", "write", "rename"} =>
             \A e \in page[q] : box.seq < e.seq /\ \A d \in journal : d.seq < e.seq
    BY <1>3 DEF JournalInv, EmitsNew, Emits
  <2>2. UNCHANGED <<box, tx>> /\ (UNCHANGED journal \/ pc'[q] = "syncdir")
    <3>a. /\ phase[q] = "emit" /\ phase'[q] = "emit" /\ lock = q
          /\ pc[q] # "idle" /\ pc'[q] # "idle"
      BY <1>3 DEF Holding, LockInv, LockFits, PhaseFits
    <3>1. ASSUME NEW p \in Procs, p # q,
                 \/ StartDrain(p) \/ Step(p) \/ Die(p)
                 \/ \E min \in MinSeqs, allowLarge \in BOOLEAN : StartSnapshot(p, min, allowLarge)
          PROVE  UNCHANGED <<box, tx, journal>>
      BY <3>1, <3>a, OthersKeepOut DEF sqlVars
    <3>2. CASE Step(q)
      <4>1. pc[q] # "delete"
        BY <1>3 DEF LockInv, LockFits, PhaseFits
      <4>2. Open(q) \/ WriteLine(q) \/ Sync(q) \/ Rename(q) \/ SyncDir(q) \/ RenameFails(q)
        BY <1>3, <3>2, <4>1 DEF Step, Fetch, Emit, CommitSnapshot, Delete, Holding
      <4>3. ~RenameFails(q)
        BY <1>3, <1>a DEF RenameFails, Abandon, Stop, Types, ProcTypes
      <4> QED
        BY <1>a, <4>2, <4>3
           DEF Open, WriteLine, Sync, Rename, SyncDir, Goto, sqlVars, Types, ProcTypes
    <3>3. ASSUME \/ Utility \/ PowerLoss \/ StartDrain(q) \/ Die(q)
                 \/ \E min \in MinSeqs, allowLarge \in BOOLEAN : StartSnapshot(q, min, allowLarge)
          PROVE  FALSE
      <4>1. ~Utility
        BY <3>a, CollectConstants DEF Utility, Write, MissedWrite, BreakFeed, RepairFeed
      <4>2. ~(PowerLoss \/ Die(q))
        BY <1>a, <3>a DEF PowerLoss, Die, Abandon, Stop, Types, ProcTypes
      <4> QED
        BY <3>3, <3>a, <4>1, <4>2 DEF StartDrain, StartSnapshot, MayStart
    <3>4. CASE UNCHANGED vars
      BY <3>4 DEF vars, sqlVars
    <3> QED
      BY <3>1, <3>2, <3>3, <3>4 DEF Next
  <2> QED
    BY <1>3, <2>1, <2>2
<1> QED
  BY <1>1, <1>2, <1>3, PageStays

(* A snapshot that ends has published nothing. *)
LEMMA EndsUnpublished ==
  ASSUME NoneFailsLate, TypeInv, LockInv, JournalInv, NEW p \in Procs,
         Die(p) \/ RenameFails(p) \/ PowerLoss, phase[p] = "emit"
  PROVE  \A e \in journal : e.seq <= box.seq
<1>1. MayDie(p) /\ CountDeath
  BY DEF Die, PowerLoss, RenameFails, JournalInv, EmitsToTmp
<1>2. CurrentSeq(box) = box.seq /\ box.seq \in Nat /\ \A e \in journal : e.seq \in Nat
  BY TypeParts, CurrentSeqOf DEF Types, SqlTypes, Outbox, Event, LockInv, SeqOnTop
<1>3. lock = p
  BY DEF LockInv, LockFits, PhaseFits
<1>4. ~EmitMayFail
  BY <1>1, TypeParts DEF NoneFailsLate, CountDeath, Types, SqlTypes
<1> QED
  BY <1>1, <1>2, <1>3, <1>4 DEF MayDie, HasEmitted

(* Every step keeps the seqs of the journal and the pages in hand. *)
LEMMA JournalInvStep ==
  ASSUME NoneFailsLate, TypeInv, LockInv, JournalInv, [Next]_vars
  PROVE  JournalInv'
<1>a. Types
  BY TypeParts
<1>b. /\ box.seq \in Nat /\ \A e \in box.rows : e.seq \in Nat
      /\ tx.seq \in Nat /\ \A e \in tx.rows : e.seq \in Nat
      /\ \A e \in journal : e.seq \in Nat
      /\ \A p \in Procs : \A e \in page[p] : e.seq \in Nat
  BY <1>a DEF Types, SqlTypes, ProcTypes, Outbox, Event
<1>c. CurrentSeq(box) = box.seq /\ CurrentSeq(tx) = tx.seq /\ box.seq <= tx.seq
  BY <1>a, CurrentSeqOf DEF Types, SqlTypes, LockInv, SeqOnTop, TxOfBox
<1>d. \A p \in Procs : phase[p] \in {"drain", "emit"} /\ (phase[p] = "emit" => lock = p)
  BY <1>a DEF Types, ProcTypes, LockInv, LockFits, PhaseFits
<1>e. SeqsTaken /\ NoneAhead /\ BoxIsTail
  BY DEF JournalInv
<1> DEFINE Holds == SeqsTaken' /\ NoneAhead' /\ BoxIsTail'
<1>f. ASSUME UNCHANGED <<box, tx, journal>>, UNCHANGED phase \/ ~NoneAhead \/
               \E p \in Procs : phase[p] = "drain" /\ \A q \in Procs : q # p => phase'[q] = phase[q]
      PROVE  Holds
  <2>1. (\A p \in Procs : phase'[p] = "drain") => \A p \in Procs : phase[p] = "drain"
    BY <1>e, <1>f
  <2> QED
    BY <1>e, <1>f, <2>1 DEF SeqsTaken, NoneAhead, BoxIsTail
<1>1. ASSUME NEW k \in Keys, NEW op \in Ops, NEW image \in Afters \cup {NoAfter},
             Write(k, op, image)
      PROVE  Holds
  <2> DEFINE e == [src |-> Db, seq |-> box.seq + 1, key |-> k, op |-> op, after |-> image]
  <2>1. /\ lock = "none" /\ box' = [rows |-> box.rows \cup {e}, seq |-> box.seq + 1]
        /\ tx' = box' /\ journal' = journal \cup {e}
    BY <1>1, <1>c DEF Write
  <2>2. e.seq = box.seq + 1
    OBVIOUS
  <2> HIDE DEF e
  <2>3. box'.rows = box.rows \cup {e} /\ box'.seq = box.seq + 1 /\ tx = box
    BY <2>1 DEF LockInv, TxOfBox
  <2>4. \A d \in journal : d.seq <= box.seq /\ d.seq < e.seq
    BY <1>b, <1>e, <2>2, <2>3 DEF SeqsTaken
  <2>5. \A d \in journal' : d.seq <= box'.seq
    BY <1>b, <2>1, <2>2, <2>3, <2>4
  <2>6. BoxIsTail'
    <3> SUFFICES ASSUME NEW d \in box'.rows, NEW c \in journal', d.seq <= c.seq
                 PROVE  c \in box'.rows
      BY <1>e, <2>1, <2>3 DEF BoxIsTail
    <3>1. CASE c = e
      BY <2>3, <3>1
    <3>2. CASE c \in journal
      <4>1. d \in box.rows /\ c.seq <= box.seq
        BY <1>b, <2>2, <2>3, <2>4, <3>2
      <4> QED
        BY <1>e, <2>3, <3>2, <4>1 DEF BoxIsTail
    <3> QED
      BY <2>1, <3>1, <3>2
  <2> QED
    BY <2>1, <2>5, <2>6 DEF SeqsTaken, NoneAhead
<1>2. ASSUME \/ \E k \in Keys, op \in Ops, image \in Afters \cup {NoAfter} :
                  MissedWrite(k, op, image)
             \/ BreakFeed \/ RepairFeed \/ UNCHANGED vars
             \/ \E p \in Procs : \/ StartDrain(p) \/ Open(p) \/ WriteLine(p) \/ Sync(p)
                                 \/ SyncDir(p)
      PROVE  Holds
  <2>1. UNCHANGED <<box, tx, journal, phase>>
    BY <1>2 DEF MissedWrite, BreakFeed, RepairFeed, StartDrain, Open, WriteLine, Sync, SyncDir,
                vars, sqlVars, procVars
  <2> QED
    BY <1>f, <2>1
<1>3. ASSUME NEW p \in Procs, NEW min \in MinSeqs, NEW allowLarge \in BOOLEAN,
             StartSnapshot(p, min, allowLarge)
      PROVE  Holds
  <2>1. /\ lock = "none" /\ UNCHANGED <<box, journal, phase>>
        /\ tx' = IF box.seq >= min THEN box ELSE [box EXCEPT !.seq = min]
    BY <1>c, <1>3 DEF StartSnapshot
  <2>2. tx = box /\ tx'.seq \in Nat /\ tx.seq <= tx'.seq
    BY <1>a, <1>b, <2>1, CollectConstants DEF Types, SqlTypes, Outbox, LockInv, TxOfBox
  <2> QED
    BY <1>b, <1>e, <2>1, <2>2 DEF SeqsTaken, NoneAhead, BoxIsTail
<1>4. ASSUME NEW p \in Procs, Fetch(p) PROVE Holds
  <2>1. UNCHANGED <<box, tx, journal>> /\ phase[p] = "drain"
    BY <1>4 DEF Fetch, sqlVars, LockInv, LockFits, PhaseFits
  <2>2. \A q \in Procs : q # p => phase'[q] = phase[q]
    BY <1>4, OthersStay DEF Step
  <2> QED
    BY <1>f, <2>1, <2>2
<1>5. ASSUME NEW p \in Procs, Emit(p) PROVE Holds
  <2> DEFINE rows == Lowest({k \in Present : k > after[p]}, Batch)
  <2>1. UNCHANGED <<box, journal, phase>>
    BY <1>5 DEF Emit
  <2>2. tx' = tx \/ (rows # {} /\ tx' = [tx EXCEPT !.seq = tx.seq + Cardinality(rows)])
    BY <1>5, <1>c DEF Emit
  <2>3. rows \in SUBSET Present /\ TypeOK
    BY DEF Lowest, TypeInv
  <2> HIDE DEF rows
  <2>4. rows # {} => Cardinality(rows) \in Nat
    BY <1>b, <2>3, ReemittedPage
  <2>5. tx'.seq \in Nat /\ tx.seq <= tx'.seq
    BY <1>a, <1>b, <2>2, <2>4 DEF Types, SqlTypes, Outbox
  <2> QED
    BY <1>b, <1>e, <2>1, <2>5 DEF SeqsTaken, NoneAhead, BoxIsTail
<1>6. ASSUME NEW p \in Procs, CommitSnapshot(p) PROVE Holds
  <2>1. pc[p] = "commit" /\ box' = tx /\ UNCHANGED <<tx, journal>>
    BY <1>6 DEF CommitSnapshot
  <2>2. box'.rows = {}
    BY <2>1 DEF LockInv, LockFits, PhaseFits, TxPage
  <2> QED
    BY <1>e, <2>1, <2>2 DEF SeqsTaken, NoneAhead, BoxIsTail
<1>7. ASSUME NEW p \in Procs, Rename(p) PROVE Holds
  <2>1. /\ pc[p] = "rename" /\ journal' = journal \cup page[p]
        /\ UNCHANGED <<box, tx, phase>>
    BY <1>7 DEF Rename, sqlVars
  <2>2. CASE phase[p] = "drain"
    <3>1. page[p] \subseteq journal
      BY <2>1, <2>2 DEF JournalInv, PagesWhole, Span, Drains, Holding
    <3> QED
      BY <1>f, <2>1, <3>1
  <2>3. CASE phase[p] = "emit"
    <3>1. /\ \A e \in page[p] : e.seq <= tx.seq /\ box.seq < e.seq
      BY <2>1, <2>3 DEF JournalInv, EmitsNew, Emits, Holding
    <3>2. BoxIsTail'
      BY <1>b, <1>e, <2>1, <3>1 DEF BoxIsTail
    <3> QED
      BY <1>e, <2>1, <2>3, <3>1, <3>2 DEF SeqsTaken, NoneAhead
  <2> QED
    BY <1>d, <2>2, <2>3
<1>8. ASSUME NEW p \in Procs, Delete(p) PROVE Holds
  <2> DEFINE hi == NameOf(page[p]).hi
             b == [Box(p) EXCEPT !.rows = {e \in @ : e.seq > hi}]
  <2>1. /\ pc[p] = "delete" /\ SetBox(p, b) /\ lock \in {"none", p} /\ UNCHANGED journal
    BY <1>8 DEF Delete
  <2>2. hi \in Nat
    BY <1>a, <2>1, NameOfPage DEF Types, ProcTypes, PageTypes, Holding, Name
  <2>3. b.rows = {e \in Box(p).rows : e.seq > hi} /\ b.seq = Box(p).seq
    BY BoxTypes DEF Outbox
  <2> HIDE DEF b, hi
  <2>4. /\ tx' = b
        /\ lock = "none" => box' = b /\ Box(p) = box /\ tx = box
        /\ lock = p => UNCHANGED box /\ Box(p) = tx
    BY <2>1, CollectConstants DEF SetBox, Box, LockInv, TxOfBox
  <2>5. tx'.seq = tx.seq /\ box'.seq = box.seq
    BY <2>1, <2>3, <2>4
  <2>6. box'.rows \subseteq box.rows
        /\ (box'.rows = box.rows \/ box'.rows = {e \in box.rows : e.seq > hi})
    BY <2>1, <2>3, <2>4
  <2>7. BoxIsTail'
    <3> SUFFICES ASSUME NEW d \in box'.rows, NEW e \in journal, d.seq <= e.seq, e.seq <= box.seq
                 PROVE  e \in box'.rows
      BY <1>e, <2>1, <2>5, <2>6 DEF BoxIsTail
    <3>1. e \in box.rows
      BY <1>e, <2>6 DEF BoxIsTail
    <3> QED
      BY <1>b, <2>2, <2>6, <3>1
  <2>8. NoneAhead'
    <3>1. phase[p] = "drain" /\ \A q \in Procs : q # p => phase'[q] = phase[q]
      BY <1>8, <2>1, OthersStay DEF Step, LockInv, LockFits, PhaseFits
    <3> QED
      BY <1>e, <2>1, <2>5, <3>1 DEF NoneAhead
  <2> QED
    BY <1>e, <2>1, <2>5, <2>7, <2>8 DEF SeqsTaken
<1>9. ASSUME NEW p \in Procs, Die(p) \/ RenameFails(p) PROVE Holds
  <2>1. Rollback(p) /\ UNCHANGED <<box, journal>>
    BY <1>9 DEF Die, RenameFails, Abandon
  <2>2. \A q \in Procs : q # p => phase'[q] = phase[q]
    BY <1>9, OthersStay DEF Step
  <2>3. phase[p] = "emit" => \A e \in journal : e.seq <= box.seq
    BY <1>9, EndsUnpublished
  <2>4. NoneAhead'
    BY <1>d, <1>e, <2>1, <2>2, <2>3 DEF NoneAhead
  <2>5. lock = p => \A e \in journal : e.seq <= box.seq
    BY <1>d, <1>e, <2>3 DEF NoneAhead
  <2> QED
    BY <1>e, <2>1, <2>4, <2>5 DEF Rollback, SeqsTaken, BoxIsTail
<1>10. ASSUME PowerLoss PROVE Holds
  <2>1. tx' = box /\ UNCHANGED <<box, journal>>
    BY <1>10 DEF PowerLoss
  <2>2. \A e \in journal : e.seq <= box.seq
    BY <1>10, <1>d, <1>e, EndsUnpublished DEF NoneAhead
  <2> QED
    BY <1>e, <2>1, <2>2 DEF SeqsTaken, NoneAhead, BoxIsTail
<1>11. Holds
  <2> HIDE DEF Holds
  <2> QED
    BY <1>1, <1>2, <1>3, <1>4, <1>5, <1>6, <1>7, <1>8, <1>9, <1>10 DEF Next, Utility, Step
<1>12. SeqUnique'
  <2>1. PICK new \in SUBSET Event :
               /\ journal' = journal \cup new
               /\ \A e \in new : \A d \in journal : d.seq < e.seq
               /\ \A d, e \in new : d.seq = e.seq => d = e
    BY NewEvents
  <2>2. \A e \in new : e.seq \in Nat
    BY DEF Event
  <2> QED
    BY <1>b, <2>1, <2>2 DEF JournalInv, SeqUnique
<1> QED
  BY <1>11, <1>12, PagesWholeStep, EmitsNewStep, EmitsToTmpStep DEF JournalInv
-----------------------------------------------------------------------------
(* The layers together are inductive.                                        *)
JournalSafe == TypeInv /\ LockInv /\ JournalInv

(* The layers hold together. *)
LEMMA JournalSafeAlways ==
  ASSUME NoneFailsLate
  PROVE  Spec => []JournalSafe
<1>1. Init => JournalSafe
  BY TypeInvInit, LockInvInit, JournalInvInit DEF JournalSafe
<1>2. JournalSafe /\ [Next]_vars => JournalSafe'
  BY TypeInvStep, LockInvStep, JournalInvStep DEF JournalSafe
<1> QED
  BY <1>1, <1>2, PTL DEF Spec

(* One seq, one event: a trigger and a snapshot that publishes outside its   *)
(* transaction never give the same seq to two events, through deaths, power  *)
(* losses, overlapping collectors and --min-seq.                             *)
THEOREM OneEventPerSeq ==
  ASSUME NoneFailsLate
  PROVE  Spec => []SeqUnique
<1>1. JournalSafe => SeqUnique
  BY DEF JournalSafe, JournalInv
<1> QED
  BY <1>1, JournalSafeAlways, PTL
-----------------------------------------------------------------------------
(***************************************************************************)
(* Replaying the journal gives the captured table: what a Mini that has all  *)
(* of a source's events knows of it.  A broken feed may have lost inserts    *)
(* and updates, until a snapshot commits.  One that loses deletes is the run *)
(* ghost_row; and a snapshot never reads a rowid below 1.  The theorem's     *)
(* hypotheses leave both out, with those above.                              *)
(***************************************************************************)

(* What a trigger or a snapshot says of a row. *)
Tells(e) == e.src = Db /\ (e.op = "D" <=> e.after = NoAfter)

(* The last event of row k has its image. *)
RowFits(k) ==
  \/ table[k] = NoAfter /\ \A e \in journal : e.key # k
  \/ \E e \in journal : /\ e.key = k /\ e.after = table[k]
                        /\ \A d \in journal : d.key = k => d.seq <= e.seq

(* A row the snapshot has gone past has its event in a closed file or in the *)
(* page.                                                                     *)
InPage(p, k) ==
  /\ pc[p] \in {"open", "write", "rename"}
  /\ \E e \in page[p] : e.key = k

EmitsTable(p) ==
  /\ Emits(p) => /\ \A e \in page[p] : /\ Tells(e) /\ e.key \in Present
                                       /\ e.after = table[e.key]
                 /\ \A d, e \in page[p] : d.key = e.key => d = e
  /\ phase[p] = "emit" /\ capturing =>
       \A k \in Present : k <= after[p] => RowFits(k) \/ InPage(p, k)
  /\ pc[p] = "commit" /\ capturing => \A k \in Present : RowFits(k)

(* The last event of every row has its image, except that a broken feed may  *)
(* have lost an insert or an update since the last snapshot.                 *)
TableInv ==
  /\ \A e \in journal : Tells(e)
  /\ ~missed => \A k \in Keys : RowFits(k)
  /\ \A k \in Keys : table[k] = NoAfter => RowFits(k)
  /\ \A p \in Procs : EmitsTable(p)
-----------------------------------------------------------------------------
(* The events of a snapshot's page: one for each of its rows, with the row's *)
(* image.                                                                    *)
LEMMA ReemittedRows ==
  ASSUME NEW rows \in SUBSET Present, NEW cur
  PROVE  /\ \A e \in Reemitted(rows, cur) :
              Tells(e) /\ e.key \in rows /\ e.key \in Present /\ e.after = table[e.key]
         /\ \A d, e \in Reemitted(rows, cur) : d.key = e.key => d = e
         /\ \A k \in rows : \E e \in Reemitted(rows, cur) : e.key = k
<1> DEFINE I(k) == [src |-> Db, seq |-> cur + Cardinality({j \in rows : j <= k}), key |-> k,
                     op |-> "I", after |-> table[k]]
<1>1. Reemitted(rows, cur) = {I(k) : k \in rows}
  BY DEF Reemitted
<1>2. \A k \in rows : /\ I(k).key = k /\ I(k).after = table[k] /\ I(k).op = "I"
                      /\ I(k).src = Db
  OBVIOUS
<1>3. \A k \in rows : table[k] # NoAfter /\ k \in Present
  BY DEF Present
<1> HIDE DEF I
<1> QED
  BY <1>1, <1>2, <1>3 DEF Tells

(* An empty table and an empty journal agree. *)
LEMMA TableInvInit == Init => TableInv
<1> SUFFICES ASSUME Init PROVE TableInv
  OBVIOUS
<1> USE DEF Init
<1>1. \A k \in Keys : RowFits(k)
  BY DEF RowFits
<1>2. \A p \in Procs : EmitsTable(p)
  BY DEF EmitsTable, Emits
<1> QED
  BY <1>1, <1>2 DEF TableInv

(* A statement of the utility, or the rename of a snapshot's page, that says *)
(* of its rows what they are now.                                            *)
LEMMA LaterEventsFit ==
  ASSUME NEW new \in SUBSET Event, journal' = journal \cup new,
         \A e \in new : \A d \in journal : d.seq < e.seq,
         \A d, e \in new : d.key = e.key => d = e,
         \A d \in journal : d.seq \in Nat, \A e \in new : e.seq \in Nat,
         NEW k, \/ table'[k] = table[k] /\ RowFits(k) /\ \A e \in new : e.key # k
                \/ \E e \in new : e.key = k /\ e.after = table'[k]
  PROVE  RowFits(k)'
<1>1. CASE table'[k] = table[k] /\ RowFits(k) /\ \A e \in new : e.key # k
  BY <1>1 DEF RowFits
<1>2. ASSUME NEW e \in new, e.key = k, e.after = table'[k] PROVE RowFits(k)'
  <2>1. \A d \in journal' : d.key = k => d.seq <= e.seq
    BY <1>2
  <2> QED
    BY <1>2, <2>1 DEF RowFits
<1> QED
  BY <1>1, <1>2

(* Every step keeps the journal in step with the table. *)
LEMMA TableInvStep ==
  ASSUME "D" \notin Missable, \A k \in Keys : FromStart < k,
         JournalSafe, JournalSafe', TableInv, [Next]_vars
  PROVE  TableInv'
<1>a. Types /\ TypeInv /\ LockInv /\ JournalInv
  BY TypeParts DEF JournalSafe
<1>a1. TypeInv' /\ LockInv'
  BY DEF JournalSafe
<1>b. /\ box.seq \in Nat /\ \A e \in journal : e.seq \in Nat
      /\ \A p \in Procs : page[p] \in SUBSET Event /\ \A e \in page[p] : e.seq \in Nat
      /\ Keys \subseteq Int
  BY <1>a, CollectConstants DEF Types, SqlTypes, ProcTypes, Outbox, Event
<1>c. CurrentSeq(box) = box.seq
  BY <1>a, CurrentSeqOf DEF Types, SqlTypes, LockInv, SeqOnTop
<1>d. ASSUME UNCHANGED <<table, journal>> PROVE \A k \in Keys : RowFits(k)' = RowFits(k)
  BY <1>d DEF RowFits
<1>e. ASSUME UNCHANGED <<table, journal>>, missed \in BOOLEAN,
             missed' = missed \/ \A k \in Keys : RowFits(k),
             \A p \in Procs : EmitsTable(p)'
      PROVE  TableInv'
  BY <1>d, <1>e DEF TableInv
<1>f. ASSUME NEW p \in Procs, phase'[p] # "emit" PROVE EmitsTable(p)'
  BY <1>a1, <1>f DEF EmitsTable, Emits, LockInv, LockFits, PhaseFits
<1>g. lock = "none" => \A p \in Procs : phase[p] # "emit"
  BY <1>a, CollectConstants DEF LockInv, LockFits, PhaseFits
<1>1. ASSUME NEW k \in Keys, NEW op \in Ops, NEW image \in Afters \cup {NoAfter},
             Write(k, op, image)
      PROVE  TableInv'
  <2> DEFINE e == [src |-> Db, seq |-> box.seq + 1, key |-> k, op |-> op, after |-> image]
  <2>1. /\ lock = "none" /\ journal' = journal \cup {e} /\ table' = [table EXCEPT ![k] = image]
        /\ UNCHANGED <<missed, phase>> /\ (op = "D" <=> image = NoAfter)
    BY <1>1, <1>c DEF Write, Change, procVars
  <2>2. /\ e.seq = box.seq + 1 /\ e \in Event /\ e.key = k /\ e.after = image
        /\ Tells(e)
    BY <1>b, <2>1, CollectConstants DEF Event, Tells
  <2> HIDE DEF e
  <2>3. \A d \in journal : d.seq < e.seq
    BY <1>a, <1>b, <2>1, <2>2 DEF LockInv, TxOfBox, JournalInv, SeqsTaken
  <2>4. \A j \in Keys : table'[j] = IF j = k THEN image ELSE table[j]
    BY <1>a, <2>1 DEF Types, SqlTypes
  <2>5. ASSUME NEW j \in Keys, j = k \/ RowFits(j) PROVE RowFits(j)'
    <3>1. \/ table'[j] = table[j] /\ RowFits(j) /\ \A c \in {e} : c.key # j
          \/ \E c \in {e} : c.key = j /\ c.after = table'[j]
      BY <2>2, <2>4, <2>5
    <3>2. {e} \in SUBSET Event /\ \A c \in {e} : c.seq \in Nat
      BY <2>2 DEF Event
    <3> QED
      BY <1>b, <2>1, <2>3, <3>1, <3>2, LaterEventsFit
  <2>6. \A p \in Procs : EmitsTable(p)'
    BY <1>f, <1>g, <2>1
  <2>7. \A d \in journal' : Tells(d)
    BY <2>1, <2>2 DEF TableInv
  <2>8. \A j \in Keys : table'[j] = NoAfter => RowFits(j)'
    BY <2>4, <2>5 DEF TableInv
  <2>9. ~missed' => \A j \in Keys : RowFits(j)'
    BY <2>1, <2>5 DEF TableInv
  <2> QED
    BY <2>6, <2>7, <2>8, <2>9 DEF TableInv, Tells
<1>2. ASSUME NEW k \in Keys, NEW op \in Ops, NEW image \in Afters \cup {NoAfter},
             MissedWrite(k, op, image)
      PROVE  TableInv'
  <2>1. /\ lock = "none" /\ table' = [table EXCEPT ![k] = image] /\ missed' = TRUE
        /\ UNCHANGED <<journal, phase>> /\ image # NoAfter
    BY <1>2 DEF MissedWrite, Change, procVars
  <2>2. \A j \in Keys : table'[j] = IF j = k THEN image ELSE table[j]
    BY <1>a, <2>1 DEF Types, SqlTypes
  <2>3. \A j \in Keys : j # k => RowFits(j)' = RowFits(j)
    BY <2>1, <2>2 DEF RowFits
  <2>4. \A j \in Keys : table'[j] = NoAfter => RowFits(j)'
    BY <2>1, <2>2, <2>3 DEF TableInv
  <2>5. \A p \in Procs : EmitsTable(p)'
    BY <1>f, <1>g, <2>1
  <2> QED
    BY <2>1, <2>4, <2>5 DEF TableInv
<1>3. ASSUME BreakFeed \/ RepairFeed PROVE TableInv'
  <2>1. lock = "none" /\ UNCHANGED <<table, journal, missed, phase>>
    BY <1>3 DEF BreakFeed, RepairFeed, procVars
  <2>2. \A p \in Procs : EmitsTable(p)'
    BY <1>f, <1>g, <2>1
  <2> QED
    BY <1>d, <2>1, <2>2 DEF TableInv
<1>h. ASSUME NEW p \in Procs, NEW q \in Procs, q # p,
             \/ StartDrain(p) \/ Step(p) \/ Die(p)
             \/ \E min \in MinSeqs, allowLarge \in BOOLEAN : StartSnapshot(p, min, allowLarge)
      PROVE  EmitsTable(q)'
  <2>1. /\ pc'[q] = pc[q] /\ phase'[q] = phase[q] /\ page'[q] = page[q]
        /\ after'[q] = after[q]
    BY <1>a, <1>h, OthersStay
  <2>2. CASE phase[q] = "emit"
    <3>1. UNCHANGED <<table, capturing, journal>>
      BY <1>a, <1>h, <2>2, OthersKeepOut DEF sqlVars
    <3>2. \A k \in Keys : RowFits(k)' = RowFits(k)
      BY <1>d, <3>1
    <3>3. Present' = Present /\ Present \subseteq Keys
      BY <3>1 DEF Present
    <3>4. EmitsTable(q) /\ \A k : InPage(q, k)' = InPage(q, k)
      BY <2>1 DEF TableInv, InPage
    <3> QED
      BY <2>1, <3>1, <3>2, <3>3, <3>4 DEF EmitsTable, Emits, Holding, Tells
  <2> QED
    BY <1>f, <2>1, <2>2
<1>4. ASSUME NEW p \in Procs, UNCHANGED <<table, journal, missed>>, EmitsTable(p)',
             \/ StartDrain(p) \/ Step(p) \/ Die(p)
             \/ \E min \in MinSeqs, allowLarge \in BOOLEAN : StartSnapshot(p, min, allowLarge)
      PROVE  TableInv'
  <2>1. \A q \in Procs : EmitsTable(q)'
    BY <1>4, <1>h
  <2> QED
    BY <1>4, <1>d, <2>1 DEF TableInv
<1>5. ASSUME NEW p \in Procs,
             \/ StartDrain(p)
             \/ \E min \in MinSeqs, allowLarge \in BOOLEAN : StartSnapshot(p, min, allowLarge)
      PROVE  TableInv'
  <2>1. /\ UNCHANGED <<table, journal, missed>> /\ pc'[p] = "fetch"
    BY <1>a, <1>5 DEF StartDrain, StartSnapshot, Goto, Types, ProcTypes, sqlVars
  <2>2. EmitsTable(p)'
    BY <1>f, <1>a1, <2>1 DEF LockInv, LockFits, PhaseFits
  <2> QED
    BY <1>4, <1>5, <2>1, <2>2
<1>6. ASSUME NEW p \in Procs, Fetch(p) \/ Delete(p) PROVE TableInv'
  <2>1. /\ UNCHANGED <<table, journal, missed, capturing, lock>>
        /\ EndDrain(p) \/ pc'[p] = "open" \/ pc'[p] = "fetch"
        /\ EndDrain(p) \/ UNCHANGED phase
    BY <1>a, <1>6 DEF Fetch, Delete, Goto, Types, ProcTypes, sqlVars
  <2>2. phase[p] = "drain"
    BY <1>a, <1>6 DEF Fetch, Delete, LockInv, LockFits, PhaseFits
  <2>3. EmitsTable(p)'
    <3>1. CASE EndDrain(p) /\ lock = p
      <4>1. /\ pc'[p] = (IF capturing THEN "emit" ELSE "commit") /\ after'[p] = FromStart
        BY <1>a, <3>1 DEF EndDrain, Goto, Types, ProcTypes
      <4>2. \A k \in Keys : ~(k <= FromStart)
        BY <1>b, FromStartType
      <4>3. Present' \subseteq Keys
        BY DEF Present
      <4> QED
        BY <2>1, <4>1, <4>2, <4>3 DEF EmitsTable, Emits, Holding
    <3>2. CASE EndDrain(p) /\ lock # p
      <4>1. phase'[p] = "drain"
        BY <1>a, <3>2 DEF EndDrain, Stop, Types, ProcTypes
      <4> QED
        BY <1>f, <4>1
    <3>3. CASE UNCHANGED phase
      BY <1>f, <2>2, <3>3
    <3> QED
      BY <2>1, <3>1, <3>2, <3>3
  <2> QED
    BY <1>4, <1>6, <2>1, <2>3 DEF Step
<1>7. ASSUME NEW p \in Procs, Emit(p) PROVE TableInv'
  <2> DEFINE ahead == {k \in Present : k > after[p]}
             rows == Lowest(ahead, Batch)
  <2>1. /\ pc[p] = "emit" /\ phase[p] = "emit"
        /\ UNCHANGED <<table, journal, missed, capturing, lock, phase>>
    BY <1>a, <1>7 DEF Emit, LockInv, LockFits, PhaseFits
  <2>2. Present' = Present /\ Present \subseteq Keys
    BY <2>1 DEF Present
  <2>3. capturing => \A k \in Present : k <= after[p] => RowFits(k)
    BY <2>1 DEF TableInv, EmitsTable, InPage
  <2>4. \A k \in Keys : RowFits(k)' = RowFits(k)
    BY <1>d, <2>1
  <2>5. after[p] \in Int /\ Batch \in Nat \ {0}
    BY <1>a, CollectConstants DEF Types, ProcTypes
  <2>6. /\ rows \subseteq ahead
        /\ \A i \in rows : \A j \in ahead : j < i => j \in rows
        /\ ahead # {} => rows # {}
    <3>1. ahead \in SUBSET Int /\ IsFiniteSet(ahead)
      <4>1. ahead \in SUBSET Keys
        BY <2>2
      <4> HIDE DEF ahead
      <4> QED
        BY <4>1, <1>b, CollectConstants, FS_Subset
    <3> HIDE DEF ahead
    <3>2. rows = {i \in ahead : Cardinality({j \in ahead : j < i}) < Batch}
      BY DEF Lowest
    <3>3. LET low == {i \in ahead : Cardinality({j \in ahead : j < i}) < Batch} IN
            /\ \A i \in low : \A j \in ahead : j < i => j \in low
            /\ Batch # 0 /\ ahead # {} => low # {}
      BY <2>5, <3>1, LowestAreLowest
    <3> QED
      BY <2>5, <3>2, <3>3
  <2>7. \A k \in Present : k \in ahead \/ k <= after[p]
    <3>1. \A k \in Present : k > after[p] \/ k <= after[p]
      <4> HIDE DEF ahead, rows
      <4>1. \A k \in Present : k \in Int
        BY <1>b, <2>2
      <4> QED
        BY <2>5, <4>1
    <3> QED
      BY <3>1
  <2>8. rows \in SUBSET Present /\ rows \in SUBSET Int
    BY <1>b, <2>2, <2>6
  <2> HIDE DEF ahead, rows
  <2>9. CASE rows = {} /\ pc' = [pc EXCEPT ![p] = "commit"]
    <3>1. pc'[p] = "commit"
      BY <1>a, <2>9 DEF Types, ProcTypes
    <3>2. capturing => \A k \in Present : RowFits(k)
      BY <2>3, <2>6, <2>7, <2>9
    <3>3. EmitsTable(p)'
      BY <2>1, <2>2, <2>4, <3>1, <3>2 DEF EmitsTable, Emits, Holding
    <3> QED
      BY <1>4, <1>7, <2>1, <3>3 DEF Step
  <2>10. CASE /\ rows # {} /\ page' = [page EXCEPT ![p] = Reemitted(rows, tx.seq)]
              /\ after' = [after EXCEPT ![p] = Max(rows)] /\ pc' = [pc EXCEPT ![p] = "open"]
    <3>1. pc'[p] = "open" /\ page'[p] = Reemitted(rows, tx.seq) /\ after'[p] = Max(rows)
      BY <1>a, <2>10 DEF Types, ProcTypes
    <3>2. /\ \A e \in page'[p] :
               Tells(e) /\ e.key \in rows /\ e.key \in Present /\ e.after = table[e.key]
          /\ \A d, e \in page'[p] : d.key = e.key => d = e
          /\ \A k \in rows : \E e \in page'[p] : e.key = k
      BY <2>8, <3>1, ReemittedRows
    <3>3. Max(rows) \in rows
      <4>1. IsFiniteSet(rows)
        <5>1. rows \in SUBSET Keys
          BY <2>2, <2>8
        <5> QED
          BY <5>1, CollectConstants, FS_Subset
      <4> QED
        BY <2>8, <2>10, <4>1, MaxOf
    <3>4. ASSUME NEW k \in Present, k <= after'[p], k \in ahead PROVE k \in rows
      <4>1. k \in Int /\ Max(rows) \in Int
        BY <1>b, <2>2, <2>8, <3>3
      <4>2. k = Max(rows) \/ k < Max(rows)
        BY <3>1, <3>4, <4>1
      <4> QED
        BY <2>6, <3>3, <3>4, <4>2
    <3>5. capturing => \A k \in Present : k <= after'[p] => RowFits(k) \/ InPage(p, k)'
      BY <2>3, <2>7, <3>1, <3>2, <3>4 DEF InPage
    <3>6. EmitsTable(p)'
      BY <2>1, <2>2, <2>4, <3>1, <3>2, <3>5 DEF EmitsTable, Tells
    <3> QED
      BY <1>4, <1>7, <2>1, <3>6 DEF Step
  <2>11. CurrentSeq(tx) = tx.seq
    BY <1>a, CurrentSeqOf DEF Types, SqlTypes, LockInv, SeqOnTop
  <2> QED
    BY <1>7, <2>9, <2>10, <2>11 DEF Emit, Goto, rows, ahead
<1>8. ASSUME NEW p \in Procs, Open(p) \/ WriteLine(p) \/ Sync(p) PROVE TableInv'
  <2>1. /\ UNCHANGED <<table, journal, missed, capturing, page, phase, after>> /\ Holding(p)
        /\ pc[p] \in {"open", "write"} /\ pc'[p] \in {"write", "rename"}
    BY <1>a, <1>8 DEF Open, WriteLine, Sync, Goto, Holding, sqlVars, Types, ProcTypes
  <2>2. Present' = Present /\ Present \subseteq Keys
    BY <2>1 DEF Present
  <2>3. \A k \in Keys : RowFits(k)' = RowFits(k)
    BY <1>d, <2>1
  <2>4. \A k : InPage(p, k)' = InPage(p, k)
    BY <2>1 DEF InPage
  <2>5. EmitsTable(p)
    BY DEF TableInv
  <2>6. EmitsTable(p)'
    BY <2>1, <2>2, <2>3, <2>4, <2>5 DEF EmitsTable, Emits, Tells
  <2> QED
    BY <1>4, <1>8, <2>1, <2>6 DEF Step
<1>9. ASSUME NEW p \in Procs, SyncDir(p) PROVE TableInv'
  <2>1. /\ UNCHANGED <<table, journal, missed, capturing, page, phase, after>>
        /\ pc[p] = "syncdir" /\ pc'[p] \in {"emit", "delete"}
    BY <1>a, <1>9 DEF SyncDir, Goto, sqlVars, Types, ProcTypes
  <2>2. Present' = Present /\ Present \subseteq Keys
    BY <2>1 DEF Present
  <2>3. \A k \in Keys : RowFits(k)' = RowFits(k)
    BY <1>d, <2>1
  <2>4. EmitsTable(p)'
    <3>1. CASE phase[p] = "emit"
      <4>1. pc'[p] = "emit"
        BY <1>a, <1>9, <3>1 DEF SyncDir, Goto, Types, ProcTypes
      <4>2. capturing => \A k \in Present : k <= after[p] => RowFits(k)
        BY <2>1, <3>1 DEF TableInv, EmitsTable, InPage
      <4> QED
        BY <2>1, <2>2, <2>3, <4>1, <4>2 DEF EmitsTable, Emits, Holding
    <3>2. CASE phase[p] # "emit"
      BY <1>f, <2>1, <3>2
    <3> QED
      BY <3>1, <3>2
  <2> QED
    BY <1>4, <1>9, <2>1, <2>4 DEF Step
<1>10. ASSUME NEW p \in Procs, Rename(p) PROVE TableInv'
  <2>1. /\ pc[p] = "rename" /\ pc'[p] = "syncdir" /\ journal' = journal \cup page[p]
        /\ Holding(p)
        /\ UNCHANGED <<table, missed, capturing, page, phase, after>>
    BY <1>a, <1>10 DEF Rename, Goto, Holding, sqlVars, Types, ProcTypes
  <2>3. CASE phase[p] = "drain"
    <3>1. page[p] \subseteq journal
      BY <1>a, <2>1, <2>3 DEF JournalInv, PagesWhole, Span, Drains
    <3>2. journal' = journal
      BY <2>1, <3>1
    <3>3. EmitsTable(p)'
      BY <1>f, <2>1, <2>3
    <3> QED
      BY <1>4, <1>10, <2>1, <3>2, <3>3 DEF Step
  <2>4. CASE phase[p] = "emit"
    <3>1. Emits(p)
      BY <2>1, <2>4 DEF Emits
    <3>2. \A e \in page[p] : \A d \in journal : d.seq < e.seq
      BY <1>a, <2>1, <3>1 DEF JournalInv, EmitsNew
    <3>3. /\ \A e \in page[p] : Tells(e) /\ e.key \in Present /\ e.after = table[e.key]
          /\ \A d, e \in page[p] : d.key = e.key => d = e
          /\ capturing => \A k \in Present : k <= after[p] => RowFits(k) \/ InPage(p, k)
      BY <2>4, <3>1 DEF TableInv, EmitsTable
    <3>4. ASSUME NEW k \in Keys, RowFits(k) \/ InPage(p, k) PROVE RowFits(k)'
      <4>1. \/ table'[k] = table[k] /\ RowFits(k) /\ \A e \in page[p] : e.key # k
            \/ \E e \in page[p] : e.key = k /\ e.after = table'[k]
        BY <2>1, <3>3, <3>4 DEF InPage
      <4> QED
        BY <1>b, <2>1, <3>2, <3>3, <4>1, LaterEventsFit
    <3>5. \A e \in journal' : Tells(e)
      BY <2>1, <3>3 DEF TableInv
    <3>6. ~missed' => \A k \in Keys : RowFits(k)'
      BY <2>1, <3>4 DEF TableInv
    <3>7. \A k \in Keys : table'[k] = NoAfter => RowFits(k)'
      BY <2>1, <3>4 DEF TableInv
    <3>8. Present' = Present /\ Present \subseteq Keys
      BY <2>1 DEF Present
    <3>9. EmitsTable(p)'
      BY <2>1, <3>3, <3>4, <3>8 DEF EmitsTable, Tells
    <3>10. \A q \in Procs : EmitsTable(q)'
      <4>1. \A q \in Procs : q # p => phase'[q] # "emit"
        BY <1>a1, <2>1, <2>4 DEF LockInv, LockFits, PhaseFits
      <4> QED
        BY <1>f, <3>9, <4>1
    <3> QED
      BY <3>5, <3>6, <3>7, <3>10 DEF TableInv, Tells
  <2> QED
    BY <1>a, <2>3, <2>4 DEF Types, ProcTypes
<1>11. ASSUME UNCHANGED <<table, journal, missed>>, \A q \in Procs : pc'[q] = "idle"
       PROVE  TableInv'
  <2>1. \A q \in Procs : phase'[q] # "emit"
    BY <1>11, <1>a1 DEF LockInv, LockFits, PhaseFits
  <2> QED
    BY <1>11, <1>d, <1>f, <2>1 DEF TableInv
<1>12. ASSUME NEW p \in Procs, CommitSnapshot(p) PROVE TableInv'
  <2>1. /\ pc[p] = "commit" /\ pc'[p] = "idle" /\ UNCHANGED <<table, journal>>
        /\ missed' = (missed /\ ~capturing)
    BY <1>a, <1>12 DEF CommitSnapshot, Stop, Goto, Types, ProcTypes
  <2>2. lock' = "none"
    BY <1>12 DEF CommitSnapshot
  <2>3. \A q \in Procs : phase'[q] # "emit"
    BY <1>a1, <2>2, CollectConstants DEF LockInv, LockFits, PhaseFits
  <2>4. \A q \in Procs : EmitsTable(q)'
    BY <1>f, <2>3
  <2>5. capturing => \A k \in Keys : RowFits(k)
    <3>1. capturing => \A k \in Present : RowFits(k)
      BY <2>1 DEF TableInv, EmitsTable
    <3> QED
      BY <3>1 DEF TableInv, Present
  <2>6. ~missed' => ~missed \/ capturing
    BY <2>1
  <2>7. ~missed' => \A k \in Keys : RowFits(k)'
    BY <1>d, <2>1, <2>5, <2>6 DEF TableInv
  <2> QED
    BY <1>d, <2>1, <2>4, <2>7 DEF TableInv
<1>13. ASSUME NEW p \in Procs, Die(p) \/ RenameFails(p) PROVE TableInv'
  <2>1. UNCHANGED <<table, journal, missed>> /\ Stop(p)
    BY <1>13 DEF Die, RenameFails, Abandon
  <2>2. phase'[p] # "emit"
    BY <1>a, <2>1 DEF Stop, Types, ProcTypes
  <2> QED
    BY <1>4, <1>13, <1>f, <2>1, <2>2 DEF Step
<1>16. CASE PowerLoss
  <2>1. UNCHANGED <<table, journal, missed>> /\ \A q \in Procs : pc'[q] = "idle"
    BY <1>16 DEF PowerLoss
  <2> QED
    BY <1>11, <2>1
<1>14. CASE UNCHANGED vars
  <2>1. UNCHANGED <<table, journal, missed, capturing, procVars>>
    BY <1>14 DEF vars, sqlVars
  <2>2. \A k \in Keys : RowFits(k)' = RowFits(k)
    BY <1>d, <2>1
  <2>3. Present' = Present /\ Present \subseteq Keys
    BY <2>1 DEF Present
  <2>4. ASSUME NEW p \in Procs PROVE EmitsTable(p)'
    <3>1. EmitsTable(p)
      BY DEF TableInv
    <3>2. \A k : InPage(p, k)' = InPage(p, k)
      BY <2>1 DEF InPage, procVars
    <3> QED
      BY <2>1, <2>2, <2>3, <3>1, <3>2 DEF EmitsTable, Emits, Holding, Tells, procVars
  <2> QED
    BY <2>1, <2>2, <2>4 DEF TableInv
<1>15. CASE \E p \in Procs : Step(p)
  BY <1>6, <1>7, <1>8, <1>9, <1>10, <1>12, <1>13, <1>15 DEF Step
<1> QED
  BY <1>1, <1>2, <1>3, <1>5, <1>13, <1>14, <1>15, <1>16 DEF Next, Utility

(* When the last event of every row has its image, the rows the journal      *)
(* leaves behind are the table's: no two events share the seq that decides.  *)
LEMMA FittingRows ==
  ASSUME TypeOK, TableInv, SeqUnique, \A k \in Keys : RowFits(k)
  PROVE  {<<r.key, r.after>> : r \in LiveRows(journal)} = {<<k, table[k]>> : k \in Present}
<1>a. \A e \in journal : e.key \in Keys /\ e.seq \in Nat /\ Tells(e)
  BY DEF TypeOK, Event, TableInv
<1>1. ASSUME NEW e \in journal, CarriesRow(e), Latest(journal, e)
      PROVE  e.key \in Present /\ e.after = table[e.key]
  <2>1. PICK f \in journal : /\ f.key = e.key /\ f.after = table[e.key]
                             /\ \A d \in journal : d.key = e.key => d.seq <= f.seq
    BY <1>a DEF RowFits
  <2>2. SameRow(f, e) /\ (f.op = "D" \/ CarriesRow(f))
    BY <1>a, <2>1 DEF SameRow, CarriesRow, Tells
  <2>3. f.seq <= e.seq /\ e.seq <= f.seq
    BY <1>1, <2>1, <2>2 DEF Latest
  <2>4. f = e
    BY <1>a, <2>3 DEF SeqUnique
  <2> QED
    BY <1>a, <1>1, <2>1, <2>4 DEF CarriesRow, Present
<1>2. ASSUME NEW k \in Present
      PROVE  \E e \in journal : CarriesRow(e) /\ Latest(journal, e) /\ e.key = k
  <2>1. PICK e \in journal : /\ e.key = k /\ e.after = table[k]
                             /\ \A d \in journal : d.key = k => d.seq <= e.seq
    BY DEF RowFits, Present
  <2>2. CarriesRow(e)
    BY <1>a, <2>1 DEF CarriesRow, Tells, Present
  <2>3. Latest(journal, e)
    BY <2>1 DEF Latest, SameRow
  <2> QED
    BY <2>1, <2>2, <2>3
<1> DEFINE last == {e \in journal : CarriesRow(e) /\ Latest(journal, e)}
<1>3. LiveRows(journal) = {RowOf(e) : e \in last}
  BY DEF LiveRows
<1>4. \A e \in last : e.key \in Present /\ e.after = table[e.key]
  BY <1>1
<1>5. \A k \in Present : \E e \in last : e.key = k
  BY <1>2
<1> HIDE DEF last
<1>6. \A e : RowOf(e).key = e.key /\ RowOf(e).after = e.after
  BY DEF RowOf
<1> QED
  BY <1>3, <1>4, <1>5, <1>6

(* A snapshot's first page starts below every row. *)
LEMMA StartsBelow ==
  ASSUME WithoutRowid \/ \A k \in Keys : k > 0
  PROVE  \A k \in Keys : FromStart < k
<1>1. Keys \subseteq Int
  BY CollectConstants
<1>2. CASE WithoutRowid
  <2> DEFINE S == Keys \cup {0}
  <2>1. S \in SUBSET Int /\ IsFiniteSet(S) /\ S # {}
    BY <1>1, CollectConstants, FS_AddElement
  <2>2. FromStart = Min(S) - 1
    BY <1>2 DEF FromStart
  <2>3. \A k \in Keys : k \in S
    OBVIOUS
  <2> HIDE DEF S
  <2>4. Min(S) \in Int /\ \A k \in S : Min(S) <= k
    BY <2>1, MinOf
  <2> QED
    BY <1>1, <2>2, <2>3, <2>4
<1>3. CASE ~WithoutRowid
  BY <1>1, <1>3 DEF FromStart
<1> QED
  BY <1>2, <1>3

(* The last word of the journal about each row makes the table. *)
LEMMA JournalSaysTable ==
  ASSUME TableInv, JournalSafe
  PROVE  JournalRebuildsTable
<1> SUFFICES ASSUME ~missed
             PROVE  {<<r.key, r.after>> : r \in LiveRows(journal)}
                    = {<<k, table[k]>> : k \in Present}
  BY DEF JournalRebuildsTable
<1> QED
  BY FittingRows DEF TableInv, JournalSafe, TypeInv, JournalInv

(* Whenever no change of the feed is missed, replaying all that the source   *)
(* emitted gives the captured table: triggers, drains and a snapshot that    *)
(* repairs a broken feed agree on the last word about every row.             *)
THEOREM JournalIsTheTable ==
  ASSUME NoneFailsLate, "D" \notin Missable,
         WithoutRowid \/ \A k \in Keys : k > 0
  PROVE  Spec => []JournalRebuildsTable
<1>1. TableInv /\ JournalSafe /\ JournalSafe' /\ [Next]_vars => TableInv'
  BY StartsBelow, TableInvStep
<1> QED
  BY <1>1, JournalSaysTable, TableInvInit, JournalSafeAlways, PTL DEF Spec
-----------------------------------------------------------------------------
(***************************************************************************)
(* Overlapping collectors that do not fail: a file that is renamed before it *)
(* is whole has a writer left, whose open descriptor the rename has moved    *)
(* along, and who has what is missing still to write.                        *)
(***************************************************************************)

(* q writes to file n of this kind, and what is missing of it is left to q.  *)
Completes(q, n, kind, missing) ==
  fd[q] = kind /\ NameOf(page[q]) = n /\ missing \subseteq left[q]

TmpOwned ==
  \A n \in DOMAIN tmp : \A p \in Procs :
    pc[p] \in {"write", "rename"} /\ NameOf(page[p]) = n =>
      /\ tmp[n].lines \subseteq page[p]
      /\ \/ tmp[n].lines = page[p]
         \/ \E q \in Procs : Completes(q, n, "tmp", page[p] \ tmp[n].lines)

ClosedOwned ==
  \A n \in DOMAIN closed :
    /\ \E e \in journal : e.seq = n.hi
    /\ closed[n].lines \subseteq Span(n)
    /\ \/ closed[n].lines = Span(n)
       \/ \E q \in Procs : Completes(q, n, "closed", Span(n) \ closed[n].lines)

Owned == TmpOwned /\ ClosedOwned
-----------------------------------------------------------------------------
(* No files. *)
LEMMA OwnedInit == Init => Owned
BY DEF Init, Owned, TmpOwned, ClosedOwned

(* Two collectors that write to one name have the same page. *)
LEMMA SamePage ==
  ASSUME TypeInv, LockInv, JournalInv,
         NEW p \in Procs, pc[p] \in {"open", "write", "rename"},
         NEW q \in Procs, pc[q] \in {"open", "write", "rename"},
         NameOf(page[p]) = NameOf(page[q])
  PROVE  page[p] = page[q]
<1>1. /\ Holding(p) /\ Holding(q)
      /\ phase[p] \in {"drain", "emit"} /\ phase[q] \in {"drain", "emit"}
  BY TypeParts DEF Types, ProcTypes, Holding
<1>2. CASE Emits(p) /\ Emits(q)
  BY <1>2 DEF Emits, LockInv, LockFits, PhaseFits
<1>3. CASE Drains(p) /\ Drains(q)
  BY <1>3 DEF JournalInv, PagesWhole
<1> QED
  BY <1>1, <1>2, <1>3, NamesApart DEF Drains, Emits

(* A collector's descriptor is moved by a rename only. *)
LEMMA FdsStay ==
  ASSUME TypeInv, NEW p \in Procs, ~Rename(p),
         \/ StartDrain(p) \/ Step(p) \/ Die(p)
         \/ \E min \in MinSeqs, allowLarge \in BOOLEAN : StartSnapshot(p, min, allowLarge)
  PROVE  \A q \in Procs : q # p => fd'[q] = fd[q]
<1>1. fd \in [Procs -> {"none", "tmp", "closed", "gone"}]
  BY TypeParts DEF Types, ProcTypes
<1>2. UNCHANGED fd \/ \E x : fd' = [fd EXCEPT ![p] = x]
  BY DEF StartDrain, StartSnapshot, Step, Fetch, Emit, CommitSnapshot, Open, WriteLine, Sync,
         SyncDir, Delete, EndDrain, RenameFails, Die, Abandon, Stop
<1> QED
  BY <1>1, <1>2

(* What comes behind all of the journal is in no closed file's name. *)
LEMMA SpansStay ==
  ASSUME TypeInv, NEW new \in SUBSET Event, journal' = journal \cup new,
         \A e \in new : \A d \in journal : d.seq < e.seq,
         NEW n \in DOMAIN closed, \E e \in journal : e.seq = n.hi
  PROVE  Span(n)' = Span(n)
<1>1. PICK d \in journal : d.seq = n.hi
  OBVIOUS
<1>2. /\ n.hi \in Nat /\ \A e \in new : e.seq \in Nat
  BY TypeParts, <1>1 DEF Types, SqlTypes, Event
<1>3. \A e \in new : ~(e.seq <= n.hi)
  BY <1>1, <1>2
<1> QED
  BY <1>3 DEF Span

(* Opening a page's tmp file truncates it: all of it is to be written again. *)
LEMMA OpenOwned ==
  ASSUME TypeInv, LockInv, JournalInv, Owned, NEW p \in Procs, Open(p)
  PROVE  Owned'
<1> DEFINE n == NameOf(page[p])
           empty == [lines |-> {}, stable |-> {}]
<1>a. Types
  BY TypeParts
<1>1. /\ pc[p] = "open" /\ tmp' = Put(tmp, n, empty) /\ UNCHANGED <<closed, journal, page>>
      /\ fd'[p] = "tmp" /\ left'[p] = page[p]
  BY <1>a DEF Open, Types, ProcTypes
<1>2. \A q \in Procs : q # p => pc'[q] = pc[q] /\ left'[q] = left[q] /\ fd'[q] = fd[q]
  BY OthersStay, FdsStay DEF Step, Open, Rename
<1>3. fd[p] = "none"
  BY <1>a, <1>1 DEF Types, PageTypes
<1>4. /\ DOMAIN tmp' = DOMAIN tmp \cup {n} /\ tmp'[n].lines = {}
      /\ \A m \in DOMAIN tmp : m # n => tmp'[m] = tmp[m]
  BY <1>1 DEF Put
<1>5. TmpOwned'
  <2> SUFFICES ASSUME NEW m \in DOMAIN tmp', NEW r \in Procs,
                      pc'[r] \in {"write", "rename"}, NameOf(page[r]) = m
               PROVE  /\ tmp'[m].lines \subseteq page[r]
                      /\ \/ tmp'[m].lines = page[r]
                         \/ \E q \in Procs : Completes(q, m, "tmp", page[r] \ tmp[m].lines)'
    BY <1>1 DEF TmpOwned
  <2>1. CASE m = n
    <3>1. page[r] = page[p]
      <4>1. r = p \/ pc[r] \in {"open", "write", "rename"}
        BY <1>2
      <4> QED
        BY <1>1, <2>1, <4>1, SamePage
    <3>2. Completes(p, m, "tmp", page[r] \ tmp[m].lines)'
      BY <1>1, <2>1, <3>1 DEF Completes
    <3> QED
      BY <1>4, <2>1, <3>2
  <2>2. CASE m # n
    <3>1. r # p /\ tmp'[m] = tmp[m] /\ m \in DOMAIN tmp /\ pc[r] \in {"write", "rename"}
      BY <1>2, <1>4, <2>2
    <3>2. ASSUME NEW q \in Procs, Completes(q, m, "tmp", page[r] \ tmp[m].lines)
          PROVE  Completes(q, m, "tmp", page[r] \ tmp[m].lines)'
      BY <1>1, <1>2, <1>3, <3>1, <3>2 DEF Completes
    <3> QED
      BY <3>1, <3>2 DEF Owned, TmpOwned
  <2> QED
    BY <2>1, <2>2
<1>6. ClosedOwned'
  <2>1. ASSUME NEW m \in DOMAIN closed, NEW q \in Procs,
               Completes(q, m, "closed", Span(m) \ closed[m].lines)
        PROVE  Completes(q, m, "closed", Span(m) \ closed[m].lines)'
    BY <1>1, <1>2, <1>3, <2>1 DEF Completes, Span
  <2> QED
    BY <1>1, <2>1 DEF Owned, ClosedOwned, Span
<1> QED
  BY <1>5, <1>6 DEF Owned

(* A step that opens, writes and renames no file leaves each to its writer.  *)
LEMMA OtherOwned ==
  ASSUME Owned, UNCHANGED <<tmp, closed>>, journal \subseteq journal',
         \A n \in DOMAIN closed : (\E e \in journal : e.seq = n.hi) => Span(n)' = Span(n),
         \A q \in Procs : fd[q] # "none" =>
           page'[q] = page[q] /\ left'[q] = left[q] /\ fd'[q] = fd[q],
         \A q \in Procs : pc'[q] \in {"write", "rename"} =>
           pc[q] \in {"write", "rename"} /\ page'[q] = page[q]
  PROVE  Owned'
<1>1. ASSUME NEW q \in Procs, NEW n, NEW missing, NEW kind \in {"tmp", "closed"},
             Completes(q, n, kind, missing)
      PROVE  fd'[q] = kind /\ NameOf(page'[q]) = n /\ missing \subseteq left'[q]
  <2>1. fd[q] = kind /\ fd[q] # "none"
    BY <1>1 DEF Completes
  <2>2. page'[q] = page[q] /\ left'[q] = left[q] /\ fd'[q] = fd[q]
    BY <2>1
  <2> QED
    BY <1>1, <2>1, <2>2 DEF Completes
<1>2. TmpOwned'
  <2> SUFFICES ASSUME NEW m \in DOMAIN tmp, NEW r \in Procs,
                      pc'[r] \in {"write", "rename"}, NameOf(page'[r]) = m
               PROVE  /\ tmp[m].lines \subseteq page'[r]
                      /\ \/ tmp[m].lines = page'[r]
                         \/ \E q \in Procs : Completes(q, m, "tmp", page[r] \ tmp[m].lines)'
    BY DEF TmpOwned
  <2>1. pc[r] \in {"write", "rename"} /\ page'[r] = page[r] /\ NameOf(page[r]) = m
    OBVIOUS
  <2>2. /\ tmp[m].lines \subseteq page[r]
        /\ \/ tmp[m].lines = page[r]
           \/ \E q \in Procs : Completes(q, m, "tmp", page[r] \ tmp[m].lines)
    BY <2>1 DEF Owned, TmpOwned
  <2>3. ASSUME NEW q \in Procs, Completes(q, m, "tmp", page[r] \ tmp[m].lines)
        PROVE  Completes(q, m, "tmp", page[r] \ tmp[m].lines)'
    BY <1>1, <2>1, <2>3 DEF Completes
  <2> QED
    BY <2>1, <2>2, <2>3
<1>3. ClosedOwned'
  <2> SUFFICES ASSUME NEW m \in DOMAIN closed
               PROVE  /\ \E e \in journal' : e.seq = m.hi
                      /\ closed[m].lines \subseteq Span(m)'
                      /\ \/ closed[m].lines = Span(m)'
                         \/ \E q \in Procs : Completes(q, m, "closed", Span(m) \ closed[m].lines)'
    BY DEF ClosedOwned
  <2>1. /\ \E e \in journal : e.seq = m.hi
        /\ closed[m].lines \subseteq Span(m)
        /\ \/ closed[m].lines = Span(m)
           \/ \E q \in Procs : Completes(q, m, "closed", Span(m) \ closed[m].lines)
    BY DEF Owned, ClosedOwned
  <2>2. Span(m)' = Span(m)
    BY <2>1
  <2>3. ASSUME NEW q \in Procs, Completes(q, m, "closed", Span(m) \ closed[m].lines)
        PROVE  Completes(q, m, "closed", Span(m) \ closed[m].lines)'
    BY <1>1, <2>2, <2>3 DEF Completes
  <2> QED
    BY <2>1, <2>2, <2>3
<1> QED
  BY <1>2, <1>3 DEF Owned

(* What one of its writers adds to a file, none of them lacks any more; and  *)
(* who syncs has nothing left to write.                                      *)
LEMMA WriteOwned ==
  ASSUME TypeInv, LockInv, JournalInv, Owned, NEW p \in Procs, WriteLine(p) \/ Sync(p)
  PROVE  Owned'
<1> DEFINE n == NameOf(page[p])
<1>a. Types
  BY TypeParts
<1>1. pc[p] = "write" /\ UNCHANGED <<page, journal>> /\ pc'[p] \in {"write", "rename"}
  BY <1>a DEF WriteLine, Sync, Goto, Types, ProcTypes
<1>2. \A q \in Procs : q # p => pc'[q] = pc[q] /\ left'[q] = left[q] /\ fd'[q] = fd[q]
  <2>1. ~Rename(p)
    BY <1>1 DEF Rename
  <2> QED
    BY <2>1, OthersStay, FdsStay DEF Step
<1>3. PICK file \in FileData, new \in SUBSET left[p] :
             /\ SetFile(p, file) /\ file.lines = FileOf(p).lines \cup new
             /\ left'[p] = left[p] \ new
             /\ fd'[p] = fd[p] \/ left[p] = {}
  <2>1. CASE WriteLine(p)
    <3>1. PICK e \in left[p], file \in FileData :
                 /\ SetFile(p, file) /\ file.lines = FileOf(p).lines \cup {e}
                 /\ left'[p] = left[p] \ {e}
      BY <2>1, WriteOf
    <3>2. {e} \in SUBSET left[p] /\ fd'[p] = fd[p]
      BY <2>1 DEF WriteLine
    <3> QED
      BY <3>1, <3>2
  <2>2. CASE Sync(p)
    <3>1. PICK file \in FileData : SetFile(p, file) /\ file.lines = FileOf(p).lines
      BY <2>2, SyncOf
    <3>2. {} \in SUBSET left[p] /\ left'[p] = left[p] \ {} /\ left[p] = {}
          /\ file.lines = FileOf(p).lines \cup {}
      BY <2>2, <3>1 DEF Sync
    <3> QED
      BY <3>1, <3>2
  <2> QED
    BY <2>1, <2>2
<1>4. left[p] \subseteq page[p]
  BY <1>a DEF Types, PageTypes
<1>5. /\ tmp' = IF fd[p] = "tmp" THEN Put(tmp, n, file) ELSE tmp
      /\ closed' = IF fd[p] = "closed" THEN Put(closed, n, file) ELSE closed
      /\ fd[p] = "tmp" => n \in DOMAIN tmp /\ FileOf(p) = tmp[n]
      /\ fd[p] = "closed" => n \in DOMAIN closed /\ FileOf(p) = closed[n]
  BY <1>3, <1>a DEF SetFile, FileOf, Types, OpenTypes
<1> HIDE DEF n
<1>6. /\ DOMAIN tmp' = DOMAIN tmp /\ \A m \in DOMAIN tmp : m # n => tmp'[m] = tmp[m]
      /\ fd[p] = "tmp" => n \in DOMAIN tmp /\ tmp'[n].lines = tmp[n].lines \cup new
      /\ fd[p] # "tmp" => tmp' = tmp
  BY <1>3, <1>5 DEF Put
<1>7. /\ DOMAIN closed' = DOMAIN closed /\ \A m \in DOMAIN closed : m # n => closed'[m] = closed[m]
      /\ fd[p] = "closed" => n \in DOMAIN closed /\ closed'[n].lines = closed[n].lines \cup new
      /\ fd[p] # "closed" => closed' = closed
  BY <1>3, <1>5 DEF Put
<1>8. ASSUME NEW q \in Procs, NEW m, NEW missing, NEW kind \in {"tmp", "closed"},
             Completes(q, m, kind, missing), q # p \/ fd'[p] = fd[p]
      PROVE  /\ fd'[q] = kind /\ NameOf(page'[q]) = m
             /\ q # p => missing \subseteq left'[q]
             /\ q = p => m = n /\ fd[p] = kind /\ missing \ new \subseteq left'[q]
  BY <1>1, <1>2, <1>3, <1>8 DEF Completes, n
<1>9. TmpOwned'
  <2> SUFFICES ASSUME NEW m \in DOMAIN tmp, NEW r \in Procs,
                      pc'[r] \in {"write", "rename"}, NameOf(page[r]) = m
               PROVE  /\ tmp'[m].lines \subseteq page[r]
                      /\ \/ tmp'[m].lines = page[r]
                         \/ \E q \in Procs : Completes(q, m, "tmp", page[r] \ tmp[m].lines)'
    BY <1>1, <1>6 DEF TmpOwned
  <2>1. pc[r] \in {"write", "rename"}
    BY <1>1, <1>2
  <2>2. /\ tmp[m].lines \subseteq page[r]
        /\ \/ tmp[m].lines = page[r]
           \/ \E q \in Procs : Completes(q, m, "tmp", page[r] \ tmp[m].lines)
    BY <2>1 DEF Owned, TmpOwned
  <2>3. m = n => page[r] = page[p]
    BY <1>1, <2>1, SamePage DEF n
  <2>4. \/ tmp'[m] = tmp[m] /\ (m # n \/ fd[p] # "tmp")
        \/ m = n /\ fd[p] = "tmp" /\ tmp'[m].lines = tmp[m].lines \cup new
    BY <1>6
  <2>5. tmp'[m].lines \subseteq page[r] /\ tmp[m].lines \subseteq tmp'[m].lines
    BY <1>3, <1>4, <2>2, <2>3, <2>4
  <2>6. CASE tmp[m].lines = page[r]
    BY <2>5, <2>6
  <2>7. ASSUME NEW q \in Procs, Completes(q, m, "tmp", page[r] \ tmp[m].lines)
        PROVE  \/ tmp'[m].lines = page[r]
               \/ Completes(q, m, "tmp", page[r] \ tmp[m].lines)'
    <3>1. CASE q # p \/ fd'[p] = fd[p]
      <4>1. /\ fd'[q] = "tmp" /\ NameOf(page'[q]) = m
            /\ q # p => page[r] \ tmp[m].lines \subseteq left'[q]
            /\ q = p => m = n /\ fd[p] = "tmp" /\ (page[r] \ tmp[m].lines) \ new \subseteq left'[q]
        BY <1>8, <2>7, <3>1
      <4>2. page[r] \ tmp'[m].lines \subseteq left'[q]
        BY <2>4, <2>5, <4>1
      <4> QED
        BY <1>1, <4>1, <4>2 DEF Completes
    <3>2. CASE left[p] = {} /\ q = p
      BY <2>2, <2>5, <2>7, <3>2 DEF Completes
    <3> QED
      BY <1>3, <3>1, <3>2
  <2> QED
    BY <2>2, <2>5, <2>6, <2>7
<1>10. ClosedOwned'
  <2> SUFFICES ASSUME NEW m \in DOMAIN closed
               PROVE  /\ \E e \in journal : e.seq = m.hi
                      /\ closed'[m].lines \subseteq Span(m)
                      /\ \/ closed'[m].lines = Span(m)
                         \/ \E q \in Procs : Completes(q, m, "closed", Span(m) \ closed[m].lines)'
    BY <1>1, <1>7 DEF ClosedOwned, Span
  <2>1. /\ \E e \in journal : e.seq = m.hi
        /\ closed[m].lines \subseteq Span(m)
        /\ \/ closed[m].lines = Span(m)
           \/ \E q \in Procs : Completes(q, m, "closed", Span(m) \ closed[m].lines)
    BY DEF Owned, ClosedOwned
  <2>2. \/ closed'[m] = closed[m] /\ (m # n \/ fd[p] # "closed")
        \/ m = n /\ fd[p] = "closed" /\ closed'[m].lines = closed[m].lines \cup new
    BY <1>7
  <2>3. fd[p] = "closed" => page[p] = Span(n)
    <3>1. fd[p] = "closed" => Drains(p)
      BY <1>1, <1>a DEF Drains, Holding, JournalInv, EmitsToTmp, Types, ProcTypes
    <3> QED
      BY <3>1 DEF JournalInv, PagesWhole, n
  <2>4. closed'[m].lines \subseteq Span(m) /\ closed[m].lines \subseteq closed'[m].lines
    BY <1>3, <1>4, <2>1, <2>2, <2>3
  <2>5. CASE closed[m].lines = Span(m)
    BY <2>4, <2>5
  <2>6. ASSUME NEW q \in Procs, Completes(q, m, "closed", Span(m) \ closed[m].lines)
        PROVE  \/ closed'[m].lines = Span(m)
               \/ Completes(q, m, "closed", Span(m) \ closed[m].lines)'
    <3>1. CASE q # p \/ fd'[p] = fd[p]
      <4>1. /\ fd'[q] = "closed" /\ NameOf(page'[q]) = m
            /\ q # p => Span(m) \ closed[m].lines \subseteq left'[q]
            /\ q = p => /\ m = n /\ fd[p] = "closed"
                        /\ (Span(m) \ closed[m].lines) \ new \subseteq left'[q]
        BY <1>8, <2>6, <3>1
      <4>2. Span(m)' \ closed'[m].lines \subseteq left'[q]
        <5>1. Span(m)' = Span(m)
          BY <1>1 DEF Span
        <5> QED
          BY <2>2, <2>4, <4>1, <5>1
      <4> QED
        BY <4>1, <4>2 DEF Completes
    <3>2. CASE left[p] = {} /\ q = p
      BY <2>1, <2>4, <2>6, <3>2 DEF Completes
    <3> QED
      BY <1>3, <3>1, <3>2
  <2> QED
    BY <2>1, <2>4, <2>5, <2>6
<1> QED
  BY <1>9, <1>10 DEF Owned

(* A rename that comes before the file is whole moves its last writer along. *)
LEMMA RenameOwned ==
  ASSUME TypeInv, LockInv, JournalInv, Owned, NEW p \in Procs, Rename(p)
  PROVE  Owned'
<1>a. Types
  BY TypeParts
<1>n. PICK n : n = NameOf(page[p])
  OBVIOUS
<1> DEFINE Moved(q) == fd[q] # "none" /\ NameOf(page[q]) = n
<1>1. /\ pc[p] = "rename" /\ n \in DOMAIN tmp
      /\ closed' = Put(closed, n, tmp[n]) /\ tmp' = Drop(tmp, n)
      /\ fd' = [q \in Procs |-> IF ~Moved(q) THEN fd[q]
                                ELSE IF fd[q] = "tmp" THEN "closed" ELSE "gone"]
      /\ journal' = journal \cup page[p] /\ pc'[p] = "syncdir"
      /\ UNCHANGED <<box, page, left>>
  BY <1>a, <1>n DEF Rename, Goto, sqlVars, Types, ProcTypes
<1>2. /\ \A q \in Procs : fd[q] = "tmp" /\ NameOf(page[q]) = n => fd'[q] = "closed"
      /\ \A q \in Procs : NameOf(page[q]) # n => fd'[q] = fd[q]
  BY <1>1
<1>3. \A q \in Procs : q # p => pc'[q] = pc[q]
  BY OthersStay DEF Step
<1>4. /\ page[p] \in SUBSET Event /\ IsFiniteSet(page[p]) /\ page[p] # {} /\ Holding(p)
      /\ \A e \in journal : e.seq \in Nat
  BY <1>a, <1>1 DEF Types, SqlTypes, ProcTypes, PageTypes, Holding, Event
<1>5. /\ \A e \in page[p] : n.lo <= e.seq /\ e.seq <= n.hi
      /\ \E e \in page[p] : e.seq = n.lo
      /\ \E e \in page[p] : e.seq = n.hi
  BY <1>4, <1>n, NameOfPage
<1> HIDE DEF Moved
<1>6. page[p] = Span(n)'
  <2>1. CASE phase[p] = "drain"
    <3>1. page[p] = Span(n)
      BY <1>4, <1>n, <2>1 DEF JournalInv, PagesWhole, Drains
    <3>2. journal' = journal
      BY <1>1, <3>1 DEF Span
    <3> QED
      BY <3>1, <3>2 DEF Span
  <2>2. CASE phase[p] = "emit"
    <3>1. \A e \in page[p] : \A d \in journal : d.seq < e.seq
      BY <1>1, <1>4, <2>2 DEF JournalInv, EmitsNew, Emits
    <3>2. \A d \in journal : ~(n.lo <= d.seq)
      <4>1. PICK e \in page[p] : e.seq = n.lo
        BY <1>5
      <4> QED
        BY <1>4, <3>1, <4>1 DEF Event
    <3> QED
      BY <1>1, <1>5, <3>2 DEF Span
  <2> QED
    BY <1>a, <2>1, <2>2 DEF Types, ProcTypes
<1>7. TmpOwned'
  <2> SUFFICES ASSUME NEW m \in DOMAIN tmp', NEW r \in Procs,
                      pc'[r] \in {"write", "rename"}, NameOf(page[r]) = m
               PROVE  /\ tmp'[m].lines \subseteq page[r]
                      /\ \/ tmp'[m].lines = page[r]
                         \/ \E q \in Procs : Completes(q, m, "tmp", page[r] \ tmp[m].lines)'
    BY <1>1 DEF TmpOwned
  <2>1. m # n /\ m \in DOMAIN tmp /\ tmp'[m] = tmp[m] /\ pc[r] \in {"write", "rename"}
    BY <1>1, <1>3 DEF Drop
  <2>2. ASSUME NEW q \in Procs, Completes(q, m, "tmp", page[r] \ tmp[m].lines)
        PROVE  Completes(q, m, "tmp", page[r] \ tmp[m].lines)'
    BY <1>1, <1>2, <2>1, <2>2 DEF Completes
  <2> QED
    BY <2>1, <2>2 DEF Owned, TmpOwned
<1>8. ClosedOwned'
  <2> SUFFICES ASSUME NEW m \in DOMAIN closed'
               PROVE  /\ \E e \in journal' : e.seq = m.hi
                      /\ closed'[m].lines \subseteq Span(m)'
                      /\ \/ closed'[m].lines = Span(m)'
                         \/ \E q \in Procs : Completes(q, m, "closed", Span(m) \ closed[m].lines)'
    BY DEF ClosedOwned
  <2>1. CASE m = n
    <3>1. closed'[m] = tmp[n]
      BY <1>1, <2>1 DEF Put
    <3>2. /\ tmp[n].lines \subseteq page[p]
          /\ \/ tmp[n].lines = page[p]
             \/ \E q \in Procs : Completes(q, n, "tmp", page[p] \ tmp[n].lines)
      BY <1>1, <1>n DEF Owned, TmpOwned
    <3>3. ASSUME NEW q \in Procs, Completes(q, n, "tmp", page[p] \ tmp[n].lines)
          PROVE  Completes(q, m, "closed", Span(m) \ closed[m].lines)'
      BY <1>1, <1>2, <1>6, <2>1, <3>1, <3>3 DEF Completes
    <3> QED
      BY <1>1, <1>5, <1>6, <2>1, <3>1, <3>2, <3>3
  <2>2. CASE m # n
    <3>1. m \in DOMAIN closed /\ closed'[m] = closed[m]
      BY <1>1, <2>2 DEF Put
    <3>2. /\ \E e \in journal : e.seq = m.hi
          /\ closed[m].lines \subseteq Span(m)
          /\ \/ closed[m].lines = Span(m)
             \/ \E q \in Procs : Completes(q, m, "closed", Span(m) \ closed[m].lines)
      BY <3>1 DEF Owned, ClosedOwned
    <3>3. Span(m)' = Span(m)
      <4>1. [Next]_vars
        BY DEF Next, Step
      <4>2. PICK new \in SUBSET Event :
                   journal' = journal \cup new /\ \A e \in new : \A d \in journal : d.seq < e.seq
        BY <4>1, NewEvents
      <4> QED
        BY <3>1, <3>2, <4>2, SpansStay
    <3>4. ASSUME NEW q \in Procs, Completes(q, m, "closed", Span(m) \ closed[m].lines)
          PROVE  Completes(q, m, "closed", Span(m) \ closed[m].lines)'
      BY <1>1, <1>2, <2>2, <3>1, <3>3, <3>4 DEF Completes
    <3> QED
      BY <1>1, <3>1, <3>2, <3>3, <3>4
  <2> QED
    BY <2>1, <2>2
<1> QED
  BY <1>7, <1>8 DEF Owned

(* While nobody dies, every file has a writer or is whole. *)
LEMMA OwnedStep ==
  ASSUME MaxDeaths = 0, TypeInv, LockInv, JournalInv, Owned, [Next]_vars
  PROVE  Owned'
<1>a. Types
  BY TypeParts
<1>1. PICK new \in SUBSET Event :
             journal' = journal \cup new /\ \A e \in new : \A d \in journal : d.seq < e.seq
  BY NewEvents
<1>2. /\ journal \subseteq journal'
      /\ \A n \in DOMAIN closed : (\E e \in journal : e.seq = n.hi) => Span(n)' = Span(n)
  BY <1>1, SpansStay
<1>3. CASE Utility \/ UNCHANGED vars
  <2>1. UNCHANGED <<spoolVars, procVars>>
    BY <1>3 DEF Utility, Write, MissedWrite, BreakFeed, RepairFeed, vars
  <2> QED
    BY <1>2, <2>1, OtherOwned DEF spoolVars, procVars
<1>4. ASSUME NEW p \in Procs,
             \/ StartDrain(p) \/ Fetch(p) \/ Emit(p) \/ CommitSnapshot(p) \/ SyncDir(p)
             \/ Delete(p) \/ RenameFails(p)
             \/ \E min \in MinSeqs, allowLarge \in BOOLEAN : StartSnapshot(p, min, allowLarge)
      PROVE  Owned'
  <2>1. UNCHANGED <<tmp, closed>> /\ pc[p] # "write"
    BY <1>4 DEF StartDrain, StartSnapshot, MayStart, Fetch, Emit, CommitSnapshot, SyncDir, Delete,
                RenameFails, Abandon, spoolVars
  <2>2. \E label : label \notin {"write", "rename"} /\ pc' = [pc EXCEPT ![p] = label]
    BY <1>4 DEF StartDrain, StartSnapshot, Fetch, Emit, CommitSnapshot, SyncDir, Delete,
                EndDrain, RenameFails, Abandon, Stop, Goto
  <2>3. fd[p] = "none" /\ pc'[p] \notin {"write", "rename"}
    BY <1>a, <2>1, <2>2 DEF Types, ProcTypes, PageTypes
  <2>4. ~Rename(p)
    BY <1>a, <2>3, <1>4, <2>1 DEF Rename, Goto, StartDrain, StartSnapshot, MayStart, Fetch, Emit,
       CommitSnapshot, SyncDir, Delete, RenameFails
  <2>5. \A q \in Procs : q # p => /\ pc'[q] = pc[q] /\ page'[q] = page[q]
                                /\ left'[q] = left[q] /\ fd'[q] = fd[q]
    BY <1>4, <2>4, OthersStay, FdsStay DEF Step
  <2> QED
    BY <1>2, <2>1, <2>3, <2>5, OtherOwned
<1>5. ASSUME PowerLoss \/ \E p \in Procs : Die(p) PROVE FALSE
  BY <1>a, <1>5 DEF PowerLoss, Die, CountDeath, Types, SqlTypes
<1> QED
  BY <1>3, <1>4, <1>5, OpenOwned, WriteOwned, RenameOwned DEF Next, Step

(* Who rests has nothing left to write. *)
LEMMA WholeNow ==
  ASSUME Owned, TypeInv, \A p \in Procs : pc[p] = "idle", NEW n \in DOMAIN closed
  PROVE  closed[n].lines = Span(n)
<1>1. \A q \in Procs : fd[q] = "none"
  BY TypeParts DEF Types, ProcTypes, PageTypes
<1> QED
  BY <1>1 DEF Owned, ClosedOwned, Completes

(* Overlapping processes that do not fail leave whole files behind: the one  *)
(* that finishes last completes what the other published too early.          *)
THEOREM WholeWhenAtRest ==
  ASSUME MaxDeaths = 0
  PROVE  Spec => []WholeAtRest
<1>1. Spec => []JournalSafe
  BY JournalSafeAlways DEF NoneFailsLate
<1>2. Owned /\ JournalSafe /\ [Next]_vars => Owned'
  BY OwnedStep DEF JournalSafe
<1>3. Owned /\ JournalSafe => WholeAtRest
  BY WholeNow DEF WholeAtRest, ClosedComplete, Span, JournalSafe
<1> QED
  BY <1>1, <1>2, <1>3, OwnedInit, PTL DEF Spec
-----------------------------------------------------------------------------
(***************************************************************************)
(* What overlapping collectors delete from the outbox is in the name of a    *)
(* closed file, and so, once they rest, in the file.                         *)
(***************************************************************************)

Spanned(e) == \E n \in DOMAIN closed : e \in Span(n)

GoneSpanned == \A e \in journal : e \in tx.rows \/ Spanned(e)
SpansInOrder == \A d, e \in journal : Spanned(e) /\ d.seq < e.seq => Spanned(d)
HandClosed ==
  \A p \in Procs : pc[p] \in {"syncdir", "delete"} => NameOf(page[p]) \in DOMAIN closed

SpanInv == GoneSpanned /\ SpansInOrder /\ HandClosed

(* An empty journal. *)
LEMMA SpanInvInit == Init => SpanInv
BY DEF Init, SpanInv, GoneSpanned, SpansInOrder, HandClosed

(* Only a rename, or a drain with no rename left to do, gets behind it.      *)
LEMMA HandClosedStep ==
  ASSUME TypeInv, HandClosed, [Next]_vars, DOMAIN closed \subseteq DOMAIN closed'
  PROVE  HandClosed'
<1> SUFFICES ASSUME NEW q \in Procs, pc'[q] \in {"syncdir", "delete"}
             PROVE  NameOf(page'[q]) \in DOMAIN closed'
  BY DEF HandClosed
<1>a. Types
  BY TypeParts
<1>1. CASE pc'[q] = pc[q] /\ page'[q] = page[q]
  BY <1>1 DEF HandClosed
<1>2. CASE Rename(q)
  BY <1>2 DEF Rename, Put
<1>3. CASE SyncDir(q)
  BY <1>3 DEF SyncDir, HandClosed
<1>4. CASE Utility \/ UNCHANGED vars
  <2>1. UNCHANGED procVars
    BY <1>4 DEF Utility, Write, MissedWrite, BreakFeed, RepairFeed, vars
  <2> QED
    BY <1>1, <2>1 DEF procVars
<1>5. CASE PowerLoss
  BY <1>5 DEF PowerLoss
<1>6. ASSUME NEW p \in Procs, p # q,
             \/ StartDrain(p) \/ Step(p) \/ Die(p)
             \/ \E min \in MinSeqs, allowLarge \in BOOLEAN : StartSnapshot(p, min, allowLarge)
      PROVE  pc'[q] = pc[q] /\ page'[q] = page[q]
  BY <1>6, OthersStay
<1>7. CASE \/ StartDrain(q) \/ Fetch(q) \/ Emit(q) \/ CommitSnapshot(q) \/ Open(q) \/ Sync(q)
           \/ Delete(q) \/ RenameFails(q) \/ Die(q)
           \/ \E min \in MinSeqs, allowLarge \in BOOLEAN : StartSnapshot(q, min, allowLarge)
  <2>1. \E label \in {"idle", "fetch", "open", "write", "rename", "emit", "commit"} :
          pc' = [pc EXCEPT ![q] = label]
    BY <1>7 DEF StartDrain, StartSnapshot, Fetch, Emit, CommitSnapshot, Open, Sync, Delete,
                EndDrain, RenameFails, Die, Abandon, Stop, Goto
  <2>2. pc'[q] \notin {"syncdir", "delete"}
    BY <1>a, <2>1 DEF Types, ProcTypes
  <2> QED
    BY <2>2
<1>8. CASE WriteLine(q)
  BY <1>1, <1>8 DEF WriteLine
<1> QED
  BY <1>1, <1>2, <1>3, <1>4, <1>5, <1>6, <1>7, <1>8 DEF Next, Step

(* A page that is renamed has, with the closed files, all that is before it. *)
LEMMA RenameSpans ==
  ASSUME TypeInv, LockInv, JournalInv, Owned, SpanInv, [Next]_vars, NEW p \in Procs, Rename(p)
  PROVE  GoneSpanned' /\ SpansInOrder'
<1>n. PICK n : n = NameOf(page[p])
  OBVIOUS
<1>a. Types
  BY TypeParts
<1>b. \A e \in journal : e.seq \in Nat
  BY <1>a DEF Types, SqlTypes, Event
<1>1. /\ pc[p] = "rename" /\ journal' = journal \cup page[p] /\ UNCHANGED tx
      /\ DOMAIN closed' = DOMAIN closed \cup {n}
  BY <1>n DEF Rename, Put, sqlVars
<1>2. /\ Holding(p) /\ page[p] \in SUBSET Event /\ IsFiniteSet(page[p]) /\ page[p] # {}
  BY <1>a, <1>1 DEF Types, ProcTypes, PageTypes, Holding
<1>3. page[p] \subseteq Span(n)'
  BY <1>n, <1>1, <1>2, NameOfPage DEF Span
<1>4. PICK new \in SUBSET Event :
             journal' = journal \cup new /\ \A e \in new : \A d \in journal : d.seq < e.seq
  BY NewEvents
<1>5. \A m \in DOMAIN closed : Span(m)' = Span(m)
  BY <1>4, SpansStay DEF Owned, ClosedOwned
<1>6. \A e : Spanned(e) \/ e \in page[p] => Spanned(e)'
  BY <1>1, <1>3, <1>5 DEF Spanned
<1>7. GoneSpanned'
  BY <1>1, <1>6 DEF SpanInv, GoneSpanned
<1>8. CASE Emits(p)
  <2>1. tx.rows = {}
    BY <1>8 DEF Emits, LockInv, LockFits, PhaseFits, TxPage
  <2> QED
    BY <1>1, <1>7, <2>1 DEF GoneSpanned, SpansInOrder
<1>9. CASE Drains(p)
  <2>1. page[p] = Span(n) /\ UNCHANGED journal
    BY <1>n, <1>1, <1>9 DEF JournalInv, PagesWhole, Span
  <2>2. Span(n)' = page[p]
    BY <2>1 DEF Span
  <2> SUFFICES ASSUME NEW d \in journal, NEW e \in journal, Spanned(e)', d.seq < e.seq
               PROVE  Spanned(d)'
    BY <1>7, <2>1 DEF SpansInOrder
  <2>3. CASE Spanned(e)
    BY <1>6, <2>3 DEF SpanInv, SpansInOrder
  <2>4. CASE e \in page[p]
    <3>1. CASE d \in tx.rows
      <4>1. d \in Box(p).rows
        BY <3>1 DEF Box, LockInv, TxOfBox
      <4>2. d \in page[p]
        BY <1>b, <1>9, <2>4, <4>1 DEF LockInv, LockFits, PageLow
      <4> QED
        BY <1>6, <4>2
    <3> QED
      BY <1>6, <3>1 DEF SpanInv, GoneSpanned
  <2> QED
    BY <1>1, <1>5, <2>2, <2>3, <2>4 DEF Spanned
<1> QED
  BY <1>a, <1>2, <1>7, <1>8, <1>9 DEF Drains, Emits, Types, ProcTypes

(* What a drain deletes is the page that it has renamed. *)
LEMMA DeleteSpans ==
  ASSUME TypeInv, LockInv, JournalInv, SpanInv, NEW p \in Procs, Delete(p)
  PROVE  \A e \in tx.rows : e \in tx'.rows \/ Spanned(e)
<1> SUFFICES ASSUME NEW e \in tx.rows, e \notin tx'.rows PROVE Spanned(e)
  OBVIOUS
<1>a. Types
  BY TypeParts
<1>1. /\ pc[p] = "delete" /\ lock \in {"none", p} /\ Drains(p)
      /\ NameOf(page[p]) \in DOMAIN closed
  BY DEF Delete, Drains, Holding, LockInv, LockFits, PhaseFits, SpanInv, HandClosed
<1>2. /\ page[p] \in SUBSET Event /\ IsFiniteSet(page[p]) /\ page[p] # {}
  BY <1>a, <1>1 DEF Types, ProcTypes, PageTypes, Holding
<1>3. PICK top \in page[p] : top.seq = NameOf(page[p]).hi
  BY <1>2, NameOfPage
<1>4. tx = Box(p) /\ tx'.rows = {d \in tx.rows : d.seq > NameOf(page[p]).hi}
  <2>1. Box(p) = tx
    BY <1>1 DEF Box, LockInv, TxOfBox
  <2>2. tx' = [tx EXCEPT !.rows = {d \in @ : d.seq > NameOf(page[p]).hi}]
    BY <1>1, <2>1, CollectConstants DEF Delete, SetBox
  <2> QED
    BY <1>a, <2>1, <2>2 DEF Types, SqlTypes, Outbox
<1>5. e.seq \in Nat /\ top.seq \in Nat /\ ~(e.seq > top.seq)
  BY <1>a, <1>2, <1>3, <1>4 DEF Types, SqlTypes, Outbox, Event
<1>6. e \in page[p]
  BY <1>1, <1>3, <1>4, <1>5 DEF LockInv, LockFits, PageLow
<1> QED
  BY <1>1, <1>6 DEF JournalInv, PagesWhole, Spanned

(* While nobody dies, whatever leaves the outbox is in a closed file's name. *)
LEMMA SpanInvStep ==
  ASSUME MaxDeaths = 0, TypeInv, LockInv, JournalInv, Owned, SpanInv, [Next]_vars
  PROVE  SpanInv'
<1>a. Types
  BY TypeParts
<1>b. \A e \in journal : e.seq \in Nat
  BY <1>a DEF Types, SqlTypes, Event
<1>1. PICK new \in SUBSET Event :
             journal' = journal \cup new /\ \A e \in new : \A d \in journal : d.seq < e.seq
  BY NewEvents
<1>2. \A n \in DOMAIN closed : Span(n)' = Span(n)
  BY <1>1, SpansStay DEF Owned, ClosedOwned
<1>3. ~PowerLoss /\ \A p \in Procs : ~Die(p)
  BY <1>a DEF PowerLoss, Die, CountDeath, Types, SqlTypes
<1>4. ASSUME NEW p \in Procs, Rename(p)
      PROVE  SpanInv'
  <2>1. DOMAIN closed \subseteq DOMAIN closed'
    BY <1>4 DEF Rename, Put
  <2> QED
    BY <1>4, <2>1, RenameSpans, HandClosedStep DEF SpanInv
<1>5. ASSUME DOMAIN closed' = DOMAIN closed, GoneSpanned' PROVE SpanInv'
  <2>1. \A e : Spanned(e)' <=> Spanned(e)
    BY <1>2, <1>5 DEF Spanned
  <2>2. ASSUME NEW d \in journal', NEW e \in journal', Spanned(e)', d.seq < e.seq
        PROVE  Spanned(d)'
    <3>1. e \in journal /\ Spanned(e)
      BY <2>1, <2>2 DEF Spanned, Span
    <3>2. d \in journal
      <4>1. ASSUME d \in new PROVE FALSE
        <5>1. e.seq < d.seq /\ e.seq \in Nat /\ d.seq \in Nat
          BY <1>1, <1>b, <3>1, <4>1 DEF Event
        <5> QED
          BY <2>2, <5>1
      <4> QED
        BY <1>1, <2>2, <4>1
    <3> QED
      BY <2>1, <2>2, <3>1, <3>2 DEF SpanInv, SpansInOrder
  <2>3. SpansInOrder'
    BY <2>2 DEF SpansInOrder
  <2> QED
    BY <1>5, <2>3, HandClosedStep DEF SpanInv
<1>6. ASSUME DOMAIN closed' = DOMAIN closed, UNCHANGED journal,
             \A e \in tx.rows : e \in tx'.rows \/ Spanned(e)
      PROVE  SpanInv'
  <2>1. \A e : Spanned(e)' <=> Spanned(e)
    BY <1>2, <1>6 DEF Spanned
  <2> QED
    BY <1>5, <1>6, <2>1 DEF SpanInv, GoneSpanned
<1>7. CASE Utility \/ UNCHANGED vars
  <2>1. UNCHANGED closed /\ journal' \subseteq journal \cup tx'.rows /\ tx.rows \subseteq tx'.rows
    BY <1>7 DEF Utility, Write, MissedWrite, BreakFeed, RepairFeed, vars, sqlVars, spoolVars,
                LockInv, TxOfBox
  <2>2. \A e : Spanned(e) => Spanned(e)'
    BY <1>2, <2>1 DEF Spanned
  <2> QED
    BY <1>5, <2>1, <2>2 DEF SpanInv, GoneSpanned
<1>8. ASSUME NEW p \in Procs,
             \/ StartDrain(p) \/ Fetch(p) \/ Emit(p) \/ CommitSnapshot(p) \/ Open(p) \/ SyncDir(p)
             \/ RenameFails(p)
             \/ \E min \in MinSeqs, allowLarge \in BOOLEAN : StartSnapshot(p, min, allowLarge)
      PROVE  SpanInv'
  <2>1. UNCHANGED <<closed, journal>>
    BY <1>8 DEF StartDrain, StartSnapshot, Fetch, Emit, CommitSnapshot, Open, SyncDir,
                RenameFails, Abandon, spoolVars
  <2>2. \/ UNCHANGED tx \/ tx' = box \/ \E s : tx' = [tx EXCEPT !.seq = s]
        \/ \E s : tx' = [box EXCEPT !.seq = s]
    BY <1>8 DEF StartDrain, StartSnapshot, Fetch, Emit, CommitSnapshot, Open, SyncDir,
                RenameFails, Abandon, Rollback, sqlVars
  <2>3. tx.rows \subseteq tx'.rows
    BY <1>a, <2>2 DEF Types, SqlTypes, Outbox, LockInv, TxOfBox
  <2> QED
    BY <1>6, <2>1, <2>3
<1>9. ASSUME NEW p \in Procs, WriteLine(p) \/ Sync(p)
      PROVE  SpanInv'
  <2>1. UNCHANGED <<tx, journal>> /\ DOMAIN closed' = DOMAIN closed
    BY <1>a, <1>9 DEF WriteLine, Sync, SetFile, Put, sqlVars, Types, OpenTypes
  <2> QED
    BY <1>6, <2>1
<1>10. ASSUME NEW p \in Procs, Delete(p) PROVE SpanInv'
  BY <1>6, <1>10, DeleteSpans DEF Delete, spoolVars
<1> QED
  BY <1>3, <1>4, <1>7, <1>8, <1>9, <1>10 DEF Next, Step

(* Overlapping processes that do not fail lose nothing: once they rest, all  *)
(* the outbox no longer has is in closed files, none of it before an earlier *)
(* event of the source.                                                      *)
THEOREM KeptWhenAtRest ==
  ASSUME MaxDeaths = 0
  PROVE  Spec => []KeptAtRest
<1>1. Spec => []JournalSafe
  BY JournalSafeAlways DEF NoneFailsLate
<1>2. Owned /\ SpanInv /\ JournalSafe /\ [Next]_vars => (Owned /\ SpanInv)'
  BY OwnedStep, SpanInvStep DEF JournalSafe
<1>3. Owned /\ SpanInv /\ JournalSafe => KeptAtRest
  <2> SUFFICES ASSUME Owned, SpanInv, JournalSafe, \A p \in Procs : pc[p] = "idle"
               PROVE  NoEventLost /\ PublishedInOrder
    BY DEF KeptAtRest
  <2>1. \A n \in DOMAIN closed : closed[n].lines = Span(n)
    BY WholeNow DEF JournalSafe
  <2>2. \A e : Spanned(e) <=> e \in Published
    BY <2>1 DEF Spanned, Published
  <2>3. tx.rows \subseteq box.rows /\ Published \subseteq journal
    BY <2>1 DEF JournalSafe, LockInv, TxOfBox, Published, Span
  <2> QED
    BY <2>2, <2>3 DEF SpanInv, GoneSpanned, SpansInOrder, NoEventLost, PublishedInOrder
<1> QED
  BY <1>1, <1>2, <1>3, OwnedInit, SpanInvInit, PTL DEF Spec
=============================================================================
