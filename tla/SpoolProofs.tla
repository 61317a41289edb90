---------------------------- MODULE SpoolProofs ----------------------------
(***************************************************************************)
(* Proofs about Spool, for every set of messages, cap, mode and limit.     *)
(*                                                                         *)
(* The byte total of a table is a cardinality (Spool!ByteSet), so what     *)
(* happens to it when rows come and go follows from the library's facts    *)
(* about finite sets, with no induction over the rows.                     *)
(***************************************************************************)
EXTENDS Spool, FiniteSetTheorems, WellFoundedInduction, TLAPS

(* A well-formed table over the log l: what both the open transaction and  *)
(* the committed file satisfy.                                             *)
TableOK(l, t) ==
    /\ t \in Tables
    /\ t.live \cup t.dropped \subseteq 1 .. Len(l)
    /\ t.live \cap t.dropped = {}
    /\ t.total_bytes = BytesIn(l, t.live)
    /\ t.dropped_total = Cardinality(t.dropped)
    /\ t.dropped_bytes_total = BytesIn(l, t.dropped)
    /\ t.total_bytes <= MaxBytes
    /\ t.enqueued_total = Len(l)
    /\ t.enqueued_total
         <= Cardinality(t.live) + t.dropped_total + t.dequeued_total

(* The inductive invariant: both tables are well formed, and the committed *)
(* one differs from the open one by policy deletions only.                 *)
SpoolIInv ==
    /\ log \in Seq(Message)
    /\ held \subseteq 1 .. Len(log)
    /\ TableOK(log, view)
    /\ TableOK(log, disk)
    /\ view.live \subseteq disk.live
    /\ disk.dropped \subseteq view.dropped
    /\ view.live \cup view.dropped = disk.live \cup disk.dropped
-----------------------------------------------------------------------------
(* Facts about the byte count.                                             *)

(* A message is charged a natural number of bytes. *)
LEMMA EventBytesNat ==
    ASSUME NEW m \in Message
    PROVE  EventBytes(m) \in Nat
BY SpoolAssumption DEF EventBytes

(* The bytes of one row. *)
LEMMA BytesOne ==
    ASSUME NEW l \in Seq(Message), NEW i \in 1 .. Len(l)
    PROVE  /\ IsFiniteSet({i} \X (1 .. EventBytes(l[i])))
           /\ Cardinality({i} \X (1 .. EventBytes(l[i]))) = EventBytes(l[i])
<1> DEFINE w == EventBytes(l[i])
<1>1. w \in Nat
  BY EventBytesNat
<1> HIDE DEF w
<1>2. IsFiniteSet(1 .. w) /\ Cardinality(1 .. w) = w
  BY <1>1, FS_Interval
<1>3. IsFiniteSet({i}) /\ Cardinality({i}) = 1
  BY FS_Singleton
<1>4. /\ IsFiniteSet({i} \X (1 .. w))
      /\ Cardinality({i} \X (1 .. w)) = Cardinality({i}) * Cardinality(1 .. w)
  BY <1>2, <1>3, FS_Product, Zenon
<1>5. Cardinality({i}) * Cardinality(1 .. w) = w
  BY <1>1, <1>2, <1>3
<1> QED
  BY <1>4, <1>5 DEF w

(* A set of row ids is finite. *)
LEMMA IdsFinite ==
    ASSUME NEW l \in Seq(Message), NEW S \in SUBSET (1 .. Len(l))
    PROVE  /\ IsFiniteSet(S)
           /\ Cardinality(S) \in Nat
<1>1. Len(l) \in Int
  OBVIOUS
<1>2. IsFiniteSet(1 .. Len(l))
  BY <1>1, FS_Interval
<1> QED
  BY <1>2, FS_Subset, FS_CardinalityType

(* The byte count of a set of rows is a natural number. *)
LEMMA BytesNat ==
    ASSUME NEW l \in Seq(Message), NEW S \in SUBSET (1 .. Len(l))
    PROVE  /\ IsFiniteSet(ByteSet(l, S))
           /\ BytesIn(l, S) \in Nat
<1> DEFINE f == [i \in S |-> {i} \X (1 .. EventBytes(l[i]))]
           T == {{i} \X (1 .. EventBytes(l[i])) : i \in S}
<1>1. IsFiniteSet(S)
  BY IdsFinite
<1>2. f \in Surjection(S, T)
  BY DEF Surjection
<1>3. IsFiniteSet(T)
  <2> HIDE DEF f, T
  <2> QED BY <1>1, <1>2, FS_Surjection
<1>4. \A t \in T : IsFiniteSet(t)
  BY BytesOne
<1>5. IsFiniteSet(UNION T)
  <2> HIDE DEF T
  <2> QED BY <1>3, <1>4, FS_UNION
<1> QED
  BY <1>5, FS_CardinalityType DEF ByteSet, BytesIn

(* The bytes of two disjoint sets of rows add up. *)
LEMMA BytesDisjointUnion ==
    ASSUME NEW l \in Seq(Message),
           NEW S \in SUBSET (1 .. Len(l)), NEW T \in SUBSET (1 .. Len(l)),
           S \cap T = {}
    PROVE  BytesIn(l, S \cup T) = BytesIn(l, S) + BytesIn(l, T)
<1>1. ByteSet(l, S \cup T) = ByteSet(l, S) \cup ByteSet(l, T)
  BY DEF ByteSet
<1>2. ByteSet(l, S) \cap ByteSet(l, T) = {}
  BY DEF ByteSet
<1>3. IsFiniteSet(ByteSet(l, S)) /\ IsFiniteSet(ByteSet(l, T))
  BY BytesNat
<1>4. Cardinality(ByteSet(l, S) \cup ByteSet(l, T))
        = Cardinality(ByteSet(l, S)) + Cardinality(ByteSet(l, T)) - 0
  BY <1>2, <1>3, FS_Union, FS_EmptySet
<1>5. BytesIn(l, S) \in Nat /\ BytesIn(l, T) \in Nat
  BY BytesNat
<1>6. BytesIn(l, S \cup T) = Cardinality(ByteSet(l, S) \cup ByteSet(l, T))
  BY <1>1 DEF BytesIn
<1> DEFINE U == ByteSet(l, S) \cup ByteSet(l, T)
<1>7. Cardinality(U) = BytesIn(l, S) + BytesIn(l, T)
  <2> HIDE DEF U
  <2>1. Cardinality(U) = BytesIn(l, S) + BytesIn(l, T) - 0
    BY <1>4 DEF BytesIn, U
  <2> QED BY <2>1, <1>5
<1> QED
  BY <1>6, <1>7

(* Removing rows removes their bytes. *)
LEMMA BytesRemove ==
    ASSUME NEW l \in Seq(Message),
           NEW S \in SUBSET (1 .. Len(l)), NEW D \in SUBSET S
    PROVE  /\ BytesIn(l, S \ D) = BytesIn(l, S) - BytesIn(l, D)
           /\ BytesIn(l, D) <= BytesIn(l, S)
<1>1. (S \ D) \cup D = S /\ (S \ D) \cap D = {}
  OBVIOUS
<1>2. BytesIn(l, S) = BytesIn(l, S \ D) + BytesIn(l, D)
  BY <1>1, BytesDisjointUnion
<1>3. BytesIn(l, S) \in Nat /\ BytesIn(l, D) \in Nat /\ BytesIn(l, S \ D) \in Nat
  BY BytesNat
<1> QED
  BY <1>2, <1>3

(* Appending to the log leaves the bytes of the earlier rows alone, and    *)
(* the new row adds its own.                                               *)
LEMMA BytesAppend ==
    ASSUME NEW l \in Seq(Message), NEW m \in Message,
           NEW S \in SUBSET (1 .. Len(l))
    PROVE  /\ BytesIn(Append(l, m), S) = BytesIn(l, S)
           /\ BytesIn(Append(l, m), S \cup {Len(l) + 1})
                = BytesIn(l, S) + EventBytes(m)
<1> DEFINE k == Append(l, m)
           n == Len(l) + 1
<1>1. /\ k \in Seq(Message) /\ Len(k) = n /\ k[n] = m
      /\ \A i \in 1 .. Len(l) : k[i] = l[i]
  OBVIOUS
<1>2. ByteSet(k, S) = ByteSet(l, S)
  BY <1>1 DEF ByteSet
<1>3. ByteSet(k, {n}) = {n} \X (1 .. EventBytes(m))
  BY <1>1 DEF ByteSet
<1>4. BytesIn(k, {n}) = EventBytes(m)
  <2>1. k[n] = m /\ n \in 1 .. Len(k)
    BY <1>1
  <2>2. Cardinality({n} \X (1 .. EventBytes(k[n]))) = EventBytes(k[n])
    <3> HIDE DEF k, n
    <3> QED BY <1>1, <2>1, BytesOne
  <2> QED BY <2>1, <2>2, <1>3 DEF BytesIn
<1>5. S \in SUBSET (1 .. Len(k)) /\ {n} \in SUBSET (1 .. Len(k)) /\ S \cap {n} = {}
  BY <1>1
<1>6. BytesIn(k, S \cup {n}) = BytesIn(k, S) + BytesIn(k, {n})
  <2> HIDE DEF k, n
  <2> QED BY <1>1, <1>5, BytesDisjointUnion
<1> QED
  BY <1>2, <1>4, <1>6 DEF BytesIn
-----------------------------------------------------------------------------
(* What each operation does to a well-formed table.                        *)

(* A drop takes at most the rows present. *)
LEMMA DropSetLive ==
    ASSUME NEW m \in Message
    PROVE  DropSet(m) \subseteq view.live
BY DEF DropSet, Oldest

(* The number of drop passes is a natural number. *)
LEMMA PassesNat ==
    ASSUME NEW c \in Nat
    PROVE  (c + ScanLimit - 1) \div ScanLimit \in Nat
<1>1. c + ScanLimit - 1 \in Nat /\ ScanLimit \in Nat \ {0}
  BY SpoolAssumption
<1> QED
  BY <1>1

(* A policy drop keeps a table well formed. *)
LEMMA DropOK ==
    ASSUME log \in Seq(Message), NEW t, TableOK(log, t),
           NEW D \in SUBSET t.live
    PROVE  TableOK(log, Drop(t, D))
<1> DEFINE u == Drop(t, D)
<1>1. /\ t \in Tables
      /\ t.live \in SUBSET (1 .. Len(log))
      /\ t.dropped \in SUBSET (1 .. Len(log))
      /\ D \in SUBSET (1 .. Len(log))
      /\ t.dropped \cap D = {}
  BY DEF TableOK
<1>2. /\ Cardinality(D) \in Nat /\ IsFiniteSet(D)
      /\ Cardinality(t.live) \in Nat /\ IsFiniteSet(t.live)
      /\ Cardinality(t.dropped) \in Nat /\ IsFiniteSet(t.dropped)
  BY <1>1, IdsFinite
<1>3. /\ BytesIn(log, D) \in Nat
      /\ BytesIn(log, t.live) \in Nat
      /\ BytesIn(log, t.dropped) \in Nat
  BY <1>1, BytesNat
<1>4. /\ BytesIn(log, t.live \ D) = BytesIn(log, t.live) - BytesIn(log, D)
      /\ BytesIn(log, D) <= BytesIn(log, t.live)
  BY <1>1, BytesRemove
<1>5. BytesIn(log, t.dropped \cup D) = BytesIn(log, t.dropped) + BytesIn(log, D)
  BY <1>1, BytesDisjointUnion
<1>6. Cardinality(t.dropped \cup D) = Cardinality(t.dropped) + Cardinality(D)
  <2>1. Cardinality(t.dropped \cup D)
          = Cardinality(t.dropped) + Cardinality(D) - Cardinality(t.dropped \cap D)
    BY <1>2, FS_Union
  <2>2. Cardinality(t.dropped \cap D) = 0
    BY <1>1, FS_EmptySet
  <2> QED BY <1>2, <2>1, <2>2
<1>7. Cardinality(t.live \ D) = Cardinality(t.live) - Cardinality(D)
  <2>1. Cardinality(t.live \ D)
          = Cardinality(t.live) - Cardinality(t.live \cap D)
    BY <1>2, FS_Difference
  <2>2. t.live \cap D = D
    OBVIOUS
  <2> QED BY <2>1, <2>2
<1>8. /\ u.live = t.live \ D
      /\ u.dropped = t.dropped \cup D
      /\ u.total_bytes = Monus(t.total_bytes, BytesIn(log, D))
      /\ u.enqueued_total = t.enqueued_total
      /\ u.dequeued_total = t.dequeued_total
      /\ u.dropped_total = t.dropped_total + Cardinality(D)
      /\ u.dropped_bytes_total = t.dropped_bytes_total + BytesIn(log, D)
  BY <1>1 DEF Drop, Tables, Bytes
<1>9. u.total_bytes = BytesIn(log, t.live \ D)
  BY <1>3, <1>4, <1>8 DEF Monus, TableOK
<1>10. u \in Tables
  <2>1. (Cardinality(D) + ScanLimit - 1) \div ScanLimit \in Nat
    BY <1>2, PassesNat
  <2>2. Monus(t.total_bytes, BytesIn(log, D)) \in Nat
    BY <1>1, <1>3 DEF Monus, Tables
  <2>3. /\ t.live \in SUBSET Nat /\ t.dropped \in SUBSET Nat
        /\ D \in SUBSET Nat
        /\ t.dropped_total \in Nat /\ t.dropped_bytes_total \in Nat
        /\ t.drop_events_total \in Nat
    BY <1>1 DEF Tables
  <2> DEFINE passes == (Cardinality(D) + ScanLimit - 1) \div ScanLimit
  <2>4. /\ t.live \ D \in SUBSET Nat /\ t.dropped \cup D \in SUBSET Nat
        /\ t.dropped_total + Cardinality(D) \in Nat
        /\ t.dropped_bytes_total + BytesIn(log, D) \in Nat
    <3>1. t.live \ D \in SUBSET Nat /\ t.dropped \cup D \in SUBSET Nat
      BY <2>3
    <3>2. t.dropped_total + Cardinality(D) \in Nat
      BY <1>2, <2>3
    <3>3. t.dropped_bytes_total + BytesIn(log, D) \in Nat
      BY <1>3, <2>3
    <3> QED BY <3>1, <3>2, <3>3
  <2>5. t.drop_events_total + passes \in Nat
    <3> HIDE DEF passes
    <3>1. passes \in Nat
      BY <2>1 DEF passes
    <3> QED BY <2>3, <3>1
  <2> QED BY <1>1, <2>2, <2>4, <2>5 DEF Drop, Tables, Bytes
<1>11. u.total_bytes <= MaxBytes
  BY <1>3, <1>4, <1>9, SpoolAssumption DEF TableOK
<1> QED
  <2> HIDE DEF u
  <2>1. u.live \cup u.dropped \subseteq 1 .. Len(log) /\ u.live \cap u.dropped = {}
    BY <1>1, <1>8 DEF TableOK
  <2>2. /\ u.dropped_total = Cardinality(u.dropped)
        /\ u.dropped_bytes_total = BytesIn(log, u.dropped)
    BY <1>5, <1>6, <1>8 DEF TableOK
  <2>3. /\ u.enqueued_total = Len(log)
        /\ u.enqueued_total
             <= Cardinality(u.live) + u.dropped_total + u.dequeued_total
    <3>1. t.dropped_total \in Nat /\ t.dequeued_total \in Nat /\ t.enqueued_total \in Nat
      BY <1>1 DEF Tables
    <3> QED BY <1>2, <1>7, <1>8, <3>1 DEF TableOK
  <2>4. TableOK(log, u)
    BY <1>8, <1>9, <1>10, <1>11, <2>1, <2>2, <2>3 DEF TableOK
  <2> QED BY <2>4 DEF u

(* Inserting a message that fits keeps a table well formed. *)
LEMMA InsertOK ==
    ASSUME log \in Seq(Message), NEW t, TableOK(log, t),
           NEW m \in Message, Fits(t, m)
    PROVE  TableOK(Append(log, m), Insert(t, m))
<1> DEFINE u == Insert(t, m)
           n == Len(log) + 1
           k == Append(log, m)
<1>1. /\ t \in Tables
      /\ t.live \in SUBSET (1 .. Len(log))
      /\ t.dropped \in SUBSET (1 .. Len(log))
      /\ EventBytes(m) \in Nat
      /\ Len(log) \in Nat
  BY EventBytesNat DEF TableOK
<1>2. /\ Cardinality(t.live) \in Nat /\ IsFiniteSet(t.live)
  BY <1>1, IdsFinite
<1>3. /\ BytesIn(k, t.dropped) = BytesIn(log, t.dropped)
      /\ BytesIn(k, t.live \cup {n}) = BytesIn(log, t.live) + EventBytes(m)
  BY <1>1, BytesAppend
<1>4. Cardinality(t.live \cup {n}) = Cardinality(t.live) + 1
  <2>1. n \notin t.live
    BY <1>1
  <2> QED BY <1>2, <2>1, FS_AddElement
<1>5. Len(k) = n
  OBVIOUS
<1>6. /\ u.live = t.live \cup {n}
      /\ u.dropped = t.dropped
      /\ u.total_bytes = t.total_bytes + EventBytes(m)
      /\ u.enqueued_total = t.enqueued_total + 1
      /\ u.dequeued_total = t.dequeued_total
      /\ u.dropped_total = t.dropped_total
      /\ u.dropped_bytes_total = t.dropped_bytes_total
  BY <1>1 DEF Insert, Tables
<1>7. u \in Tables
  <2>1. t.live \cup {n} \in SUBSET Nat
    BY <1>1
  <2>2. t.total_bytes + EventBytes(m) \in Nat /\ t.enqueued_total + 1 \in Nat
    BY <1>1 DEF Tables
  <2> QED BY <1>1, <2>1, <2>2 DEF Insert, Tables
<1> QED
  <2> HIDE DEF u, k
  <2>1. u.live \cup u.dropped \subseteq 1 .. Len(k) /\ u.live \cap u.dropped = {}
    BY <1>1, <1>5, <1>6 DEF TableOK
  <2>2. u.total_bytes = BytesIn(k, u.live) /\ u.total_bytes <= MaxBytes
    BY <1>3, <1>6 DEF TableOK, Fits
  <2>3. /\ u.dropped_total = Cardinality(u.dropped)
        /\ u.dropped_bytes_total = BytesIn(k, u.dropped)
    BY <1>3, <1>6 DEF TableOK
  <2>4. /\ u.enqueued_total = Len(k)
        /\ u.enqueued_total
             <= Cardinality(u.live) + u.dropped_total + u.dequeued_total
    <3>1. t.dropped_total \in Nat /\ t.dequeued_total \in Nat /\ t.enqueued_total \in Nat
      BY <1>1 DEF Tables
    <3>2. t.enqueued_total = Len(log)
          /\ t.enqueued_total
               <= Cardinality(t.live) + t.dropped_total + t.dequeued_total
      BY DEF TableOK
    <3>3. u.enqueued_total = Len(k)
      BY <1>5, <1>6, <3>2
    <3>4. /\ u.enqueued_total = t.enqueued_total + 1
          /\ Cardinality(u.live) = Cardinality(t.live) + 1
          /\ u.dropped_total = t.dropped_total /\ u.dequeued_total = t.dequeued_total
      BY <1>4, <1>6
    <3> QED BY <1>2, <3>1, <3>2, <3>3, <3>4, SMTT(30)
  <2>5. TableOK(k, u)
    BY <1>6, <1>7, <2>1, <2>2, <2>3, <2>4 DEF TableOK
  <2> QED BY <2>5 DEF u, k

(* Releasing rows keeps the open transaction well formed, whichever of     *)
(* them are still present.                                                 *)
LEMMA ReleaseOK ==
    ASSUME log \in Seq(Message), TableOK(log, view),
           NEW ids \in SUBSET (1 .. Len(log))
    PROVE  TableOK(log, Release(ids))
<1> DEFINE u == Release(ids)
           t == view
           gone == ids \cap view.live
<1>1. /\ t \in Tables
      /\ t.live \in SUBSET (1 .. Len(log))
      /\ t.dropped \in SUBSET (1 .. Len(log))
      /\ gone \in SUBSET t.live
  BY DEF TableOK
<1>2. /\ Cardinality(ids) \in Nat /\ IsFiniteSet(ids)
      /\ Cardinality(t.live) \in Nat /\ IsFiniteSet(t.live)
  BY <1>1, IdsFinite
<1>3. BytesIn(log, gone) \in Nat /\ BytesIn(log, t.live) \in Nat
  BY <1>1, BytesNat
<1>4. /\ BytesIn(log, t.live \ gone) = BytesIn(log, t.live) - BytesIn(log, gone)
      /\ BytesIn(log, gone) <= BytesIn(log, t.live)
  BY <1>1, BytesRemove
<1>5. t.live \ ids = t.live \ gone
  OBVIOUS
<1>6. Cardinality(t.live) <= Cardinality(t.live \ ids) + Cardinality(ids)
  <2>1. /\ Cardinality(t.live \ ids)
             = Cardinality(t.live) - Cardinality(t.live \cap ids)
        /\ IsFiniteSet(t.live \ ids)
    BY <1>2, FS_Difference
  <2>2. Cardinality(t.live \cap ids) <= Cardinality(ids)
    BY <1>2, FS_Intersection
  <2>3. IsFiniteSet(t.live \cap ids)
    BY <1>2, FS_Intersection
  <2>4. Cardinality(t.live \cap ids) \in Nat
    BY <2>3, FS_CardinalityType
  <2> QED BY <1>2, <2>1, <2>2, <2>4
<1>7. /\ u.live = t.live \ ids
      /\ u.dropped = t.dropped
      /\ u.total_bytes = Monus(t.total_bytes, BytesIn(log, gone))
      /\ u.enqueued_total = t.enqueued_total
      /\ u.dequeued_total = t.dequeued_total + Cardinality(ids)
      /\ u.dropped_total = t.dropped_total
      /\ u.dropped_bytes_total = t.dropped_bytes_total
  BY <1>1 DEF Release, Tables, Bytes
<1>8. u.total_bytes = BytesIn(log, u.live)
  BY <1>3, <1>4, <1>5, <1>7 DEF Monus, TableOK
<1>9. u \in Tables
  <2>1. Monus(t.total_bytes, BytesIn(log, gone)) \in Nat
    BY <1>1, <1>3 DEF Monus, Tables
  <2>2. /\ t.live \ ids \in SUBSET Nat
        /\ t.dequeued_total + Cardinality(ids) \in Nat
    BY <1>1, <1>2 DEF Tables
  <2> QED BY <1>1, <2>1, <2>2 DEF Release, Tables, Bytes
<1> QED
  <2> HIDE DEF u
  <2>1. u.live \cup u.dropped \subseteq 1 .. Len(log) /\ u.live \cap u.dropped = {}
    BY <1>1, <1>7 DEF TableOK
  <2>2. u.total_bytes <= MaxBytes
    <3>1. t.total_bytes = BytesIn(log, t.live) /\ t.total_bytes <= MaxBytes
      BY DEF TableOK
    <3>2. u.total_bytes = BytesIn(log, t.live) - BytesIn(log, gone)
      BY <1>4, <1>5, <1>7, <1>8
    <3> HIDE DEF t, gone
    <3> QED BY <1>3, <3>1, <3>2, SpoolAssumption
  <2>3. /\ u.dropped_total = Cardinality(u.dropped)
        /\ u.dropped_bytes_total = BytesIn(log, u.dropped)
    BY <1>7 DEF TableOK
  <2>4. /\ u.enqueued_total = Len(log)
        /\ u.enqueued_total
             <= Cardinality(u.live) + u.dropped_total + u.dequeued_total
    <3>1. /\ t.dropped_total \in Nat /\ t.dequeued_total \in Nat
          /\ t.enqueued_total \in Nat
      BY <1>1 DEF Tables
    <3>2. /\ t.enqueued_total = Len(log)
          /\ t.enqueued_total
               <= Cardinality(t.live) + t.dropped_total + t.dequeued_total
      BY DEF TableOK
    <3>3. Cardinality(t.live \ ids) \in Nat
      BY <1>1, IdsFinite
    <3> HIDE DEF t
    <3>4. /\ Cardinality(ids) \in Nat
          /\ Cardinality(t.live) <= Cardinality(u.live) + Cardinality(ids)
          /\ Cardinality(t.live) \in Nat /\ Cardinality(u.live) \in Nat
      BY <1>2, <1>6, <1>7, <3>3
    <3>5. /\ u.enqueued_total = t.enqueued_total
          /\ u.dequeued_total = t.dequeued_total + Cardinality(ids)
          /\ u.dropped_total = t.dropped_total
      BY <1>7
    <3>6. u.enqueued_total <= Cardinality(t.live) + u.dropped_total + t.dequeued_total
      BY <3>2, <3>5
    <3>7. Cardinality(t.live) + u.dropped_total + t.dequeued_total
            <= Cardinality(u.live) + u.dropped_total + u.dequeued_total
      BY <3>1, <3>4, <3>5, SMTT(30)
    <3>8. u.enqueued_total \in Nat /\ u.dropped_total \in Nat /\ u.dequeued_total \in Nat
      BY <3>1, <3>4, <3>5
    <3>9. u.enqueued_total = Len(log)
      BY <3>2, <3>5
    <3>10. /\ Cardinality(u.live) \in Nat /\ Cardinality(t.live) \in Nat
           /\ t.dequeued_total \in Nat
      BY <3>1, <3>4
    <3> QED BY <3>6, <3>7, <3>8, <3>9, <3>10, SMTT(30)
  <2>5. TableOK(log, u)
    BY <1>8, <1>9, <2>1, <2>2, <2>3, <2>4 DEF TableOK
  <2> QED BY <2>5 DEF u
-----------------------------------------------------------------------------
(* The inductive invariant.                                                *)

(* What an enqueue finds after the drop passes: a well-formed table that   *)
(* differs from the one before by drops only.                              *)
LEMMA MakeRoomOK ==
    ASSUME SpoolIInv, NEW m \in Message
    PROVE  /\ TableOK(log, MakeRoom(m))
           /\ MakeRoom(m).live \subseteq view.live
           /\ view.dropped \subseteq MakeRoom(m).dropped
           /\ MakeRoom(m).live \cup MakeRoom(m).dropped
                = view.live \cup view.dropped
<1>1. CASE ~Fits(view, m) /\ DropOldest
  <2>1. MakeRoom(m) = Drop(view, DropSet(m))
    BY <1>1 DEF MakeRoom
  <2>2. DropSet(m) \in SUBSET view.live
    BY DropSetLive
  <2>3. TableOK(log, Drop(view, DropSet(m)))
    BY <2>2, DropOK DEF SpoolIInv
  <2>4. /\ Drop(view, DropSet(m)).live = view.live \ DropSet(m)
        /\ Drop(view, DropSet(m)).dropped = view.dropped \cup DropSet(m)
    BY DEF Drop, SpoolIInv, TableOK, Tables
  <2> QED BY <2>1, <2>2, <2>3, <2>4
<1>2. CASE ~(~Fits(view, m) /\ DropOldest)
  <2>1. MakeRoom(m) = view
    BY <1>2 DEF MakeRoom
  <2> QED BY <2>1 DEF SpoolIInv
<1> QED BY <1>1, <1>2

(* The empty database is well formed. *)
LEMMA SpoolInitIInv == SpoolInit => SpoolIInv
<1> SUFFICES ASSUME SpoolInit
             PROVE  SpoolIInv
  OBVIOUS
<1>1. log = << >> /\ log \in Seq(Message) /\ Len(log) = 0
  BY DEF SpoolInit
<1>2. ByteSet(log, {}) = {}
  BY DEF ByteSet
<1>3. BytesIn(log, {}) = 0 /\ Cardinality({}) = 0
  BY <1>2, FS_EmptySet DEF BytesIn
<1>4. TableOK(log, EmptyTables)
  BY <1>1, <1>3, SpoolAssumption DEF TableOK, EmptyTables, Tables
<1> QED
  BY <1>1, <1>4 DEF SpoolInit, SpoolIInv, EmptyTables

(* An enqueue, accepted or rejected, preserves it. *)
LEMMA EnqueueIInv ==
    ASSUME SpoolIInv, NEW m \in Message, Enqueue(m)
    PROVE  SpoolIInv'
<1> DEFINE r == MakeRoom(m)
<1>1. /\ TableOK(log, r)
      /\ r.live \subseteq view.live
      /\ view.dropped \subseteq r.dropped
      /\ r.live \cup r.dropped = view.live \cup view.dropped
  BY MakeRoomOK
<1>2. log \in Seq(Message) /\ held \subseteq 1 .. Len(log) /\ Len(log) \in Nat
  BY DEF SpoolIInv
<1>3. CASE EnqueueAccept(m)
  <2>1. TableOK(Append(log, m), Insert(r, m))
    <3>1. Fits(r, m)
      BY <1>3 DEF EnqueueAccept
    <3> HIDE DEF r
    <3> QED BY <1>1, <1>2, <3>1, InsertOK
  <2>2. log' = Append(log, m) /\ view' = Insert(r, m) /\ disk' = view' /\ held' = held
    BY <1>3 DEF EnqueueAccept
  <2>3. log' \in Seq(Message) /\ held' \subseteq 1 .. Len(log')
    BY <1>2, <2>2
  <2> HIDE DEF r
  <2>4. TableOK(log', view') /\ TableOK(log', disk')
    BY <2>1, <2>2
  <2> QED BY <2>2, <2>3, <2>4 DEF SpoolIInv, TableOK
<1>4. CASE EnqueueReject(m)
  <2>1. view' = r /\ log' = log /\ disk' = disk /\ held' = held
    BY <1>4 DEF EnqueueReject
  <2> HIDE DEF r
  <2> QED BY <1>1, <2>1 DEF SpoolIInv, TableOK
<1> QED
  BY <1>3, <1>4 DEF Enqueue

(* Removing a batch, in whole or in part, preserves it. *)
LEMMA CommitBatchIInv ==
    ASSUME SpoolIInv, NEW ids \in SUBSET held, CommitBatch(ids)
    PROVE  SpoolIInv'
<1>1. /\ log \in Seq(Message) /\ held \subseteq 1 .. Len(log)
      /\ TableOK(log, view) /\ ids \in SUBSET (1 .. Len(log))
  BY DEF SpoolIInv
<1>2. TableOK(log, Release(ids))
  BY <1>1, ReleaseOK
<1>3. log' = log /\ view' = Release(ids) /\ disk' = view' /\ held' = held \ ids
  BY DEF CommitBatch
<1>4. TableOK(log, view') /\ TableOK(log, disk')
  BY <1>2, <1>3
<1> QED
  BY <1>1, <1>3, <1>4 DEF SpoolIInv, TableOK

(* Every step of the spool preserves the inductive invariant. *)
LEMMA SpoolNextIInv == SpoolIInv /\ [SpoolNext]_spoolVars => SpoolIInv'
<1> SUFFICES ASSUME SpoolIInv, [SpoolNext]_spoolVars
             PROVE  SpoolIInv'
  OBVIOUS
<1>1. ASSUME NEW m \in Message, Enqueue(m)
      PROVE  SpoolIInv'
  BY <1>1, EnqueueIInv
<1>2. ASSUME NEW n \in BatchSizes, DequeueBatch(n)
      PROVE  SpoolIInv'
  BY <1>2 DEF DequeueBatch, Oldest, SpoolIInv, TableOK
<1>3. ASSUME NEW ids \in SUBSET held, CommitBatch(ids)
      PROVE  SpoolIInv'
  BY <1>3, CommitBatchIInv
<1>4. CASE Close
  BY <1>4 DEF Close, SpoolIInv, TableOK
<1>5. CASE Crash
  BY <1>5 DEF Crash, SpoolIInv, TableOK
<1>6. CASE UNCHANGED spoolVars
  BY <1>6 DEF spoolVars, SpoolIInv, TableOK
<1> QED
  BY <1>1, <1>2, <1>3, <1>4, <1>5, <1>6 DEF SpoolNext

(* The spool never leaves its inductive invariant. *)
THEOREM SpoolInvariant == SpoolSpec => []SpoolIInv
BY SpoolInitIInv, SpoolNextIInv, PTL DEF SpoolSpec
-----------------------------------------------------------------------------
(* The properties.                                                         *)

(* Row ids, tables and counters always have their types, and no row is     *)
(* both queued and dropped.                                                *)
THEOREM SpoolTypeCorrect == SpoolSpec => []SpoolTypeOK
<1>1. SpoolIInv => SpoolTypeOK
  BY DEF SpoolIInv, TableOK, SpoolTypeOK
<1> QED
  BY <1>1, SpoolInvariant, PTL

(* The running totals in spool_meta match the rows for good, in the open   *)
(* transaction and in the file a restart finds: enqueue() may trust        *)
(* total_bytes when it decides whether a message fits.                     *)
THEOREM SpoolTotals == SpoolSpec => []TotalsMatchRows
<1>1. SpoolIInv => TotalsMatchRows
  BY DEF SpoolIInv, TableOK, TotalsMatchRows, Bytes
<1> QED
  BY <1>1, SpoolInvariant, PTL

(* The rows never exceed SPOOL_MAX_BYTES, for any message sizes, scan      *)
(* limit and number of passes.                                             *)
THEOREM SpoolCap == SpoolSpec => []CapRespected
<1>1. SpoolIInv => CapRespected
  BY DEF SpoolIInv, TableOK, CapRespected, Bytes
<1> QED
  BY <1>1, SpoolInvariant, PTL

(* The counters of spool_meta never miss a message. *)
THEOREM SpoolCounters == SpoolSpec => []CountersCoverAll
<1>1. SpoolIInv => CountersCoverAll
  BY DEF SpoolIInv, TableOK, CountersCoverAll
<1> QED
  BY <1>1, SpoolInvariant, PTL

(* The totals and counters of spool_meta may be trusted. *)
THEOREM SpoolBooks == SpoolSpec => []BooksBalance
BY SpoolTotals, SpoolCounters, PTL DEF BooksBalance

(* A rollback can undo policy deletions only. *)
THEOREM SpoolUncommitted == SpoolSpec => []OnlyDropsUncommitted
<1>1. SpoolIInv => OnlyDropsUncommitted
  BY DEF SpoolIInv, OnlyDropsUncommitted, Released
<1> QED
  BY <1>1, SpoolInvariant, PTL

(* A released row stays released, through every crash and rollback. *)
THEOREM SpoolReleasedForGood == SpoolSpec => ReleasedForGood
<1>1. SpoolIInv /\ [SpoolNext]_spoolVars
        => [Released(view) \subseteq Released(view)']_spoolVars
  <2> SUFFICES ASSUME SpoolIInv, [SpoolNext]_spoolVars
               PROVE  Released(view) \subseteq Released(view)'
    OBVIOUS
  <2>0. /\ log \in Seq(Message) /\ Len(log) \in Nat
        /\ view.live \cup view.dropped = disk.live \cup disk.dropped
    BY DEF SpoolIInv
  <2>1. ASSUME NEW m \in Message, Enqueue(m)
        PROVE  Released(view) \subseteq Released(view)'
    <3>1. MakeRoom(m).live \cup MakeRoom(m).dropped = view.live \cup view.dropped
      BY MakeRoomOK
    <3>2. CASE EnqueueReject(m)
      BY <3>1, <3>2 DEF EnqueueReject, Released
    <3>3. CASE EnqueueAccept(m)
      <4>1. MakeRoom(m) \in Tables
        BY MakeRoomOK DEF TableOK
      <4>2. /\ view'.live = MakeRoom(m).live \cup {Len(log) + 1}
            /\ view'.dropped = MakeRoom(m).dropped
        BY <3>3, <4>1 DEF EnqueueAccept, Insert, Tables
      <4>3. Len(log') = Len(log) + 1
        BY <3>3, <2>0 DEF EnqueueAccept
      <4> QED BY <3>1, <4>2, <4>3, <2>0 DEF Released
    <3> QED BY <2>1, <3>2, <3>3 DEF Enqueue
  <2>2. ASSUME NEW n \in BatchSizes, DequeueBatch(n)
        PROVE  Released(view) \subseteq Released(view)'
    BY <2>2 DEF DequeueBatch, Released
  <2>3. ASSUME NEW ids \in SUBSET held, CommitBatch(ids)
        PROVE  Released(view) \subseteq Released(view)'
    BY <2>3 DEF CommitBatch, Release, Released, SpoolIInv, TableOK, Tables
  <2>4. CASE Close
    BY <2>0, <2>4 DEF Close, Released
  <2>5. CASE Crash
    BY <2>0, <2>5 DEF Crash, Released
  <2>6. CASE UNCHANGED spoolVars
    BY <2>6 DEF spoolVars, Released
  <2> QED
    BY <2>1, <2>2, <2>3, <2>4, <2>5, <2>6 DEF SpoolNext
<1> QED
  BY <1>1, SpoolInvariant, PTL DEF SpoolSpec, ReleasedForGood

(* The rows a drop takes are older than every row it leaves. *)
LEMMA DropSetOldest ==
    ASSUME SpoolIInv, NEW m \in Message,
           NEW i \in DropSet(m), NEW j \in view.live \ DropSet(m)
    PROVE  i < j
<1> DEFINE scan == Oldest(view.live, DropPasses * ScanLimit)
           Room(x) == Monus(view.total_bytes, Bytes({y \in scan : y <= x}))
                        + EventBytes(m) <= MaxBytes
<1>1. /\ view.live \in SUBSET (1 .. Len(log)) /\ log \in Seq(Message)
      /\ view.live \subseteq Nat
  BY DEF SpoolIInv, TableOK
<1>2. DropSet(m) = {x \in scan : \A y \in scan : y < x => ~Room(y)}
  BY DEF DropSet
<1>3. i \in scan /\ i \in view.live /\ i \in Nat /\ j \in Nat
  BY <1>1, <1>2 DEF Oldest
<1>4. CASE j \in scan
  <2> HIDE DEF scan, Room
  <2>1. PICK y \in scan : y < j /\ Room(y)
    BY <1>2, <1>4
  <2>2. ~(y < i)
    BY <1>2, <2>1
  <2>3. y \in Nat
    BY <1>1, <2>1 DEF scan, Oldest
  <2> QED BY <1>3, <2>1, <2>2, <2>3
<1>5. CASE j \notin scan
  <2> DEFINE upto(x) == {y \in view.live : y <= x}
             n == DropPasses * ScanLimit
  <2>0. n \in Nat
    BY SpoolAssumption
  <2>1. ~(Cardinality(upto(j)) <= n) /\ Cardinality(upto(i)) <= n
    BY <1>3, <1>5 DEF Oldest
  <2>2. \A x \in Nat : upto(x) \in SUBSET (1 .. Len(log))
    BY <1>1
  <2> HIDE DEF upto, n
  <2>3. /\ IsFiniteSet(upto(i)) /\ Cardinality(upto(i)) \in Nat
        /\ Cardinality(upto(j)) \in Nat
    BY <1>1, <1>3, <2>2, IdsFinite
  <2>4. i < j \/ j <= i
    BY <1>3
  <2>5. ASSUME j <= i PROVE FALSE
    <3>1. upto(j) \subseteq upto(i)
      BY <1>1, <1>3, <2>5 DEF upto
    <3>2. Cardinality(upto(j)) <= Cardinality(upto(i))
      BY <2>3, <3>1, FS_Subset
    <3> QED BY <2>0, <2>1, <2>3, <3>2
  <2> QED BY <2>4, <2>5
<1> QED BY <1>4, <1>5

(* The drop-oldest policy deletes in arrival order. *)
THEOREM SpoolDropsOldest == SpoolSpec => DropsOldestFirst
<1>1. SpoolIInv /\ [SpoolNext]_spoolVars
        => [\A i \in view'.dropped \ view.dropped, j \in view'.live :
              i < j]_spoolVars
  <2> SUFFICES ASSUME SpoolIInv, [SpoolNext]_spoolVars,
                      NEW i \in view'.dropped \ view.dropped,
                      NEW j \in view'.live
               PROVE  i < j
    OBVIOUS
  <2>0. /\ log \in Seq(Message) /\ Len(log) \in Nat
        /\ view \in Tables /\ view.live \cup view.dropped \subseteq 1 .. Len(log)
        /\ disk.dropped \subseteq view.dropped
    BY DEF SpoolIInv, TableOK
  <2>1. ASSUME NEW m \in Message, Enqueue(m)
        PROVE  i < j
    <3>1. CASE ~Fits(view, m) /\ DropOldest
      <4> DEFINE r == MakeRoom(m)
      <4>1. /\ r = Drop(view, DropSet(m)) /\ r \in Tables
            /\ r.live = view.live \ DropSet(m)
            /\ r.dropped = view.dropped \cup DropSet(m)
        BY <3>1, <2>0, MakeRoomOK DEF MakeRoom, Drop, Tables, TableOK
      <4>2. \/ view'.live = r.live /\ view'.dropped = r.dropped
            \/ view'.live = r.live \cup {Len(log) + 1} /\ view'.dropped = r.dropped
        <5> HIDE DEF r
        <5> QED BY <2>1, <4>1 DEF Enqueue, EnqueueAccept, EnqueueReject,
                     Insert, Tables, r
      <4>3. i \in DropSet(m) /\ i \in 1 .. Len(log)
        BY <2>0, <4>1, <4>2, DropSetLive
      <4>4. CASE j \in view.live \ DropSet(m)
        BY <4>3, <4>4, DropSetOldest
      <4>5. CASE j = Len(log) + 1
        BY <2>0, <4>3, <4>5
      <4> QED BY <4>1, <4>2, <4>4, <4>5
    <3>2. CASE ~(~Fits(view, m) /\ DropOldest)
      BY <2>0, <2>1, <3>2
      DEF Enqueue, EnqueueAccept, EnqueueReject, MakeRoom, Insert, Tables
    <3> QED BY <3>1, <3>2
  <2>2. ASSUME NEW n \in BatchSizes, DequeueBatch(n)
        PROVE  i < j
    BY <2>2 DEF DequeueBatch
  <2>3. ASSUME NEW ids \in SUBSET held, CommitBatch(ids)
        PROVE  i < j
    BY <2>0, <2>3 DEF CommitBatch, Release, Tables
  <2>4. CASE Close
    BY <2>0, <2>4 DEF Close
  <2>5. CASE Crash
    BY <2>0, <2>5 DEF Crash
  <2>6. CASE UNCHANGED spoolVars
    BY <2>6 DEF spoolVars
  <2> QED
    BY <2>1, <2>2, <2>3, <2>4, <2>5, <2>6 DEF SpoolNext
<1> QED
  BY <1>1, SpoolInvariant, PTL DEF SpoolSpec, DropsOldestFirst

(* What an enqueue does to the rows: it deletes D, by the policy, and adds *)
(* the new one if it accepts the event.                                    *)
LEMMA EnqueueRows ==
    ASSUME SpoolIInv, NEW m \in Message, Enqueue(m)
    PROVE  LET D == view'.dropped \ view.dropped IN
           /\ D \subseteq view.live
           /\ view'.dropped = view.dropped \cup D
           /\ D # {} => DropOldest /\ ~Fits(view, m) /\ D = DropSet(m)
           /\ \/ log' = log /\ view'.live = view.live \ D
              \/ /\ log' = Append(log, m)
                 /\ view'.live = (view.live \ D) \cup {Len(log) + 1}
<1> DEFINE r == MakeRoom(m)
<1>0. /\ log \in Seq(Message) /\ Len(log) \in Nat
      /\ view \in Tables /\ view.live \cap view.dropped = {}
  BY DEF SpoolIInv, TableOK
<1>1. \/ view'.live = r.live /\ view'.dropped = r.dropped /\ log' = log
      \/ /\ view'.live = r.live \cup {Len(log) + 1} /\ view'.dropped = r.dropped
         /\ log' = Append(log, m)
  <2>1. r \in Tables
    BY MakeRoomOK DEF TableOK
  <2> HIDE DEF r
  <2> QED BY <2>1 DEF Enqueue, EnqueueAccept, EnqueueReject, Insert, Tables, r
<1>2. CASE ~Fits(view, m) /\ DropOldest
  <2>1. /\ r.live = view.live \ DropSet(m)
        /\ r.dropped = view.dropped \cup DropSet(m)
    BY <1>0, <1>2 DEF MakeRoom, Drop, Tables
  <2> HIDE DEF r
  <2>2. view'.dropped \ view.dropped = DropSet(m)
    BY <1>0, <1>1, <2>1, DropSetLive
  <2> QED BY <1>1, <1>2, <2>1, <2>2, DropSetLive
<1>3. CASE ~(~Fits(view, m) /\ DropOldest)
  <2>1. r = view
    BY <1>3 DEF MakeRoom
  <2> HIDE DEF r
  <2> QED BY <1>1, <2>1
<1> QED BY <1>2, <1>3

(* A nonempty set of ids has an oldest one. *)
LEMMA OldestIn ==
    ASSUME NEW n \in Nat, NEW S \in SUBSET (1 .. n), S # {}
    PROVE  \E i \in S : \A j \in S : i <= j
<1> DEFINE R == {p \in Nat \X Nat : p[1] < p[2]}
<1>1. IsWellFoundedOn(R, Nat)
  BY NatLessThanWellFounded DEF OpToRel
<1>2. S \subseteq Nat
  OBVIOUS
<1>3. \E i \in S : \A j \in S : ~(<<j, i>> \in R)
  <2> HIDE DEF R
  <2> QED BY <1>1, <1>2, WFMin
<1>4. PICK i \in S : \A j \in S : ~(<<j, i>> \in R)
  BY <1>3
<1>5. ASSUME NEW j \in S
      PROVE  i <= j
  <2>1. i \in Nat /\ j \in Nat
    BY <1>2, <1>4
  <2>2. j < i => <<j, i>> \in R
    BY <2>1
  <2> HIDE DEF R
  <2> QED BY <1>4, <2>1, <2>2
<1> QED BY <1>4, <1>5

(* A nonempty set of ids has a newest one. *)
LEMMA NewestIn ==
    ASSUME NEW n \in Nat, NEW S \in SUBSET (1 .. n), S # {}
    PROVE  \E i \in S : \A j \in S : j <= i
<1> DEFINE R == {p \in Nat \X Nat : p[1] < p[2]}
           T == {n - i : i \in S}
<1>1. IsWellFoundedOn(R, Nat)
  BY NatLessThanWellFounded DEF OpToRel
<1>2. T \subseteq Nat /\ T # {}
  <2>1. \A i \in S : n - i \in Nat
    OBVIOUS
  <2> QED BY <2>1
<1>3. \E t \in T : \A u \in T : ~(<<u, t>> \in R)
  <2> HIDE DEF R, T
  <2> QED BY <1>1, <1>2, WFMin
<1>4. PICK t \in T : \A u \in T : ~(<<u, t>> \in R)
  BY <1>3
<1>5. PICK i \in S : t = n - i
  BY <1>4
<1>6. ASSUME NEW j \in S
      PROVE  j <= i
  <2>1. n - j \in T /\ n - j \in Nat /\ t \in Nat
    BY <1>2
  <2>2. n - j < t => <<n - j, t>> \in R
    BY <2>1
  <2>3. ~(n - j < t)
    BY <1>4, <2>1, <2>2
  <2>4. i \in 1 .. n /\ j \in 1 .. n
    OBVIOUS
  <2> QED BY <1>5, <2>3, <2>4
<1> QED BY <1>5, <1>6

(* The scan of a drop goes on only while there is no room. *)
LEMMA DropNeeded ==
    ASSUME SpoolIInv, NEW m \in Message, ~Fits(view, m), NEW i \in DropSet(m)
    PROVE  LET gone == {j \in DropSet(m) : j < i}
           IN  Bytes(view.live \ gone) + EventBytes(m) > MaxBytes
<1> DEFINE scan == Oldest(view.live, DropPasses * ScanLimit)
           Room(x) == Monus(view.total_bytes, Bytes({y \in scan : y <= x}))
                        + EventBytes(m) <= MaxBytes
           gone == {j \in DropSet(m) : j < i}
<1> SUFFICES Bytes(view.live \ gone) + EventBytes(m) > MaxBytes
  OBVIOUS
<1>1. /\ view.live \in SUBSET (1 .. Len(log)) /\ log \in Seq(Message)
      /\ view.total_bytes = Bytes(view.live)
      /\ Len(log) \in Nat /\ EventBytes(m) \in Nat /\ MaxBytes \in Nat
  BY EventBytesNat, SpoolAssumption DEF SpoolIInv, TableOK, Bytes
<1>2. DropSet(m) = {x \in scan : \A y \in scan : y < x => ~Room(y)}
  BY DEF DropSet
<1>3. scan \subseteq view.live
  BY DEF Oldest
<1>4. CASE gone = {}
  <2>1. view.live \ gone = view.live
    BY <1>4
  <2>2. Bytes(view.live) \in Nat
    BY <1>1, BytesNat DEF Bytes
  <2>3. ~(Bytes(view.live) + EventBytes(m) <= MaxBytes)
    BY <1>1 DEF Fits
  <2>4. Bytes(view.live \ gone) = Bytes(view.live)
    BY <2>1
  <2> HIDE DEF gone
  <2> QED BY <1>1, <2>2, <2>3, <2>4
<1>5. CASE gone # {}
  <2>1. PICK p \in gone : \A j \in gone : j <= p
    <3>1. gone \in SUBSET (1 .. Len(log))
      BY <1>1, <1>3, <1>2
    <3> HIDE DEF gone
    <3> QED BY <1>1, <1>5, <3>1, NewestIn
  <2>2. p \in scan /\ p < i /\ p \in DropSet(m) /\ ~Room(p)
    <3> HIDE DEF scan, Room
    <3> QED BY <1>2, <2>1
  <2>3. {y \in scan : y <= p} = gone
    <3>1. ASSUME NEW y \in scan, y <= p
          PROVE  y \in gone
      <4>1. y \in Int /\ p \in Int /\ i \in Int /\ scan \subseteq Int
        BY <1>1, <1>2, <1>3, <2>2
      <4> HIDE DEF scan, Room
      <4>2. \A x \in scan : x < y => ~Room(x)
        BY <1>2, <2>2, <3>1, <4>1
      <4> QED BY <1>2, <2>2, <3>1, <4>1, <4>2
    <3>2. ASSUME NEW y \in gone
          PROVE  y \in scan /\ y <= p
      <4> HIDE DEF scan, Room
      <4> QED BY <1>2, <2>1
    <3> QED BY <3>1, <3>2
  <2>4. gone \in SUBSET view.live
    BY <1>2, <1>3
  <2>5. /\ Bytes(view.live \ gone) = Bytes(view.live) - Bytes(gone)
        /\ Bytes(gone) <= Bytes(view.live)
        /\ Bytes(gone) \in Nat /\ Bytes(view.live) \in Nat
    <3>1. gone \in SUBSET (1 .. Len(log))
      BY <1>1, <2>4
    <3> HIDE DEF gone
    <3> QED BY <1>1, <2>4, <3>1, BytesRemove, BytesNat DEF Bytes
  <2>6. ~(Monus(Bytes(view.live), Bytes(gone)) + EventBytes(m) <= MaxBytes)
    BY <1>1, <2>2, <2>3
  <2> HIDE DEF gone
  <2>7. Monus(Bytes(view.live), Bytes(gone)) = Bytes(view.live \ gone)
    BY <2>5 DEF Monus
  <2>8. Bytes(view.live \ gone) \in Int
    BY <2>5
  <2> QED BY <1>1, <2>6, <2>7, <2>8
<1> QED BY <1>4, <1>5

(* The drop-oldest policy deletes no more than the accepted event needs,   *)
(* for any message sizes, scan limit and number of passes.                 *)
THEOREM SpoolDropsNoMore == SpoolSpec => NoNeedlessDrop
<1>1. SpoolIInv /\ [SpoolNext]_spoolVars
        => [\A i \in view'.dropped \ view.dropped :
              Len(log') = Len(log) + 1 =>
                LET gone == {j \in view'.dropped \ view.dropped : j < i}
                IN  Bytes(view.live \ gone) + EventBytes(log'[Len(log')])
                      > MaxBytes]_spoolVars
  <2> SUFFICES ASSUME SpoolIInv, [SpoolNext]_spoolVars,
                      NEW i \in view'.dropped \ view.dropped,
                      Len(log') = Len(log) + 1
               PROVE  LET gone == {j \in view'.dropped \ view.dropped : j < i}
                      IN  Bytes(view.live \ gone) + EventBytes(log'[Len(log')])
                            > MaxBytes
    OBVIOUS
  <2>0. log \in Seq(Message) /\ Len(log) \in Nat
    BY DEF SpoolIInv
  <2>1. PICK m \in Message : Enqueue(m)
    BY <2>0 DEF SpoolNext, DequeueBatch, CommitBatch, Close, Crash, spoolVars
  <2>2. /\ ~Fits(view, m) /\ view'.dropped \ view.dropped = DropSet(m)
        /\ log' = log \/ log' = Append(log, m)
    BY <2>1, EnqueueRows
  <2>3. log'[Len(log')] = m
    BY <2>0, <2>2
  <2>4. LET gone == {j \in DropSet(m) : j < i}
        IN  Bytes(view.live \ gone) + EventBytes(m) > MaxBytes
    BY <2>2, DropNeeded
  <2> QED BY <2>2, <2>3, <2>4
<1> QED
  BY <1>1, SpoolInvariant, PTL DEF SpoolSpec, NoNeedlessDrop
-----------------------------------------------------------------------------
(* The room a drop makes.                                                  *)

(* Every row is charged its overhead. *)
LEMMA BytesOverhead ==
    ASSUME NEW l \in Seq(Message), NEW S \in SUBSET (1 .. Len(l))
    PROVE  /\ Cardinality(S) \in Nat
           /\ Cardinality(S) * RowOverhead <= BytesIn(l, S)
<1> DEFINE T == S \X (1 .. RowOverhead)
<1>1. IsFiniteSet(S) /\ Cardinality(S) \in Nat /\ RowOverhead \in Nat
  BY IdsFinite, SpoolAssumption
<1>2. IsFiniteSet(1 .. RowOverhead) /\ Cardinality(1 .. RowOverhead) = RowOverhead
  <2>1. RowOverhead \in Int /\ 1 \in Int /\ RowOverhead >= 0
    BY <1>1
  <2>2. /\ IsFiniteSet(1 .. RowOverhead)
        /\ Cardinality(1 .. RowOverhead)
             = IF 1 > RowOverhead THEN 0 ELSE RowOverhead - 1 + 1
    BY <2>1, FS_Interval
  <2> QED BY <2>1, <2>2
<1>3. Cardinality(T) = Cardinality(S) * RowOverhead
  BY <1>1, <1>2, FS_Product
<1>4. T \subseteq ByteSet(l, S)
  <2>1. ASSUME NEW i \in S, NEW b \in 1 .. RowOverhead
        PROVE  <<i, b>> \in ByteSet(l, S)
    <3>1. l[i] \in Message
      OBVIOUS
    <3>2. EventBytes(l[i]) \in Nat /\ RowOverhead <= EventBytes(l[i])
      BY <1>1, <3>1, SpoolAssumption DEF EventBytes
    <3>3. b \in 1 .. EventBytes(l[i])
      BY <1>1, <3>2
    <3> QED BY <3>3 DEF ByteSet
  <2>2. ASSUME NEW t \in T
        PROVE  t \in ByteSet(l, S)
    <3> DEFINE I == 1 .. RowOverhead
    <3>1. t \in S \X I
      OBVIOUS
    <3> HIDE DEF I
    <3>2. t = <<t[1], t[2]>> /\ t[1] \in S /\ t[2] \in I
      BY <3>1
    <3>3. <<t[1], t[2]>> \in ByteSet(l, S)
      BY <2>1, <3>2 DEF I
    <3> QED BY <3>2, <3>3
  <2> QED BY <2>2
<1> HIDE DEF T
<1>5. Cardinality(T) <= Cardinality(ByteSet(l, S))
  BY <1>4, BytesNat, FS_Subset
<1> QED BY <1>1, <1>3, <1>5 DEF BytesIn

(* LIMIT k returns k rows, or all there are. *)
LEMMA OldestCount ==
    ASSUME NEW n \in Nat, NEW S \in SUBSET (1 .. n), NEW k \in Nat,
           Oldest(S, k) # S
    PROVE  k <= Cardinality(Oldest(S, k))
<1> DEFINE rest == S \ Oldest(S, k)
           before(x) == {j \in S : j < x}
           upto(x) == {j \in S : j <= x}
<1>1. rest # {} /\ rest \in SUBSET (1 .. n)
  BY DEF Oldest
<1>2. PICK p \in rest : \A j \in rest : p <= j
  <2> HIDE DEF rest
  <2> QED BY <1>1, OldestIn
<1>3. p \in S /\ ~(Cardinality(upto(p)) <= k)
  BY <1>2 DEF Oldest
<1>4. before(p) \subseteq Oldest(S, k)
  <2> SUFFICES ASSUME NEW j \in S, j < p, j \notin Oldest(S, k)
               PROVE  FALSE
    OBVIOUS
  <2>1. j \in rest /\ j \in Int /\ p \in Int
    BY <1>1, <1>2
  <2>2. p <= j
    BY <1>2, <2>1
  <2> QED BY <2>1, <2>2
<1>5. upto(p) = before(p) \cup {p} /\ p \notin before(p)
  <2>1. S \subseteq Int /\ p \in Int
    BY <1>3
  <2>2. \A j \in S : (j <= p <=> j < p \/ j = p) /\ ~(p < p)
    BY <2>1
  <2> QED BY <1>3, <2>2
<1>6. IsFiniteSet(1 .. n)
  BY FS_Interval
<1>7. IsFiniteSet(before(p)) /\ IsFiniteSet(Oldest(S, k))
  <2>1. before(p) \subseteq 1 .. n /\ Oldest(S, k) \subseteq 1 .. n
    BY DEF Oldest
  <2> HIDE DEF before
  <2> QED BY <2>1, <1>6, FS_Subset
<1> HIDE DEF before, upto
<1>8. /\ Cardinality(upto(p)) = Cardinality(before(p)) + 1
      /\ Cardinality(before(p)) <= Cardinality(Oldest(S, k))
      /\ Cardinality(before(p)) \in Nat /\ Cardinality(Oldest(S, k)) \in Nat
  BY <1>4, <1>5, <1>7, FS_AddElement, FS_Subset, FS_CardinalityType
<1> QED BY <1>3, <1>8

(* The drop passes make room for an event they can make room for: one that *)
(* fits an empty spool and needs no more rows than they may delete.        *)
LEMMA DropMakesRoom ==
    ASSUME SpoolIInv, DropOldest, NEW m \in Message,
           EventBytes(m) <= MaxBytes,
           EventBytes(m) <= DropPasses * ScanLimit * RowOverhead
    PROVE  Fits(MakeRoom(m), m)
<1> DEFINE k == DropPasses * ScanLimit
           scan == Oldest(view.live, k)
           Room(x) == Monus(view.total_bytes, Bytes({y \in scan : y <= x}))
                        + EventBytes(m) <= MaxBytes
<1>0. /\ log \in Seq(Message) /\ Len(log) \in Nat
      /\ view \in Tables /\ view.live \in SUBSET (1 .. Len(log))
      /\ view.total_bytes = Bytes(view.live) /\ view.total_bytes <= MaxBytes
      /\ view.total_bytes \in Nat /\ MaxBytes \in Nat
      /\ EventBytes(m) \in Nat /\ k \in Nat /\ RowOverhead \in Nat
  <2>1. /\ log \in Seq(Message) /\ Len(log) \in Nat
        /\ view \in Tables /\ view.live \in SUBSET (1 .. Len(log))
        /\ view.total_bytes = Bytes(view.live) /\ view.total_bytes <= MaxBytes
    BY DEF SpoolIInv, TableOK, Bytes
  <2>2. MaxBytes \in Nat /\ EventBytes(m) \in Nat /\ RowOverhead \in Nat
    BY EventBytesNat, SpoolAssumption
  <2>3. k \in Nat
    BY SpoolAssumption
  <2> QED BY <2>1, <2>2, <2>3 DEF Tables
<1>1. scan \subseteq view.live /\ scan \in SUBSET (1 .. Len(log))
  BY <1>0 DEF Oldest
<1>2. DropSet(m) = {x \in scan : \A y \in scan : y < x => ~Room(y)}
  BY DEF DropSet
<1>3. CASE Fits(view, m)
  BY <1>3 DEF MakeRoom
<1>4. CASE ~Fits(view, m)
  <2>1. MakeRoom(m) = Drop(view, DropSet(m))
    BY <1>4 DEF MakeRoom
  <2>2. Drop(view, DropSet(m)).total_bytes
          = Monus(view.total_bytes, Bytes(DropSet(m)))
    BY <1>0 DEF Drop, Tables
  <2> SUFFICES Monus(view.total_bytes, Bytes(DropSet(m))) + EventBytes(m)
                 <= MaxBytes
    BY <2>1, <2>2 DEF Fits
  <2>3. CASE \E x \in scan : Room(x)
    <3> DEFINE good == {x \in scan : Room(x)}
    <3>1. good # {} /\ good \in SUBSET (1 .. Len(log))
      BY <1>1, <2>3
    <3>2. PICK p \in good : \A x \in good : p <= x
      <4> HIDE DEF good
      <4> QED BY <1>0, <3>1, OldestIn
    <3>3. p \in scan /\ Room(p) /\ \A x \in scan : Room(x) => p <= x
      <4> HIDE DEF Room, scan
      <4> QED BY <3>2
    <3>4. DropSet(m) = {y \in scan : y <= p}
      <4> HIDE DEF Room
      <4>1. ASSUME NEW x \in scan
            PROVE  (\A y \in scan : y < x => ~Room(y)) <=> x <= p
        <5>1. \A y \in scan : y \in Int
          BY <1>1
        <5> HIDE DEF scan
        <5>2. p \in Int /\ x \in Int
          BY <3>3, <5>1
        <5>3. ASSUME x <= p, NEW y \in scan, y < x
              PROVE  ~Room(y)
          BY <3>3, <5>1, <5>2, <5>3
        <5>4. ASSUME \A y \in scan : y < x => ~Room(y)
              PROVE  x <= p
          BY <3>3, <5>2, <5>4
        <5> QED BY <5>3, <5>4
      <4> HIDE DEF scan
      <4> QED BY <1>2, <4>1
    <3> QED BY <3>3, <3>4
  <2>4. CASE \A x \in scan : ~Room(x)
    <3>1. DropSet(m) = scan
      <4> HIDE DEF Room, scan
      <4> QED BY <1>2, <2>4
    <3> HIDE DEF Room
    <3>2. CASE scan = view.live
      <4>1. Bytes(DropSet(m)) = view.total_bytes
        BY <1>0, <3>1, <3>2
      <4> QED BY <1>0, <4>1 DEF Monus
    <3>3. CASE scan # view.live
      <4>1. k <= Cardinality(scan)
        <5> HIDE DEF k
        <5> QED BY <1>0, <3>3, OldestCount
      <4> HIDE DEF scan
      <4>2. /\ Cardinality(scan) \in Nat
            /\ Cardinality(scan) * RowOverhead <= Bytes(scan)
        BY <1>0, <1>1, BytesOverhead DEF Bytes
      <4>3. Bytes(scan) \in Nat /\ Bytes(scan) <= Bytes(view.live)
        BY <1>0, <1>1, BytesNat, BytesRemove DEF Bytes
      <4>4. k * RowOverhead <= Cardinality(scan) * RowOverhead
        <5> HIDE DEF k
        <5> QED BY <1>0, <4>1, <4>2
      <4>5. EventBytes(m) <= k * RowOverhead
        OBVIOUS
      <4> DEFINE floor == k * RowOverhead
                 freed == Cardinality(scan) * RowOverhead
      <4>6. floor \in Nat /\ freed \in Nat
        <5> HIDE DEF k
        <5> QED BY <1>0, <4>2
      <4>7. EventBytes(m) <= Bytes(scan)
        <5>1. EventBytes(m) <= floor /\ floor <= freed /\ freed <= Bytes(scan)
          BY <4>2, <4>4, <4>5
        <5> HIDE DEF floor, freed
        <5> QED BY <1>0, <4>3, <4>6, <5>1
      <4> HIDE DEF floor, freed, k
      <4>8. Monus(view.total_bytes, Bytes(scan)) = view.total_bytes - Bytes(scan)
        BY <1>0, <4>3 DEF Monus
      <4> QED BY <1>0, <3>1, <4>3, <4>7, <4>8
    <3> QED BY <3>2, <3>3
  <2> QED BY <2>3, <2>4
<1> QED BY <1>3, <1>4
-----------------------------------------------------------------------------
(* In reject_new mode nothing is ever left uncommitted. *)
RejectIInv == CountersExactWhenRejecting /\ (~DropOldest => view = disk)

LEMMA RejectNext ==
    ASSUME SpoolIInv, RejectIInv, [SpoolNext]_spoolVars
    PROVE  RejectIInv'
<1> SUFFICES ASSUME ~DropOldest
             PROVE  RejectIInv'
  BY DEF RejectIInv, CountersExactWhenRejecting
<1>0. /\ log \in Seq(Message) /\ Len(log) \in Nat
      /\ view \in Tables /\ view = disk /\ held \subseteq view.live
      /\ view.live \in SUBSET (1 .. Len(log))
      /\ view.enqueued_total = Cardinality(view.live) + view.dequeued_total
  BY DEF SpoolIInv, TableOK, RejectIInv, CountersExactWhenRejecting
<1>1. /\ IsFiniteSet(view.live) /\ Cardinality(view.live) \in Nat
      /\ view.dequeued_total \in Nat /\ view.enqueued_total \in Nat
  BY <1>0, IdsFinite DEF Tables
<1>2. ASSUME NEW m \in Message, Enqueue(m)
      PROVE  RejectIInv'
  <2>1. MakeRoom(m) = view
    BY DEF MakeRoom
  <2>2. CASE EnqueueReject(m)
    BY <1>0, <2>1, <2>2 DEF EnqueueReject, RejectIInv, CountersExactWhenRejecting
  <2>3. CASE EnqueueAccept(m)
    <3>1. /\ view'.live = view.live \cup {Len(log) + 1} /\ disk' = view' /\ held' = held
          /\ view'.enqueued_total = view.enqueued_total + 1
          /\ view'.dequeued_total = view.dequeued_total
      BY <1>0, <2>1, <2>3 DEF EnqueueAccept, Insert, Tables
    <3>2. Len(log) + 1 \notin view.live
      BY <1>0
    <3>3. Cardinality(view.live \cup {Len(log) + 1}) = Cardinality(view.live) + 1
      BY <1>1, <3>2, FS_AddElement
    <3>4. Cardinality(view'.live) = Cardinality(view.live) + 1
      BY <3>1, <3>3
    <3> QED BY <1>0, <1>1, <3>1, <3>4 DEF RejectIInv, CountersExactWhenRejecting
  <2> QED BY <1>2, <2>2, <2>3 DEF Enqueue
<1>3. ASSUME NEW n \in BatchSizes, DequeueBatch(n)
      PROVE  RejectIInv'
  BY <1>0, <1>3 DEF DequeueBatch, Oldest, RejectIInv, CountersExactWhenRejecting
<1>4. ASSUME NEW ids \in SUBSET held, CommitBatch(ids)
      PROVE  RejectIInv'
  <2>1. /\ view'.live = view.live \ ids /\ disk' = view' /\ held' = held \ ids
        /\ view'.enqueued_total = view.enqueued_total
        /\ view'.dequeued_total = view.dequeued_total + Cardinality(ids)
    BY <1>0, <1>4 DEF CommitBatch, Release, Tables
  <2>2. ids \in SUBSET view.live
    BY <1>0
  <2>3. /\ IsFiniteSet(ids) /\ Cardinality(ids) \in Nat
        /\ Cardinality(view.live \ ids) = Cardinality(view.live) - Cardinality(ids)
    <3>1. IsFiniteSet(ids) /\ Cardinality(ids) \in Nat /\ view.live \cap ids = ids
      BY <1>0, <2>2, IdsFinite
    <3> QED BY <1>1, <3>1, FS_Difference
  <2> QED BY <1>0, <1>1, <2>1, <2>3 DEF RejectIInv, CountersExactWhenRejecting
<1>5. CASE Close \/ Crash
  BY <1>0, <1>5 DEF Close, Crash, RejectIInv, CountersExactWhenRejecting
<1>6. CASE UNCHANGED spoolVars
  BY <1>0, <1>6 DEF spoolVars, RejectIInv, CountersExactWhenRejecting
<1> QED
  BY <1>2, <1>3, <1>4, <1>5, <1>6 DEF SpoolNext

(* In reject_new mode the counters partition the messages accepted, and    *)
(* the writer's batch is on disk as long as it holds it.                   *)
THEOREM SpoolCountersExact == SpoolSpec => []CountersExactWhenRejecting
<1>1. SpoolInit => RejectIInv
  BY FS_EmptySet DEF SpoolInit, EmptyTables, RejectIInv, CountersExactWhenRejecting
<1>2. SpoolIInv /\ RejectIInv /\ [SpoolNext]_spoolVars => RejectIInv'
  BY RejectNext
<1>3. RejectIInv => CountersExactWhenRejecting
  BY DEF RejectIInv
<1> QED
  BY <1>1, <1>2, <1>3, SpoolInvariant, PTL DEF SpoolSpec
=============================================================================
