-------------------------- MODULE LogScannerProofs --------------------------
(***************************************************************************)
(* Proofs about the scanner of log files and its tailers, for every set of *)
(* sources and paths, every limit and any number of tailers, changes of    *)
(* the files and faults.                                                   *)
(***************************************************************************)
EXTENDS LogScanner, FiniteSetTheorems, WellFoundedInduction, TLAPS

\* The provers, in the order in which they are tried.
USE ZenonT(2), SMTT(30), ZenonT(60)

----------------------------------------------------------------------------
(* The tailers *)

\* A set of natural numbers that is not empty has a least element.
LEMMA LeastIsMember ==
  ASSUME NEW S \in SUBSET Nat, S # {}
  PROVE  Min(S) \in S
<1>1. PICK x \in S : \A y \in S : ~(<<y, x>> \in OpToRel(<, Nat))
  BY NatLessThanWellFounded, WFMin
<1>2. \A y \in S : ~(y < x)
  BY <1>1 DEF OpToRel
<1>3. \A y \in S : x <= y
  BY <1>2, SMT
<1> QED BY <1>3 DEF Min

\* No tailer is None.
LEMMA TailersAre == Tailers \subseteq Nat /\ None \notin Tailers
BY ScannerAssumption, SMT DEF Tailers, None

\* A tailer that is free can be given to a file.
LEMMA FreeIsUnmapped ==
  ASSUME Free # {}
  PROVE  /\ Min(Free) \in Tailers /\ tailer[Min(Free)].pc \in {"off", "done"}
         /\ \A p \in Paths : tailers[p] # Min(Free)
<1>1. Free \in SUBSET Nat
  BY TailersAre DEF Free
<1>2. Min(Free) \in Free
  BY <1>1, LeastIsMember
<1> QED BY <1>2 DEF Free

\* The tailers that are in the map are different.
LEMMA MapIsInjective ==
  ASSUME ScannerInv, NEW p \in Mapped, NEW q \in Mapped, tailers[p] = tailers[q]
  PROVE  p = q
BY DEF ScannerInv, LimitHolds

\* What the map holds are tailers.
LEMMA MappedAre ==
  ASSUME ScannerInv, NEW p \in Mapped
  PROVE  p \in Paths /\ tailers[p] \in Tailers
BY DEF ScannerInv, ScannerTypes, Mapped

\* The records of tailers.
LEMMA NewTailerType == NewTailer \in TailerRecord
<1>1. 0 \in 0..MaxLoad
  BY SMT DEF MaxLoad
<1> QED BY <1>1 DEF NewTailer, TailerRecord

\* What startNewTailer and restartTailerAfterFileRotation put into the map.
LEMMA StartedFields ==
  ASSUME NEW p \in Paths, NEW b \in BOOLEAN
  PROVE  Started(p, b) \in TailerRecord /\ Started(p, b).path = p /\ Started(p, b).pc = "reads"
BY NewTailerType DEF Started, TailerRecord

----------------------------------------------------------------------------
(* What a step may do to a tailer and to the map *)

\* A step that leaves the map alone: a tailer keeps its path, does not begin to
\* read again, and does not forget that it has to stop.
Keeps(old, new) ==
  /\ new \in TailerRecord
  /\ new.path = old.path
  /\ new.pc = "reads" => /\ old.pc = "reads"
                         /\ old.stopped \/ old.timer => new.stopped \/ new.timer

\* The loop of the scanner goes on, and counts no less than before.
GoesOn ==
  /\ scanner' \in [pc : {"idle", "launch", "scan", "off"}, files : {scanner'.files}, tailed : {scanner'.tailed}, count : Nat]
  /\ scanner'.pc = "scan" =>
        scanner'.count = Cardinality(Mapped) \/ (scanner.pc = "scan" /\ scanner'.count >= scanner.count)

\* Such a step preserves the invariant.
LEMMA SameMap ==
  ASSUME ScannerInv, disk' \subseteq Paths, tailers' = tailers, GoesOn,
         tailer' \in [Tailers -> TailerRecord], \A t \in Tailers : Keeps(tailer[t], tailer'[t])
  PROVE  ScannerInv'
<1>1. ScannerTypes'
  BY DEF ScannerInv, ScannerTypes, GoesOn
<1>2. Mapped' = Mapped
  BY DEF Mapped
<1>3. CountCovers'
  <2>1. IsFiniteSet(Mapped) /\ Cardinality(Mapped) \in Nat
    BY FS_CardinalityType DEF ScannerInv, CountCovers
  <2>2. scanner.count \in Nat /\ scanner'.count \in Nat
    BY DEF ScannerInv, ScannerTypes, GoesOn
  <2>3. scanner'.pc = "scan" => Cardinality(Mapped) <= scanner'.count
    <3>1. CASE scanner'.pc = "scan" /\ scanner'.count = Cardinality(Mapped)
      BY <2>1, <3>1, SMT
    <3>2. CASE scanner.pc = "scan" /\ scanner'.count >= scanner.count
      <4>1. Cardinality(Mapped) <= scanner.count
        BY <3>2 DEF ScannerInv, CountCovers
      <4> QED BY <2>1, <2>2, <3>2, <4>1, SMT
    <3> QED BY <3>1, <3>2 DEF GoesOn
  <2> QED BY <1>2, <2>1, <2>3 DEF CountCovers
<1>4. LimitHolds'
  BY <1>2, MappedAre DEF ScannerInv, LimitHolds, Keeps
<1>5. NoOrphans'
  BY DEF ScannerInv, NoOrphans, Keeps
<1> QED BY <1>1, <1>3, <1>4, <1>5 DEF ScannerInv

\* A tailer t for path p enters the map, in the place of old or as a new one;
\* the tailer that it replaces has its stop timer running.
LEMMA NewEntry ==
  ASSUME ScannerInv, disk' \subseteq Paths, NEW p \in Paths, NEW t \in Tailers,
         \A q \in Paths : tailers[q] # t,
         tailers' = [tailers EXCEPT ![p] = t],
         tailer' \in [Tailers -> TailerRecord], tailer'[t].path = p,
         \A u \in Tailers \ {t} : IF u = tailers[p] THEN tailer'[u].timer ELSE tailer'[u] = tailer[u],
         scanner' \in [pc : {"idle", "launch", "scan", "off"}, files : {scanner'.files}, tailed : {scanner'.tailed}, count : Nat],
         scanner'.pc = scanner.pc,
         p \in Mapped => scanner'.count = scanner.count,
         p \notin Mapped => /\ Cardinality(Mapped) < tailingLimit
                            /\ scanner.pc = "scan" => scanner'.count = scanner.count + 1
  PROVE  ScannerInv'
<1>0. /\ tailers \in [Paths -> Tailers \cup {None}] /\ scanner.count \in Nat
      /\ scanner.pc = "scan" => Cardinality(Mapped) <= scanner.count
      /\ Cardinality(Mapped) <= tailingLimit /\ tailingLimit \in Nat
      /\ IsFiniteSet(Mapped) /\ Cardinality(Mapped) \in Nat
  BY FS_CardinalityType, ScannerAssumption DEF ScannerInv, ScannerTypes, CountCovers, LimitHolds
<1>1. ScannerTypes'
  BY <1>0 DEF ScannerTypes
<1>2. tailers'[p] = t /\ \A q \in Paths : q # p => tailers'[q] = tailers[q]
  BY <1>0
<1>3. Mapped' = Mapped \cup {p}
  BY <1>2, TailersAre DEF Mapped
<1>4. /\ IsFiniteSet(Mapped') /\ Cardinality(Mapped') <= tailingLimit
      /\ scanner'.pc = "scan" => Cardinality(Mapped') <= scanner'.count
  <2>1. CASE p \in Mapped
    <3>1. Mapped' = Mapped
      BY <1>3, <2>1
    <3> QED BY <1>0, <2>1, <3>1
  <2>2. CASE p \notin Mapped
    <3>1. IsFiniteSet(Mapped') /\ Cardinality(Mapped') = Cardinality(Mapped) + 1
      BY <1>0, <1>3, <2>2, FS_AddElement
    <3>2. Cardinality(Mapped') <= tailingLimit
      BY <1>0, <2>2, <3>1, SMT
    <3>3. scanner.pc = "scan" => Cardinality(Mapped') <= scanner'.count
      BY <1>0, <2>2, <3>1, SMT
    <3> QED BY <3>1, <3>2, <3>3
  <2> QED BY <2>1, <2>2
<1>5. ASSUME NEW q \in Mapped' PROVE tailer'[tailers'[q]].path = q
  <2>1. CASE q = p
    BY <1>2, <2>1
  <2>2. CASE q # p
    <3>1. q \in Mapped /\ q \in Paths /\ tailers'[q] = tailers[q] /\ tailers[q] \in Tailers \ {t}
      BY <1>2, <1>3, <2>2, MappedAre
    <3>2. tailers[q] # tailers[p]
      <4>1. CASE p \in Mapped
        BY <2>2, <3>1, <4>1, MapIsInjective
      <4>2. CASE p \notin Mapped
        BY <3>1, <4>2, TailersAre DEF Mapped
      <4> QED BY <4>1, <4>2
    <3> QED BY <3>1, <3>2 DEF ScannerInv, LimitHolds
  <2> QED BY <2>1, <2>2
<1>6. NoOrphans'
  <2> SUFFICES ASSUME NEW u \in Tailers, tailer'[u].pc = "reads", \A q \in Paths : tailers'[q] # u
               PROVE  tailer'[u].stopped \/ tailer'[u].timer
    BY DEF NoOrphans
  <2>1. u # t
    BY <1>2
  <2>2. CASE u = tailers[p]
    BY <2>1, <2>2
  <2>3. CASE u # tailers[p]
    <3>1. tailer'[u] = tailer[u] /\ \A q \in Paths : tailers[q] # u
      BY <1>2, <2>1, <2>3
    <3> QED BY <3>1 DEF ScannerInv, NoOrphans
  <2> QED BY <2>2, <2>3
<1> QED BY <1>1, <1>4, <1>5, <1>6 DEF ScannerInv, CountCovers, LimitHolds

----------------------------------------------------------------------------
(* The steps *)

\* The loop of the scanner stands still.
LEMMA StandsStill ==
  ASSUME ScannerInv, scanner' = scanner
  PROVE  GoesOn
<1>1. scanner.count \in Nat
  BY DEF ScannerInv, ScannerTypes
<1>2. scanner.count >= scanner.count
  BY <1>1, SMT
<1> QED BY <1>2 DEF ScannerInv, ScannerTypes, GoesOn

\* The files change.
LEMMA FilesChange ==
  ASSUME ScannerInv, NEW p \in Paths, Create(p) \/ Delete(p) \/ Truncate(p)
  PROVE  ScannerInv'
<1>0. disk' \subseteq Paths /\ tailers' = tailers /\ scanner' = scanner
  BY DEF Create, Delete, Truncate, ScannerInv, ScannerTypes
<1>1. tailer \in [Tailers -> TailerRecord]
  BY DEF ScannerInv, ScannerTypes
<1>2. ASSUME NEW t \in Tailers
      PROVE  \E b \in BOOLEAN : tailer'[t] = [tailer[t] EXCEPT !.present = b] \/ tailer'[t] = [tailer[t] EXCEPT !.past = b]
  <2>1. tailer[t].present \in BOOLEAN /\ tailer[t].past \in BOOLEAN
    BY <1>1 DEF TailerRecord
  <2>2. CASE Create(p) \/ Delete(p)
    <3>1. tailer'[t] = [tailer[t] EXCEPT !.present = tailer[t].present /\ t \notin TailersOf(p)]
      BY <2>2 DEF Create, Delete
    <3>2. (tailer[t].present /\ t \notin TailersOf(p)) \in BOOLEAN
      BY <2>1
    <3> QED BY <3>1, <3>2
  <2>3. CASE Truncate(p)
    <3>1. tailer'[t] = [tailer[t] EXCEPT !.past = tailer[t].past \/ t \in TailersOf(p)]
      BY <2>3 DEF Truncate
    <3>2. (tailer[t].past \/ t \in TailersOf(p)) \in BOOLEAN
      BY <2>1
    <3> QED BY <3>1, <3>2
  <2> QED BY <2>2, <2>3
<1>3. ASSUME NEW t \in Tailers PROVE Keeps(tailer[t], tailer'[t])
  <2>1. PICK b \in BOOLEAN : tailer'[t] = [tailer[t] EXCEPT !.present = b] \/ tailer'[t] = [tailer[t] EXCEPT !.past = b]
    BY <1>2
  <2>2. tailer[t] \in TailerRecord
    BY <1>1
  <2>3. CASE tailer'[t] = [tailer[t] EXCEPT !.present = b]
    BY <2>2, <2>3 DEF Keeps, TailerRecord
  <2>4. CASE tailer'[t] = [tailer[t] EXCEPT !.past = b]
    BY <2>2, <2>4 DEF Keeps, TailerRecord
  <2> QED BY <2>1, <2>3, <2>4
<1>4. tailer' \in [Tailers -> TailerRecord]
  <2>1. tailer' = [t \in Tailers |-> tailer'[t]]
    BY DEF Create, Delete, Truncate
  <2> QED BY <1>3, <2>1 DEF Keeps
<1> QED BY <1>0, <1>3, <1>4, SameMap, StandsStill

\* One tailer makes a step of its own.
LEMMA OneTailer ==
  ASSUME ScannerInv, NEW t \in Tailers, NEW r, tailer' = [tailer EXCEPT ![t] = r], Keeps(tailer[t], r),
         UNCHANGED <<disk, tailers, scanner>>
  PROVE  ScannerInv'
<1>0. tailer \in [Tailers -> TailerRecord] /\ disk \subseteq Paths
  BY DEF ScannerInv, ScannerTypes
<1>1. tailer' \in [Tailers -> TailerRecord]
  BY <1>0 DEF Keeps
<1>2. \A u \in Tailers : Keeps(tailer[u], tailer'[u])
  BY <1>0 DEF Keeps
<1> QED BY <1>0, <1>1, <1>2, SameMap, StandsStill

\* A tailer reads, forwards, is stopped, fails, ends, or its timer fires.
LEMMA TailerStep ==
  ASSUME ScannerInv, NEW t \in Tailers,
         Grows(t) \/ Reads(t) \/ Forwards(t) \/ ReceivesStop(t) \/ ReadFails(t) \/ Ends(t) \/ StopTimer(t)
  PROVE  ScannerInv'
<1>0. tailer \in [Tailers -> TailerRecord] /\ tailer[t] \in TailerRecord /\ tailer[t].load \in 0..2
  BY DEF ScannerInv, ScannerTypes, TailerRecord, MaxLoad
<1>1. UNCHANGED <<disk, tailers, scanner>>
  BY DEF Grows, Reads, Forwards, ReceivesStop, ReadFails, Ends, StopTimer, worldVars
<1>2. CASE Grows(t)
  <2> DEFINE r == [tailer[t] EXCEPT !.past = FALSE]
  <2>1. tailer' = [tailer EXCEPT ![t] = r]
    BY <1>2 DEF Grows
  <2>2. Keeps(tailer[t], r)
    BY <1>0 DEF Keeps, TailerRecord
  <2> HIDE DEF r
  <2> QED BY <1>1, <2>1, <2>2, OneTailer
<1>3. CASE Reads(t)
  <2> DEFINE r == [tailer[t] EXCEPT !.load = tailer[t].load + 1]
  <2>1. tailer' = [tailer EXCEPT ![t] = r] /\ tailer[t].load < MaxLoad
    BY <1>3 DEF Reads
  <2>2. tailer[t].load + 1 \in 0..MaxLoad
    BY <1>0, <2>1, SMT DEF MaxLoad
  <2>3. Keeps(tailer[t], r)
    BY <1>0, <2>2 DEF Keeps, TailerRecord
  <2> HIDE DEF r
  <2> QED BY <1>1, <2>1, <2>3, OneTailer
<1>4. CASE Forwards(t)
  <2> DEFINE r == [tailer[t] EXCEPT !.load = tailer[t].load - 1]
  <2>1. tailer' = [tailer EXCEPT ![t] = r] /\ tailer[t].load > 0
    BY <1>4 DEF Forwards
  <2>2. tailer[t].load - 1 \in 0..MaxLoad
    BY <1>0, <2>1, SMT DEF MaxLoad
  <2>3. Keeps(tailer[t], r)
    BY <1>0, <2>2 DEF Keeps, TailerRecord
  <2> HIDE DEF r
  <2> QED BY <1>1, <2>1, <2>3, OneTailer
<1>5. CASE ReceivesStop(t)
  <2> DEFINE r == [tailer[t] EXCEPT !.pc = "flushes", !.stopped = FALSE]
  <2>1. tailer' = [tailer EXCEPT ![t] = r]
    BY <1>5 DEF ReceivesStop
  <2>2. Keeps(tailer[t], r)
    BY <1>0 DEF Keeps, TailerRecord
  <2> HIDE DEF r
  <2> QED BY <1>1, <2>1, <2>2, OneTailer
<1>6. CASE ReadFails(t)
  <2> DEFINE r == [tailer[t] EXCEPT !.pc = "flushes"]
  <2>1. tailer' = [tailer EXCEPT ![t] = r]
    BY <1>6 DEF ReadFails
  <2>2. Keeps(tailer[t], r)
    BY <1>0 DEF Keeps, TailerRecord
  <2> HIDE DEF r
  <2> QED BY <1>1, <2>1, <2>2, OneTailer
<1>7. CASE Ends(t)
  <2> DEFINE r == [NewTailer EXCEPT !.pc = "done", !.path = tailer[t].path, !.timer = tailer[t].timer]
  <2>1. tailer' = [tailer EXCEPT ![t] = r]
    BY <1>7 DEF Ends
  <2>2. Keeps(tailer[t], r)
    <3>1. tailer[t].path \in Paths \cup {""} /\ tailer[t].timer \in BOOLEAN
      BY <1>0 DEF TailerRecord
    <3> QED BY <3>1, NewTailerType DEF Keeps, TailerRecord
  <2> HIDE DEF r
  <2> QED BY <1>1, <2>1, <2>2, OneTailer
<1>8. CASE StopTimer(t)
  <2> DEFINE r == [tailer[t] EXCEPT !.timer = FALSE, !.cancelled = TRUE, !.stopped = TRUE]
  <2>1. tailer' = [tailer EXCEPT ![t] = r]
    BY <1>8 DEF StopTimer
  <2>2. Keeps(tailer[t], r)
    BY <1>0 DEF Keeps, TailerRecord
  <2> HIDE DEF r
  <2> QED BY <1>1, <2>1, <2>2, OneTailer
<1> QED BY <1>2, <1>3, <1>4, <1>5, <1>6, <1>7, <1>8

\* The tailers that the map holds are told to stop and are taken out of it: all
\* of them (cleanup), or those that are not in a set (the end of scan).
LEMMA TakenOut ==
  ASSUME ScannerInv, NEW K, disk' \subseteq Paths,
         tailers' = [p \in Paths |-> IF p \in K THEN tailers[p] ELSE None],
         tailer' = [t \in Tailers |-> IF t \in {tailers[p] : p \in Mapped \ K}
                                      THEN [Dismissed(t) EXCEPT !.stopped = TRUE] ELSE tailer[t]],
         scanner' = scanner \/ scanner' = Idle
  PROVE  ScannerInv'
<1> DEFINE out == {tailers[p] : p \in Mapped \ K}
<1>0. /\ tailers \in [Paths -> Tailers \cup {None}] /\ tailer \in [Tailers -> TailerRecord]
      /\ scanner.pc = "scan" => Cardinality(Mapped) <= scanner.count
      /\ Cardinality(Mapped) <= tailingLimit /\ tailingLimit \in Nat /\ scanner.count \in Nat
      /\ IsFiniteSet(Mapped) /\ Cardinality(Mapped) \in Nat
  BY FS_CardinalityType, ScannerAssumption DEF ScannerInv, ScannerTypes, CountCovers, LimitHolds
<1>1. ASSUME NEW t \in Tailers
      PROVE  /\ t \in out => tailer'[t] \in TailerRecord /\ tailer'[t].stopped
             /\ t \notin out => tailer'[t] = tailer[t]
  <2>1. Dismissed(t) \in TailerRecord
    BY <1>0 DEF Dismissed, TailerRecord
  <2>2. [Dismissed(t) EXCEPT !.stopped = TRUE] \in TailerRecord /\ [Dismissed(t) EXCEPT !.stopped = TRUE].stopped
    BY <2>1 DEF TailerRecord
  <2> QED BY <2>2
<1> HIDE DEF out
<1>2. tailer' \in [Tailers -> TailerRecord]
  <2>1. \A t \in Tailers : tailer'[t] \in TailerRecord
    BY <1>0, <1>1
  <2>2. tailer' = [t \in Tailers |-> tailer'[t]]
    OBVIOUS
  <2> QED BY <2>1, <2>2
<1>3. \A p \in Paths : tailers'[p] = IF p \in K THEN tailers[p] ELSE None
  OBVIOUS
<1>4. tailers' \in [Paths -> Tailers \cup {None}]
  BY <1>0
<1>5. Mapped' = Mapped \cap K
  BY <1>3 DEF Mapped
<1>6. /\ scanner' \in [pc : {"idle", "launch", "scan", "off"}, files : {scanner'.files}, tailed : {scanner'.tailed}, count : Nat]
      /\ scanner'.pc = "scan" => scanner' = scanner
  BY DEF ScannerInv, ScannerTypes, Idle
<1>7. /\ IsFiniteSet(Mapped') /\ Cardinality(Mapped') <= tailingLimit
      /\ scanner'.pc = "scan" => Cardinality(Mapped') <= scanner'.count
  <2>1. IsFiniteSet(Mapped') /\ Cardinality(Mapped') <= Cardinality(Mapped)
    <3>1. Mapped' \in SUBSET Mapped
      BY <1>5
    <3> QED BY <1>0, <3>1, FS_Subset
  <2>2. Cardinality(Mapped') \in Nat
    BY <2>1, FS_CardinalityType
  <2>3. Cardinality(Mapped') <= tailingLimit
    BY <1>0, <2>1, <2>2, SMT
  <2>4. scanner.pc = "scan" => Cardinality(Mapped') <= scanner.count
    BY <1>0, <2>1, <2>2, SMT
  <2> QED BY <1>6, <2>1, <2>3, <2>4
<1>8. ASSUME NEW p \in Mapped' PROVE tailer'[tailers'[p]].path = p
  <2>1. p \in Mapped /\ p \in K /\ p \in Paths /\ tailers'[p] = tailers[p] /\ tailers[p] \in Tailers
    BY <1>3, <1>5, MappedAre
  <2>2. tailers[p] \notin out
    BY <2>1, MapIsInjective DEF out
  <2> QED BY <1>1, <2>1, <2>2 DEF ScannerInv, LimitHolds
<1>9. NoOrphans'
  <2> SUFFICES ASSUME NEW t \in Tailers, tailer'[t].pc = "reads", \A p \in Paths : tailers'[p] # t
               PROVE  tailer'[t].stopped \/ tailer'[t].timer
    BY DEF NoOrphans
  <2>1. CASE t \in out
    BY <1>1, <2>1
  <2>2. CASE t \notin out
    <3>1. ASSUME NEW p \in Paths PROVE tailers[p] # t
      <4>1. CASE p \in Mapped \ K
        BY <2>2, <4>1 DEF out
      <4>2. CASE p \in K
        BY <1>3, <4>2
      <4>3. CASE p \notin Mapped
        BY <4>3, TailersAre DEF Mapped
      <4> QED BY <4>1, <4>2, <4>3
    <3> QED BY <1>1, <2>2, <3>1 DEF ScannerInv, NoOrphans
  <2> QED BY <2>1, <2>2
<1>10. ScannerTypes'
  BY <1>2, <1>4, <1>6 DEF ScannerTypes
<1> QED BY <1>7, <1>8, <1>9, <1>10 DEF ScannerInv, CountCovers, LimitHolds

\* cleanup takes all of them out of the map, whatever the scan is doing.
LEMMA Cleans ==
  ASSUME ScannerInv, Cleanup
  PROVE  ScannerInv'
<1> DEFINE K == {}
<1>1. tailers' = [p \in Paths |-> IF p \in K THEN tailers[p] ELSE None]
  BY DEF Cleanup
<1>2. waits' = {tailers[p] : p \in Mapped \ K}
  BY DEF Cleanup
<1>3. tailer' = [t \in Tailers |-> IF t \in {tailers[p] : p \in Mapped \ K}
                                   THEN [Dismissed(t) EXCEPT !.stopped = TRUE] ELSE tailer[t]]
  BY <1>2 DEF Cleanup
<1>4. disk' \subseteq Paths /\ scanner' = scanner
  BY DEF Cleanup, worldVars, ScannerInv, ScannerTypes
<1> HIDE DEF K
<1> QED BY <1>1, <1>3, <1>4, TakenOut

\* The end of scan takes out those of the files that it did not select.
LEMMA StopsOthers ==
  ASSUME ScannerInv, StopOthers
  PROVE  ScannerInv'
<1> DEFINE K == scanner.tailed
<1>1. /\ tailers' = [p \in Paths |-> IF p \in K THEN tailers[p] ELSE None]
      /\ tailer' = [t \in Tailers |-> IF t \in {tailers[p] : p \in Mapped \ K}
                                      THEN [Dismissed(t) EXCEPT !.stopped = TRUE] ELSE tailer[t]]
  BY DEF StopOthers
<1>2. disk' \subseteq Paths /\ scanner' = Idle
  BY DEF StopOthers, worldVars, ScannerInv, ScannerTypes
<1> HIDE DEF K
<1> QED BY <1>1, <1>2, TakenOut

\* No tailer changes, and the map does not.
LEMMA NoTailerChanges ==
  ASSUME ScannerInv, UNCHANGED <<disk, tailers, tailer>>, GoesOn
  PROVE  ScannerInv'
<1>1. tailer' \in [Tailers -> TailerRecord] /\ disk' \subseteq Paths /\ tailers' = tailers
  BY DEF ScannerInv, ScannerTypes
<1>2. \A t \in Tailers : Keeps(tailer[t], tailer'[t])
  BY DEF ScannerInv, ScannerTypes, Keeps
<1> QED BY <1>1, <1>2, SameMap

\* The steps of the scanner and of Stop that leave the tailers alone.
LEMMA QuietStep ==
  ASSUME ScannerInv,
         \/ Jam \/ CloseStop \/ StopReturns \/ AddSource \/ ScanBegins \/ LaunchEnds \/ RunReturns
         \/ \E s \in ToSet(Sources) : RemoveSource(s)
  PROVE  ScannerInv'
<1>1. UNCHANGED <<disk, tailers, tailer>>
  BY DEF Jam, CloseStop, StopReturns, AddSource, ScanBegins, LaunchEnds, RunReturns, RemoveSource, worldVars
<1>2. CASE Jam \/ CloseStop \/ StopReturns \/ \E s \in ToSet(Sources) : RemoveSource(s)
  <2>1. scanner' = scanner
    BY <1>2 DEF Jam, CloseStop, StopReturns, RemoveSource
  <2> QED BY <1>1, <2>1, StandsStill, NoTailerChanges
<1>3. CASE AddSource \/ LaunchEnds \/ RunReturns
  <2>1. 0 \in Nat
    BY SMT
  <2>2. Idle \in [pc : {"idle", "launch", "off"}, files : {<<>>}, tailed : {{}}, count : Nat]
    BY <2>1 DEF Idle
  <2>3. GoesOn
    <3>1. CASE AddSource
      BY <2>2, <3>1 DEF AddSource, GoesOn
    <3>2. CASE LaunchEnds
      BY <2>2, <3>2 DEF LaunchEnds, GoesOn, Idle
    <3>3. CASE RunReturns
      BY <2>2, <3>3 DEF RunReturns, GoesOn
    <3> QED BY <1>3, <3>1, <3>2, <3>3
  <2> QED BY <1>1, <2>3, NoTailerChanges
<1>4. CASE ScanBegins
  <2>1. Cardinality(Mapped) \in Nat
    BY FS_CardinalityType DEF ScannerInv, CountCovers
  <2>2. GoesOn
    BY <1>4, <2>1 DEF ScanBegins, GoesOn
  <2> QED BY <1>1, <2>2, NoTailerChanges
<1> QED BY <1>2, <1>3, <1>4

\* The loop goes to the next file, or gives up the others.
LEMMA NextFile ==
  ASSUME ScannerInv, scanner' = Done \/ scanner' = DoneAnd(0) \/ scanner' = [scanner EXCEPT !.files = <<>>]
  PROVE  GoesOn
<1>0. /\ scanner \in [pc : {"idle", "launch", "scan", "off"}, files : {scanner.files}, tailed : {scanner.tailed}, count : Nat]
      /\ scanner.count \in Nat
  BY DEF ScannerInv, ScannerTypes
<1>1. scanner.count >= scanner.count /\ scanner.count + 0 = scanner.count
  BY <1>0, SMT
<1>2. scanner'.pc = scanner.pc /\ scanner'.count = scanner.count
  BY <1>0, <1>1 DEF Done, DoneAnd
<1>3. scanner' \in [pc : {"idle", "launch", "scan", "off"}, files : {scanner'.files}, tailed : {scanner'.tailed}, count : Nat]
  BY <1>0, <1>1 DEF Done, DoneAnd
<1> QED BY <1>1, <1>2, <1>3 DEF GoesOn

\* What the loop has after a file with a tailer.
LEMMA Counted ==
  ASSUME ScannerInv, NEW n \in Nat, scanner' = DoneAnd(n)
  PROVE  /\ scanner' \in [pc : {"idle", "launch", "scan", "off"}, files : {scanner'.files}, tailed : {scanner'.tailed}, count : Nat]
         /\ scanner'.pc = scanner.pc /\ scanner'.count = scanner.count + n
<1>0. /\ scanner \in [pc : {"idle", "launch", "scan", "off"}, files : {scanner.files}, tailed : {scanner.tailed}, count : Nat]
      /\ scanner.count \in Nat
  BY DEF ScannerInv, ScannerTypes
<1>1. scanner.count + n \in Nat
  BY <1>0, SMT
<1> QED BY <1>0, <1>1 DEF Done, DoneAnd

\* startNewTailer, when the limit allows one more.
LEMMA StartsNew ==
  ASSUME ScannerInv, NEW n \in {0, 1}, file \notin Mapped, Cardinality(Mapped) < tailingLimit,
         scanner.pc = "scan" => n = 1, StartNewTailer(n), disk' = disk
  PROVE  ScannerInv'
<1>0. disk \subseteq Paths /\ tailer \in [Tailers -> TailerRecord] /\ tailers \in [Paths -> Tailers \cup {None}] /\ n \in Nat
  BY SMT DEF ScannerInv, ScannerTypes
<1>1. CASE OpenFails /\ scanner' = Done /\ UNCHANGED <<tailers, tailer>>
  BY <1>1, NextFile, NoTailerChanges
<1>2. CASE /\ Opens /\ Free # {}
           /\ \E past \in BOOLEAN : tailer' = [tailer EXCEPT ![Min(Free)] = Started(file, past)]
           /\ tailers' = [tailers EXCEPT ![file] = Min(Free)]
           /\ scanner' = DoneAnd(n)
  <2> DEFINE m == Min(Free)
  <2>1. m \in Tailers /\ \A q \in Paths : tailers[q] # m
    BY <1>2, FreeIsUnmapped
  <2>2. PICK past \in BOOLEAN : tailer' = [tailer EXCEPT ![m] = Started(file, past)]
    BY <1>2
  <2>3. tailers' = [tailers EXCEPT ![file] = m]
    BY <1>2
  <2> HIDE DEF m
  <2>4. file \in Paths
    BY <1>0, <1>2 DEF Opens
  <2>5. tailer' \in [Tailers -> TailerRecord] /\ tailer'[m].path = file /\ \A u \in Tailers \ {m} : tailer'[u] = tailer[u]
    BY <1>0, <2>1, <2>2, <2>4, StartedFields
  <2>6. tailers[file] \notin Tailers
    BY <2>4, TailersAre DEF Mapped
  <2>7. scanner.pc = "scan" => scanner'.count = scanner.count + 1
    BY <1>0, <1>2, Counted
  <2>8. /\ scanner'.pc = scanner.pc
        /\ scanner' \in [pc : {"idle", "launch", "scan", "off"}, files : {scanner'.files}, tailed : {scanner'.tailed}, count : Nat]
    BY <1>0, <1>2, Counted
  <2>9. disk' \subseteq Paths
    BY <1>0
  <2>10. \A u \in Tailers \ {m} : IF u = tailers[file] THEN tailer'[u].timer ELSE tailer'[u] = tailer[u]
    BY <2>5, <2>6
  <2>11. /\ file \in Mapped => scanner'.count = scanner.count
         /\ file \notin Mapped => /\ Cardinality(Mapped) < tailingLimit
                                  /\ scanner.pc = "scan" => scanner'.count = scanner.count + 1
    BY <2>7
  <2>12. tailer' \in [Tailers -> TailerRecord] /\ tailer'[m].path = file
    BY <2>5
  <2> QED BY <2>1, <2>3, <2>4, <2>8, <2>9, <2>10, <2>11, <2>12, NewEntry
<1> QED BY <1>1, <1>2 DEF StartNewTailer

\* restartTailerAfterFileRotation: the tailer that is replaced, or stays because
\* the file cannot be opened, has its stop timer running.
LEMMA Restarts ==
  ASSUME ScannerInv, file \in Mapped, RestartTailerAfterFileRotation(tailers[file]), disk' = disk
  PROVE  ScannerInv'
<1> DEFINE t == tailers[file]
<1>0. /\ disk \subseteq Paths /\ tailer \in [Tailers -> TailerRecord] /\ tailers \in [Paths -> Tailers \cup {None}]
      /\ file \in Paths /\ t \in Tailers /\ scanner.count \in Nat
  BY MappedAre DEF ScannerInv, ScannerTypes
<1>1. CASE /\ OpenFails
           /\ tailer' = [tailer EXCEPT ![t] = [tailer[t] EXCEPT !.timer = TRUE]]
           /\ scanner' = Done
           /\ UNCHANGED tailers
  <2> DEFINE r == [tailer[t] EXCEPT !.timer = TRUE]
  <2> HIDE DEF t
  <2>1. Keeps(tailer[t], r)
    BY <1>0 DEF Keeps, TailerRecord
  <2>2. tailer' = [tailer EXCEPT ![t] = r]
    BY <1>1
  <2> HIDE DEF r
  <2>3. tailer' \in [Tailers -> TailerRecord]
    BY <1>0, <2>1, <2>2 DEF Keeps
  <2>4. \A u \in Tailers : Keeps(tailer[u], tailer'[u])
    BY <1>0, <2>1, <2>2 DEF Keeps
  <2>5. GoesOn
    BY <1>1, NextFile
  <2> QED BY <1>0, <1>1, <2>3, <2>4, <2>5, SameMap
<1>2. CASE /\ Opens /\ Free # {}
           /\ tailer' = [[tailer EXCEPT ![t] = [Dismissed(t) EXCEPT !.timer = TRUE]] EXCEPT ![Min(Free)] = Started(file, FALSE)]
           /\ tailers' = [tailers EXCEPT ![file] = Min(Free)]
           /\ scanner' = DoneAnd(0)
  <2> DEFINE m == Min(Free)
             r == [Dismissed(t) EXCEPT !.timer = TRUE]
  <2>1. m \in Tailers /\ \A q \in Paths : tailers[q] # m
    BY <1>2, FreeIsUnmapped
  <2>2. /\ tailer' = [[tailer EXCEPT ![t] = r] EXCEPT ![m] = Started(file, FALSE)]
        /\ tailers' = [tailers EXCEPT ![file] = m]
    BY <1>2
  <2> HIDE DEF m
  <2>3. t # m
    BY <1>0, <2>1
  <2> HIDE DEF t
  <2>4. r \in TailerRecord /\ r.timer
    <3>1. Dismissed(t) \in TailerRecord
      BY <1>0 DEF Dismissed, TailerRecord
    <3> QED BY <3>1 DEF TailerRecord
  <2> HIDE DEF r
  <2>5. Started(file, FALSE) \in TailerRecord /\ Started(file, FALSE).path = file
    BY <1>0, StartedFields
  <2>6. /\ tailer' \in [Tailers -> TailerRecord] /\ tailer'[m].path = file
        /\ \A u \in Tailers \ {m} : IF u = t THEN tailer'[u].timer ELSE tailer'[u] = tailer[u]
    BY <1>0, <2>1, <2>2, <2>3, <2>4, <2>5
  <2>7. 0 \in Nat /\ scanner.count + 0 = scanner.count
    BY <1>0, SMT
  <2>8. /\ scanner'.pc = scanner.pc
        /\ scanner' \in [pc : {"idle", "launch", "scan", "off"}, files : {scanner'.files}, tailed : {scanner'.tailed}, count : Nat]
        /\ file \in Mapped => scanner'.count = scanner.count
    BY <1>2, <2>7, Counted
  <2>9. disk' \subseteq Paths /\ file \in Mapped
    BY <1>0
  <2>10. /\ \A u \in Tailers \ {m} : IF u = tailers[file] THEN tailer'[u].timer ELSE tailer'[u] = tailer[u]
         /\ file \notin Mapped => /\ Cardinality(Mapped) < tailingLimit
                                  /\ scanner.pc = "scan" => scanner'.count = scanner.count + 1
    BY <2>6, <2>9 DEF t
  <2>11. tailer' \in [Tailers -> TailerRecord] /\ tailer'[m].path = file /\ file \in Paths
    BY <1>0, <2>6
  <2>12. tailers' = [tailers EXCEPT ![file] = m]
    BY <2>2
  <2> QED BY <2>1, <2>8, <2>9, <2>10, <2>11, <2>12, NewEntry
<1> QED BY <1>1, <1>2 DEF RestartTailerAfterFileRotation

\* One file of launchTailers, which compares the limit with the map itself.
LEMMA LaunchesOne ==
  ASSUME ScannerInv, LaunchTailer
  PROVE  ScannerInv'
<1>0. disk' = disk /\ scanner.pc # "scan"
  BY DEF LaunchTailer
<1>1. CASE scanner' = [scanner EXCEPT !.files = <<>>] /\ UNCHANGED <<faults, tailers, tailer>>
  BY <1>0, <1>1, NextFile, NoTailerChanges
<1>2. CASE Skip
  BY <1>0, <1>2, NextFile, NoTailerChanges DEF Skip
<1>3. CASE Cardinality(Mapped) < tailingLimit /\ file \notin Mapped /\ StartNewTailer(0)
  BY <1>0, <1>3, StartsNew
<1> QED BY <1>1, <1>2, <1>3 DEF LaunchTailer

\* One file of scan, which compares the limit with its own count.
LEMMA ScansOne ==
  ASSUME ScannerInv, ScanFile
  PROVE  ScannerInv'
<1>0. disk' = disk /\ scanner.pc = "scan"
  BY DEF ScanFile
<1>1. CASE file \in Mapped /\ ScanTailed(tailers[file])
  <2>1. CASE UNCHANGED <<tailers, tailer>> /\ (scanner' = Done \/ scanner' = DoneAnd(0))
    BY <1>0, <2>1, NextFile, NoTailerChanges
  <2>2. CASE RestartTailerAfterFileRotation(tailers[file])
    BY <1>0, <1>1, <2>2, Restarts
  <2> QED BY <1>1, <2>1, <2>2 DEF ScanTailed, Skip
<1>2. CASE Skip
  BY <1>0, <1>2, NextFile, NoTailerChanges DEF Skip
<1>3. CASE file \notin Mapped /\ scanner.count < tailingLimit /\ StartNewTailer(1)
  <2>1. Cardinality(Mapped) < tailingLimit
    <3>1. /\ Cardinality(Mapped) <= scanner.count /\ Cardinality(Mapped) \in Nat /\ scanner.count \in Nat /\ tailingLimit \in Nat
          /\ scanner.count < tailingLimit
      BY <1>0, <1>3, FS_CardinalityType, ScannerAssumption DEF ScannerInv, ScannerTypes, CountCovers
    <3> QED BY <3>1, SMT
  <2> QED BY <1>0, <1>3, <2>1, StartsNew
<1> QED BY <1>1, <1>2, <1>3 DEF ScanFile

----------------------------------------------------------------------------
(* The theorems *)

\* The scanner begins with an empty map.
LEMMA InitScanner == Init => ScannerInv
<1> SUFFICES ASSUME Init PROVE ScannerInv
  OBVIOUS
<1>1. Mapped = {}
  BY DEF Init, Mapped
<1>2. IsFiniteSet(Mapped) /\ Cardinality(Mapped) = 0
  BY <1>1, FS_EmptySet
<1>3. 0 <= tailingLimit /\ 0 \in Nat
  BY ScannerAssumption, SMT
<1>4. ScannerTypes
  <2>1. disk \subseteq Paths /\ tailers \in [Paths -> Tailers \cup {None}] /\ tailer \in [Tailers -> TailerRecord]
    BY NewTailerType DEF Init
  <2>2. scanner = [pc |-> "idle", files |-> <<>>, tailed |-> {}, count |-> 0]
    BY DEF Init, Idle
  <2>3. scanner \in [pc : {"idle", "launch", "scan", "off"}, files : {scanner.files}, tailed : {scanner.tailed}, count : Nat]
    BY <1>3, <2>2
  <2> QED BY <2>1, <2>3 DEF ScannerTypes
<1>5. CountCovers
  BY <1>2 DEF Init, Idle, CountCovers
<1>6. LimitHolds
  BY <1>1, <1>2, <1>3 DEF LimitHolds
<1>7. NoOrphans
  BY DEF Init, NewTailer, NoOrphans
<1> QED BY <1>4, <1>5, <1>6, <1>7 DEF ScannerInv

\* Every step preserves the invariant.
LEMMA NextScanner == ScannerInv /\ [Next]_vars => ScannerInv'
<1> SUFFICES ASSUME ScannerInv, [Next]_vars PROVE ScannerInv'
  OBVIOUS
<1>1. CASE \E p \in Paths : Create(p) \/ Delete(p) \/ Truncate(p)
  BY <1>1, FilesChange
<1>2. CASE \E t \in Tailers : TailerSteps(t) \/ StopTimer(t) \/ Reads(t) \/ ReadFails(t) \/ Grows(t)
  BY <1>2, TailerStep DEF TailerSteps
<1>3. CASE \/ Jam \/ CloseStop \/ StopReturns \/ AddSource \/ ScanBegins \/ LaunchEnds \/ RunReturns
           \/ \E s \in ToSet(Sources) : RemoveSource(s)
  BY <1>3, QuietStep
<1>4. CASE LaunchTailer
  BY <1>4, LaunchesOne
<1>5. CASE ScanFile
  BY <1>5, ScansOne
<1>6. CASE StopOthers
  BY <1>6, StopsOthers
<1>7. CASE Cleanup
  BY <1>7, Cleans
<1>8. CASE UNCHANGED vars
  <2>1. UNCHANGED <<disk, tailers, tailer>> /\ scanner' = scanner
    BY <1>8 DEF vars, worldVars
  <2> QED BY <2>1, StandsStill, NoTailerChanges
<1> QED BY <1>1, <1>2, <1>3, <1>4, <1>5, <1>6, <1>7, <1>8 DEF Next, ScannerSteps, StopSteps

\* The invariant of the scanner: types, the count of the scan and what it covers,
\* the limit and the tailers outside the map.
THEOREM ScannerInvariant == Spec => []ScannerInv
BY InitScanner, NextScanner, PTL DEF Spec

\* Scanner.tailers never holds more than tailingLimit tailers, each under its
\* own path, although scan compares the limit with a count of its own and Stop
\* may empty the map in the middle of a scan.
THEOREM LimitHoldsAlways == Spec => []LimitHolds
<1>1. ScannerInv => LimitHolds
  BY DEF ScannerInv
<1> QED BY <1>1, ScannerInvariant, PTL

\* A tailer that reads outside the map was told to stop or has its stop timer
\* running: restartTailerAfterFileRotation, stopTailer and cleanup leave none
\* behind.
THEOREM NoOrphansAlways == Spec => []NoOrphans
<1>1. ScannerInv => NoOrphans
  BY DEF ScannerInv
<1> QED BY <1>1, ScannerInvariant, PTL

=============================================================================
