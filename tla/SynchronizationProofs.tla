------------------------ MODULE SynchronizationProofs ------------------------
(* For any ingesters, syncers, candle values, pages, cutoffs and bounds: what *)
(* was synchronized can be rebuilt, past cutoffs are settled, 10m candles     *)
(* match their canonical members unless a 5m page clashed, and a finished     *)
(* ingestion leaves no pair without its 10m candle.                           *)
EXTENDS Synchronization, Extremes, FiniteSetTheorems, TLAPS

-----------------------------------------------------------------------------
(* Timeframes, windows and pairs.                                             *)

LEMMA Widths == Width(5) = 1 /\ Width(10) = 2 /\ Width(15) = 3
  BY DEF Width

LEMMA SlotsByFrame ==
    /\ Slots(5) = 0 .. MaxTime - 1
    /\ Slots(10) = 0 .. (MaxTime \div 2) - 1
    /\ Slots(15) = 0 .. (MaxTime \div 3) - 1
  <1>1. MaxTime \div 1 = MaxTime
    BY SynchronizationAssumption
  <1> QED
    BY <1>1, Widths DEF Slots

LEMMA ClosesByFrame ==
    ASSUME NEW t \in Nat
    PROVE  Closes(5, t) = t + 1 /\ Closes(10, t) = 2 * (t + 1) /\ Closes(15, t) = 3 * (t + 1)
  BY Widths DEF Closes

\* The pairs of a window are those of the derived window.
LEMMA PairsOfWindow ==
    ASSUME NEW first \in Nat, NEW until \in Nat, NEW t \in Nat
    PROVE  t \in ((first + 1) \div 2) .. ((until \div 2) - 1)
             <=> Pair(t) \subseteq first .. (until - 1)
  <1>1. t >= (first + 1) \div 2 <=> 2 * t >= first
    OBVIOUS
  <1>2. t <= (until \div 2) - 1 <=> 2 * t + 1 <= until - 1
    OBVIOUS
  <1> QED
    BY <1>1, <1>2 DEF Pair

-----------------------------------------------------------------------------
(* Pages and what one transaction of an ingestion does to the tables.         *)

\* Evidence a candle of a timeframe may carry.
EvidenceOf(tf) == IF tf = 10 THEN {Aggregate[p] : p \in DOMAIN Aggregate} ELSE Values[tf]

IsSample(tf, s) ==
    /\ s.first \in Nat /\ s.until \in Nat /\ Window(s) \subseteq Slots(tf)
    /\ s.valid \in BOOLEAN /\ s.retrieved \in Nat \ {0}
    /\ s.valid => \A t \in Window(s) : s.value[t] \in EvidenceOf(tf)
    /\ s = [first |-> s.first, until |-> s.until, retrieved |-> s.retrieved,
            valid |-> s.valid, value |-> s.value]

LEMMA NativePages ==
    ASSUME clock \in PageLimit .. MaxTime, NEW tf \in {5, 15}, NEW s \in NativeSamples(tf)
    PROVE  IsSample(tf, s) /\ s.retrieved = clock
  <1> DEFINE until == clock \div Width(tf)
             first == Max({until - PageLimit, 0})
             page(valid, v) == [first |-> first, until |-> until, retrieved |-> clock,
                                valid |-> valid, value |-> v]
             W == first .. (until - 1)
  <1>1. clock \in Nat \ {0} /\ clock <= MaxTime
    BY SynchronizationAssumption
  <1>2. until \in Nat /\ until <= MaxTime \div Width(tf) /\ until <= MaxTime
    <2>1. CASE tf = 5
      BY <1>1, <2>1, Widths, SynchronizationAssumption
    <2>2. CASE tf = 15
      BY <1>1, <2>2, Widths, SynchronizationAssumption
    <2> QED
      BY <2>1, <2>2
  <1>3. first \in Nat
    <2> HIDE DEF until
    <2>1. Max({until - PageLimit, 0}) \in {until - PageLimit, 0}
      <3>1. \E x \in {until - PageLimit, 0} : \A y \in {until - PageLimit, 0} : x >= y
        BY <1>2, SynchronizationAssumption
      <3> QED
        BY <3>1 DEF Max
    <2>2. \A y \in {until - PageLimit, 0} : Max({until - PageLimit, 0}) >= y
      <3>1. \E x \in {until - PageLimit, 0} : \A y \in {until - PageLimit, 0} : x >= y
        BY <1>2, SynchronizationAssumption
      <3> QED
        BY <3>1 DEF Max
    <2> QED
      BY <1>2, <2>1, <2>2, SynchronizationAssumption
  <1>4. W \subseteq Slots(tf) /\ W \in SUBSET (0 .. MaxTime)
    <2> HIDE DEF first, until
    <2>1. Slots(tf) = 0 .. (MaxTime \div Width(tf)) - 1
      BY DEF Slots
    <2>2. MaxTime \div Width(tf) \in Nat
      BY Widths, SynchronizationAssumption
    <2> QED
      BY <1>2, <1>3, <2>1, <2>2, SynchronizationAssumption
  <1>5. \/ s = page(FALSE, << >>)
        \/ \E v \in Readings(tf, W) : s = page(TRUE, v)
    BY DEF NativeSamples
  <1>6. Readings(tf, W) \subseteq [W -> Values[tf]]
    BY <1>4, SynchronizationAssumption
  <1> HIDE DEF first, until
  <1>7. PICK valid, v :
          valid \in BOOLEAN /\ s = page(valid, v) /\ (valid => v \in [W -> Values[tf]])
    <2>1. CASE s = page(FALSE, << >>)
      BY <2>1
    <2>2. CASE \E v \in Readings(tf, W) : s = page(TRUE, v)
      BY <2>2, <1>6
    <2> QED
      BY <1>5, <2>1, <2>2
  <1>8. /\ s.first = first /\ s.until = until /\ s.retrieved = clock /\ s.valid = valid
        /\ s.value = v
    BY <1>7
  <1>9. \A t \in W : valid => v[t] \in EvidenceOf(tf)
    BY <1>7 DEF EvidenceOf
  <1>10. Window(s) = W
    BY <1>8 DEF Window
  <1>11. s = [first |-> s.first, until |-> s.until, retrieved |-> s.retrieved,
              valid |-> s.valid, value |-> s.value]
    BY <1>7, <1>8
  <1>12. /\ s.first \in Nat /\ s.until \in Nat /\ Window(s) \subseteq Slots(tf)
         /\ s.valid \in BOOLEAN /\ s.retrieved \in Nat \ {0}
    BY <1>1, <1>2, <1>3, <1>4, <1>7, <1>8, <1>10
  <1>13. s.valid => \A t \in Window(s) : s.value[t] \in EvidenceOf(tf)
    BY <1>8, <1>9, <1>10
  <1> HIDE DEF W, page
  <1> QED
    BY <1>8, <1>11, <1>12, <1>13 DEF IsSample

\* The window derived from a valid 5m window: the pairs it holds, aggregated.
LEMMA DerivedWindow ==
    ASSUME NEW s, IsSample(5, s), s.valid
    PROVE  /\ IsSample(10, DerivedSample(s))
           /\ DerivedSample(s).valid /\ DerivedSample(s).retrieved = s.retrieved
           /\ \A t \in Nat : t \in Window(DerivedSample(s)) <=> Pair(t) \subseteq Window(s)
           /\ \A t \in Window(DerivedSample(s)) :
                DerivedSample(s).value[t] = Aggregate[<<s.value[2 * t], s.value[2 * t + 1]>>]
  <1> DEFINE d == DerivedSample(s)
             first == (s.first + 1) \div 2
             until == s.until \div 2
             W == first .. (until - 1)
             value == [t \in W |-> Aggregate[<<s.value[2 * t], s.value[2 * t + 1]>>]]
  <1>1. s = [first |-> s.first, until |-> s.until, retrieved |-> s.retrieved,
             valid |-> s.valid, value |-> s.value]
    BY DEF IsSample
  <1>2. first \in Nat /\ until \in Nat
    BY DEF IsSample
  <1>3. d = [first |-> first, until |-> until, retrieved |-> s.retrieved,
             valid |-> s.valid, value |-> value]
    <2>1. d = [s EXCEPT !.first = first, !.until = until, !.value = value]
      BY DEF DerivedSample
    <2> HIDE DEF d, first, until, value
    <2> QED
      BY <1>1, <2>1
  <1> HIDE DEF d
  <1>4. /\ d.first = first /\ d.until = until /\ d.retrieved = s.retrieved
        /\ d.valid = s.valid /\ d.value = value
    BY <1>3
  <1>5. Window(d) = W
    BY <1>4 DEF Window
  <1>6. \A t \in Nat : t \in W <=> Pair(t) \subseteq Window(s)
    BY PairsOfWindow DEF IsSample, Window
  <1>7. W \subseteq Nat
    BY <1>2
  <1>8. ASSUME NEW t \in W
        PROVE  t \in Slots(10) /\ value[t] \in EvidenceOf(10)
    <2>1. 2 * t \in Window(s) /\ 2 * t + 1 \in Window(s) /\ t \in Nat
      BY <1>6, <1>7 DEF Pair
    <2>2. 2 * t + 1 <= MaxTime - 1
      <3>1. Window(s) \subseteq Slots(5)
        BY DEF IsSample
      <3> QED
        BY <2>1, <3>1, SlotsByFrame, SynchronizationAssumption
    <2>3. t \in Slots(10)
      BY <2>1, <2>2, SlotsByFrame, SynchronizationAssumption
    <2>4. s.value[2 * t] \in Values[5] /\ s.value[2 * t + 1] \in Values[5]
      BY <2>1 DEF IsSample, EvidenceOf
    <2>5. <<s.value[2 * t], s.value[2 * t + 1]>> \in DOMAIN Aggregate
      BY <2>4, SynchronizationAssumption
    <2> QED
      BY <2>3, <2>5 DEF EvidenceOf
  <1>9. d = [first |-> d.first, until |-> d.until, retrieved |-> d.retrieved,
             valid |-> d.valid, value |-> d.value]
    BY <1>3, <1>4
  <1>10. IsSample(10, d)
    <2> HIDE DEF first, until, value
    <2>1. W \subseteq Slots(10) /\ \A t \in W : d.value[t] \in EvidenceOf(10)
      BY <1>4, <1>8
    <2>2. s.retrieved \in Nat \ {0} /\ s.valid \in BOOLEAN
      BY DEF IsSample
    <2> QED
      BY <1>2, <1>4, <1>5, <1>9, <2>1, <2>2 DEF IsSample
  <1>11. \A t \in W : d.value[t] = Aggregate[<<s.value[2 * t], s.value[2 * t + 1]>>]
    BY <1>4
  <1> QED
    BY <1>4, <1>5, <1>6, <1>10, <1>11 DEF d

-----------------------------------------------------------------------------
(* The tables of the ingestion.                                               *)

RowSound(tf, row) ==
    /\ row \in Rows
    /\ row.batch \in DOMAIN batches
    /\ batches[row.batch].tf = tf /\ batches[row.batch].valid

BatchSound(b, x) ==
    /\ x.tf \in Frames /\ x.retrieved \in 1 .. clock
    /\ x.source \in 0 .. (b - 1) /\ (x.tf = 10) = (x.source # 0)

TablesSound ==
    /\ clock \in PageLimit .. MaxTime
    /\ Len(batches) \in Nat /\ DOMAIN batches = 1 .. Len(batches)
    /\ DOMAIN candles = Frames /\ \A tf \in Frames : DOMAIN candles[tf] = Slots(tf)
    /\ \A tf \in Frames : \A t \in Slots(tf) :
          candles[tf][t] # NoCandle => RowSound(tf, candles[tf][t])
    /\ \A b \in DOMAIN batches : BatchSound(b, batches[b])
    /\ \A c \in conflicts : c.tf \in {5, 15} /\ c.time \in Slots(c.tf)

\* No evidence is lost or rewritten.
EvidenceStands ==
    /\ clock' \in Nat /\ clock <= clock'
    /\ \A b \in DOMAIN batches : b \in DOMAIN batches' /\ batches'[b] = batches[b]
    /\ \A tf \in Frames : \A t \in Slots(tf) :
          candles[tf][t] # NoCandle => candles'[tf][t] = candles[tf][t]
    /\ conflicts \subseteq conflicts' /\ snapshots \subseteq snapshots'
    /\ derivations \subseteq derivations'

LEMMA ClockPositive == TablesSound => clock \in Nat \ {0}
  BY SynchronizationAssumption DEF TablesSound

LEMMA AppendedBatch ==
    ASSUME TablesSound, NEW row, batches' = Append(batches, row)
    PROVE  /\ Len(batches') \in Nat /\ DOMAIN batches' = 1 .. Len(batches')
           /\ NextBatch \in DOMAIN batches' /\ NextBatch \notin DOMAIN batches
           /\ NextBatch \in Nat \ {0}
           /\ batches'[NextBatch] = row
           /\ DOMAIN batches' = DOMAIN batches \cup {NextBatch}
           /\ \A b \in DOMAIN batches : batches'[b] = batches[b]
  <1>1. /\ Len(batches') = Len(batches) + 1
        /\ DOMAIN batches' = 1 .. Len(batches) + 1
        /\ batches'[Len(batches) + 1] = row
        /\ \A i \in DOMAIN batches : batches'[i] = batches[i]
    BY DEF TablesSound
  <1> QED
    BY <1>1 DEF TablesSound, NextBatch

\* The rows a transaction inserts.
Inserts(tf, s) ==
    /\ s.valid
    /\ \/ tf = 10
       \/ SourceConflicts(candles[tf], s) = {}

\* Only rows missing from the window of the page are inserted, all of them or
\* none, and they name the transaction's batch.
LEMMA PersistedRows ==
    ASSUME TablesSound, NEW tf \in Frames, NEW s, IsSample(tf, s), NEW source,
           PersistSample(tf, s, source)
    PROVE  /\ DOMAIN candles' = Frames /\ \A f \in Frames : DOMAIN candles'[f] = Slots(f)
           /\ \A f \in Frames : \A t \in Slots(f) :
                candles'[f][t] =
                  IF f = tf /\ Inserts(tf, s) /\ t \in Window(s) /\ candles[f][t] = NoCandle
                  THEN [value |-> s.value[t], batch |-> NextBatch] ELSE candles[f][t]
  <1> DEFINE store == candles[tf]
             full == Promote(store, s, NextBatch)
  <1>1. DOMAIN candles = Frames /\ \A f \in Frames : DOMAIN candles[f] = Slots(f)
    BY DEF TablesSound
  <1>2. /\ DOMAIN full = Slots(tf)
        /\ \A t \in Slots(tf) :
             full[t] = IF t \in Window(s) /\ store[t] = NoCandle
                       THEN [value |-> s.value[t], batch |-> NextBatch] ELSE store[t]
    BY <1>1 DEF Promote, Fresh
  <1> HIDE DEF full
  <1>3. \/ Inserts(tf, s) /\ candles' = [candles EXCEPT ![tf] = full]
        \/ ~ Inserts(tf, s) /\ candles' = [candles EXCEPT ![tf] = candles[tf]]
        \/ ~ Inserts(tf, s) /\ candles' = candles
    BY DEF PersistSample, Inserts, PersistUnchecked, PersistNative, full
  <1>4. CASE Inserts(tf, s) /\ candles' = [candles EXCEPT ![tf] = full]
    BY <1>1, <1>2, <1>4
  <1>5. CASE ~ Inserts(tf, s) /\ candles' = [candles EXCEPT ![tf] = candles[tf]]
    BY <1>1, <1>5
  <1>6. CASE ~ Inserts(tf, s) /\ candles' = candles
    BY <1>1, <1>6
  <1> QED
    BY <1>3, <1>4, <1>5, <1>6

\* The batch and the conflicts of a transaction.
LEMMA PersistedBatch ==
    ASSUME TablesSound, NEW tf \in Frames, NEW s, IsSample(tf, s), NEW source,
           PersistSample(tf, s, source)
    PROVE  /\ UNCHANGED <<clock, snapshots, derivations, syncs, sync>>
           /\ batches' = Append(batches, [tf |-> tf, source |-> source, valid |-> s.valid,
                                          first |-> s.first, until |-> s.until,
                                          retrieved |-> s.retrieved])
           /\ conflicts \subseteq conflicts'
           /\ \A c \in conflicts' \ conflicts :
                c.tf = tf /\ tf # 10 /\ c.time \in Window(s)
           /\ tf # 10 /\ s.valid /\ SourceConflicts(candles[tf], s) # {}
                => \E c \in conflicts' : c.tf = tf
  <1> DEFINE clashes == IF tf = 10 THEN {} ELSE SourceConflicts(candles[tf], s)
  <1>1. conflicts' = IF s.valid THEN conflicts \cup [tf : {tf}, time : clashes] ELSE conflicts
    BY DEF PersistSample
  <1>2. tf # 10 => clashes \subseteq Window(s)
    BY DEF SourceConflicts
  <1>3. tf = 10 => clashes = {}
    OBVIOUS
  <1>4. UNCHANGED <<clock, snapshots, derivations, syncs, sync>>
    BY DEF PersistSample
  <1>5. tf # 10 => clashes = SourceConflicts(candles[tf], s)
    OBVIOUS
  <1> HIDE DEF clashes
  <1>6. \A c \in [tf : {tf}, time : clashes] : c.tf = tf /\ c.time \in clashes
    OBVIOUS
  <1>7. \A t \in clashes : [tf |-> tf, time |-> t] \in [tf : {tf}, time : clashes]
    OBVIOUS
  <1>8. \A c \in conflicts' \ conflicts : c.tf = tf /\ tf # 10 /\ c.time \in Window(s)
    BY <1>1, <1>2, <1>3, <1>6
  <1>9. tf # 10 /\ s.valid /\ SourceConflicts(candles[tf], s) # {} => \E c \in conflicts' : c.tf = tf
    <2> SUFFICES ASSUME tf # 10, s.valid, SourceConflicts(candles[tf], s) # {}
                 PROVE  \E c \in conflicts' : c.tf = tf
      OBVIOUS
    <2>1. PICK t : t \in clashes
      BY <1>5
    <2>2. [tf |-> tf, time |-> t] \in conflicts'
      BY <1>1, <1>7, <2>1
    <2> QED
      BY <2>2
  <1>10. batches' = Append(batches, [tf |-> tf, source |-> source, valid |-> s.valid,
                                     first |-> s.first, until |-> s.until,
                                     retrieved |-> s.retrieved])
    BY DEF PersistSample
  <1>11. conflicts \subseteq conflicts'
    BY <1>1
  <1> QED
    BY <1>4, <1>8, <1>9, <1>10, <1>11

\* The tables stay sound, and nothing in them changes.
LEMMA PersistKeeps ==
    ASSUME TablesSound, NEW tf \in Frames, NEW s, IsSample(tf, s), s.retrieved <= clock,
           NEW source \in 0 .. Len(batches), (tf = 10) = (source # 0),
           PersistSample(tf, s, source)
    PROVE  TablesSound' /\ EvidenceStands
  <1>1. UNCHANGED <<clock, snapshots, derivations, syncs, sync>>
    BY PersistedBatch
  <1>2. PICK row : /\ batches' = Append(batches, row)
                   /\ row.tf = tf /\ row.source = source /\ row.valid = s.valid
                   /\ row.retrieved = s.retrieved
    <2> DEFINE new == [tf |-> tf, source |-> source, valid |-> s.valid,
                       first |-> s.first, until |-> s.until, retrieved |-> s.retrieved]
    <2>1. batches' = Append(batches, new)
      BY PersistedBatch
    <2>2. /\ new.tf = tf /\ new.source = source /\ new.valid = s.valid
          /\ new.retrieved = s.retrieved
      OBVIOUS
    <2> HIDE DEF new
    <2> QED
      BY <2>1, <2>2
  <1>3. /\ Len(batches') \in Nat /\ DOMAIN batches' = 1 .. Len(batches')
        /\ NextBatch \in DOMAIN batches' /\ NextBatch \notin DOMAIN batches
        /\ NextBatch \in Nat \ {0}
        /\ batches'[NextBatch] = row
        /\ DOMAIN batches' = DOMAIN batches \cup {NextBatch}
        /\ \A b \in DOMAIN batches : batches'[b] = batches[b]
    BY <1>2, AppendedBatch
  <1>4. /\ DOMAIN candles' = Frames /\ \A f \in Frames : DOMAIN candles'[f] = Slots(f)
        /\ \A f \in Frames : \A t \in Slots(f) :
             candles'[f][t] =
               IF f = tf /\ Inserts(tf, s) /\ t \in Window(s) /\ candles[f][t] = NoCandle
               THEN [value |-> s.value[t], batch |-> NextBatch] ELSE candles[f][t]
    BY PersistedRows
  <1>5. EvidenceStands
    <2>1. conflicts \subseteq conflicts'
      BY PersistedBatch
    <2>2. clock' \in Nat /\ clock <= clock'
      BY <1>1, ClockPositive
    <2>3. \A f \in Frames : \A t \in Slots(f) :
            candles[f][t] # NoCandle => candles'[f][t] = candles[f][t]
      BY <1>4
    <2> QED
      BY <1>1, <1>3, <2>1, <2>2, <2>3 DEF EvidenceStands
  <1>6. ASSUME NEW f \in Frames, NEW t \in Slots(f), NEW x, x = candles'[f][t], x # NoCandle
        PROVE  RowSound(f, x)'
    <2>1. CASE x = candles[f][t]
      <3>1. RowSound(f, x)
        BY <1>6, <2>1 DEF TablesSound
      <3> QED
        BY <1>3, <3>1 DEF RowSound
    <2>2. CASE x # candles[f][t]
      <3>1. /\ f = tf /\ s.valid /\ t \in Window(s)
            /\ x = [value |-> s.value[t], batch |-> NextBatch]
        BY <1>4, <1>6, <2>2 DEF Inserts
      <3>2. s.value[t] \in EvidenceOf(tf)
        BY <3>1 DEF IsSample
      <3>3. tf = 5 \/ tf = 10 \/ tf = 15
        BY DEF Frames
      <3>4. s.value[t] \in Values[5] \cup Values[15] \cup {Aggregate[p] : p \in DOMAIN Aggregate}
        BY <3>2, <3>3 DEF EvidenceOf
      <3>5. x \in Rows /\ x.batch = NextBatch
        BY <1>3, <3>1, <3>4 DEF Rows, CandleValues
      <3> QED
        BY <1>2, <1>3, <3>1, <3>5 DEF RowSound
    <2> QED
      BY <2>1, <2>2
  <1>7. ASSUME NEW b \in DOMAIN batches', NEW x, x = batches'[b]
        PROVE  BatchSound(b, x)'
    <2>1. CASE b = NextBatch
      <3>1. s.retrieved \in 1 .. clock
        BY ClockPositive DEF IsSample
      <3>2. source \in 0 .. (NextBatch - 1)
        BY DEF NextBatch, TablesSound
      <3>3. x = row
        BY <1>3, <1>7, <2>1
      <3> QED
        BY <1>1, <1>2, <2>1, <3>1, <3>2, <3>3 DEF BatchSound
    <2>2. CASE b \in DOMAIN batches
      <3>1. BatchSound(b, x)
        BY <1>3, <1>7, <2>2 DEF TablesSound
      <3> QED
        BY <1>1, <3>1 DEF BatchSound
    <2> QED
      BY <1>3, <2>1, <2>2
  <1>8. ASSUME NEW c \in conflicts' PROVE c.tf \in {5, 15} /\ c.time \in Slots(c.tf)
    <2>1. CASE c \in conflicts
      BY <2>1 DEF TablesSound
    <2>2. CASE c \notin conflicts
      <3>1. c.tf = tf /\ tf # 10 /\ c.time \in Window(s)
        BY <2>2, PersistedBatch
      <3> QED
        BY <3>1 DEF Frames, IsSample
    <2> QED
      BY <2>1, <2>2
  <1>9. clock' \in PageLimit .. MaxTime
    BY <1>1 DEF TablesSound
  <1> QED
    BY <1>3, <1>4, <1>5, <1>6, <1>7, <1>8, <1>9 DEF TablesSound

-----------------------------------------------------------------------------
(* What an ingestion knows between its transactions.                          *)

\* As long as no 5m page clashed, a persisted 5m window is the canonical one.
NoFiveConflict == \A c \in conflicts : c.tf # 5

IngestSound(x) ==
    /\ x.pc \in {"idle", "fetch15m", "5m", "15m", "10m"}
    /\ x.pc # "idle" => IsSample(5, x.five) /\ x.five.retrieved <= clock
    /\ x.pc \in {"5m", "15m"} =>
          /\ IsSample(15, x.fifteen)
          /\ x.five.retrieved <= x.fifteen.retrieved /\ x.fifteen.retrieved <= clock
    /\ x.pc \in {"15m", "10m"} =>
          /\ x.source \in DOMAIN batches
          /\ batches[x.source].first = x.five.first /\ batches[x.source].until = x.five.until
          /\ (x.five.valid /\ NoFiveConflict) => Holds(candles[5], x.five)
    /\ x.pc = "10m" => x.five.valid

IngestersSound == DOMAIN ingest = Ingesters /\ \A i \in Ingesters : IngestSound(ingest[i])

IngestInv ==
    /\ TablesSound /\ IngestersSound
    /\ TenMinuteMatchesUnlessConflict /\ FinishedIngestLeavesNoPair

LEMMA PairHasSlots == \A t \in Slots(10) : Pair(t) \subseteq Slots(5) /\ t \in Nat
  BY SlotsByFrame, SynchronizationAssumption DEF Pair

LEMMA IngestSoundGrows ==
    ASSUME TablesSound, EvidenceStands, NEW x, IngestSound(x)
    PROVE  IngestSound(x)'
  <1>1. clock \in Nat /\ clock' \in Nat /\ clock <= clock'
    BY ClockPositive DEF EvidenceStands
  <1>2. x.pc # "idle" => x.five.retrieved <= clock'
    BY <1>1 DEF IngestSound, IsSample
  <1>3. x.pc \in {"5m", "15m"} => x.fifteen.retrieved <= clock'
    BY <1>1 DEF IngestSound, IsSample
  <1>4. x.pc \in {"15m", "10m"} =>
          /\ x.source \in DOMAIN batches'
          /\ batches'[x.source].first = x.five.first /\ batches'[x.source].until = x.five.until
    BY DEF IngestSound, EvidenceStands
  <1>5. ASSUME x.pc \in {"15m", "10m"}, x.five.valid, NoFiveConflict'
        PROVE  Holds(candles'[5], x.five)
    <2>1. NoFiveConflict
      BY <1>5 DEF NoFiveConflict, EvidenceStands
    <2>2. Holds(candles[5], x.five)
      BY <1>5, <2>1 DEF IngestSound
    <2>3. Window(x.five) \subseteq Slots(5)
      BY <1>5 DEF IngestSound, IsSample
    <2>4. \A t \in Slots(5) : candles[5][t] # NoCandle => candles'[5][t] = candles[5][t]
      BY DEF EvidenceStands, Frames
    <2> QED
      BY <2>2, <2>3, <2>4 DEF Holds
  <1> QED
    BY <1>2, <1>3, <1>4, <1>5 DEF IngestSound

LEMMA TablesUntouched ==
    ASSUME TablesSound, UNCHANGED <<candles, batches, conflicts>>,
           clock' \in PageLimit .. MaxTime, clock <= clock'
    PROVE  TablesSound'
  <1>1. clock \in Nat /\ clock' \in Nat
    BY ClockPositive, SynchronizationAssumption
  <1>2. \A b \in DOMAIN batches : BatchSound(b, batches[b])'
    BY <1>1 DEF TablesSound, BatchSound
  <1>3. \A tf \in Frames : \A t \in Slots(tf) :
          candles[tf][t] # NoCandle => RowSound(tf, candles[tf][t])'
    BY DEF TablesSound, RowSound
  <1> QED
    BY <1>2, <1>3 DEF TablesSound

\* An ingestion moves on; the others keep what they know.
LEMMA IngesterMoves ==
    ASSUME TablesSound, IngestersSound, EvidenceStands, NEW i \in Ingesters, NEW x,
           ingest' = [ingest EXCEPT ![i] = x], IngestSound(x)'
    PROVE  IngestersSound'
  <1>1. /\ DOMAIN ingest' = Ingesters
        /\ \A j \in Ingesters : ingest'[j] = x \/ ingest'[j] = ingest[j]
    BY DEF IngestersSound
  <1>2. ASSUME NEW j \in Ingesters, NEW y, y = ingest'[j] PROVE IngestSound(y)'
    <2>1. CASE y = x
      BY <2>1
    <2>2. CASE y = ingest[j]
      <3>1. IngestSound(y)
        BY <2>2 DEF IngestersSound
      <3> QED
        BY <3>1, IngestSoundGrows
    <2> QED
      BY <1>1, <1>2, <2>1, <2>2
  <1> QED
    BY <1>1, <1>2 DEF IngestersSound

LEMMA IngestersWait ==
    ASSUME TablesSound, IngestersSound, EvidenceStands, UNCHANGED ingest
    PROVE  IngestersSound'
  <1>1. ASSUME NEW j \in Ingesters, NEW y, y = ingest[j] PROVE IngestSound(y)'
    <2>1. IngestSound(y)
      BY <1>1 DEF IngestersSound
    <2> QED
      BY <2>1, IngestSoundGrows
  <1> QED
    BY <1>1 DEF IngestersSound

\* A 10m row matches its members as long as none of the three is touched.
LEMMA MatchesStand ==
    ASSUME EvidenceStands, NEW t \in Slots(10), candles'[10][t] = candles[10][t], IsAggregate(t)
    PROVE  IsAggregate(t)'
  <1>1. 2 * t \in Slots(5) /\ 2 * t + 1 \in Slots(5)
    BY PairHasSlots DEF Pair
  <1>2. candles[5][2 * t] # NoCandle /\ candles[5][2 * t + 1] # NoCandle
    BY DEF IsAggregate, Pair
  <1>3. candles'[5][2 * t] = candles[5][2 * t] /\ candles'[5][2 * t + 1] = candles[5][2 * t + 1]
    BY <1>1, <1>2 DEF EvidenceStands, Frames
  <1> QED
    BY <1>2, <1>3 DEF IsAggregate, Pair

LEMMA NoTenInserted ==
    ASSUME IngestInv, EvidenceStands,
           \A t \in Slots(10) : candles'[10][t] = candles[10][t],
           \A b \in DOMAIN batches' \ DOMAIN batches : batches'[b].tf # 10
    PROVE  TenMinuteMatchesUnlessConflict' /\ FinishedIngestLeavesNoPair'
  <1>1. TenMinuteMatchesUnlessConflict'
    <2> SUFFICES ASSUME \A c \in conflicts' : c.tf # 5, NEW t \in Slots(10),
                        candles'[10][t] # NoCandle
                 PROVE  IsAggregate(t)'
      BY DEF TenMinuteMatchesUnlessConflict
    <2>1. \A c \in conflicts : c.tf # 5
      BY DEF EvidenceStands
    <2>2. IsAggregate(t)
      BY <2>1 DEF IngestInv, TenMinuteMatchesUnlessConflict
    <2> QED
      BY <2>2, MatchesStand
  <1>2. FinishedIngestLeavesNoPair'
    <2> SUFFICES ASSUME NEW b \in DOMAIN batches', batches'[b].tf = 10, NEW t \in Slots(10),
                        Pair(t) \subseteq batches'[batches'[b].source].first
                                          .. (batches'[batches'[b].source].until - 1)
                 PROVE  candles'[10][t] # NoCandle
      BY DEF FinishedIngestLeavesNoPair
    <2>1. b \in DOMAIN batches /\ batches'[b] = batches[b]
      BY DEF EvidenceStands
    <2>2. batches[b].source \in DOMAIN batches
      BY <2>1 DEF IngestInv, TablesSound, BatchSound
    <2>3. batches'[batches[b].source] = batches[batches[b].source]
      BY <2>2 DEF EvidenceStands
    <2>4. candles[10][t] # NoCandle
      BY <2>1, <2>3 DEF IngestInv, FinishedIngestLeavesNoPair
    <2> QED
      BY <2>4
  <1> QED
    BY <1>1, <1>2

\* A step that leaves the tables of the ingestion alone.
LEMMA TablesWait ==
    ASSUME IngestInv, UNCHANGED <<candles, batches, conflicts>>,
           clock' \in PageLimit .. MaxTime, clock <= clock',
           snapshots \subseteq snapshots', derivations \subseteq derivations'
    PROVE  /\ TablesSound' /\ EvidenceStands
           /\ TenMinuteMatchesUnlessConflict' /\ FinishedIngestLeavesNoPair'
  <1>1. TablesSound'
    BY TablesUntouched DEF IngestInv
  <1>2. EvidenceStands
    BY SynchronizationAssumption DEF EvidenceStands
  <1>3. TenMinuteMatchesUnlessConflict' /\ FinishedIngestLeavesNoPair'
    BY <1>2, NoTenInserted
  <1> QED
    BY <1>1, <1>2, <1>3

-----------------------------------------------------------------------------
(* The transactions of an ingestion.                                          *)

\* What an ingestion leaves alone.
OthersWait == UNCHANGED <<clock, snapshots, derivations, syncs, sync>>

LEMMA FetchKeeps ==
    ASSUME IngestInv, NEW i \in Ingesters, NEW x, ingest' = [ingest EXCEPT ![i] = x],
           UNCHANGED <<clock, tables, sync>>, IngestSound(x)
    PROVE  IngestInv' /\ EvidenceStands /\ OthersWait
  <1>1. /\ UNCHANGED <<candles, batches, conflicts, snapshots, derivations>>
        /\ OthersWait
    BY DEF tables, OthersWait
  <1>2. clock' \in PageLimit .. MaxTime /\ clock <= clock'
    BY ClockPositive DEF IngestInv, TablesSound
  <1>3. /\ TablesSound' /\ EvidenceStands
        /\ TenMinuteMatchesUnlessConflict' /\ FinishedIngestLeavesNoPair'
    BY <1>1, <1>2, TablesWait
  <1>4. IngestSound(x)'
    BY <1>3, IngestSoundGrows DEF IngestInv
  <1>5. IngestersSound'
    BY <1>3, <1>4, IngesterMoves DEF IngestInv
  <1> QED
    BY <1>1, <1>3, <1>5 DEF IngestInv

LEMMA IdleIsSound == IngestSound(Idle)
  BY DEF IngestSound, Idle

LEMMA FetchFiveKeeps ==
    ASSUME IngestInv, NEW i \in Ingesters, FetchFive(i)
    PROVE  IngestInv' /\ EvidenceStands /\ OthersWait
  <1>1. PICK s \in NativeSamples(5) : ingest' = [ingest EXCEPT ![i] = [pc |-> "fetch15m", five |-> s]]
    BY DEF FetchFive
  <1>2. PICK x : x = [pc |-> "fetch15m", five |-> s]
    OBVIOUS
  <1>3. IsSample(5, s) /\ s.retrieved = clock
    BY NativePages DEF IngestInv, TablesSound
  <1>4. x.pc = "fetch15m" /\ x.five = s
    BY <1>2
  <1>5. IngestSound(x)
    BY <1>3, <1>4, ClockPositive DEF IngestSound, IngestInv
  <1> QED
    BY <1>1, <1>2, <1>5, FetchKeeps DEF FetchFive

LEMMA FetchFifteenKeeps ==
    ASSUME IngestInv, NEW i \in Ingesters, FetchFifteen(i)
    PROVE  IngestInv' /\ EvidenceStands /\ OthersWait
  <1>1. DOMAIN ingest = Ingesters /\ IngestSound(ingest[i]) /\ ingest[i].pc = "fetch15m"
    BY DEF IngestInv, IngestersSound, FetchFifteen
  <1>2. PICK s \in NativeSamples(15) :
          ingest' = [ingest EXCEPT ![i] = [pc |-> "5m", five |-> ingest[i].five, fifteen |-> s]]
    BY <1>1 DEF FetchFifteen
  <1>3. PICK x : x = [pc |-> "5m", five |-> ingest[i].five, fifteen |-> s]
    OBVIOUS
  <1>4. IsSample(15, s) /\ s.retrieved = clock
    BY NativePages DEF IngestInv, TablesSound
  <1>5. x.pc = "5m" /\ x.five = ingest[i].five /\ x.fifteen = s
    BY <1>3
  <1>6. IngestSound(x)
    BY <1>1, <1>4, <1>5, ClockPositive DEF IngestSound, IngestInv
  <1> QED
    BY <1>2, <1>3, <1>6, FetchKeeps DEF FetchFifteen

LEMMA AbandonIngestKeeps ==
    ASSUME IngestInv, NEW i \in Ingesters, AbandonIngest(i)
    PROVE  IngestInv' /\ EvidenceStands /\ OthersWait
  BY IdleIsSound, FetchKeeps DEF AbandonIngest

\* The 5m window of a page that met no conflict is canonical.
LEMMA FivePersisted ==
    ASSUME TablesSound, NEW s, IsSample(5, s), NEW source, PersistSample(5, s, source),
           s.valid, NoFiveConflict'
    PROVE  Holds(candles'[5], s)
  <1>1. SourceConflicts(candles[5], s) = {}
    <2>1. 5 \in Frames
      BY DEF Frames
    <2>2. 5 # 10 /\ s.valid /\ SourceConflicts(candles[5], s) # {} => \E c \in conflicts' : c.tf = 5
      BY <2>1, PersistedBatch
    <2> QED
      BY <2>2 DEF NoFiveConflict
  <1>2. Inserts(5, s)
    BY <1>1 DEF Inserts
  <1>3. \A t \in Slots(5) :
          candles'[5][t] = IF t \in Window(s) /\ candles[5][t] = NoCandle
                           THEN [value |-> s.value[t], batch |-> NextBatch] ELSE candles[5][t]
    BY <1>2, PersistedRows DEF Frames
  <1>4. Window(s) \subseteq Slots(5)
    BY DEF IsSample
  <1>5. NextBatch # 0
    BY DEF NextBatch, TablesSound
  <1>6. ASSUME NEW t \in Window(s)
        PROVE  candles'[5][t] # NoCandle /\ candles'[5][t].value = s.value[t]
    <2>1. CASE candles[5][t] = NoCandle
      <3>1. candles'[5][t] = [value |-> s.value[t], batch |-> NextBatch]
        BY <1>3, <1>4, <2>1
      <3>2. candles'[5][t].batch # NoCandle.batch
        BY <1>5, <3>1 DEF NoCandle
      <3> QED
        BY <3>1, <3>2
    <2>2. CASE candles[5][t] # NoCandle
      <3>1. candles'[5][t] = candles[5][t]
        BY <1>3, <1>4, <2>2
      <3>2. candles[5][t].value = s.value[t]
        BY <1>1, <2>2 DEF SourceConflicts
      <3> QED
        BY <2>2, <3>1, <3>2
    <2> QED
      BY <2>1, <2>2
  <1> QED
    BY <1>6 DEF Holds

LEMMA PersistFiveKeeps ==
    ASSUME IngestInv, NEW i \in Ingesters, PersistFive(i)
    PROVE  IngestInv' /\ EvidenceStands /\ OthersWait
  <1>1. /\ DOMAIN ingest = Ingesters /\ IngestSound(ingest[i]) /\ ingest[i].pc = "5m"
        /\ TablesSound
    BY DEF IngestInv, IngestersSound, PersistFive
  <1>2. PICK s, s15 : s = ingest[i].five /\ s15 = ingest[i].fifteen
    OBVIOUS
  <1>3. PersistSample(5, s, 0)
    BY <1>2 DEF PersistFive
  <1>4. /\ IsSample(5, s) /\ s.retrieved <= clock
        /\ IsSample(15, s15) /\ s.retrieved <= s15.retrieved /\ s15.retrieved <= clock
    BY <1>1, <1>2 DEF IngestSound
  <1>5. 0 \in 0 .. Len(batches) /\ 5 \in Frames
    BY <1>1 DEF TablesSound, Frames
  <1>6. TablesSound' /\ EvidenceStands
    BY <1>1, <1>3, <1>4, <1>5, PersistKeeps
  <1>7. PICK row : /\ batches' = Append(batches, row)
                   /\ row.tf = 5 /\ row.first = s.first /\ row.until = s.until
    <2> DEFINE new == [tf |-> 5, source |-> 0, valid |-> s.valid,
                       first |-> s.first, until |-> s.until, retrieved |-> s.retrieved]
    <2>1. batches' = Append(batches, new)
      BY <1>1, <1>3, <1>4, <1>5, PersistedBatch
    <2>2. new.tf = 5 /\ new.first = s.first /\ new.until = s.until
      OBVIOUS
    <2> HIDE DEF new
    <2> QED
      BY <2>1, <2>2
  <1>8. /\ Len(batches') = NextBatch /\ batches'[NextBatch] = row
        /\ DOMAIN batches' = DOMAIN batches \cup {NextBatch}
        /\ NextBatch \in DOMAIN batches'
    <2>1. Len(batches') = Len(batches) + 1
      BY <1>1, <1>7, AppendedBatch DEF TablesSound
    <2> QED
      BY <1>1, <1>7, <2>1, AppendedBatch DEF NextBatch
  <1>9. TenMinuteMatchesUnlessConflict' /\ FinishedIngestLeavesNoPair'
    <2>1. \A t \in Slots(10) : candles'[10][t] = candles[10][t]
      BY <1>1, <1>3, <1>4, <1>5, PersistedRows DEF Frames
    <2>2. \A b \in DOMAIN batches' \ DOMAIN batches : batches'[b].tf # 10
      BY <1>7, <1>8
    <2> QED
      BY <1>6, <2>1, <2>2, NoTenInserted
  <1>10. PICK x : x = [pc |-> "15m", five |-> s, fifteen |-> s15, source |-> Len(batches')]
    OBVIOUS
  <1>11. ingest' = [ingest EXCEPT ![i] = x]
    BY <1>1, <1>2, <1>10 DEF PersistFive
  <1>12. IngestSound(x)'
    <2>1. x.pc = "15m" /\ x.five = s /\ x.fifteen = s15 /\ x.source = NextBatch
      BY <1>8, <1>10
    <2>2. clock' = clock
      BY <1>3 DEF PersistSample
    <2>3. (s.valid /\ NoFiveConflict') => Holds(candles'[5], s)
      BY <1>1, <1>3, <1>4, FivePersisted
    <2>4. IsSample(5, x.five)' /\ IsSample(15, x.fifteen)'
      BY <1>4, <2>1 DEF IsSample
    <2> QED
      BY <1>4, <1>7, <1>8, <2>1, <2>2, <2>3, <2>4 DEF IngestSound
  <1>13. IngestersSound'
    BY <1>1, <1>6, <1>11, <1>12, IngesterMoves DEF IngestInv
  <1>14. OthersWait
    BY <1>3 DEF PersistSample, OthersWait
  <1> QED
    BY <1>6, <1>9, <1>13, <1>14 DEF IngestInv

LEMMA PersistFifteenKeeps ==
    ASSUME IngestInv, NEW i \in Ingesters, PersistFifteen(i)
    PROVE  IngestInv' /\ EvidenceStands /\ OthersWait
  <1>1. /\ DOMAIN ingest = Ingesters /\ IngestSound(ingest[i]) /\ ingest[i].pc = "15m"
        /\ TablesSound
    BY DEF IngestInv, IngestersSound, PersistFifteen
  <1>2. PICK s, s5, source : s = ingest[i].fifteen /\ s5 = ingest[i].five /\ source = ingest[i].source
    OBVIOUS
  <1>3. PersistSample(15, s, 0)
    BY <1>2 DEF PersistFifteen
  <1>4. /\ IsSample(15, s) /\ s.retrieved <= clock
        /\ IsSample(5, s5) /\ s5.retrieved <= clock
    BY <1>1, <1>2 DEF IngestSound
  <1>5. 0 \in 0 .. Len(batches) /\ 15 \in Frames
    BY <1>1 DEF TablesSound, Frames
  <1>6. TablesSound' /\ EvidenceStands
    BY <1>1, <1>3, <1>4, <1>5, PersistKeeps
  <1>7. \A b \in DOMAIN batches' \ DOMAIN batches : batches'[b].tf # 10
    <2>1. PICK row : batches' = Append(batches, row) /\ row.tf = 15
      <3> DEFINE new == [tf |-> 15, source |-> 0, valid |-> s.valid,
                         first |-> s.first, until |-> s.until, retrieved |-> s.retrieved]
      <3>1. batches' = Append(batches, new)
        BY <1>1, <1>3, <1>4, <1>5, PersistedBatch
      <3>2. new.tf = 15
        OBVIOUS
      <3> HIDE DEF new
      <3> QED
        BY <3>1, <3>2
    <2>2. DOMAIN batches' = DOMAIN batches \cup {NextBatch} /\ batches'[NextBatch] = row
      BY <1>1, <2>1, AppendedBatch
    <2> QED
      BY <2>1, <2>2
  <1>8. TenMinuteMatchesUnlessConflict' /\ FinishedIngestLeavesNoPair'
    <2>1. \A t \in Slots(10) : candles'[10][t] = candles[10][t]
      BY <1>1, <1>3, <1>4, <1>5, PersistedRows DEF Frames
    <2> QED
      BY <1>6, <1>7, <2>1, NoTenInserted
  <1>9. PICK x : x = IF s5.valid THEN [pc |-> "10m", five |-> s5, source |-> source] ELSE Idle
    OBVIOUS
  <1>10. ingest' = [ingest EXCEPT ![i] = x]
    BY <1>1, <1>2, <1>9 DEF PersistFifteen
  <1>11. IngestSound(x)
    <2>1. CASE s5.valid
      <3>1. x.pc = "10m" /\ x.five = s5 /\ x.source = source
        BY <1>9, <2>1
      <3> QED
        BY <1>1, <1>2, <1>4, <2>1, <3>1 DEF IngestSound
    <2>2. CASE ~ s5.valid
      BY <1>9, <2>2, IdleIsSound
    <2> QED
      BY <2>1, <2>2
  <1>12. IngestSound(x)'
    BY <1>1, <1>6, <1>11, IngestSoundGrows
  <1>13. IngestersSound'
    BY <1>1, <1>6, <1>10, <1>12, IngesterMoves DEF IngestInv
  <1>14. OthersWait
    BY <1>3 DEF PersistSample, OthersWait
  <1> QED
    BY <1>6, <1>8, <1>13, <1>14 DEF IngestInv

\* The 10m window: every pair of the 5m window has its candle, and matches
\* unless a 5m page clashed.
LEMMA PersistTenKeeps ==
    ASSUME IngestInv, NEW i \in Ingesters, PersistTen(i)
    PROVE  IngestInv' /\ EvidenceStands /\ OthersWait
  <1>1. /\ DOMAIN ingest = Ingesters /\ IngestSound(ingest[i]) /\ ingest[i].pc = "10m"
        /\ TablesSound
    BY DEF IngestInv, IngestersSound, PersistTen
  <1>2. PICK s5, source : s5 = ingest[i].five /\ source = ingest[i].source
    OBVIOUS
  <1>3. PICK s : s = DerivedSample(s5)
    OBVIOUS
  <1>4. /\ IsSample(5, s5) /\ s5.valid /\ s5.retrieved <= clock
        /\ source \in DOMAIN batches
        /\ batches[source].first = s5.first /\ batches[source].until = s5.until
        /\ NoFiveConflict => Holds(candles[5], s5)
    BY <1>1, <1>2 DEF IngestSound
  <1>5. /\ IsSample(10, s) /\ s.valid /\ s.retrieved <= clock
        /\ \A t \in Nat : t \in Window(s) <=> Pair(t) \subseteq Window(s5)
        /\ \A t \in Window(s) : s.value[t] = Aggregate[<<s5.value[2 * t], s5.value[2 * t + 1]>>]
    BY <1>3, <1>4, DerivedWindow
  <1>6. ingest' = [ingest EXCEPT ![i] = Idle]
    BY DEF PersistTen
  <1>7. CASE ~ (s.first < s.until)
    <2>1. UNCHANGED <<clock, tables, sync>>
      BY <1>2, <1>3, <1>7 DEF PersistTen
    <2> QED
      BY <1>6, <2>1, IdleIsSound, FetchKeeps
  <1>8. CASE s.first < s.until
    <2>1. PersistSample(10, s, source)
      BY <1>2, <1>3, <1>8 DEF PersistTen
    <2>2. 10 \in Frames /\ source \in 0 .. Len(batches) /\ (10 = 10) = (source # 0)
      BY <1>1, <1>4 DEF TablesSound, Frames
    <2>3. TablesSound' /\ EvidenceStands
      BY <1>1, <1>5, <2>1, <2>2, PersistKeeps
    <2>4. PICK row : batches' = Append(batches, row) /\ row.tf = 10 /\ row.source = source
      <3> DEFINE new == [tf |-> 10, source |-> source, valid |-> s.valid,
                         first |-> s.first, until |-> s.until, retrieved |-> s.retrieved]
      <3>1. batches' = Append(batches, new)
        BY <1>1, <1>5, <2>1, <2>2, PersistedBatch
      <3>2. new.tf = 10 /\ new.source = source
        OBVIOUS
      <3> HIDE DEF new
      <3> QED
        BY <3>1, <3>2
    <2>5. /\ batches'[NextBatch] = row /\ DOMAIN batches' = DOMAIN batches \cup {NextBatch}
          /\ \A b \in DOMAIN batches : batches'[b] = batches[b]
          /\ NextBatch \in Nat \ {0}
      BY <1>1, <2>4, AppendedBatch
    <2>6. Inserts(10, s)
      BY <1>5 DEF Inserts
    <2>7. \A t \in Slots(10) :
            candles'[10][t] = IF t \in Window(s) /\ candles[10][t] = NoCandle
                              THEN [value |-> s.value[t], batch |-> NextBatch] ELSE candles[10][t]
      BY <1>1, <1>5, <2>1, <2>2, <2>6, PersistedRows
    <2>8. conflicts \subseteq conflicts'
      BY <2>3 DEF EvidenceStands
    <2>9. TenMinuteMatchesUnlessConflict'
      <3> SUFFICES ASSUME \A c \in conflicts' : c.tf # 5, NEW t \in Slots(10),
                          candles'[10][t] # NoCandle
                   PROVE  IsAggregate(t)'
        BY DEF TenMinuteMatchesUnlessConflict
      <3>1. NoFiveConflict
        BY <2>8 DEF NoFiveConflict
      <3>2. CASE candles'[10][t] = candles[10][t]
        <4>1. IsAggregate(t)
          BY <3>1, <3>2 DEF IngestInv, TenMinuteMatchesUnlessConflict, NoFiveConflict
        <4> QED
          BY <2>3, <3>2, <4>1, MatchesStand
      <3>3. CASE candles'[10][t] # candles[10][t]
        <4>1. t \in Window(s) /\ candles'[10][t] = [value |-> s.value[t], batch |-> NextBatch]
          BY <2>7, <3>3
        <4>2. 2 * t \in Window(s5) /\ 2 * t + 1 \in Window(s5)
          BY <1>5, <4>1, PairHasSlots DEF Pair
        <4>3. /\ candles[5][2 * t] # NoCandle /\ candles[5][2 * t].value = s5.value[2 * t]
              /\ candles[5][2 * t + 1] # NoCandle
              /\ candles[5][2 * t + 1].value = s5.value[2 * t + 1]
          BY <1>4, <3>1, <4>2 DEF Holds
        <4>4. /\ candles'[5][2 * t] = candles[5][2 * t]
              /\ candles'[5][2 * t + 1] = candles[5][2 * t + 1]
          <5>1. 2 * t \in Slots(5) /\ 2 * t + 1 \in Slots(5) /\ 5 \in Frames
            BY PairHasSlots DEF Pair, Frames
          <5> QED
            BY <2>3, <4>3, <5>1 DEF EvidenceStands
        <4>5. candles'[10][t].value = Aggregate[<<s5.value[2 * t], s5.value[2 * t + 1]>>]
          BY <1>5, <4>1
        <4> QED
          BY <4>3, <4>4, <4>5 DEF IsAggregate, Pair
      <3> QED
        BY <3>2, <3>3
    <2>10. FinishedIngestLeavesNoPair'
      <3> SUFFICES ASSUME NEW b \in DOMAIN batches', batches'[b].tf = 10, NEW t \in Slots(10),
                          Pair(t) \subseteq batches'[batches'[b].source].first
                                            .. (batches'[batches'[b].source].until - 1)
                   PROVE  candles'[10][t] # NoCandle
        BY DEF FinishedIngestLeavesNoPair
      <3>1. CASE b = NextBatch
        <4>1. batches'[b].source = source
          BY <2>4, <2>5, <3>1
        <4>2. batches'[source].first = s5.first /\ batches'[source].until = s5.until
          BY <1>4, <2>5
        <4>3. Pair(t) \subseteq Window(s5)
          BY <4>1, <4>2 DEF Window
        <4>4. t \in Window(s)
          BY <1>5, <4>3, PairHasSlots
        <4>5. CASE candles[10][t] = NoCandle
          <5>1. candles'[10][t] = [value |-> s.value[t], batch |-> NextBatch]
            BY <2>7, <4>4, <4>5
          <5>2. candles'[10][t].batch # NoCandle.batch
            BY <2>5, <5>1 DEF NoCandle
          <5> QED
            BY <5>2
        <4>6. CASE candles[10][t] # NoCandle
          BY <2>7, <4>6
        <4> QED
          BY <4>5, <4>6
      <3>2. CASE b \in DOMAIN batches
        <4>1. batches'[b] = batches[b]
          BY <2>5, <3>2
        <4>2. batches[b].source \in DOMAIN batches
          BY <1>1, <3>2, <4>1 DEF TablesSound, BatchSound
        <4>3. batches'[batches[b].source] = batches[batches[b].source]
          BY <2>5, <4>2
        <4>4. candles[10][t] # NoCandle
          BY <3>2, <4>1, <4>3 DEF IngestInv, FinishedIngestLeavesNoPair
        <4> QED
          BY <2>7, <4>4
      <3> QED
        BY <2>5, <3>1, <3>2
    <2>11. IngestSound(Idle)'
      BY <1>1, <2>3, IdleIsSound, IngestSoundGrows
    <2>12. IngestersSound'
      BY <1>1, <1>6, <2>3, <2>11, IngesterMoves DEF IngestInv
    <2>13. OthersWait
      BY <2>1 DEF PersistSample, OthersWait
    <2> QED
      BY <2>3, <2>9, <2>10, <2>12, <2>13 DEF IngestInv
  <1> QED
    BY <1>7, <1>8

LEMMA IngestKeeps ==
    ASSUME IngestInv, NEW i \in Ingesters, Ingest(i)
    PROVE  IngestInv' /\ EvidenceStands /\ OthersWait
  BY FetchFiveKeeps, FetchFifteenKeeps, PersistFiveKeeps, PersistFifteenKeeps, PersistTenKeeps,
     AbandonIngestKeeps DEF Ingest

-----------------------------------------------------------------------------
(* What a synchronization knows between its transactions.                     *)

\* Rows read from the canonical store of a timeframe.
CutOf(tf, rows) ==
    /\ DOMAIN rows \subseteq Slots(tf)
    /\ \A t \in DOMAIN rows : rows[t] # NoCandle /\ rows[t] = candles[tf][t]

\* The timeframes whose coverage is read, and those whose snapshot is stored.
Read(x) ==
    {f \in Frames : (x.pc = "load" => f < x.tf) /\ (x.pc = "persist" => f <= x.tf)}
Stored(x) == {f \in Frames : x.pc \in {"load", "persist"} => f < x.tf}

SyncSound(x) ==
    /\ x.pc \in {"idle", "load", "persist", "derive", "synchronize"}
    /\ x.pc # "idle" =>
          /\ x = [pc |-> x.pc, tf |-> x.tf, as_of |-> x.as_of, cut |-> x.cut]
          /\ x.tf \in Frames /\ x.as_of \in 1 .. clock
          /\ DOMAIN x.cut = Read(x)
          /\ \A f \in Read(x) : CutOf(f, x.cut[f])
          /\ \A f \in Read(x) : \A t \in DOMAIN x.cut[f] : Closes(f, t) <= x.as_of
          /\ \A f \in Stored(x) : [tf |-> f, rows |-> x.cut[f]] \in snapshots
    /\ x.pc = "synchronize" =>
          Derivable(x.cut[5], x.cut[10]) /\ DerivationsOf(x.cut) \subseteq derivations

SyncersSound == DOMAIN sync = Syncers /\ \A s \in Syncers : SyncSound(sync[s])

SnapshotsSound == \A snap \in snapshots : snap.tf \in Frames /\ CutOf(snap.tf, snap.rows)
DerivationsSound == \A d \in derivations : d.slot \in Slots(10) /\ d.available \in 1 .. clock

\* A persisted synchronization can be rebuilt from the tables.
Reloads(r) ==
    /\ \A tf \in Frames : [tf |-> tf, rows |-> r.cut[tf]] \in snapshots
    /\ Derivable(r.cut[5], r.cut[10])
    /\ DerivationsOf(r.cut) \subseteq derivations
    /\ Synchronizable(r.as_of, r.cut)

SyncsSound == \A r \in syncs : r.as_of \in 1 .. clock /\ Reloads(r)

SyncInv ==
    IngestInv /\ SyncersSound /\ SnapshotsSound /\ DerivationsSound /\ SyncsSound

LEMMA CutStands ==
    ASSUME EvidenceStands, NEW f \in Frames, NEW rows, CutOf(f, rows)
    PROVE  CutOf(f, rows)'
  BY DEF EvidenceStands, CutOf

\* The rows of a cut name batches.
LEMMA CutBatches ==
    ASSUME TablesSound, NEW f \in Frames, NEW rows, CutOf(f, rows), NEW t \in DOMAIN rows
    PROVE  t \in Slots(f) /\ rows[t] \in Rows /\ rows[t].batch \in DOMAIN batches
  BY DEF CutOf, TablesSound, RowSound

\* The derivations of a cut are a function of the cut: batches never change.
LEMMA DerivationsStand ==
    ASSUME TablesSound, EvidenceStands, NEW cut, CutOf(5, cut[5]), CutOf(10, cut[10]),
           Derivable(cut[5], cut[10])
    PROVE  /\ DerivationsOf(cut)' = DerivationsOf(cut)
           /\ \A as_of : Synchronizable(as_of, cut)' <=> Synchronizable(as_of, cut)
  <1>1. PICK five, ten : five = cut[5] /\ ten = cut[10]
    OBVIOUS
  <1>2. 5 \in Frames /\ 10 \in Frames
    BY DEF Frames
  <1>3. ASSUME NEW t \in DOMAIN ten
        PROVE  Derivation(five, ten, t)' = Derivation(five, ten, t)
    <2>1. 2 * t \in DOMAIN five /\ 2 * t + 1 \in DOMAIN five
      BY <1>1 DEF Derivable, Pair
    <2>2. /\ five[2 * t].batch \in DOMAIN batches /\ five[2 * t + 1].batch \in DOMAIN batches
          /\ ten[t].batch \in DOMAIN batches
      BY <1>1, <1>2, <2>1, CutBatches
    <2>3. /\ batches'[five[2 * t].batch] = batches[five[2 * t].batch]
          /\ batches'[five[2 * t + 1].batch] = batches[five[2 * t + 1].batch]
          /\ batches'[ten[t].batch] = batches[ten[t].batch]
      BY <2>2 DEF EvidenceStands
    <2> QED
      BY <2>3 DEF Derivation
  <1>4. DerivationsOf(cut)' = DerivationsOf(cut)
    BY <1>1, <1>3 DEF DerivationsOf
  <1> QED
    BY <1>4 DEF Synchronizable

LEMMA ReloadStands ==
    ASSUME TablesSound, SnapshotsSound, EvidenceStands, NEW r, Reloads(r)
    PROVE  Reloads(r)'
  <1>1. 5 \in Frames /\ 10 \in Frames
    BY DEF Frames
  <1>2. ASSUME NEW f \in Frames PROVE CutOf(f, r.cut[f])
    <2>1. PICK snap \in snapshots : snap = [tf |-> f, rows |-> r.cut[f]]
      BY DEF Reloads
    <2>2. snap.tf = f /\ snap.rows = r.cut[f]
      BY <2>1
    <2>3. CutOf(snap.tf, snap.rows)
      BY DEF SnapshotsSound
    <2> QED
      BY <2>2, <2>3
  <1>3. /\ DerivationsOf(r.cut)' = DerivationsOf(r.cut)
        /\ Synchronizable(r.as_of, r.cut)' <=> Synchronizable(r.as_of, r.cut)
    BY <1>1, <1>2, DerivationsStand DEF Reloads
  <1> QED
    BY <1>3 DEF Reloads, EvidenceStands, Derivable

LEMMA SyncSoundGrows ==
    ASSUME TablesSound, EvidenceStands, NEW x, SyncSound(x)
    PROVE  SyncSound(x)'
  <1>1. 5 \in Frames /\ 10 \in Frames
    BY DEF Frames
  <1>2. x.pc # "idle" =>
          /\ x.as_of \in 1 .. clock'
          /\ \A f \in Read(x) : CutOf(f, x.cut[f])'
          /\ \A f \in Stored(x) : [tf |-> f, rows |-> x.cut[f]] \in snapshots'
    <2> SUFFICES ASSUME x.pc # "idle"
                 PROVE  /\ x.as_of \in 1 .. clock'
                        /\ \A f \in Read(x) : CutOf(f, x.cut[f])'
                        /\ \A f \in Stored(x) : [tf |-> f, rows |-> x.cut[f]] \in snapshots'
      OBVIOUS
    <2>1. x.as_of \in 1 .. clock'
      BY ClockPositive DEF SyncSound, EvidenceStands
    <2>2. \A f \in Read(x) : CutOf(f, x.cut[f])'
      <3> TAKE f \in Read(x)
      <3>1. f \in Frames
        BY DEF Read
      <3>2. CutOf(f, x.cut[f])
        BY DEF SyncSound
      <3> QED
        BY <3>1, <3>2, CutStands
    <2>3. \A f \in Stored(x) : [tf |-> f, rows |-> x.cut[f]] \in snapshots'
      BY DEF SyncSound, EvidenceStands
    <2> QED
      BY <2>1, <2>2, <2>3
  <1>3. x.pc = "synchronize" =>
          Derivable(x.cut[5], x.cut[10])' /\ DerivationsOf(x.cut)' \subseteq derivations'
    <2> SUFFICES ASSUME x.pc = "synchronize"
                 PROVE  Derivable(x.cut[5], x.cut[10])' /\ DerivationsOf(x.cut)' \subseteq derivations'
      OBVIOUS
    <2>1. Derivable(x.cut[5], x.cut[10]) /\ DerivationsOf(x.cut) \subseteq derivations
      BY DEF SyncSound
    <2>2. Read(x) = Frames
      BY DEF Read
    <2>3. CutOf(5, x.cut[5]) /\ CutOf(10, x.cut[10])
      BY <1>1, <2>2 DEF SyncSound
    <2>4. DerivationsOf(x.cut)' = DerivationsOf(x.cut)
      BY <2>1, <2>3, DerivationsStand
    <2>5. Derivable(x.cut[5], x.cut[10])'
      BY <2>1 DEF Derivable
    <2> QED
      BY <2>1, <2>4, <2>5 DEF EvidenceStands
  <1> QED
    BY <1>2, <1>3 DEF SyncSound, Read, Stored

\* What the synchronizations rely on survives every step that loses no evidence.
LEMMA SyncEvidenceStands ==
    ASSUME SyncInv, EvidenceStands
    PROVE  /\ \A f \in Frames : \A rows : CutOf(f, rows) => CutOf(f, rows)'
           /\ \A x : SyncSound(x) => SyncSound(x)'
           /\ \A r \in syncs : r.as_of \in 1 .. clock' /\ Reloads(r)'
           /\ \A snap \in snapshots : snap.tf \in Frames /\ CutOf(snap.tf, snap.rows)'
           /\ \A d \in derivations : d.slot \in Slots(10) /\ d.available \in 1 .. clock'
  <1>1. TablesSound /\ SnapshotsSound
    BY DEF SyncInv, IngestInv
  <1>2. clock \in Nat /\ clock' \in Nat /\ clock <= clock'
    BY <1>1, ClockPositive DEF EvidenceStands
  <1>3. ASSUME NEW r \in syncs PROVE r.as_of \in 1 .. clock' /\ Reloads(r)'
    BY <1>1, <1>2, ReloadStands DEF SyncInv, SyncsSound
  <1>4. ASSUME NEW snap \in snapshots PROVE snap.tf \in Frames /\ CutOf(snap.tf, snap.rows)'
    BY <1>1, CutStands DEF SnapshotsSound
  <1>5. ASSUME NEW d \in derivations PROVE d.slot \in Slots(10) /\ d.available \in 1 .. clock'
    BY <1>2 DEF SyncInv, DerivationsSound
  <1>6. ASSUME NEW x, SyncSound(x) PROVE SyncSound(x)'
    BY <1>1, <1>6, SyncSoundGrows
  <1>7. ASSUME NEW f \in Frames, NEW rows, CutOf(f, rows) PROVE CutOf(f, rows)'
    BY <1>7, CutStands
  <1> QED
    BY <1>3, <1>4, <1>5, <1>6, <1>7

-----------------------------------------------------------------------------
(* The transactions of a synchronization.                                     *)

LEMMA SyncerMoves ==
    ASSUME SyncInv, EvidenceStands, NEW s \in Syncers, NEW x,
           sync' = [sync EXCEPT ![s] = x], SyncSound(x)'
    PROVE  SyncersSound'
  <1>1. /\ DOMAIN sync' = Syncers
        /\ \A j \in Syncers : sync'[j] = x \/ sync'[j] = sync[j]
    BY DEF SyncInv, SyncersSound
  <1>2. ASSUME NEW j \in Syncers, NEW y, y = sync'[j] PROVE SyncSound(y)'
    <2>1. CASE y = x
      BY <2>1
    <2>2. CASE y = sync[j]
      <3>1. SyncSound(y)
        BY <2>2 DEF SyncInv, SyncersSound
      <3> QED
        BY <3>1, SyncEvidenceStands
    <2> QED
      BY <1>1, <1>2, <2>1, <2>2
  <1> QED
    BY <1>1, <1>2 DEF SyncersSound

LEMMA SyncStepKeeps ==
    ASSUME SyncInv, NEW s \in Syncers, NEW x, sync' = [sync EXCEPT ![s] = x],
           UNCHANGED <<clock, candles, batches, conflicts, ingest>>,
           snapshots \subseteq snapshots', derivations \subseteq derivations',
           SyncSound(x)',
           \A snap \in snapshots' \ snapshots : snap.tf \in Frames /\ CutOf(snap.tf, snap.rows),
           \A d \in derivations' \ derivations : d.slot \in Slots(10) /\ d.available \in 1 .. clock,
           \A r \in syncs' \ syncs : r.as_of \in 1 .. clock /\ Reloads(r)
    PROVE  SyncInv' /\ EvidenceStands
  <1>1. clock' \in PageLimit .. MaxTime /\ clock <= clock'
    BY ClockPositive DEF SyncInv, IngestInv, TablesSound
  <1>2. /\ TablesSound' /\ EvidenceStands
        /\ TenMinuteMatchesUnlessConflict' /\ FinishedIngestLeavesNoPair'
    BY <1>1, TablesWait DEF SyncInv
  <1>3. IngestersSound'
    BY <1>2, IngestersWait DEF SyncInv, IngestInv
  <1>4. SyncersSound'
    BY <1>2, SyncerMoves
  <1>5. SnapshotsSound'
    <2> SUFFICES ASSUME NEW snap \in snapshots' PROVE snap.tf \in Frames /\ CutOf(snap.tf, snap.rows)'
      BY DEF SnapshotsSound
    <2> QED
      BY <1>2, SyncEvidenceStands
  <1>6. DerivationsSound'
    BY <1>2, SyncEvidenceStands DEF DerivationsSound
  <1>7. SyncsSound'
    <2> SUFFICES ASSUME NEW r \in syncs' PROVE r.as_of \in 1 .. clock' /\ Reloads(r)'
      BY DEF SyncsSound
    <2>1. CASE r \in syncs
      BY <1>2, <2>1, SyncEvidenceStands
    <2>2. CASE r \notin syncs
      <3>1. r.as_of \in 1 .. clock /\ Reloads(r)
        BY <2>2
      <3>2. TablesSound /\ SnapshotsSound
        BY DEF SyncInv, IngestInv
      <3> QED
        BY <1>2, <3>1, <3>2, ReloadStands
    <2> QED
      BY <2>1, <2>2
  <1> QED
    BY <1>2, <1>3, <1>4, <1>5, <1>6, <1>7 DEF SyncInv, IngestInv

LEMMA IdleSyncIsSound == SyncSound(Idle)'
  BY DEF SyncSound, Idle

LEMMA StartSyncKeeps ==
    ASSUME SyncInv, NEW s \in Syncers, StartSync(s)
    PROVE  SyncInv' /\ EvidenceStands
  <1>1. PICK as_of \in Cutoffs \cap 1 .. clock :
          sync' = [sync EXCEPT ![s] = [pc |-> "load", tf |-> 5, as_of |-> as_of, cut |-> << >>]]
    BY DEF StartSync
  <1>2. PICK x : x = [pc |-> "load", tf |-> 5, as_of |-> as_of, cut |-> << >>]
    OBVIOUS
  <1>3. /\ x.pc = "load" /\ x.tf = 5 /\ x.as_of = as_of /\ x.cut = << >>
        /\ x = [pc |-> x.pc, tf |-> x.tf, as_of |-> x.as_of, cut |-> x.cut]
    BY <1>2
  <1>4. UNCHANGED <<clock, candles, batches, conflicts, snapshots, derivations, syncs, ingest>>
    BY DEF StartSync, tables
  <1>5. Read(x) = {} /\ Stored(x) = {} /\ x.tf \in Frames
    BY <1>3 DEF Read, Stored, Frames
  <1>6. DOMAIN x.cut = {}
    BY <1>3
  <1>7. SyncSound(x)'
    BY <1>3, <1>4, <1>5, <1>6 DEF SyncSound, Read, Stored
  <1> QED
    BY <1>1, <1>2, <1>4, <1>7, SyncStepKeeps

LEMMA AvailableIsACut ==
    ASSUME NEW f \in Frames, NEW as_of
    PROVE  /\ CutOf(f, Available(f, as_of))
           /\ \A t \in DOMAIN Available(f, as_of) : Closes(f, t) <= as_of
  BY DEF Available, CutOf

LEMMA SyncReturns ==
    ASSUME SyncInv, NEW s \in Syncers, Return(s),
           UNCHANGED <<clock, candles, batches, conflicts, snapshots, derivations, syncs, ingest>>
    PROVE  SyncInv' /\ EvidenceStands
  BY IdleSyncIsSound, SyncStepKeeps DEF Return

LEMMA LoadCoverageKeeps ==
    ASSUME SyncInv, NEW s \in Syncers, LoadCoverage(s)
    PROVE  SyncInv' /\ EvidenceStands
  <1>1. UNCHANGED <<clock, candles, batches, conflicts, snapshots, derivations, syncs, ingest>>
    BY DEF LoadCoverage, tables
  <1>2. PICK y, tf, rows : y = sync[s] /\ tf = y.tf /\ rows = Available(tf, y.as_of)
    OBVIOUS
  <1>3. DOMAIN sync = Syncers /\ SyncSound(y) /\ y.pc = "load"
    BY <1>2 DEF SyncInv, SyncersSound, LoadCoverage
  <1>4. CASE Return(s)
    BY <1>1, <1>4, SyncReturns
  <1>5. CASE ~ Return(s)
    <2>1. PICK cut : cut = [f \in DOMAIN y.cut \cup {tf} |-> IF f = tf THEN rows ELSE y.cut[f]]
      OBVIOUS
    <2>2. PICK x : x = [pc |-> "persist", tf |-> tf, as_of |-> y.as_of, cut |-> cut]
      OBVIOUS
    <2>3. y = [pc |-> y.pc, tf |-> y.tf, as_of |-> y.as_of, cut |-> y.cut]
      BY <1>3 DEF SyncSound
    <2>4. sync' = [sync EXCEPT ![s].pc = "persist", ![s].cut = cut]
      BY <1>2, <1>3, <1>5, <2>1 DEF LoadCoverage
    <2>5. sync' = [sync EXCEPT ![s] = x]
      <3>1. sync' = [sync EXCEPT ![s] = [y EXCEPT !.pc = "persist", !.cut = cut]]
        BY <1>2, <1>3, <2>4
      <3>2. [y EXCEPT !.pc = "persist", !.cut = cut] = x
        <4>1. PICK pc, as_of, old : y = [pc |-> pc, tf |-> tf, as_of |-> as_of, cut |-> old]
          BY <1>2, <2>3
        <4>2. y.as_of = as_of
          BY <4>1
        <4>3. PICK moved : moved = [y EXCEPT !.pc = "persist", !.cut = cut]
          OBVIOUS
        <4>4. moved = [pc |-> "persist", tf |-> tf, as_of |-> as_of, cut |-> cut]
          BY <4>1, <4>3
        <4> QED
          BY <2>2, <4>2, <4>3, <4>4
      <3> QED
        BY <3>1, <3>2
    <2>6. /\ x.pc = "persist" /\ x.tf = tf /\ x.as_of = y.as_of /\ x.cut = cut
          /\ x = [pc |-> x.pc, tf |-> x.tf, as_of |-> x.as_of, cut |-> x.cut]
      BY <2>2
    <2>7. tf \in Frames /\ DOMAIN y.cut = Read(y)
      BY <1>2, <1>3 DEF SyncSound
    <2>8. Read(y) = {f \in Frames : f < tf} /\ Stored(x) = {f \in Frames : f < tf}
          /\ Stored(y) = {f \in Frames : f < tf}
      BY <1>2, <1>3, <2>6 DEF Read, Stored
    <2>9. Read(x) = {f \in Frames : f < tf} \cup {tf}
      BY <2>6, <2>7 DEF Read, Frames
    <2>10. DOMAIN cut = Read(x)
      BY <2>1, <2>7, <2>8, <2>9
    <2>11. \A f \in Read(x) : (f = tf /\ cut[f] = rows) \/ (f \in Read(y) /\ cut[f] = y.cut[f])
      BY <2>1, <2>7, <2>8, <2>9
    <2>12. /\ CutOf(tf, rows) /\ \A t \in DOMAIN rows : Closes(tf, t) <= y.as_of
      BY <1>2, <2>7, AvailableIsACut
    <2>13. \A f \in Read(x) :
             CutOf(f, cut[f]) /\ \A t \in DOMAIN cut[f] : Closes(f, t) <= y.as_of
      BY <1>3, <2>11, <2>12 DEF SyncSound
    <2>14. \A f \in Stored(x) : [tf |-> f, rows |-> cut[f]] \in snapshots
      <3> TAKE f \in Stored(x)
      <3>1. f \in Stored(y) /\ f # tf /\ f \in Read(x)
        BY <2>7, <2>8, <2>9 DEF Frames
      <3>2. [tf |-> f, rows |-> y.cut[f]] \in snapshots
        BY <1>3, <3>1 DEF SyncSound
      <3> QED
        BY <2>11, <3>1, <3>2
    <2>15. y.as_of \in 1 .. clock
      BY <1>3 DEF SyncSound
    <2>16. SyncSound(x)
      BY <2>6, <2>7, <2>10, <2>13, <2>14, <2>15 DEF SyncSound
    <2>17. SyncSound(x)'
      <3>1. x.pc # "synchronize"
        BY <2>6
      <3> QED
        BY <1>1, <2>16, <3>1 DEF SyncSound, Read, Stored, CutOf
    <2> QED
      BY <1>1, <2>5, <2>17, SyncStepKeeps
  <1> QED
    BY <1>4, <1>5

LEMMA PersistCoverageKeeps ==
    ASSUME SyncInv, NEW s \in Syncers, PersistCoverage(s)
    PROVE  SyncInv' /\ EvidenceStands
  <1>1. UNCHANGED <<clock, candles, batches, conflicts, derivations, syncs, ingest>>
    BY DEF PersistCoverage
  <1>2. PICK y, tf : y = sync[s] /\ tf = y.tf
    OBVIOUS
  <1>3. DOMAIN sync = Syncers /\ SyncSound(y) /\ y.pc = "persist"
    BY <1>2 DEF SyncInv, SyncersSound, PersistCoverage
  <1>4. PICK snap : snap = [tf |-> tf, rows |-> y.cut[tf]]
    OBVIOUS
  <1>5. snapshots' = snapshots \cup {snap}
    BY <1>2, <1>4 DEF PersistCoverage
  <1>6. tf \in Frames /\ DOMAIN y.cut = Read(y) /\ y.as_of \in 1 .. clock
    BY <1>2, <1>3 DEF SyncSound
  <1>7. tf \in Read(y)
    BY <1>2, <1>3, <1>6 DEF Read, Frames
  <1>8. snap.tf = tf /\ snap.rows = y.cut[tf] /\ CutOf(tf, y.cut[tf])
    BY <1>3, <1>4, <1>7 DEF SyncSound
  <1>9. PICK pc, next : /\ pc = (IF tf = 15 THEN "derive" ELSE "load")
                        /\ next = (IF tf = 15 THEN tf ELSE tf + 5)
    OBVIOUS
  <1>10. PICK x : x = [pc |-> pc, tf |-> next, as_of |-> y.as_of, cut |-> y.cut]
    OBVIOUS
  <1>11. sync' = [sync EXCEPT ![s] = x]
    <2>1. y = [pc |-> y.pc, tf |-> y.tf, as_of |-> y.as_of, cut |-> y.cut]
      BY <1>3 DEF SyncSound
    <2>2. PICK moved : moved = [y EXCEPT !.pc = pc, !.tf = next]
      OBVIOUS
    <2>3. sync' = [sync EXCEPT ![s] = moved]
      <3>1. sync' = [sync EXCEPT ![s].pc = pc, ![s].tf = next]
        BY <1>2, <1>3, <1>9 DEF PersistCoverage
      <3> QED
        BY <1>2, <1>3, <2>2, <3>1
    <2>4. PICK p, t, as_of, cut : y = [pc |-> p, tf |-> t, as_of |-> as_of, cut |-> cut]
      BY <2>1
    <2>5. y.as_of = as_of /\ y.cut = cut
      BY <2>4
    <2>6. moved = [pc |-> pc, tf |-> next, as_of |-> as_of, cut |-> cut]
      BY <2>2, <2>4
    <2> QED
      BY <1>10, <2>3, <2>5, <2>6
  <1>12. /\ x.pc = pc /\ x.tf = next /\ x.as_of = y.as_of /\ x.cut = y.cut
         /\ x = [pc |-> x.pc, tf |-> x.tf, as_of |-> x.as_of, cut |-> x.cut]
    BY <1>10
  <1>13. next \in Frames
    BY <1>6, <1>9 DEF Frames
  <1>14. /\ Read(y) = {f \in Frames : f <= tf} /\ Stored(y) = {f \in Frames : f < tf}
         /\ Read(x) = {f \in Frames : f <= tf} /\ Stored(x) = {f \in Frames : f <= tf}
    <2>1. CASE tf = 15
      BY <1>2, <1>3, <1>9, <1>12, <2>1 DEF Read, Stored, Frames
    <2>2. CASE tf # 15
      BY <1>2, <1>3, <1>6, <1>9, <1>12, <2>2 DEF Read, Stored, Frames
    <2> QED
      BY <2>1, <2>2
  <1>15. \A f \in Stored(x) : [tf |-> f, rows |-> y.cut[f]] \in snapshots'
    <2> TAKE f \in Stored(x)
    <2>1. f = tf \/ f \in Stored(y)
      BY <1>6, <1>14 DEF Frames
    <2>2. CASE f = tf
      BY <1>4, <1>5, <2>2
    <2>3. CASE f \in Stored(y)
      BY <1>3, <1>5, <2>3 DEF SyncSound
    <2> QED
      BY <2>1, <2>2, <2>3
  <1>16. \A f \in Read(x) :
           CutOf(f, y.cut[f]) /\ \A t \in DOMAIN y.cut[f] : Closes(f, t) <= y.as_of
    BY <1>3, <1>14 DEF SyncSound
  <1>17. SyncSound(x)'
    <2>1. \A f \in Read(x) : CutOf(f, x.cut[f])'
      BY <1>1, <1>12, <1>16 DEF CutOf
    <2>2. x.pc # "synchronize" /\ x.pc # "idle" /\ x.pc \in {"load", "derive"}
      BY <1>9, <1>12
    <2>3. DOMAIN x.cut = Read(x)
      BY <1>6, <1>12, <1>14
    <2> QED
      BY <1>1, <1>6, <1>12, <1>13, <1>15, <1>16, <2>1, <2>2, <2>3 DEF SyncSound, Read, Stored
  <1>18. \A z \in snapshots' \ snapshots : z.tf \in Frames /\ CutOf(z.tf, z.rows)
    BY <1>5, <1>6, <1>8
  <1> QED
    BY <1>1, <1>5, <1>11, <1>17, <1>18, SyncStepKeeps

\* A derivation becomes available between the first tick and its cutoff.
LEMMA DerivationIsSound ==
    ASSUME TablesSound, NEW cut, NEW as_of \in 1 .. clock,
           CutOf(5, cut[5]), CutOf(10, cut[10]), Derivable(cut[5], cut[10]),
           \A t \in DOMAIN cut[10] : Closes(10, t) <= as_of,
           NEW d \in DerivationsOf(cut)
    PROVE  d.slot \in Slots(10) /\ d.available \in 1 .. clock
  <1>1. PICK five, ten : five = cut[5] /\ ten = cut[10]
    OBVIOUS
  <1>2. PICK t \in DOMAIN ten : d = Derivation(five, ten, t)
    BY <1>1 DEF DerivationsOf
  <1>3. 5 \in Frames /\ 10 \in Frames /\ clock \in Nat \ {0}
    BY ClockPositive DEF Frames
  <1>4. t \in Slots(10) /\ ten[t].batch \in DOMAIN batches
    BY <1>1, <1>3, CutBatches
  <1>5. five[2 * t].batch \in DOMAIN batches /\ five[2 * t + 1].batch \in DOMAIN batches
    <2>1. 2 * t \in DOMAIN five /\ 2 * t + 1 \in DOMAIN five
      BY <1>1, <1>2 DEF Derivable, Pair
    <2> QED
      BY <1>1, <1>3, <2>1, CutBatches
  <1>6. PICK a, b, c, e : /\ a = batches[five[2 * t].batch].retrieved
                          /\ b = batches[five[2 * t + 1].batch].retrieved
                          /\ c = batches[ten[t].batch].retrieved
                          /\ e = Closes(10, t)
    OBVIOUS
  <1>7. a \in 1 .. clock /\ b \in 1 .. clock /\ c \in 1 .. clock
    BY <1>4, <1>5, <1>6 DEF TablesSound, BatchSound
  <1>8. e \in 1 .. clock
    <2>1. t \in Nat /\ e <= as_of
      BY <1>1, <1>2, <1>4, <1>6, PairHasSlots
    <2>2. e = 2 * (t + 1)
      BY <1>6, <2>1, ClosesByFrame
    <2> QED
      BY <1>3, <2>1, <2>2
  <1>9. {a, b, c, e} \in SUBSET (0 .. clock) /\ {a, b, c, e} # {}
    BY <1>3, <1>7, <1>8
  <1>10. Max({a, b, c, e}) \in {a, b, c, e}
    BY <1>3, <1>9, MinMaxAreMembers
  <1>11. d.slot = t /\ d.available = Max({a, b, c, e})
    BY <1>2, <1>6 DEF Derivation
  <1> QED
    BY <1>4, <1>7, <1>8, <1>10, <1>11

LEMMA PersistDerivationsKeeps ==
    ASSUME SyncInv, NEW s \in Syncers, PersistDerivations(s)
    PROVE  SyncInv' /\ EvidenceStands
  <1>1. UNCHANGED <<clock, candles, batches, conflicts, snapshots, syncs, ingest>>
    BY DEF PersistDerivations
  <1>2. PICK y, cut : y = sync[s] /\ cut = y.cut
    OBVIOUS
  <1>3. DOMAIN sync = Syncers /\ SyncSound(y) /\ y.pc = "derive"
    BY <1>2 DEF SyncInv, SyncersSound, PersistDerivations
  <1>4. \/ Return(s) /\ UNCHANGED derivations
        \/ /\ Derivable(cut[5], cut[10])
           /\ derivations' = derivations \cup DerivationsOf(cut)
           /\ sync' = [sync EXCEPT ![s].pc = "synchronize"]
    BY <1>2 DEF PersistDerivations
  <1>5. CASE Return(s) /\ UNCHANGED derivations
    BY <1>1, <1>5, SyncReturns
  <1>6. CASE /\ Derivable(cut[5], cut[10])
             /\ derivations' = derivations \cup DerivationsOf(cut)
             /\ sync' = [sync EXCEPT ![s].pc = "synchronize"]
    <2>1. y = [pc |-> y.pc, tf |-> y.tf, as_of |-> y.as_of, cut |-> y.cut]
      BY <1>3 DEF SyncSound
    <2>2. PICK x : x = [pc |-> "synchronize", tf |-> y.tf, as_of |-> y.as_of, cut |-> cut]
      OBVIOUS
    <2>3. sync' = [sync EXCEPT ![s] = x]
      <3>1. PICK moved : moved = [y EXCEPT !.pc = "synchronize"]
        OBVIOUS
      <3>2. sync' = [sync EXCEPT ![s] = moved]
        BY <1>2, <1>3, <1>6, <3>1
      <3>3. PICK p, t, as_of, old : y = [pc |-> p, tf |-> t, as_of |-> as_of, cut |-> old]
        BY <2>1
      <3>4. y.tf = t /\ y.as_of = as_of /\ y.cut = old
        BY <3>3
      <3>5. moved = [pc |-> "synchronize", tf |-> t, as_of |-> as_of, cut |-> old]
        BY <3>1, <3>3
      <3> QED
        BY <1>2, <2>2, <3>2, <3>4, <3>5
    <2>4. /\ x.pc = "synchronize" /\ x.tf = y.tf /\ x.as_of = y.as_of /\ x.cut = y.cut
          /\ x = [pc |-> x.pc, tf |-> x.tf, as_of |-> x.as_of, cut |-> x.cut]
      BY <1>2, <2>2
    <2>5. Read(x) = Frames /\ Read(y) = Frames /\ Stored(x) = Frames /\ Stored(y) = Frames
      BY <1>3, <2>4 DEF Read, Stored
    <2>6. 5 \in Frames /\ 10 \in Frames
      BY DEF Frames
    <2>7. SyncSound(x)'
      <3>1. Derivable(x.cut[5], x.cut[10])' /\ DerivationsOf(x.cut)' = DerivationsOf(x.cut)
        BY <1>1, <1>2, <1>6, <2>4 DEF Derivable, DerivationsOf, Derivation
      <3>2. DerivationsOf(x.cut)' \subseteq derivations'
        BY <1>2, <1>6, <2>4, <3>1
      <3>3. \A f \in Frames : CutOf(f, x.cut[f])'
        BY <1>1, <1>3, <2>4, <2>5 DEF SyncSound, CutOf
      <3>4. x.tf \in Frames /\ x.as_of \in 1 .. clock' /\ DOMAIN x.cut = Frames
        BY <1>1, <1>3, <2>4, <2>5 DEF SyncSound
      <3>5. \A f \in Frames : \A t \in DOMAIN x.cut[f] : Closes(f, t) <= x.as_of
        BY <1>3, <2>4, <2>5 DEF SyncSound
      <3>6. \A f \in Frames : [tf |-> f, rows |-> x.cut[f]] \in snapshots'
        BY <1>1, <1>3, <2>4, <2>5 DEF SyncSound
      <3> QED
        BY <2>4, <2>5, <3>1, <3>2, <3>3, <3>4, <3>5, <3>6 DEF SyncSound, Read, Stored
    <2>8. \A d \in DerivationsOf(cut) : d.slot \in Slots(10) /\ d.available \in 1 .. clock
      <3>1. y.as_of \in 1 .. clock /\ CutOf(5, cut[5]) /\ CutOf(10, cut[10])
        BY <1>2, <1>3, <2>5, <2>6 DEF SyncSound
      <3>2. \A t \in DOMAIN cut[10] : Closes(10, t) <= y.as_of
        BY <1>2, <1>3, <2>5, <2>6 DEF SyncSound
      <3>3. TablesSound
        BY DEF SyncInv, IngestInv
      <3> QED
        BY <1>6, <3>1, <3>2, <3>3, DerivationIsSound
    <2>9. \A d \in derivations' \ derivations : d.slot \in Slots(10) /\ d.available \in 1 .. clock
      BY <1>6, <2>8
    <2> QED
      BY <1>1, <1>6, <2>3, <2>7, <2>9, SyncStepKeeps
  <1> QED
    BY <1>4, <1>5, <1>6

LEMMA PersistSynchronizedKeeps ==
    ASSUME SyncInv, NEW s \in Syncers, PersistSynchronized(s)
    PROVE  SyncInv' /\ EvidenceStands
  <1>1. UNCHANGED <<clock, candles, batches, conflicts, snapshots, derivations, ingest>>
    BY DEF PersistSynchronized
  <1>2. PICK y, r : y = sync[s] /\ r = [as_of |-> y.as_of, cut |-> y.cut]
    OBVIOUS
  <1>3. SyncSound(y) /\ y.pc = "synchronize"
    BY <1>2 DEF SyncInv, SyncersSound, PersistSynchronized
  <1>4. r.as_of = y.as_of /\ r.cut = y.cut
    BY <1>2
  <1>5. \A z \in syncs' \ syncs : z = r /\ Synchronizable(y.as_of, y.cut)
    BY <1>2 DEF PersistSynchronized
  <1>6. Stored(y) = Frames
    BY <1>3 DEF Stored
  <1>7. Synchronizable(y.as_of, y.cut) => Reloads(r)
    BY <1>3, <1>4, <1>6 DEF SyncSound, Reloads
  <1>8. \A z \in syncs' \ syncs : z.as_of \in 1 .. clock /\ Reloads(z)
    BY <1>3, <1>4, <1>5, <1>7 DEF SyncSound
  <1> QED
    BY <1>1, <1>8, IdleSyncIsSound, SyncStepKeeps DEF PersistSynchronized, Return

LEMMA AbandonSyncKeeps ==
    ASSUME SyncInv, NEW s \in Syncers, AbandonSync(s)
    PROVE  SyncInv' /\ EvidenceStands
  BY SyncReturns DEF AbandonSync, tables

LEMMA SynchronizeKeeps ==
    ASSUME SyncInv, NEW s \in Syncers, Synchronize(s)
    PROVE  SyncInv' /\ EvidenceStands /\ UNCHANGED <<candles, batches>>
  <1>1. SyncInv' /\ EvidenceStands
    BY StartSyncKeeps, LoadCoverageKeeps, PersistCoverageKeeps, PersistDerivationsKeeps,
       PersistSynchronizedKeeps, AbandonSyncKeeps DEF Synchronize
  <1>2. UNCHANGED <<candles, batches>>
    BY DEF Synchronize, StartSync, LoadCoverage, PersistCoverage, PersistDerivations,
           PersistSynchronized, AbandonSync, tables
  <1> QED
    BY <1>1, <1>2

\* A step of an ingestion or of the clock leaves the synchronizations sound.
LEMMA SynchronizationsWait ==
    ASSUME SyncInv, IngestInv', EvidenceStands, UNCHANGED <<snapshots, derivations, syncs, sync>>
    PROVE  SyncInv'
  <1>1. SyncersSound'
    <2>1. ASSUME NEW j \in Syncers, NEW y, y = sync[j] PROVE SyncSound(y)'
      <3>1. SyncSound(y)
        BY <2>1 DEF SyncInv, SyncersSound
      <3> QED
        BY <3>1, SyncEvidenceStands
    <2> QED
      BY <2>1 DEF SyncInv, SyncersSound
  <1>2. SnapshotsSound'
    BY SyncEvidenceStands DEF SnapshotsSound
  <1>3. DerivationsSound'
    BY SyncEvidenceStands DEF DerivationsSound
  <1>4. SyncsSound'
    BY SyncEvidenceStands DEF SyncsSound
  <1> QED
    BY <1>1, <1>2, <1>3, <1>4 DEF SyncInv

LEMMA TickKeeps ==
    ASSUME SyncInv, Tick
    PROVE  SyncInv' /\ EvidenceStands /\ UNCHANGED <<candles, batches>>
  <1>1. UNCHANGED <<candles, batches, conflicts, snapshots, derivations, syncs, ingest, sync>>
    BY DEF Tick, tables
  <1>2. clock' \in PageLimit .. MaxTime /\ clock <= clock'
    BY ClockPositive, SynchronizationAssumption DEF Tick, SyncInv, IngestInv, TablesSound
  <1>3. /\ TablesSound' /\ EvidenceStands
        /\ TenMinuteMatchesUnlessConflict' /\ FinishedIngestLeavesNoPair'
    BY <1>1, <1>2, TablesWait DEF SyncInv
  <1>4. IngestersSound'
    BY <1>1, <1>3, IngestersWait DEF SyncInv, IngestInv
  <1>5. IngestInv'
    BY <1>3, <1>4 DEF IngestInv
  <1> QED
    BY <1>1, <1>3, <1>5, SynchronizationsWait

LEMMA StutterKeeps ==
    ASSUME SyncInv, UNCHANGED vars
    PROVE  SyncInv' /\ UNCHANGED <<candles, batches>>
  <1>1. UNCHANGED <<clock, candles, batches, conflicts, snapshots, derivations, syncs, ingest, sync>>
    BY DEF vars, tables
  <1>2. clock' \in PageLimit .. MaxTime /\ clock <= clock'
    BY <1>1, ClockPositive DEF SyncInv, IngestInv, TablesSound
  <1>3. /\ TablesSound' /\ EvidenceStands
        /\ TenMinuteMatchesUnlessConflict' /\ FinishedIngestLeavesNoPair'
    BY <1>1, <1>2, TablesWait DEF SyncInv
  <1>4. IngestersSound'
    BY <1>1, <1>3, IngestersWait DEF SyncInv, IngestInv
  <1>5. IngestInv'
    BY <1>3, <1>4 DEF IngestInv
  <1> QED
    BY <1>1, <1>3, <1>5, SynchronizationsWait

LEMMA SyncInvHolds == Spec => []SyncInv
  <1>1. Init => SyncInv
    <2> SUFFICES ASSUME Init PROVE SyncInv
      OBVIOUS
    <2>1. TablesSound
      <3>1. clock \in PageLimit .. MaxTime
        BY SynchronizationAssumption DEF Init
      <3>2. /\ DOMAIN candles = Frames
            /\ \A tf \in Frames :
                 DOMAIN candles[tf] = Slots(tf) /\ \A t \in Slots(tf) : candles[tf][t] = NoCandle
        BY DEF Init
      <3>3. Len(batches) = 0 /\ DOMAIN batches = 1 .. Len(batches) /\ DOMAIN batches = {}
        BY DEF Init
      <3> QED
        BY <3>1, <3>2, <3>3 DEF Init, TablesSound
    <2>2. IngestersSound /\ SyncersSound
      BY IdleIsSound DEF Init, IngestersSound, SyncersSound, SyncSound, Idle
    <2>3. TenMinuteMatchesUnlessConflict
      BY DEF Init, TenMinuteMatchesUnlessConflict, Frames
    <2>4. FinishedIngestLeavesNoPair
      BY DEF Init, FinishedIngestLeavesNoPair
    <2>5. SnapshotsSound /\ DerivationsSound /\ SyncsSound
      BY DEF Init, SnapshotsSound, DerivationsSound, SyncsSound
    <2> QED
      BY <2>1, <2>2, <2>3, <2>4, <2>5 DEF SyncInv, IngestInv
  <1>2. SyncInv /\ [Next]_vars => SyncInv'
    <2> SUFFICES ASSUME SyncInv, [Next]_vars PROVE SyncInv'
      OBVIOUS
    <2>1. CASE Tick
      BY <2>1, TickKeeps
    <2>2. ASSUME NEW i \in Ingesters, Ingest(i) PROVE SyncInv'
      <3>1. IngestInv' /\ EvidenceStands /\ OthersWait
        BY <2>2, IngestKeeps DEF SyncInv
      <3> QED
        BY <3>1, SynchronizationsWait DEF OthersWait
    <2>3. ASSUME NEW s \in Syncers, Synchronize(s) PROVE SyncInv'
      BY <2>3, SynchronizeKeeps
    <2>4. CASE UNCHANGED vars
      BY <2>4, StutterKeeps
    <2> QED
      BY <2>1, <2>2, <2>3, <2>4 DEF Next
  <1> QED
    BY <1>1, <1>2, PTL DEF Spec

-----------------------------------------------------------------------------
(* Theorems.                                                                  *)

\* Every table holds well-formed rows that refer to batches of their timeframe.
THEOREM TypeCorrect == Spec => []TypeOK
  <1>1. SyncInv => TypeOK
    <2> SUFFICES ASSUME SyncInv PROVE TypeOK
      OBVIOUS
    <2>1. TablesSound /\ clock \in Nat
      BY ClockPositive DEF SyncInv, IngestInv
    <2>2. \A f \in Frames : \A rows : CutOf(f, rows) => IsCoverage(f, rows)
      <3> SUFFICES ASSUME NEW f \in Frames, NEW rows, CutOf(f, rows) PROVE IsCoverage(f, rows)
        OBVIOUS
      <3>1. \A t \in DOMAIN rows : rows[t] \in Rows
        BY <2>1, CutBatches
      <3> QED
        BY <3>1 DEF IsCoverage, CutOf
    <2>3. \A snap \in snapshots : snap.tf \in Frames /\ IsCoverage(snap.tf, snap.rows)
      BY <2>2 DEF SyncInv, SnapshotsSound
    <2>4. \A r \in syncs : r.as_of \in 1 .. clock /\ \A tf \in Frames : IsCoverage(tf, r.cut[tf])
      <3> SUFFICES ASSUME NEW r \in syncs, NEW tf \in Frames
                   PROVE  r.as_of \in 1 .. clock /\ IsCoverage(tf, r.cut[tf])
        BY DEF SyncInv, SyncsSound, Frames
      <3>1. PICK snap \in snapshots : snap = [tf |-> tf, rows |-> r.cut[tf]]
        BY DEF SyncInv, SyncsSound, Reloads
      <3>2. snap.tf = tf /\ snap.rows = r.cut[tf]
        BY <3>1
      <3> QED
        BY <2>3, <3>2 DEF SyncInv, SyncsSound
    <2>5. \A d \in derivations : d.slot \in Slots(10) /\ d.available \in 1 .. clock
      BY DEF SyncInv, DerivationsSound
    <2>6. /\ \A b \in DOMAIN batches :
                /\ batches[b].tf \in Frames /\ batches[b].retrieved \in 1 .. clock
                /\ batches[b].source \in 0 .. (b - 1)
                /\ (batches[b].tf = 10) = (batches[b].source # 0)
          /\ \A tf \in Frames : \A t \in Slots(tf) :
                LET row == candles[tf][t]
                IN  row # NoCandle =>
                      /\ row \in Rows
                      /\ row.batch \in DOMAIN batches
                      /\ batches[row.batch].tf = tf /\ batches[row.batch].valid
          /\ \A c \in conflicts : c.tf \in {5, 15} /\ c.time \in Slots(c.tf)
      BY <2>1 DEF TablesSound, RowSound, BatchSound
    <2> QED
      BY <2>1, <2>3, <2>4, <2>5, <2>6 DEF TypeOK
  <1> QED
    BY <1>1, SyncInvHolds, PTL

\* What was synchronized can be rebuilt from the tables at any later time
\* (load_persisted_synchronized_coverage_snapshot), for any number of concurrent
\* ingestions and synchronizations.
THEOREM SynchronizationsAlwaysReload == Spec => []SynchronizationsReload
  <1>1. SyncInv => SynchronizationsReload
    BY DEF SyncInv, SnapshotsSound, CutOf, SyncsSound, Reloads, SynchronizationsReload
  <1> QED
    BY <1>1, SyncInvHolds, PTL

\* Unless a 5m page clashed, a 10m candle is the aggregate of its canonical
\* members (derive_btc_usd_10m_sample, persist_historical_sample).
THEOREM TenMinuteAlwaysMatches == Spec => []TenMinuteMatchesUnlessConflict
  BY SyncInvHolds, PTL DEF SyncInv, IngestInv

\* A finished ingestion leaves no pair of its 5m window without its 10m candle
\* (ingest_btc_usd_intraday).
THEOREM FinishedIngestsLeaveNoPair == Spec => []FinishedIngestLeavesNoPair
  BY SyncInvHolds, PTL DEF SyncInv, IngestInv

-----------------------------------------------------------------------------
(* Past cutoffs.                                                              *)

\* The rows of a cutoff change only when a row fetched by then is inserted.
LEMMA AvailableStands ==
    ASSUME TablesSound, EvidenceStands, NEW tf \in Frames, NEW as_of \in Nat,
           \A t \in Slots(tf) : candles[tf][t] = NoCandle =>
               \/ candles'[tf][t] = NoCandle
               \/ ~ (batches'[candles'[tf][t].batch].retrieved <= as_of)
    PROVE  Available(tf, as_of)' = Available(tf, as_of)
  <1> DEFINE S == {t \in Slots(tf) : /\ candles[tf][t] # NoCandle
                                     /\ batches[candles[tf][t].batch].retrieved <= as_of
                                     /\ Closes(tf, t) <= as_of}
             N == {t \in Slots(tf) : /\ candles'[tf][t] # NoCandle
                                     /\ batches'[candles'[tf][t].batch].retrieved <= as_of
                                     /\ Closes(tf, t) <= as_of}
  <1>1. ASSUME NEW t \in Slots(tf), candles[tf][t] # NoCandle
        PROVE  /\ candles'[tf][t] = candles[tf][t]
               /\ batches'[candles[tf][t].batch] = batches[candles[tf][t].batch]
    <2>1. candles[tf][t].batch \in DOMAIN batches
      BY <1>1 DEF TablesSound, RowSound
    <2> QED
      BY <1>1, <2>1 DEF EvidenceStands
  <1>2. \A t \in Slots(tf) : t \in N <=> t \in S
    <2> TAKE t \in Slots(tf)
    <2>1. CASE candles[tf][t] # NoCandle
      <3>1. /\ candles'[tf][t] = candles[tf][t]
            /\ batches'[candles[tf][t].batch] = batches[candles[tf][t].batch]
        BY <1>1, <2>1
      <3> QED
        BY <3>1
    <2>2. CASE candles[tf][t] = NoCandle
      BY <2>2
    <2> QED
      BY <2>1, <2>2
  <1>3. N = S
    BY <1>2
  <1>4. \A t \in S : candles'[tf][t] = candles[tf][t]
    BY <1>1
  <1>5. Available(tf, as_of) = [t \in S |-> candles[tf][t]]
    BY DEF Available
  <1>6. Available(tf, as_of)' = [t \in N |-> candles'[tf][t]]
    BY DEF Available, Closes, Slots
  <1> HIDE DEF S, N
  <1> QED
    BY <1>3, <1>4, <1>5, <1>6

\* A transaction whose page was fetched after a cutoff does not change its rows.
LEMMA LatePageSettles ==
    ASSUME TablesSound, EvidenceStands, NEW f \in Frames, NEW s, IsSample(f, s), NEW source,
           PersistSample(f, s, source), NEW as_of \in Nat, ~ (s.retrieved <= as_of),
           NEW tf \in Frames
    PROVE  Available(tf, as_of)' = Available(tf, as_of)
  <1>1. PICK row : batches' = Append(batches, row) /\ row.retrieved = s.retrieved
    <2> DEFINE new == [tf |-> f, source |-> source, valid |-> s.valid,
                       first |-> s.first, until |-> s.until, retrieved |-> s.retrieved]
    <2>1. batches' = Append(batches, new)
      BY PersistedBatch
    <2>2. new.retrieved = s.retrieved
      OBVIOUS
    <2> HIDE DEF new
    <2> QED
      BY <2>1, <2>2
  <1>2. batches'[NextBatch] = row
    BY <1>1, AppendedBatch
  <1>3. ASSUME NEW t \in Slots(tf), candles[tf][t] = NoCandle, candles'[tf][t] # NoCandle
        PROVE  ~ (batches'[candles'[tf][t].batch].retrieved <= as_of)
    <2>1. candles'[tf][t] = [value |-> s.value[t], batch |-> NextBatch]
      BY <1>3, PersistedRows
    <2>2. candles'[tf][t].batch = NextBatch
      BY <2>1
    <2> QED
      BY <1>1, <1>2, <2>2
  <1> QED
    BY <1>3, AvailableStands

LEMMA UntouchedSettles ==
    ASSUME TablesSound, EvidenceStands, NEW as_of \in Nat, NEW tf \in Frames, UNCHANGED candles
    PROVE  Available(tf, as_of)' = Available(tf, as_of)
  BY AvailableStands

LEMMA IngestSettles ==
    ASSUME IngestInv, EvidenceStands, NEW i \in Ingesters, Ingest(i),
           NEW as_of \in Nat, ~ InFlight(as_of), NEW tf \in Frames
    PROVE  Available(tf, as_of)' = Available(tf, as_of)
  <1>1. TablesSound /\ IngestSound(ingest[i])
    BY DEF IngestInv, IngestersSound
  <1>2. 5 \in Frames /\ 10 \in Frames /\ 15 \in Frames
    BY DEF Frames
  <1>3. ingest[i].pc # "idle" => ~ (ingest[i].five.retrieved <= as_of)
    BY DEF InFlight, Idle
  <1>4. CASE FetchFive(i) \/ FetchFifteen(i) \/ AbandonIngest(i)
    <2>1. UNCHANGED candles
      BY <1>4 DEF FetchFive, FetchFifteen, AbandonIngest, tables
    <2> QED
      BY <1>1, <2>1, UntouchedSettles
  <1>5. CASE PersistFive(i)
    <2>1. PICK s : s = ingest[i].five
      OBVIOUS
    <2>2. IsSample(5, s) /\ PersistSample(5, s, 0) /\ ~ (s.retrieved <= as_of)
      BY <1>1, <1>3, <1>5, <2>1 DEF IngestSound, PersistFive
    <2> QED
      BY <1>1, <1>2, <2>2, LatePageSettles
  <1>6. CASE PersistFifteen(i)
    <2>1. PICK s : s = ingest[i].fifteen
      OBVIOUS
    <2>2. IsSample(15, s) /\ PersistSample(15, s, 0) /\ ~ (s.retrieved <= as_of)
      <3>1. ingest[i].pc = "15m"
        BY <1>6 DEF PersistFifteen
      <3>2. PICK s5 : s5 = ingest[i].five
        OBVIOUS
      <3>3. /\ IsSample(15, s) /\ IsSample(5, s5) /\ s5.retrieved <= s.retrieved
        BY <1>1, <2>1, <3>1, <3>2 DEF IngestSound
      <3>4. s.retrieved \in Nat /\ s5.retrieved \in Nat
        BY <3>3 DEF IsSample
      <3>5. ~ (s5.retrieved <= as_of)
        BY <1>3, <3>1, <3>2
      <3>6. PersistSample(15, s, 0)
        BY <1>6, <2>1 DEF PersistFifteen
      <3> QED
        BY <3>3, <3>4, <3>5, <3>6
    <2> QED
      BY <1>1, <1>2, <2>2, LatePageSettles
  <1>7. CASE PersistTen(i)
    <2>1. PICK s5, source : s5 = ingest[i].five /\ source = ingest[i].source
      OBVIOUS
    <2>2. PICK s : s = DerivedSample(s5)
      OBVIOUS
    <2>3. IsSample(5, s5) /\ s5.valid /\ ~ (s5.retrieved <= as_of)
      BY <1>1, <1>3, <1>7, <2>1 DEF IngestSound, PersistTen
    <2>4. IsSample(10, s) /\ s.retrieved = s5.retrieved
      BY <2>2, <2>3, DerivedWindow
    <2>5. PersistSample(10, s, source) \/ UNCHANGED candles
      BY <1>7, <2>1, <2>2 DEF PersistTen, tables
    <2>6. CASE PersistSample(10, s, source)
      BY <1>1, <1>2, <2>3, <2>4, <2>6, LatePageSettles
    <2>7. CASE UNCHANGED candles
      BY <1>1, <2>7, UntouchedSettles
    <2> QED
      BY <2>5, <2>6, <2>7
  <1> QED
    BY <1>4, <1>5, <1>6, <1>7 DEF Ingest

\* The evidence available at a past cutoff is settled once no ingestion that
\* fetched by then is in flight (load_historical_coverage_snapshot).
THEOREM CutoffsSettle == Spec => PastCutoffsAreSettled
  <1>1. SyncInv /\ [Next]_vars =>
          [\A as_of \in Cutoffs, tf \in Frames :
              (as_of < clock /\ ~InFlight(as_of)) =>
                  Available(tf, as_of)' = Available(tf, as_of)]_vars
    <2> SUFFICES ASSUME SyncInv, [Next]_vars, NEW as_of \in Cutoffs, NEW tf \in Frames,
                        ~ InFlight(as_of)
                 PROVE  Available(tf, as_of)' = Available(tf, as_of) \/ UNCHANGED vars
      OBVIOUS
    <2>1. as_of \in Nat
      BY SynchronizationAssumption
    <2>2. TablesSound /\ IngestInv
      BY DEF SyncInv, IngestInv
    <2>3. CASE Tick
      BY <2>1, <2>2, <2>3, TickKeeps, UntouchedSettles
    <2>4. ASSUME NEW i \in Ingesters, Ingest(i)
          PROVE  Available(tf, as_of)' = Available(tf, as_of)
      BY <2>1, <2>2, <2>4, IngestKeeps, IngestSettles
    <2>5. ASSUME NEW s \in Syncers, Synchronize(s)
          PROVE  Available(tf, as_of)' = Available(tf, as_of)
      BY <2>1, <2>2, <2>5, SynchronizeKeeps, UntouchedSettles
    <2> QED
      BY <2>3, <2>4, <2>5 DEF Next
  <1> QED
    BY <1>1, SyncInvHolds, PTL DEF Spec, PastCutoffsAreSettled

-----------------------------------------------------------------------------
(* The candle table of all timeframes implements the ledger.                  *)

LEMMA KeysAreSlots ==
    /\ \A p \in AllSlots : p[1] \in Frames /\ p[2] \in Slots(p[1]) /\ p = <<p[1], p[2]>>
    /\ \A tf \in Frames : \A t \in Slots(tf) : <<tf, t>> \in AllSlots
  BY DEF AllSlots

LEMMA SyncInitIsLedgerInit == Init => Ledger!Init
  <1> SUFFICES ASSUME Init PROVE Ledger!Init
    OBVIOUS
  <1>1. /\ candles = [tf \in Frames |-> [t \in Slots(tf) |-> NoCandle]]
        /\ batches = << >> /\ conflicts = {}
    BY DEF Init
  <1>2. \A p \in AllSlots : candles[p[1]][p[2]] = NoCandle
    BY <1>1, KeysAreSlots
  <1>3. [p \in AllSlots |-> candles[p[1]][p[2]]] = [p \in AllSlots |-> NoCandle]
    BY <1>2
  <1>4. Len(batches) = 0 /\ {<<c.tf, c.time>> : c \in conflicts} = {}
    BY <1>1
  <1> QED
    BY <1>3, <1>4 DEF Ledger!Init

\* The transaction of one timeframe fills what it found empty, or, if a native
\* window met a conflict, disputes rows it found filled.
LEMMA PersistSampleRefines ==
    ASSUME TablesSound, NEW tf \in Frames, NEW s, IsSample(tf, s), NEW source,
           PersistSample(tf, s, source)
    PROVE  Ledger!Next
  <1> DEFINE clashes == IF tf = 10 THEN {} ELSE SourceConflicts(candles[tf], s)
             row == [tf |-> tf, source |-> source, valid |-> s.valid, first |-> s.first,
                     until |-> s.until, retrieved |-> s.retrieved]
             keys == {<<tf, t>> : t \in clashes}
             at(p) == candles[p[1]][p[2]]
             rows == [p \in AllSlots |-> at(p)]
  <1>1. Len(batches') = Len(batches) + 1
    <2>1. batches' = Append(batches, row)
      BY PersistedBatch
    <2> HIDE DEF row
    <2> QED
      BY <2>1 DEF TablesSound
  <1>2. \A p \in AllSlots :
          at(p)' = IF p[1] = tf /\ Inserts(tf, s) /\ p[2] \in Window(s) /\ at(p) = NoCandle
                   THEN [value |-> s.value[p[2]], batch |-> Len(batches) + 1] ELSE at(p)
    BY PersistedRows, KeysAreSlots DEF NextBatch
  <1>3. Inserts(tf, s) <=> s.valid /\ clashes = {}
    BY DEF Inserts
  <1>4. conflicts' = IF s.valid THEN conflicts \cup [tf : {tf}, time : clashes] ELSE conflicts
    BY DEF PersistSample
  <1>5. \A t \in clashes : <<tf, t>> \in AllSlots /\ candles[tf][t] # NoCandle
    BY KeysAreSlots DEF SourceConflicts, IsSample
  <1>6. keys \subseteq Ledger!Filled
    <2> HIDE DEF clashes
    <2> QED
      BY <1>5 DEF Ledger!Filled
  <1> HIDE DEF clashes
  <1>7. CASE s.valid /\ clashes # {}
    <2>1. rows' = rows
      <3>1. \A p \in AllSlots : at(p)' = at(p)
        BY <1>2, <1>3, <1>7
      <3> QED
        BY <3>1 DEF AllSlots, Slots, Width, Frames
    <2>2. {<<c.tf, c.time>> : c \in conflicts'} = {<<c.tf, c.time>> : c \in conflicts} \cup keys
      <3>1. conflicts' = conflicts \cup [tf : {tf}, time : clashes]
        BY <1>4, <1>7
      <3>2. {<<c.tf, c.time>> : c \in [tf : {tf}, time : clashes]} = keys
        <4>1. \A c \in [tf : {tf}, time : clashes] : <<c.tf, c.time>> \in keys
          OBVIOUS
        <4>2. \A t \in clashes : /\ [tf |-> tf, time |-> t] \in [tf : {tf}, time : clashes]
                                 /\ [tf |-> tf, time |-> t].tf = tf
                                 /\ [tf |-> tf, time |-> t].time = t
          OBVIOUS
        <4> QED
          BY <4>1, <4>2
      <3> HIDE DEF keys
      <3> QED
        BY <3>1, <3>2
    <2>3. keys # {}
      BY <1>7
    <2>4. Ledger!Dispute
      BY <1>1, <1>6, <2>1, <2>2, <2>3 DEF Ledger!Dispute
    <2> QED
      BY <2>4 DEF Ledger!Next
  <1>8. CASE ~ (s.valid /\ clashes # {})
    <2>1. conflicts' = conflicts
      <3>1. [tf : {tf}, time : {}] = {}
        OBVIOUS
      <3> QED
        BY <1>4, <1>8, <3>1
    <2>2. ASSUME NEW p \in AllSlots PROVE at(p)' \in Ledger!Outcomes(p)
      <3>1. Ledger!Outcomes(p) = IF at(p) = NoCandle
                                 THEN {NoCandle} \cup [value : CandleValues,
                                                       batch : {Len(batches) + 1}]
                                 ELSE {at(p)}
        BY DEF Ledger!Outcomes
      <3>2. CASE p[1] = tf /\ Inserts(tf, s) /\ p[2] \in Window(s) /\ at(p) = NoCandle
        <4>1. s.value[p[2]] \in EvidenceOf(tf)
          BY <1>3, <3>2 DEF IsSample
        <4>2. s.value[p[2]] \in CandleValues
          BY <4>1 DEF EvidenceOf, CandleValues, Frames
        <4>3. at(p)' = [value |-> s.value[p[2]], batch |-> Len(batches) + 1]
          BY <1>2, <3>2
        <4> HIDE DEF at
        <4> QED
          BY <3>1, <3>2, <4>2, <4>3
      <3>3. CASE ~ (p[1] = tf /\ Inserts(tf, s) /\ p[2] \in Window(s) /\ at(p) = NoCandle)
        <4>1. at(p)' = at(p)
          BY <1>2, <3>3
        <4> HIDE DEF at
        <4> QED
          BY <3>1, <4>1
      <3> QED
        BY <3>2, <3>3
    <2>3. rows' = [p \in AllSlots |-> rows'[p]] /\ \A p \in AllSlots : rows'[p] = at(p)'
      BY DEF AllSlots, Slots, Width, Frames
    <2>4. \A p \in AllSlots : rows'[p] \in Ledger!Outcomes(p)
      BY <2>2, <2>3
    <2>5. Ledger!Fill
      BY <1>1, <2>1, <2>3, <2>4 DEF Ledger!Fill
    <2> QED
      BY <2>5 DEF Ledger!Next
  <1> QED
    BY <1>7, <1>8

\* Every other step, of an ingestion, a synchronization or the clock, leaves the
\* ledger alone.
LEMMA SyncStepIsLedgerStep ==
    ASSUME SyncInv, [Next]_vars PROVE [Ledger!Next]_(Ledger!ledgerVars)
  <1>1. TablesSound /\ \A i \in Ingesters : IngestSound(ingest[i])
    BY DEF SyncInv, IngestInv, IngestersSound
  <1>2. 5 \in Frames /\ 10 \in Frames /\ 15 \in Frames
    BY DEF Frames
  <1>3. CASE UNCHANGED <<candles, batches, conflicts>>
    BY <1>3 DEF Ledger!ledgerVars, AllSlots, Slots, Width, Frames
  <1>4. ASSUME NEW i \in Ingesters, PersistFive(i) PROVE Ledger!Next
    <2>1. PICK s : s = ingest[i].five
      OBVIOUS
    <2>2. IsSample(5, s) /\ PersistSample(5, s, 0)
      BY <1>1, <1>4, <2>1 DEF IngestSound, PersistFive
    <2> QED
      BY <1>1, <1>2, <2>2, PersistSampleRefines
  <1>5. ASSUME NEW i \in Ingesters, PersistFifteen(i) PROVE Ledger!Next
    <2>1. PICK s : s = ingest[i].fifteen
      OBVIOUS
    <2>2. IsSample(15, s) /\ PersistSample(15, s, 0)
      BY <1>1, <1>5, <2>1 DEF IngestSound, PersistFifteen
    <2> QED
      BY <1>1, <1>2, <2>2, PersistSampleRefines
  <1>6. ASSUME NEW i \in Ingesters, PersistTen(i)
        PROVE  Ledger!Next \/ UNCHANGED <<candles, batches, conflicts>>
    <2>1. PICK s5, source : s5 = ingest[i].five /\ source = ingest[i].source
      OBVIOUS
    <2>2. PICK s : s = DerivedSample(s5)
      OBVIOUS
    <2>3. IsSample(5, s5) /\ s5.valid
      BY <1>1, <1>6, <2>1 DEF IngestSound, PersistTen
    <2>4. IsSample(10, s)
      BY <2>2, <2>3, DerivedWindow
    <2>5. PersistSample(10, s, source) \/ UNCHANGED <<candles, batches, conflicts>>
      BY <1>6, <2>1, <2>2 DEF PersistTen, tables
    <2> QED
      BY <1>1, <1>2, <2>4, <2>5, PersistSampleRefines
  <1>7. ASSUME NEW i \in Ingesters, FetchFive(i) \/ FetchFifteen(i) \/ AbandonIngest(i)
        PROVE  UNCHANGED <<candles, batches, conflicts>>
    BY <1>7 DEF FetchFive, FetchFifteen, AbandonIngest, tables
  <1>8. ASSUME NEW y \in Syncers, Synchronize(y)
        PROVE  UNCHANGED <<candles, batches, conflicts>>
    BY <1>8 DEF Synchronize, StartSync, LoadCoverage, PersistCoverage, PersistDerivations,
           PersistSynchronized, AbandonSync, tables
  <1>9. CASE Tick \/ UNCHANGED vars
    BY <1>3, <1>9 DEF Tick, vars, tables
  <1> QED
    BY <1>3, <1>4, <1>5, <1>6, <1>7, <1>8, <1>9 DEF Next, Ingest

\* The one candle table of the three timeframes implements the ledger, for any
\* ingesters, values and pages, although derived windows are inserted with no
\* comparison (persist_historical_sample).
THEOREM TimeframesImplementLedger == Spec => ImplementsLedger
  <1>1. Init => Ledger!Init
    BY SyncInitIsLedgerInit
  <1>2. SyncInv /\ [Next]_vars => [Ledger!Next]_(Ledger!ledgerVars)
    BY SyncStepIsLedgerStep
  <1> QED
    BY <1>1, <1>2, SyncInvHolds, PTL DEF Spec, ImplementsLedger, Ledger!Spec
=============================================================================
