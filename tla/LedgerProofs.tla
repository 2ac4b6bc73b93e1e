---------------------------- MODULE LedgerProofs ----------------------------
(***************************************************************************)
(* Ledger for every ring size, every set of transactions, amounts and      *)
(* dates, and every combination of file-system faults: the ring never      *)
(* holds a transaction twice, its newest payments add up to the daily      *)
(* total, what a reboot loads is what RAM held, and ring, index and file   *)
(* together are the payment window of PaymentWindow.                       *)
(***************************************************************************)
EXTENDS LedgerRefinement, FiniteSetTheorems, WellFoundedInduction, TLAPS

(* DailyMatchesRing of any image: one that is stored or being saved too.   *)
Tallies(l) ==
  l.daily.count <= l.count =>
    /\ l.daily.total = SumOfNewest(l, l.daily.count)
    /\ \A n \in 1 .. l.daily.count :
         Newest(l, n).date \in {l.daily.date, NoDate}

Sound(l) == WellFormed(l) /\ NoTwin(l) /\ Tallies(l)

SoundImage == {l \in Image : Sound(l)}

(* The inductive invariant.  NoDuplicatePayment and DailyMatchesRing alone *)
(* are not inductive: a restart loads what a save left on the drive, so    *)
(* the image in flight and the finished temporary file have to be sound    *)
(* too, and the totals follow the ring only while its indices are right.   *)
LedgerInv ==
  /\ LedgerTypeOK
  /\ ledger \in SoundImage
  /\ \A f \in File : Readable(f) => disk[f] \in SoundImage
  /\ Saving => call.data \in SoundImage
  /\ call.pc \in {"remove_final", "rename"} => disk[LedgerTemp] = call.data

----------------------------------------------------------------------------
(* Induction over the natural numbers, and running totals                  *)

(* A set of natural numbers that is not empty has a least element: the     *)
(* induction principle of this module.  The intervals below its members    *)
(* are finite sets, which strict inclusion orders well-foundedly.          *)
LEMMA LeastMember ==
  ASSUME NEW S \in SUBSET Nat, S # {}
  PROVE  \E x \in S : \A y \in S : x =< y
<1> DEFINE T == {0 .. x : x \in S}
<1>1. IsWellFoundedOn(StrictSubsetOrdering(Nat), FiniteSubsetsOf(Nat))
  BY FS_StrictSubsetOrderingWellFounded
<1>2. \A x \in S : x \in Nat /\ 0 .. x \in SUBSET Nat /\ IsFiniteSet(0 .. x)
  BY FS_Interval
<1>3. T \subseteq FiniteSubsetsOf(Nat) /\ T # {}
  BY <1>2 DEF FiniteSubsetsOf
<1> HIDE DEF T
<1>4. PICK t \in T : \A u \in T : <<u, t>> \notin StrictSubsetOrdering(Nat)
  BY <1>1, <1>3, WFMin
<1>5. PICK x \in S : t = 0 .. x
  BY DEF T
<1>6. ASSUME NEW y \in S, ~(x =< y)
      PROVE  FALSE
  <2>1. x \in Nat /\ y \in Nat /\ y < x
    BY <1>6
  <2>2. 0 .. y \subseteq 0 .. x /\ 0 .. y # 0 .. x
    <3>1. x \in 0 .. x /\ x \notin 0 .. y
      BY <2>1
    <3> QED BY <2>1, <3>1
  <2>3. <<0 .. y, 0 .. x>> \in (SUBSET Nat) \X (SUBSET Nat)
    BY <1>2
  <2>4. <<0 .. y, 0 .. x>> \in StrictSubsetOrdering(Nat)
    BY <2>2, <2>3 DEF StrictSubsetOrdering
  <2>5. 0 .. y \in T
    BY DEF T
  <2> QED BY <1>4, <1>5, <2>4, <2>5
<1> QED BY <1>6

(* What holds at 0 and is passed on by every step holds up to n: S is the  *)
(* set where it holds.                                                     *)
LEMMA UpTo ==
  ASSUME NEW n \in Nat, NEW S,
         0 \in S, \A i \in 1 .. n : i - 1 \in S => i \in S
  PROVE  0 .. n \subseteq S
<1> SUFFICES ASSUME ~(0 .. n \subseteq S) PROVE FALSE
  OBVIOUS
<1> DEFINE Out == {i \in 0 .. n : i \notin S}
<1>1. Out \in SUBSET Nat /\ Out # {}
  OBVIOUS
<1> HIDE DEF Out
<1>2. PICK x \in Out : \A y \in Out : x =< y
  BY <1>1, LeastMember
<1>3. x \in 0 .. n /\ x \notin S
  BY DEF Out
<1>4. x \in 1 .. n /\ x - 1 \in 0 .. n
  BY <1>3
<1>5. x - 1 \in S
  <2>1. x - 1 \notin Out
    BY <1>2, <1>4
  <2> QED BY <1>4, <2>1 DEF Out
<1> QED BY <1>3, <1>4, <1>5

(* The defining equation of a running total of a over 0 .. n.              *)
IsTotal(g, a, n) ==
  g = [i \in 0 .. n |-> IF i = 0 THEN 0 ELSE g[i - 1] + a[i]]

(* There is one.                                                           *)
LEMMA TotalExists ==
  ASSUME NEW n \in Nat, NEW a
  PROVE  \E g : IsTotal(g, a, n)
<1> DEFINE S == {k \in Nat : \E g : IsTotal(g, a, k)}
<1>1. 0 \in S
  <2> DEFINE z == [i \in 0 .. 0 |-> 0]
  <2>1. IsTotal(z, a, 0)
    BY DEF IsTotal
  <2> QED BY <2>1
<1>2. ASSUME NEW k \in 1 .. n, k - 1 \in S
      PROVE  k \in S
  <2>1. PICK g : IsTotal(g, a, k - 1)
    BY <1>2
  <2> DEFINE h == [i \in 0 .. k |-> IF i = k THEN g[k - 1] + a[k] ELSE g[i]]
  <2>2. ASSUME NEW i \in 0 .. k
        PROVE  h[i] = IF i = 0 THEN 0 ELSE h[i - 1] + a[i]
    <3>1. CASE i = k
      BY <3>1
    <3>2. CASE i # k
      <4>1. i \in 0 .. k - 1 /\ h[i] = g[i]
        BY <3>2
      <4>2. g[i] = IF i = 0 THEN 0 ELSE g[i - 1] + a[i]
        BY <2>1, <4>1 DEF IsTotal
      <4>3. i # 0 => i - 1 \in 0 .. k /\ i - 1 # k /\ h[i - 1] = g[i - 1]
        BY <3>2
      <4> QED BY <4>1, <4>2, <4>3
    <3> QED BY <3>1, <3>2
  <2>3. h = [i \in 0 .. k |-> h[i]]
    OBVIOUS
  <2> HIDE DEF h
  <2>4. IsTotal(h, a, k)
    BY <2>2, <2>3 DEF IsTotal
  <2>5. k \in Nat
    OBVIOUS
  <2> QED BY <2>4, <2>5
<1> HIDE DEF S
<1>3. 0 .. n \subseteq S
  BY <1>1, <1>2, UpTo
<1>4. n \in S
  BY <1>3
<1> QED BY <1>4 DEF S

(* SumOfNewest is the last entry of a running total.                       *)
LEMMA SumIsTotal ==
  ASSUME NEW n \in Nat, NEW l
  PROVE  \E g : /\ SumOfNewest(l, n) = g[n] /\ g[0] = 0
                /\ \A i \in 1 .. n : g[i] = g[i - 1] + Newest(l, i).amount
<1> DEFINE a == [i \in 1 .. n |-> Newest(l, i).amount]
           sum == CHOOSE g : g = [i \in 0 .. n |-> IF i = 0 THEN 0 ELSE g[i - 1] + Newest(l, i).amount]
<1>1. SumOfNewest(l, n) = sum[n]
  BY DEF SumOfNewest
<1>2. \E g : IsTotal(g, a, n)
  BY TotalExists
<1>3. \A g : IsTotal(g, a, n) <=> g = [i \in 0 .. n |-> IF i = 0 THEN 0 ELSE g[i - 1] + Newest(l, i).amount]
  <2> TAKE g
  <2>1. \A i \in 0 .. n : i # 0 => a[i] = Newest(l, i).amount
    OBVIOUS
  <2> HIDE DEF a
  <2>2. [i \in 0 .. n |-> IF i = 0 THEN 0 ELSE g[i - 1] + a[i]]
          = [i \in 0 .. n |-> IF i = 0 THEN 0 ELSE g[i - 1] + Newest(l, i).amount]
    BY <2>1
  <2> QED BY <2>2 DEF IsTotal
<1>4. sum = [i \in 0 .. n |-> IF i = 0 THEN 0 ELSE sum[i - 1] + Newest(l, i).amount]
  BY <1>2, <1>3
<1> HIDE DEF a, sum
<1>5. \A i \in 0 .. n : sum[i] = IF i = 0 THEN 0 ELSE sum[i - 1] + Newest(l, i).amount
  BY <1>4
<1>6. sum[0] = 0 /\ \A i \in 1 .. n : sum[i] = sum[i - 1] + Newest(l, i).amount
  BY <1>5
<1> QED BY <1>1, <1>6

----------------------------------------------------------------------------
(* The ring arithmetic                                                     *)

(* NextSlot is the next index, with wrap-around.                           *)
LEMMA NextSlotWraps ==
  ASSUME NEW s \in Slot
  PROVE  NextSlot(s) = IF s + 1 = MaxRecords THEN 0 ELSE s + 1
<1>1. s + 1 \in Nat /\ s + 1 <= MaxRecords /\ s \in Nat
  BY LedgerAssumption DEF Slot
<1>2. CASE s + 1 = MaxRecords
  BY <1>1, <1>2, LedgerAssumption DEF NextSlot
<1>3. CASE s + 1 < MaxRecords
  BY <1>1, <1>3, LedgerAssumption DEF NextSlot
<1> QED BY <1>1, <1>2, <1>3, LedgerAssumption

(* NextSlot stays in the ring.                                             *)
LEMMA NextSlotType ==
  ASSUME NEW s \in Slot
  PROVE  NextSlot(s) \in Slot
BY NextSlotWraps, LedgerAssumption DEF Slot

(* The n-th newest payment of a ring is in the slot n below the write      *)
(* index, with wrap-around, and in use while it is among the first count.  *)
AgeSlot(l, n) == IF n =< l.write_index THEN l.write_index - n
                                       ELSE l.write_index + MaxRecords - n

LEMMA NewestSlot ==
  ASSUME NEW l \in Image, NEW n \in 1 .. MaxRecords
  PROVE  /\ Newest(l, n) = l.records[AgeSlot(l, n)]
         /\ AgeSlot(l, n) \in Slot
<1>1. /\ l.write_index \in Nat /\ l.write_index < MaxRecords
      /\ MaxRecords \in Nat \ {0} /\ n \in Nat
  BY LedgerAssumption DEF Image, Slot
<1>2. (l.write_index + MaxRecords - n) % MaxRecords = AgeSlot(l, n)
  <2>1. CASE n =< l.write_index
    <3>1. l.write_index - n \in 0 .. MaxRecords - 1
      BY <1>1, <2>1
    <3>2. ((l.write_index - n) + MaxRecords) % MaxRecords = l.write_index - n
      BY <1>1, <3>1
    <3>3. l.write_index + MaxRecords - n = (l.write_index - n) + MaxRecords
      BY <1>1
    <3> QED BY <2>1, <3>2, <3>3 DEF AgeSlot
  <2>2. CASE n > l.write_index
    <3>1. l.write_index + MaxRecords - n \in 0 .. MaxRecords - 1
      BY <1>1, <2>2
    <3> QED BY <1>1, <2>2, <3>1 DEF AgeSlot
  <2> QED BY <1>1, <2>1, <2>2
<1>3. AgeSlot(l, n) \in Slot
  BY <1>1 DEF AgeSlot, Slot
<1> QED BY <1>2, <1>3 DEF Newest

LEMMA NewestInUse ==
  ASSUME NEW l \in Image, WellFormed(l), NEW n \in 1 .. l.count
  PROVE  AgeSlot(l, n) \in Used(l) /\ Newest(l, n) = l.records[AgeSlot(l, n)]
         /\ Newest(l, n) \in Record
<1>1. /\ l.count \in 0 .. MaxRecords /\ l.write_index \in Slot /\ n \in 1 .. MaxRecords
      /\ MaxRecords \in Nat \ {0}
  BY LedgerAssumption DEF Image
<1>2. Newest(l, n) = l.records[AgeSlot(l, n)] /\ AgeSlot(l, n) \in Slot
  BY <1>1, NewestSlot
<1>3. AgeSlot(l, n) < l.count
  <2>1. CASE l.count < MaxRecords
    BY <1>1, <2>1 DEF WellFormed, AgeSlot, Slot
  <2>2. CASE l.count = MaxRecords
    BY <1>1, <1>2, <2>2 DEF Slot
  <2> QED BY <1>1, <2>1, <2>2
<1>4. AgeSlot(l, n) \in Used(l)
  BY <1>2, <1>3 DEF Used
<1> QED BY <1>2, <1>4 DEF WellFormed

(* Entering a payment makes it the newest and every other one older by one. *)
LEMMA NewestAfterRecord ==
  ASSUME NEW l \in Image, NEW rec, Recorded(l, rec) \in Image
  PROVE  /\ Newest(Recorded(l, rec), 1) = rec
         /\ \A n \in 1 .. MaxRecords - 1 :
              Newest(Recorded(l, rec), n + 1) = Newest(l, n)
<1> DEFINE r == Recorded(l, rec)
<1>1. /\ l.write_index \in Nat /\ l.write_index < MaxRecords /\ l.write_index \in Slot
      /\ MaxRecords \in Nat \ {0}
  BY LedgerAssumption DEF Image, Slot
<1>2. r.write_index = IF l.write_index + 1 = MaxRecords THEN 0 ELSE l.write_index + 1
  BY <1>1, NextSlotWraps DEF Recorded
<1>3. \A s \in Slot : r.records[s] = IF s = l.write_index THEN rec ELSE l.records[s]
  BY DEF Recorded, Image
<1> HIDE DEF r
<1>4. Newest(r, 1) = rec
  <2>1. 1 \in 1 .. MaxRecords
    BY <1>1
  <2>2. Newest(r, 1) = r.records[AgeSlot(r, 1)] /\ r \in Image
    BY <2>1, NewestSlot DEF r
  <2>3. AgeSlot(r, 1) = l.write_index
    BY <1>1, <1>2 DEF AgeSlot
  <2> QED BY <1>1, <1>3, <2>2, <2>3
<1>5. ASSUME NEW n \in 1 .. MaxRecords - 1
      PROVE  Newest(r, n + 1) = Newest(l, n)
  <2>1. n + 1 \in 1 .. MaxRecords /\ n \in 1 .. MaxRecords
    BY <1>1
  <2>2. Newest(r, n + 1) = r.records[AgeSlot(r, n + 1)] /\ r \in Image
    BY <2>1, NewestSlot DEF r
  <2>3. Newest(l, n) = l.records[AgeSlot(l, n)] /\ AgeSlot(l, n) \in Slot
    BY <2>1, NewestSlot
  <2>4. AgeSlot(r, n + 1) = AgeSlot(l, n) /\ AgeSlot(l, n) # l.write_index
    BY <1>1, <1>2 DEF AgeSlot
  <2> QED BY <1>3, <2>2, <2>3, <2>4
<1> QED BY <1>4, <1>5 DEF r

(* The total of the n + 1 newest after a payment is its amount and the     *)
(* total of the n newest before.                                           *)
LEMMA SumAfterRecord ==
  ASSUME NEW l \in Image, WellFormed(l),
         NEW rec \in Record, Recorded(l, rec) \in Image,
         NEW n \in 0 .. l.count, n < MaxRecords
  PROVE  SumOfNewest(Recorded(l, rec), n + 1) = rec.amount + SumOfNewest(l, n)
<1> DEFINE r == Recorded(l, rec)
<1>1. n \in Nat /\ l.count \in Nat /\ MaxRecords \in Nat \ {0}
  BY LedgerAssumption DEF Image
<1>2. PICK g : /\ SumOfNewest(l, n) = g[n] /\ g[0] = 0
               /\ \A i \in 1 .. n : g[i] = g[i - 1] + Newest(l, i).amount
  BY <1>1, SumIsTotal
<1> HIDE DEF r
<1>3. PICK h : /\ SumOfNewest(r, n + 1) = h[n + 1] /\ h[0] = 0
               /\ \A i \in 1 .. n + 1 : h[i] = h[i - 1] + Newest(r, i).amount
  BY n + 1 \in Nat, SumIsTotal
<1>6. /\ Newest(r, 1) = rec
      /\ \A i \in 1 .. n : Newest(r, i + 1) = Newest(l, i)
  <2>1. \A i \in 1 .. n : i \in 1 .. MaxRecords - 1
    BY <1>1
  <2> QED BY <2>1, NewestAfterRecord DEF r
<1>7. \A i \in 1 .. n : Newest(l, i).amount \in Nat
  <2>1. \A i \in 1 .. n : i \in 1 .. l.count
    BY <1>1
  <2> QED BY <2>1, NewestInUse, LedgerAssumption DEF Record
<1> DEFINE S == {i \in 0 .. n : g[i] \in Nat /\ h[i + 1] = rec.amount + g[i]}
<1>a. rec.amount \in Nat
  BY LedgerAssumption DEF Record
<1>8. 0 \in S
  <2>1. h[1] = h[0] + Newest(r, 1).amount
    BY <1>1, <1>3
  <2> QED BY <1>1, <1>2, <1>3, <1>6, <1>a, <2>1
<1>9. ASSUME NEW i \in 1 .. n, i - 1 \in S
      PROVE  i \in S
  <2>1. g[i - 1] \in Nat /\ h[i] = rec.amount + g[i - 1]
    <3>1. (i - 1) + 1 = i
      OBVIOUS
    <3> QED BY <1>9, <3>1
  <2>2. g[i] = g[i - 1] + Newest(l, i).amount
    BY <1>2
  <2>3. h[i + 1] = h[i] + Newest(r, i + 1).amount
    <3>1. i + 1 \in 1 .. n + 1 /\ (i + 1) - 1 = i
      BY <1>1
    <3>2. h[i + 1] = h[(i + 1) - 1] + Newest(r, i + 1).amount
      BY <1>3, <3>1
    <3> QED BY <3>1, <3>2
  <2>4. Newest(r, i + 1) = Newest(l, i) /\ Newest(l, i).amount \in Nat
    BY <1>6, <1>7
  <2>5. g[i] \in Nat /\ h[i + 1] = rec.amount + g[i]
    BY <1>a, <2>1, <2>2, <2>3, <2>4
  <2> QED BY <2>5
<1>10. 0 .. n \subseteq S
  <2> HIDE DEF S
  <2> QED BY <1>1, <1>8, <1>9, UpTo
<1>11. h[n + 1] = rec.amount + g[n]
  BY <1>1, <1>10
<1> QED BY <1>2, <1>3, <1>11 DEF r

(* No payment adds up to nothing.                                          *)
LEMMA SumOfNone ==
  ASSUME NEW l
  PROVE  SumOfNewest(l, 0) = 0
BY SumIsTotal

(* Entering a payment keeps the totals in step with the ring: it extends   *)
(* the day's run of newest payments, or starts a new run of one.           *)
LEMMA RecordedTallies ==
  ASSUME NEW l \in Image, WellFormed(l), Tallies(l),
         NEW rec \in Record, Recorded(l, rec) \in Image
  PROVE  Tallies(Recorded(l, rec))
<1> DEFINE r == Recorded(l, rec)
           today == DayFor(l.daily, rec.date)
<1>1. /\ l.count \in 0 .. MaxRecords /\ MaxRecords \in Nat \ {0}
      /\ l.daily \in Day /\ l.daily.count \in Nat /\ l.daily.total \in Nat
      /\ rec.amount \in Nat
  BY LedgerAssumption DEF Image, Day, Record
<1>2. today \in Day
  BY LedgerAssumption DEF DayFor, EmptyDay, Day, Image, Record
<1>3. /\ r.daily.count = today.count + 1
      /\ r.daily.total = today.total + rec.amount
      /\ r.daily.date = today.date
  <2> HIDE DEF today
  <2>1. r.daily = Counted(today, rec.amount)
    BY DEF Recorded, today
  <2> HIDE DEF r
  <2> QED BY <1>2, <2>1 DEF Counted, Day
<1>4. r.count = IF l.count < MaxRecords THEN l.count + 1 ELSE l.count
  BY DEF Recorded
<1>5. /\ Newest(r, 1) = rec
      /\ \A n \in 1 .. MaxRecords - 1 : Newest(r, n + 1) = Newest(l, n)
  BY NewestAfterRecord
<1>6. \A n \in 0 .. l.count : n < MaxRecords =>
        SumOfNewest(r, n + 1) = rec.amount + SumOfNewest(l, n)
  BY SumAfterRecord
<1>7. rec.date \in {today.date, NoDate}
  BY DEF DayFor, EmptyDay
<1> SUFFICES ASSUME r.daily.count <= r.count
             PROVE  /\ r.daily.total = SumOfNewest(r, r.daily.count)
                    /\ \A n \in 1 .. r.daily.count :
                         Newest(r, n).date \in {r.daily.date, NoDate}
  BY DEF Tallies
<1>8. CASE today = EmptyDay(rec.date)
  <2>1. today.count = 0 /\ today.total = 0
    BY <1>8 DEF EmptyDay
  <2> HIDE DEF r, today
  <2>2. SumOfNewest(r, 0 + 1) = rec.amount + SumOfNewest(l, 0)
    BY <1>1, <1>6
  <2>3. r.daily.count = 1 /\ r.daily.total = rec.amount
    BY <1>1, <1>3, <2>1
  <2> QED BY <1>1, <1>3, <1>5, <1>7, <2>2, <2>3, SumOfNone
<1>9. CASE today = l.daily
  <2> HIDE DEF r, today
  <2>1. /\ l.daily.count <= l.count /\ l.daily.count < MaxRecords
        /\ l.daily.count \in 0 .. l.count
    BY <1>1, <1>3, <1>4, <1>9
  <2>2. /\ l.daily.total = SumOfNewest(l, l.daily.count)
        /\ \A n \in 1 .. l.daily.count : Newest(l, n).date \in {l.daily.date, NoDate}
    BY <2>1 DEF Tallies
  <2>3. SumOfNewest(r, l.daily.count + 1) = rec.amount + l.daily.total
    BY <1>6, <2>1, <2>2
  <2>4. r.daily.total = SumOfNewest(r, r.daily.count)
    BY <1>1, <1>3, <1>9, <2>3
  <2>5. ASSUME NEW n \in 1 .. r.daily.count
        PROVE  Newest(r, n).date \in {r.daily.date, NoDate}
    <3>1. CASE n = 1
      BY <1>3, <1>5, <1>7, <3>1
    <3>2. CASE n # 1
      <4>1. /\ n - 1 \in 1 .. l.daily.count /\ n - 1 \in 1 .. MaxRecords - 1
            /\ (n - 1) + 1 = n
        BY <1>1, <1>3, <1>9, <2>1, <3>2
      <4>2. Newest(r, (n - 1) + 1) = Newest(l, n - 1)
        BY <1>5, <4>1
      <4> QED BY <1>3, <1>9, <2>2, <4>1, <4>2
    <3> QED BY <3>1, <3>2
  <2> QED BY <2>4, <2>5
<1> QED BY <1>8, <1>9 DEF DayFor

(* Entering a payment the ring does not know keeps it a sound ledger.      *)
LEMMA RecordedSound ==
  ASSUME NEW l \in Image, Sound(l),
         NEW rec \in Record, ~Known(l, rec.tx_id)
  PROVE  Recorded(l, rec) \in Image /\ Sound(Recorded(l, rec))
<1> DEFINE r == Recorded(l, rec)
<1>w. l.write_index \in Slot /\ NextSlot(l.write_index) \in Slot
  BY NextSlotType DEF Image
<1>c. l.count \in 0 .. MaxRecords /\ MaxRecords \in Nat \ {0}
  BY LedgerAssumption DEF Image
<1>1. r \in Image
  <2>1. r.records \in [Slot -> Record \cup {NoRecord}]
    BY <1>w DEF Recorded, Image
  <2>2. r.daily \in Day
    <3>1. rec.date \in Date \cup {NoDate} /\ rec.amount \in Nat /\ l.daily \in Day
      BY LedgerAssumption DEF Record, Image
    <3>2. DayFor(l.daily, rec.date) \in Day
      BY <3>1 DEF DayFor, EmptyDay, Day
    <3>3. ASSUME NEW day \in Day
          PROVE  Counted(day, rec.amount) \in Day
      <4>1. day.count + 1 \in Nat /\ day.total + rec.amount \in Nat
        BY <3>1 DEF Day
      <4>2. [day EXCEPT !.count = day.count + 1] \in Day
        BY <4>1 DEF Day
      <4> QED BY <4>1, <4>2 DEF Counted, Day
    <3> QED BY <3>2, <3>3 DEF Recorded
  <2>3. r.count \in 0 .. MaxRecords
    BY <1>c DEF Recorded
  <2> QED BY <1>w, <2>1, <2>2, <2>3 DEF Recorded, Image
<1>u. Used(r) \subseteq Used(l) \cup {l.write_index}
  <2>1. CASE l.count < MaxRecords
    BY <2>1, <1>c, <1>w DEF Sound, WellFormed, Recorded, Used, Slot
  <2>2. CASE l.count = MaxRecords
    BY <2>2, <1>c DEF Recorded, Used
  <2> QED BY <1>c, <2>1, <2>2
<1>s. \A s \in Slot : r.records[s] = IF s = l.write_index THEN rec ELSE l.records[s]
  BY <1>w DEF Recorded, Image
<1>2. \A s \in Used(r) : r.records[s] \in Record
  BY <1>u, <1>s DEF Sound, WellFormed, Used
<1>3. r.count < MaxRecords => r.write_index = r.count
  <2> SUFFICES ASSUME r.count < MaxRecords PROVE r.write_index = r.count
    OBVIOUS
  <2>1. l.count < MaxRecords /\ r.count = l.count + 1
    BY <1>c DEF Recorded
  <2>2. l.write_index = l.count /\ l.write_index + 1 < MaxRecords
    BY <2>1, <1>c DEF Sound, WellFormed
  <2>3. NextSlot(l.write_index) = l.write_index + 1
    <3>1. l.write_index + 1 # MaxRecords
      BY <2>2, <1>c, <1>w DEF Slot
    <3> QED BY <3>1, <1>w, NextSlotWraps
  <2>4. r.write_index = NextSlot(l.write_index)
    BY DEF Recorded
  <2> QED BY <2>1, <2>2, <2>3, <2>4
<1>4. NoTwin(r)
  <2> SUFFICES ASSUME NEW s \in Used(r), NEW t \in Used(r),
                      r.records[s].tx_id = r.records[t].tx_id
               PROVE  s = t
    BY DEF NoTwin
  <2>1. \A u \in Used(r) : u # l.write_index =>
          u \in Used(l) /\ r.records[u] = l.records[u]
                        /\ l.records[u].tx_id # rec.tx_id
    BY <1>u, <1>s DEF Known, Used
  <2>2. CASE s # l.write_index /\ t # l.write_index
    BY <2>1, <2>2 DEF Sound, NoTwin
  <2>3. CASE s = l.write_index \/ t = l.write_index
    BY <2>1, <2>3, <1>s DEF Used
  <2> QED BY <2>2, <2>3
<1>5. Tallies(r)
  BY <1>1, RecordedTallies DEF Sound
<1> QED BY <1>1, <1>2, <1>3, <1>4, <1>5 DEF Sound, WellFormed

(* A ledger whose day has no payments yet tallies.                         *)
LEMMA EmptyDayTallies ==
  ASSUME NEW l, l.daily.count = 0, l.daily.total = 0
  PROVE  Tallies(l)
BY SumOfNone DEF Tallies

(* Starting a new day leaves the ring alone.                               *)
LEMMA NewDaySound ==
  ASSUME NEW l \in Image, Sound(l), NEW date \in Date
  PROVE  LET n == [l EXCEPT !.daily = EmptyDay(date)]
         IN  n \in Image /\ Sound(n)
<1> DEFINE n == [l EXCEPT !.daily = EmptyDay(date)]
<1>1. EmptyDay(date) \in Day
  BY LedgerAssumption DEF EmptyDay, Day
<1>2. n \in Image /\ n.records = l.records /\ n.count = l.count
      /\ n.write_index = l.write_index
  BY <1>1 DEF Image
<1>3. n.daily.count = 0 /\ n.daily.total = 0
  BY DEF EmptyDay, Image
<1> HIDE DEF n
<1>4. Tallies(n)
  BY <1>3, EmptyDayTallies
<1>5. WellFormed(n) /\ NoTwin(n)
  BY <1>2 DEF Sound, WellFormed, NoTwin, Used
<1> QED BY <1>2, <1>4, <1>5 DEF Sound, n

(* The empty ledger is sound.                                              *)
LEMMA DefaultSound == DefaultLedger \in Image /\ Sound(DefaultLedger)
<1>1. EmptyDay(NoDate) \in Day
  BY LedgerAssumption DEF EmptyDay, Day, NoDate
<1>2. DefaultLedger \in Image
  BY <1>1, LedgerAssumption DEF DefaultLedger, Image, Slot
<1>3. Used(DefaultLedger) = {}
  BY LedgerAssumption DEF Used, Slot, DefaultLedger
<1>4. Tallies(DefaultLedger)
  BY EmptyDayTallies DEF DefaultLedger, EmptyDay
<1> QED BY <1>2, <1>3, <1>4 DEF Sound, WellFormed, NoTwin, DefaultLedger

----------------------------------------------------------------------------
(* The save                                                                *)

(* Starting to save a sound ledger.                                        *)
LEMMA SaveKeepsInv ==
  ASSUME LedgerInv, NEW l \in SoundImage, Save(l),
         ledger' \in SoundImage, svc' \in Phase
  PROVE  LedgerInv'
<1>1. /\ disk' = disk
      /\ \/ call' = Call("remove_temp", LedgerFile, LedgerTemp, l)
         \/ call' = Call("error", LedgerFile, LedgerTemp, l)
  BY DEF Save, BeginWrite
<1>2. LedgerTypeOK'
  BY <1>1 DEF LedgerInv, LedgerTypeOK, Saving, Call, Steps, File, SoundImage
<1> QED BY <1>1, <1>2 DEF LedgerInv, Saving, Call, Readable

(* Every file-system step of a save.                                       *)
LEMMA SaveStepKeepsInv ==
  ASSUME LedgerInv, SaveStep
  PROVE  LedgerInv'
<1> USE DEF File
<1>c. /\ call.pc \in Steps /\ call.final = LedgerFile
      /\ call.temp = LedgerTemp /\ call.data \in Image /\ call.data \in SoundImage
      /\ Saving
  BY DEF LedgerInv, LedgerTypeOK, Saving, SaveStep, FsStep, RemoveTemp, OpenTemp,
         FillTemp, RemoveFinal, Rename, DiscardTemp, At, Idle
<1>n. LedgerFile # LedgerTemp
  BY DEF LedgerFile, LedgerTemp
<1>d. disk \in [File -> Image \cup {Absent, Torn}]
  BY DEF LedgerInv, LedgerTypeOK
<1>g. \A pc \in Steps : Goto(pc) =>
        /\ call' \in [pc : Steps, final : {LedgerFile},
                      temp : {LedgerTemp}, data : Image]
        /\ call'.pc = pc /\ call'.data = call.data
  BY <1>c DEF Goto, LedgerInv, LedgerTypeOK, Saving
<1>u. ledger' = ledger /\ svc' = svc
  BY DEF SaveStep
<1>k. ASSUME NEW pc \in Steps, Goto(pc),
             disk' \in [File -> Image \cup {Absent, Torn}],
             \A f \in File : disk'[f] \notin {Absent, Torn} => disk'[f] \in SoundImage,
             pc \in {"remove_final", "rename"} => disk'[LedgerTemp] = call.data
      PROVE  LedgerInv'
  BY <1>c, <1>g, <1>k, <1>u
  DEF LedgerInv, LedgerTypeOK, Saving, Readable, Steps
<1>s. \A f \in File : disk[f] \notin {Absent, Torn} => disk[f] \in SoundImage
  BY DEF LedgerInv, Readable
<1>r. ASSUME NEW f \in File, Remove(f)
      PROVE  /\ disk' \in [File -> Image \cup {Absent, Torn}]
             /\ \A g \in File : disk'[g] \notin {Absent, Torn} => disk'[g] \in SoundImage
             /\ \A g \in File \ {f} : disk'[g] = disk[g]
  BY <1>d, <1>s, <1>r DEF Remove, Put
<1>1. CASE RemoveTemp
  BY <1>1, <1>c, <1>k, <1>r DEF RemoveTemp, Steps
<1>2. CASE OpenTemp
  <2>1. CASE Put(call.temp, Torn) /\ Goto("fill_temp")
    BY <2>1, <1>c, <1>k, <1>d, <1>s DEF Put, Steps
  <2>2. CASE Goto("discard_temp") /\ UNCHANGED disk
    BY <2>2, <1>k, <1>d, <1>s DEF Steps
  <2> QED BY <1>2, <2>1, <2>2 DEF OpenTemp
<1>3. CASE FillTemp
  <2>1. CASE Put(call.temp, call.data) /\ Goto("remove_final")
    BY <2>1, <1>c, <1>k, <1>d, <1>s DEF Put, Steps
  <2>2. CASE Goto("discard_temp") /\ UNCHANGED disk
    BY <2>2, <1>k, <1>d, <1>s DEF Steps
  <2> QED BY <1>3, <2>1, <2>2 DEF FillTemp
<1>4. CASE RemoveFinal
  <2>1. disk[LedgerTemp] = call.data
    BY <1>4 DEF RemoveFinal, At, LedgerInv
  <2> QED BY <1>4, <2>1, <1>c, <1>k, <1>r, <1>n DEF RemoveFinal, Steps
<1>5. CASE Rename
  <2>1. disk[LedgerTemp] = call.data
    BY <1>5 DEF Rename, At, LedgerInv
  <2>2. CASE /\ disk' = [disk EXCEPT ![call.final] = disk[call.temp],
                                     ![call.temp]  = Absent]
             /\ Goto("ok")
    BY <2>1, <2>2, <1>c, <1>k, <1>d, <1>s, <1>n DEF Steps
  <2>3. CASE Goto("discard_temp") /\ UNCHANGED disk
    BY <2>3, <1>k, <1>d, <1>s DEF Steps
  <2> QED BY <1>5, <2>2, <2>3 DEF Rename
<1>6. CASE DiscardTemp
  BY <1>6, <1>c, <1>k, <1>r DEF DiscardTemp, Steps
<1> QED BY <1>1, <1>2, <1>3, <1>4, <1>5, <1>6 DEF SaveStep, FsStep

----------------------------------------------------------------------------
(* The invariant                                                           *)

LEMMA InitEstablishesInv == LedgerInit => LedgerInv
BY DefaultSound
DEF LedgerInit, LedgerInv, LedgerTypeOK, Saving, Idle, Readable, File, Phase, SoundImage

(* One step per action.                                                    *)
LEMMA StepKeepsInv ==
  ASSUME LedgerInv, [LedgerNext]_ledgerVars
  PROVE  LedgerInv'
<1>1. CASE LoadStored
  <2>1. disk[LedgerFile] \in SoundImage /\ disk[LedgerFile] \in Image
    BY <1>1 DEF LoadStored, LedgerInv, LedgerTypeOK, Readable, File
  <2> QED BY <1>1, <2>1
    DEF LoadStored, fsVars, LedgerInv, LedgerTypeOK, Saving, Readable, Phase
<1>2. CASE LoadDefaults
  <2>1. ledger' = DefaultLedger /\ svc' \in Phase /\ Save(DefaultLedger)
    BY <1>2 DEF LoadDefaults, Phase
  <2> QED BY <2>1, DefaultSound, SaveKeepsInv DEF SoundImage
<1>3. CASE InitDone \/ UpdateDone
  BY <1>3
  DEF InitDone, UpdateDone, SaveEnds, EndWrite, LedgerInv, LedgerTypeOK, Saving, Readable, Idle,
      Phase
<1>4. ASSUME NEW rec \in Record, Add(rec)
      PROVE  LedgerInv'
  <2>1. ledger' \in SoundImage
    BY <1>4, RecordedSound DEF Add, LedgerInv, SoundImage
  <2> QED BY <1>4, <2>1, SaveKeepsInv DEF Add, Phase
<1>5. ASSUME NEW date \in Date, ResetDaily(date)
      PROVE  LedgerInv'
  <2>1. ledger' \in SoundImage
    BY <1>5, NewDaySound DEF ResetDaily, LedgerInv, SoundImage
  <2> QED BY <1>5, <2>1, SaveKeepsInv DEF ResetDaily, Phase
<1>6. CASE SaveStep
  BY <1>6, SaveStepKeepsInv
<1>7. CASE Crash
  BY <1>7, DefaultSound
  DEF Crash, FsCrash, LedgerInv, LedgerTypeOK, Saving, Readable, Idle, Phase, SoundImage
<1>8. CASE Rot
  <2>1. /\ disk' = [disk EXCEPT ![LedgerFile] = Torn]
        /\ UNCHANGED <<call, ledger, svc>>
    BY <1>8 DEF Rot, Decay, Put
  <2> QED BY <2>1
    DEF LedgerInv, LedgerTypeOK, Saving, Readable,
        File, LedgerFile, LedgerTemp
<1>9. CASE UNCHANGED ledgerVars
  BY <1>9
  DEF ledgerVars, LedgerInv, LedgerTypeOK, Saving, Readable
<1> QED BY <1>1, <1>2, <1>3, <1>4, <1>5, <1>6, <1>7, <1>8, <1>9 DEF LedgerNext

(* The invariant holds throughout.                                         *)
THEOREM LedgerInvariant == LedgerSpec => []LedgerInv
<1>1. LedgerInv /\ [LedgerNext]_ledgerVars => LedgerInv'
  BY StepKeepsInv
<1> QED BY <1>1, InitEstablishesInv, PTL DEF LedgerSpec

(* Type correctness of the ledger, its file and a save in progress.        *)
THEOREM LedgerTypes == LedgerSpec => []LedgerTypeOK
<1>1. LedgerInv => LedgerTypeOK
  BY DEF LedgerInv
<1> QED BY <1>1, LedgerInvariant, PTL

(* No payment is in the ring twice, in RAM or in any file a reboot could   *)
(* load, whatever fails and whenever the power is cut.                     *)
THEOREM NoPaymentTwice == LedgerSpec => []NoDuplicatePayment
<1>1. LedgerInv => NoDuplicatePayment
  BY DEF LedgerInv, NoDuplicatePayment, Images, Readable, SoundImage, Sound
<1> QED BY <1>1, LedgerInvariant, PTL

(* The totals the shop hears are those of the payments in the ring: while  *)
(* the ring holds the whole day, the newest daily.count records are that   *)
(* day's and add up to daily.total, for every ring size and every sequence *)
(* of payments, day changes, failed saves, power cuts and reloads.         *)
THEOREM DailyTotalsMatch == LedgerSpec => []DailyMatchesRing
<1>1. LedgerInv => DailyMatchesRing
  BY DEF LedgerInv, SoundImage, Sound, Tallies, DailyMatchesRing
<1> QED BY <1>1, LedgerInvariant, PTL

----------------------------------------------------------------------------
(* Persistence                                                             *)

(* RebootKeepsLedger is not inductive: while a save runs, the image it is  *)
(* writing has to be the ledger in RAM, and what a save has stored can be  *)
(* lost again only by decay.                                               *)
SavedInv ==
  /\ RebootKeepsLedger
  /\ svc \in {"boot", "ready", "failed"} => ~Saving
  /\ svc \in {"init_save", "add_save", "reset_save"} =>
       /\ call.final = LedgerFile /\ call.temp = LedgerTemp
       /\ call.data = ledger
       /\ call.pc \in {"remove_final", "rename"} => disk[LedgerTemp] = ledger
       /\ call.pc = "ok" => disk[LedgerFile] \in {ledger, Torn}

(* A save that starts is a save of what RAM holds.                         *)
LEMMA SaveStarts ==
  ASSUME NEW l, Save(l)
  PROVE  /\ call' \in {Call("remove_temp", LedgerFile, LedgerTemp, l),
                       Call("error", LedgerFile, LedgerTemp, l)}
         /\ UNCHANGED disk
BY DEF Save, BeginWrite

LEMMA StepKeepsSaved ==
  ASSUME LedgerInv, SavedInv, [LedgerNext]_ledgerVars
  PROVE  SavedInv'
<1> USE DEF SavedInv, RebootKeepsLedger, Saving, Idle
<1>1. CASE LoadStored
  BY <1>1 DEF LoadStored, fsVars
<1>2. ASSUME NEW l \in Image, Save(l), ledger' = l,
             svc' \in {"init_save", "add_save", "reset_save"}
      PROVE  SavedInv'
  <2>1. /\ call'.final = LedgerFile /\ call'.temp = LedgerTemp /\ call'.data = l
        /\ call'.pc \in {"remove_temp", "error"}
    BY <1>2, SaveStarts DEF Call
  <2> QED BY <1>2, <2>1
<1>3. CASE LoadDefaults
  BY <1>2, <1>3, DefaultSound DEF LoadDefaults
<1>4. ASSUME NEW rec \in Record, Add(rec)
      PROVE  SavedInv'
  <2>1. ledger' \in Image
    BY <1>4, RecordedSound DEF Add, LedgerInv, SoundImage
  <2> QED BY <1>2, <1>4, <2>1 DEF Add
<1>5. ASSUME NEW date \in Date, ResetDaily(date)
      PROVE  SavedInv'
  <2>1. ledger' \in Image
    BY <1>5, NewDaySound DEF ResetDaily, LedgerInv, SoundImage
  <2> QED BY <1>2, <1>5, <2>1 DEF ResetDaily
<1>6. CASE InitDone \/ UpdateDone
  <2>1. /\ svc \in {"init_save", "add_save", "reset_save"}
        /\ svc' \in {"ready", "failed"} /\ call' = Idle
        /\ UNCHANGED <<disk, ledger>>
        /\ unsaved' = (~At("ok") \/ ~Readable(LedgerFile))
    BY <1>6 DEF InitDone, UpdateDone, SaveEnds, EndWrite
  <2>2. ~unsaved' => disk[LedgerFile] = ledger
    BY <2>1 DEF At, Readable
  <2> QED BY <2>1, <2>2
<1>7. CASE SaveStep
  <2>1. UNCHANGED <<ledger, svc, unsaved>> /\ FsStep
    BY <1>7 DEF SaveStep
  <2>2. Saving /\ call.pc \notin {"ok", "error", "idle"}
    BY <2>1 DEF FsStep, RemoveTemp, OpenTemp, FillTemp, RemoveFinal,
                Rename, DiscardTemp, At, Saving
  <2>3. svc \in {"init_save", "add_save", "reset_save"}
    BY <2>2 DEF LedgerInv, LedgerTypeOK, Phase
  <2>4. LedgerFile # LedgerTemp /\ LedgerFile \in File /\ LedgerTemp \in File
        /\ disk \in [File -> Image \cup {Absent, Torn}]
    BY DEF File, LedgerFile, LedgerTemp, LedgerInv, LedgerTypeOK
  <2>5. /\ call'.final = call.final /\ call'.temp = call.temp /\ call'.data = call.data
        /\ call'.pc \in {"remove_final", "rename"} => disk'[LedgerTemp] = ledger
        /\ call'.pc = "ok" => disk'[LedgerFile] \in {ledger, Torn}
    <3>c. call \in [pc : Steps, final : {LedgerFile}, temp : {LedgerTemp}, data : Image]
      BY <2>2 DEF LedgerInv, LedgerTypeOK
    <3>g. ASSUME NEW pc \in Steps, Goto(pc)
          PROVE  /\ call'.final = call.final /\ call'.temp = call.temp
                 /\ call'.data = call.data /\ call'.pc = pc
      BY <3>c, <3>g DEF Goto
    <3>1. CASE RemoveTemp
      BY <2>3, <2>4, <3>1, <3>g DEF RemoveTemp, Steps
    <3>2. CASE OpenTemp
      BY <2>3, <2>4, <3>2, <3>g DEF OpenTemp, Steps
    <3>3. CASE FillTemp
      BY <2>3, <2>4, <3>3, <3>g DEF FillTemp, Steps, Put
    <3>4. CASE RemoveFinal
      BY <2>3, <2>4, <3>4, <3>g DEF RemoveFinal, Steps, Remove, Put, At
    <3>5. CASE Rename
      BY <2>3, <2>4, <3>5, <3>g DEF Rename, Steps, At
    <3>6. CASE DiscardTemp
      BY <2>3, <2>4, <3>6, <3>g DEF DiscardTemp, Steps
    <3> QED BY <2>1, <3>1, <3>2, <3>3, <3>4, <3>5, <3>6 DEF FsStep
  <2> QED BY <2>1, <2>3, <2>5
<1>8. CASE Crash
  BY <1>8 DEF Crash, FsCrash
<1>9. CASE Rot
  <2>1. /\ disk' = [disk EXCEPT ![LedgerFile] = Torn]
        /\ UNCHANGED <<call, ledger, svc>> /\ unsaved'
    BY <1>9 DEF Rot, Decay, Put
  <2>2. disk'[LedgerTemp] = disk[LedgerTemp] /\ disk'[LedgerFile] = Torn
    BY <2>1 DEF LedgerInv, LedgerTypeOK, File, LedgerFile, LedgerTemp
  <2> QED BY <2>1, <2>2
<1>10. CASE UNCHANGED ledgerVars
  BY <1>10 DEF ledgerVars
<1> QED BY <1>1, <1>2, <1>3, <1>4, <1>5, <1>6, <1>7, <1>8, <1>9, <1>10 DEF LedgerNext

(* Unless the last save failed or its file decayed, what a reboot would    *)
(* load between two calls is exactly the ledger in RAM, whatever failed    *)
(* before: no accepted payment is forgotten.                               *)
THEOREM SavedLedgerSurvives == LedgerSpec => []RebootKeepsLedger
<1>1. LedgerInit => SavedInv
  BY DEF LedgerInit, SavedInv, RebootKeepsLedger, Saving, Idle
<1>2. LedgerInv /\ SavedInv /\ [LedgerNext]_ledgerVars => SavedInv'
  BY StepKeepsSaved
<1>3. SavedInv => RebootKeepsLedger
  BY DEF SavedInv
<1> QED BY <1>1, <1>2, <1>3, LedgerInvariant, PTL DEF LedgerSpec

----------------------------------------------------------------------------
(* The ring, its index arithmetic and its save implement the payment window *)

(* The window is as long as the ring's count; its i-th entry is the payment *)
(* count + 1 - i back.                                                      *)
LEMMA WindowShape ==
  ASSUME NEW l \in Image, WellFormed(l)
  PROVE  /\ Window(l) \in Seq(Record) /\ Len(Window(l)) = l.count
         /\ l.count \in 0 .. MaxRecords /\ MaxRecords \in Nat \ {0}
         /\ \A i \in 1 .. l.count : Window(l)[i] = Newest(l, l.count + 1 - i)
<1>1. l.count \in 0 .. MaxRecords /\ MaxRecords \in Nat \ {0}
  BY LedgerAssumption DEF Image
<1>2. \A i \in 1 .. l.count : Newest(l, l.count + 1 - i) \in Record
  <2>1. \A i \in 1 .. l.count : l.count + 1 - i \in 1 .. l.count
    BY <1>1
  <2> QED BY <2>1, NewestInUse
<1> QED BY <1>1, <1>2 DEF Window

(* A payment the ring does not know is not in the window.                  *)
LEMMA UnknownNotInWindow ==
  ASSUME NEW l \in Image, WellFormed(l), NEW id, ~Known(l, id)
  PROVE  \A i \in DOMAIN Window(l) : Window(l)[i].tx_id # id
<1> SUFFICES ASSUME NEW i \in DOMAIN Window(l)
             PROVE  Window(l)[i].tx_id # id
  OBVIOUS
<1>1. i \in 1 .. l.count /\ l.count \in Nat
  BY WindowShape
<1>2. l.count + 1 - i \in 1 .. l.count
  BY <1>1
<1>3. Window(l)[i] = Newest(l, l.count + 1 - i)
  BY <1>1, WindowShape
<1> QED BY <1>2, <1>3, NewestInUse DEF Known

LEMMA TailShifts ==
  ASSUME NEW S, NEW a \in Seq(S), NEW n \in Nat, Len(a) = n + 1
  PROVE  /\ Tail(a) \in Seq(S) /\ Len(Tail(a)) = n
         /\ \A i \in 1 .. n : Tail(a)[i] = a[i + 1]
OBVIOUS

(* Entering a payment appends it to the window, which forgets the oldest   *)
(* when the ring is full.                                                  *)
LEMMA WindowAfterRecord ==
  ASSUME NEW l \in Image, WellFormed(l), NEW rec \in Record,
         Recorded(l, rec) \in Image, WellFormed(Recorded(l, rec))
  PROVE  Window(Recorded(l, rec)) = Abstract!Trim(Append(Window(l), rec))
<1> DEFINE r == Recorded(l, rec)
           w == Window(l)
           c == l.count
<1>1. /\ w \in Seq(Record) /\ Len(w) = c
      /\ c \in 0 .. MaxRecords /\ MaxRecords \in Nat \ {0}
      /\ \A i \in 1 .. c : w[i] = Newest(l, c + 1 - i)
  BY WindowShape
<1>2. /\ Window(r) \in Seq(Record) /\ Len(Window(r)) = r.count
      /\ \A i \in 1 .. r.count : Window(r)[i] = Newest(r, r.count + 1 - i)
  BY WindowShape
<1>3. r.count = IF c < MaxRecords THEN c + 1 ELSE c
  BY DEF Recorded
<1>4. /\ Newest(r, 1) = rec
      /\ \A n \in 1 .. MaxRecords - 1 : Newest(r, n + 1) = Newest(l, n)
  BY NewestAfterRecord
<1> HIDE DEF r, w, c
<1>5. /\ Append(w, rec) \in Seq(Record) /\ Len(Append(w, rec)) = c + 1
      /\ \A i \in 1 .. c : Append(w, rec)[i] = w[i]
      /\ Append(w, rec)[c + 1] = rec
  BY <1>1
<1>6. CASE c < MaxRecords
  <2>1. r.count = c + 1 /\ Len(Window(r)) = c + 1
    BY <1>2, <1>3, <1>6
  <2>2. Abstract!Trim(Append(w, rec)) = Append(w, rec)
    BY <1>1, <1>5, <1>6 DEF Abstract!Trim
  <2>3. ASSUME NEW i \in 1 .. c + 1
        PROVE  Window(r)[i] = Append(w, rec)[i]
    <3>1. Window(r)[i] = Newest(r, (c + 1) + 1 - i)
      BY <1>2, <2>1
    <3>2. CASE i = c + 1
      <4>1. (c + 1) + 1 - i = 1
        BY <1>1, <3>2
      <4> QED BY <1>4, <1>5, <3>1, <3>2, <4>1
    <3>3. CASE i # c + 1
      <4>1. /\ i \in 1 .. c /\ c + 1 - i \in 1 .. MaxRecords - 1
            /\ (c + 1) + 1 - i = (c + 1 - i) + 1
        BY <1>1, <1>6, <3>3
      <4>2. Newest(r, (c + 1 - i) + 1) = Newest(l, c + 1 - i)
        BY <1>4, <4>1
      <4> QED BY <1>1, <1>5, <3>1, <4>1, <4>2
    <3> QED BY <3>2, <3>3
  <2> QED BY <1>1, <1>2, <1>5, <2>1, <2>2, <2>3 DEF r, w
<1>7. CASE c = MaxRecords
  <2>1. r.count = c /\ Len(Window(r)) = c
    BY <1>1, <1>2, <1>3, <1>7
  <2> DEFINE a == Append(w, rec)
             t == Tail(a)
  <2>2. Abstract!Trim(a) = t
    BY <1>1, <1>5, <1>7 DEF Abstract!Trim
  <2>3. /\ t \in Seq(Record) /\ Len(t) = c
        /\ \A i \in 1 .. c : t[i] = a[i + 1]
    <3>1. a \in Seq(Record) /\ Len(a) = c + 1
      BY <1>5
    <3>2. c \in Nat
      BY <1>1
    <3> QED BY <3>1, <3>2, TailShifts
  <2> HIDE DEF t
  <2>4. ASSUME NEW i \in 1 .. c
        PROVE  Window(r)[i] = t[i]
    <3>1. Window(r)[i] = Newest(r, c + 1 - i)
      BY <1>2, <2>1
    <3>2. CASE i = c
      <4>1. c + 1 - i = 1
        BY <1>1, <3>2
      <4> QED BY <1>4, <1>5, <2>3, <3>1, <3>2, <4>1
    <3>3. CASE i # c
      <4>1. /\ i + 1 \in 1 .. c /\ c - i \in 1 .. MaxRecords - 1
            /\ c + 1 - i = (c - i) + 1 /\ c + 1 - (i + 1) = c - i
        BY <1>1, <1>7, <3>3
      <4>2. Newest(r, (c - i) + 1) = Newest(l, c - i)
        BY <1>4, <4>1
      <4>3. a[i + 1] = w[i + 1] /\ w[i + 1] = Newest(l, c + 1 - (i + 1))
        BY <1>1, <1>5, <4>1
      <4> QED BY <2>3, <3>1, <4>1, <4>2, <4>3
    <3> QED BY <3>2, <3>3
  <2>5. Window(r) = t
    BY <1>1, <1>2, <2>1, <2>3, <2>4
  <2> QED BY <2>2, <2>5 DEF r, w
<1> QED BY <1>1, <1>6, <1>7

(* A ledger that does not answer yet is blank.                             *)
BlankUntilUp == ~Up => ledger = DefaultLedger

LEMMA StepKeepsBlank ==
  ASSUME LedgerInv, BlankUntilUp, [LedgerNext]_ledgerVars
  PROVE  BlankUntilUp'
<1> USE DEF BlankUntilUp, Up
<1>1. CASE LoadStored
  BY <1>1 DEF LoadStored
<1>2. CASE LoadDefaults
  BY <1>2 DEF LoadDefaults
<1>3. CASE InitDone \/ UpdateDone
  BY <1>3 DEF InitDone, UpdateDone
<1>4. ASSUME NEW rec \in Record, Add(rec) PROVE BlankUntilUp'
  BY <1>4 DEF Add
<1>5. ASSUME NEW date \in Date, ResetDaily(date) PROVE BlankUntilUp'
  BY <1>5 DEF ResetDaily
<1>6. CASE SaveStep \/ Rot \/ UNCHANGED ledgerVars
  BY <1>6 DEF SaveStep, Rot, ledgerVars
<1>7. CASE Crash
  BY <1>7 DEF Crash
<1> QED BY <1>1, <1>2, <1>3, <1>4, <1>5, <1>6, <1>7 DEF LedgerNext

(* What the abstract specification sees of an unchanged ledger or file.    *)
LEMMA BlankWindow ==
  Window(DefaultLedger) = <<>> /\ DefaultLedger.daily = Abstract!ZeroDay(0)
<1>1. DefaultLedger.count = 0 /\ DefaultLedger.daily = EmptyDay(NoDate)
  BY DEF DefaultLedger
<1>2. Window(DefaultLedger) = [i \in 1 .. 0 |-> Newest(DefaultLedger, 0 + 1 - i)]
  BY <1>1 DEF Window
<1>3. \A f : f = [i \in 1 .. 0 |-> Newest(DefaultLedger, 0 + 1 - i)] => f = <<>>
  OBVIOUS
<1> QED BY <1>1, <1>2, <1>3 DEF EmptyDay, NoDate, Abstract!ZeroDay

LEMMA BlankSnapshot == Snapshot(DefaultLedger) = Abstract!Blank
BY BlankWindow DEF Snapshot, Abstract!Blank

(* The stored copy the abstract specification sees.                        *)
Stored == Snapshot(Recoverable)

(* A step that leaves the ledger file alone leaves the stored copy alone;  *)
(* one that writes the ledger in RAM to it is a Persist, one after which   *)
(* it cannot be read a Lose.                                               *)
LEMMA StoredFollowsFile ==
  /\ disk'[LedgerFile] = disk[LedgerFile] => Stored' = Stored
  /\ disk'[LedgerFile] \in {Absent, Torn} => Stored' = Abstract!Blank
  /\ disk'[LedgerFile] \notin {Absent, Torn} => Stored' = Snapshot(disk'[LedgerFile])
<1> USE DEF Stored, Recoverable, Readable
<1>1. ASSUME disk'[LedgerFile] = disk[LedgerFile]
      PROVE  Stored' = Stored
  <2>1. Recoverable' = Recoverable
    BY <1>1
  <2> QED BY <2>1 DEF Snapshot, Window, Newest
<1>2. ASSUME disk'[LedgerFile] \in {Absent, Torn}
      PROVE  Stored' = Abstract!Blank
  <2>1. Recoverable' = DefaultLedger
    BY <1>2
  <2>2. Stored' = Snapshot(DefaultLedger)
    BY <2>1 DEF Snapshot, Window, Newest
  <2> QED BY <2>2, BlankSnapshot
<1>3. ASSUME disk'[LedgerFile] \notin {Absent, Torn}
      PROVE  Stored' = Snapshot(disk'[LedgerFile])
  <2>1. Recoverable' = disk'[LedgerFile]
    BY <1>3
  <2> QED BY <2>1 DEF Snapshot, Window, Newest
<1> QED BY <1>1, <1>2, <1>3

LEMMA WindowFollowsLedger ==
  /\ ledger' = ledger => Window(ledger)' = Window(ledger)
  /\ Window(ledger)' = Window(ledger')
BY DEF Window, Newest

(* Accept, and no other abstract step, explains the payment that is added. *)
LEMMA AddAccepts ==
  ASSUME LedgerInv, NEW rec \in Record, Add(rec)
  PROVE  Abstract!Accept(rec)
<1>1. /\ ledger \in Image /\ WellFormed(ledger) /\ ~Known(ledger, rec.tx_id)
      /\ ledger' = Recorded(ledger, rec)
      /\ svc = "ready" /\ svc' = "add_save" /\ disk' = disk
  BY SaveStarts DEF Add, LedgerInv, SoundImage, Sound
<1>2. Recorded(ledger, rec) \in Image /\ WellFormed(Recorded(ledger, rec))
  BY <1>1, RecordedSound DEF LedgerInv, SoundImage, Sound
<1>3. Up /\ Up'
  BY <1>1 DEF Up
<1>4. \A i \in DOMAIN Window(ledger) : Window(ledger)[i].tx_id # rec.tx_id
  BY <1>1, UnknownNotInWindow
<1>5. Window(ledger)' = Abstract!Trim(Append(Window(ledger), rec))
  BY <1>1, <1>2, WindowAfterRecord, WindowFollowsLedger
<1>6. ledger'.daily = Counted(DayFor(ledger.daily, rec.date), rec.amount)
  BY <1>1 DEF Recorded
<1>7. DayFor(ledger.daily, rec.date)
        = IF rec.date \in {0, ledger.daily.date} THEN ledger.daily
                                                ELSE Abstract!ZeroDay(rec.date)
  BY DEF DayFor, NoDate, EmptyDay, Abstract!ZeroDay
<1>8. Stored' = Stored
  BY <1>1, StoredFollowsFile
<1> QED BY <1>3, <1>4, <1>5, <1>6, <1>7, <1>8 DEF Abstract!Accept, Stored, Counted

(* The steps of a save: only the removal and the rename touch the ledger   *)
(* file, and the rename puts there what RAM holds.                         *)
LEMMA SaveStepPersistsOrLoses ==
  ASSUME LedgerInv, SavedInv, SaveStep
  PROVE  Abstract!Persist \/ Abstract!Lose \/ UNCHANGED Abstract!windowVars
<1>1. UNCHANGED <<ledger, svc>> /\ FsStep
  BY DEF SaveStep
<1>2. Up' = Up /\ Window(ledger)' = Window(ledger)
  BY <1>1, WindowFollowsLedger DEF Up
<1>3. Saving /\ call.pc \notin {"ok", "error", "idle"}
  BY <1>1 DEF FsStep, RemoveTemp, OpenTemp, FillTemp, RemoveFinal,
              Rename, DiscardTemp, At, Saving
<1>4. /\ call.final = LedgerFile /\ call.temp = LedgerTemp
      /\ call.pc = "rename" => disk[LedgerTemp] = ledger
  BY <1>3 DEF SavedInv, LedgerInv, LedgerTypeOK, Phase
<1>5. /\ LedgerFile # LedgerTemp /\ LedgerFile \in File /\ LedgerTemp \in File
      /\ disk \in [File -> Image \cup {Absent, Torn}]
  BY DEF File, LedgerFile, LedgerTemp, LedgerInv, LedgerTypeOK
<1>6. disk'[LedgerFile] \in {disk[LedgerFile], Absent, ledger}
  <2>1. CASE RemoveTemp
    BY <1>4, <1>5, <2>1 DEF RemoveTemp, Remove, Put
  <2>2. CASE OpenTemp
    BY <1>4, <1>5, <2>2 DEF OpenTemp, Put
  <2>3. CASE FillTemp
    BY <1>4, <1>5, <2>3 DEF FillTemp, Put
  <2>4. CASE RemoveFinal
    BY <1>4, <1>5, <2>4 DEF RemoveFinal, Remove, Put
  <2>5. CASE Rename
    BY <1>4, <1>5, <2>5 DEF Rename, At
  <2>6. CASE DiscardTemp
    BY <1>4, <1>5, <2>6 DEF DiscardTemp, Remove, Put
  <2> QED BY <1>1, <2>1, <2>2, <2>3, <2>4, <2>5, <2>6 DEF FsStep
<1>7. Stored' \in {Stored, Abstract!Blank, Snapshot(ledger)}
  BY <1>6, StoredFollowsFile
<1> QED BY <1>1, <1>2, <1>7
    DEF Abstract!Persist, Abstract!Lose, Abstract!windowVars, Stored, Snapshot

LEMMA LedgerStepIsWindowStep ==
  ASSUME LedgerInv, SavedInv, BlankUntilUp, [LedgerNext]_ledgerVars
  PROVE  [Abstract!Next]_(Abstract!windowVars)
<1> USE DEF Abstract!Next
<1>b. /\ Window(DefaultLedger) = <<>>
      /\ DefaultLedger.daily = Abstract!ZeroDay(0)
  BY BlankWindow
<1>1. CASE LoadStored
  <2>1. /\ ~Up /\ Up' /\ ledger' = disk[LedgerFile] /\ disk' = disk
        /\ Readable(LedgerFile)
    BY <1>1 DEF LoadStored, Up, fsVars
  <2>2. Stored' = Stored
    BY <2>1, StoredFollowsFile
  <2>3. Stored = Snapshot(disk[LedgerFile])
    BY <2>1 DEF Stored, Recoverable
  <2>4. /\ Window(ledger)' = Stored.window
        /\ ledger'.daily = Stored.daily
    BY <2>1, <2>3, WindowFollowsLedger DEF Snapshot
  <2> QED BY <2>1, <2>2, <2>4 DEF Abstract!Restart, Stored
<1>2. CASE LoadDefaults
  <2>1. ~Up /\ ~Up' /\ ledger' = ledger /\ disk' = disk
    BY <1>2, SaveStarts DEF LoadDefaults, Up, BlankUntilUp
  <2> QED BY <2>1, StoredFollowsFile, WindowFollowsLedger
      DEF Abstract!windowVars, Stored, Up
<1>3. CASE InitDone
  <2>1. /\ ~Up /\ ledger = DefaultLedger /\ ledger' = ledger /\ disk' = disk
        /\ svc' \in {"ready", "failed"}
    BY <1>3 DEF InitDone, Up, BlankUntilUp, SaveEnds, EndWrite
  <2>2. Window(ledger)' = Window(ledger) /\ Stored' = Stored
    BY <2>1, StoredFollowsFile, WindowFollowsLedger
  <2>3. CASE svc' = "ready"
    <3>1. Up'
      BY <2>3 DEF Up
    <3> QED BY <1>b, <2>1, <2>2, <3>1 DEF Abstract!Restart, Stored
  <2>4. CASE svc' = "failed"
    <3>1. Up' = Up
      BY <1>3, <2>4 DEF Up, InitDone
    <3> QED BY <2>1, <2>2, <3>1 DEF Abstract!windowVars, Stored
  <2> QED BY <2>1, <2>3, <2>4
<1>4. ASSUME NEW rec \in Record, Add(rec)
      PROVE  Abstract!Next
  <2>1. rec \in Abstract!Payment
    BY DEF Record, NoDate, Abstract!Payment
  <2> QED BY <1>4, <2>1, AddAccepts
<1>5. ASSUME NEW date \in Date, ResetDaily(date)
      PROVE  Abstract!Next
  <2>1. /\ Up /\ Up' /\ ledger.daily.date # date /\ disk' = disk
        /\ ledger' = [ledger EXCEPT !.daily = EmptyDay(date)] /\ ledger \in Image
    BY <1>5, SaveStarts DEF ResetDaily, Up, LedgerInv, SoundImage
  <2>2. /\ ledger'.daily = Abstract!ZeroDay(date)
        /\ ledger'.count = ledger.count /\ ledger'.records = ledger.records
        /\ ledger'.write_index = ledger.write_index
    BY <2>1 DEF Image, EmptyDay, Abstract!ZeroDay
  <2>3. Window(ledger)' = Window(ledger)
    BY <2>2 DEF Window, Newest
  <2>4. Stored' = Stored
    BY <2>1, StoredFollowsFile
  <2> QED BY <2>1, <2>2, <2>3, <2>4 DEF Abstract!NewDay, Stored
<1>6. CASE UpdateDone
  <2>1. Up /\ Up' /\ ledger' = ledger /\ disk' = disk
    BY <1>6 DEF UpdateDone, Up, SaveEnds, EndWrite
  <2>2. Up' = Up
    BY <1>6 DEF UpdateDone, Up
  <2> QED BY <2>1, <2>2, StoredFollowsFile, WindowFollowsLedger
      DEF Abstract!windowVars, Stored
<1>7. CASE SaveStep
  BY <1>7, SaveStepPersistsOrLoses
<1>8. CASE Crash
  <2>1. ledger' = DefaultLedger /\ disk' = disk /\ Up' = FALSE
    BY <1>8 DEF Crash, FsCrash, Up
  <2>2. Window(ledger)' = <<>> /\ ledger'.daily = Abstract!ZeroDay(0)
    BY <1>b, <2>1, WindowFollowsLedger
  <2>3. Stored' = Stored
    BY <2>1, StoredFollowsFile
  <2> QED BY <2>1, <2>2, <2>3 DEF Abstract!PowerCut, Stored
<1>9. CASE Rot
  <2>1. /\ UNCHANGED <<ledger, svc>>
        /\ disk' = [disk EXCEPT ![LedgerFile] = Torn]
    BY <1>9 DEF Rot, Decay, Put
  <2>2. disk'[LedgerFile] = Torn
    BY <2>1 DEF LedgerInv, LedgerTypeOK, File
  <2>3. Stored' = Abstract!Blank
    BY <2>2, StoredFollowsFile
  <2>4. Up' = Up /\ Window(ledger)' = Window(ledger)
    BY <2>1, WindowFollowsLedger DEF Up
  <2> QED BY <2>1, <2>3, <2>4 DEF Abstract!Lose, Stored
<1>10. CASE UNCHANGED ledgerVars
  <2>1. UNCHANGED <<ledger, svc, disk>>
    BY <1>10 DEF ledgerVars
  <2>2. Up' = Up
    BY <2>1 DEF Up
  <2> QED BY <2>1, <2>2, StoredFollowsFile, WindowFollowsLedger
      DEF Abstract!windowVars, Stored
<1> QED BY <1>1, <1>2, <1>3, <1>4, <1>5, <1>6, <1>7, <1>8, <1>9, <1>10 DEF LedgerNext

(* Every behaviour of the ring, its index arithmetic and its step-by-step  *)
(* save is a behaviour of the payment window, for every ring size, every   *)
(* set of payments and every combination of file-system faults: a restart  *)
(* returns to a window that was once current, or to a blank one.           *)
THEOREM LedgerIsPaymentWindow == LedgerSpec => ImplementsPaymentWindow
<1>1. LedgerInit => SavedInv /\ BlankUntilUp
  BY DEF LedgerInit, SavedInv, RebootKeepsLedger, Saving, Idle, BlankUntilUp
<1>2. LedgerInit => Abstract!Init
  <2> SUFFICES ASSUME LedgerInit PROVE Abstract!Init
    OBVIOUS
  <2>1. ledger = DefaultLedger /\ Up = FALSE /\ disk[LedgerFile] = Absent
    BY DEF LedgerInit, Up, File
  <2>2. Window(ledger) = <<>> /\ ledger.daily = Abstract!ZeroDay(0)
    BY <2>1, BlankWindow
  <2>3. Snapshot(Recoverable) = Abstract!Blank
    BY <2>1, BlankSnapshot DEF Recoverable, Readable
  <2> QED BY <2>1, <2>2, <2>3 DEF Abstract!Init
<1>3. LedgerInv /\ SavedInv /\ [LedgerNext]_ledgerVars => SavedInv'
  BY StepKeepsSaved
<1>4. LedgerInv /\ BlankUntilUp /\ [LedgerNext]_ledgerVars => BlankUntilUp'
  BY StepKeepsBlank
<1>5. LedgerInv /\ SavedInv /\ BlankUntilUp /\ [LedgerNext]_ledgerVars
        => [Abstract!Next]_(Abstract!windowVars)
  BY LedgerStepIsWindowStep
<1> QED BY <1>1, <1>2, <1>3, <1>4, <1>5, LedgerInvariant, PTL
    DEF LedgerSpec, ImplementsPaymentWindow, Abstract!Spec

=============================================================================
