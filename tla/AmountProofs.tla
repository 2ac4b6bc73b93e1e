---------------------------- MODULE AmountProofs ----------------------------
(***************************************************************************)
(* Amounts for every text: each reader reads what is written, each         *)
(* announcement is found in every pack that has the vocabulary and fits a  *)
(* script, and a listener understands it as it was read.  A script is      *)
(* followed from its smallest part, by what it is made of, how long it can *)
(* be and where it leads who hears it; a text, character by character, by  *)
(* what its readers have seen of it.                                       *)
(***************************************************************************)
EXTENDS AmountText, SequenceTheorems, FiniteSetTheorems, WellFoundedInduction, TLAPS

(* A part of a script: at most n clips of the vocabulary.                  *)
Part(lang, s, n) == s \in Seq(Vocabulary(lang)) /\ Len(s) <= n

(* Parts one after the other.                                              *)
LEMMA Join ==
  ASSUME NEW lang, NEW s, NEW t, NEW m \in Nat, NEW n \in Nat,
         Part(lang, s, m), Part(lang, t, n)
  PROVE  Part(lang, s \o t, m + n)
<1>1. s \o t \in Seq(Vocabulary(lang)) /\ Len(s \o t) = Len(s) + Len(t)
  BY ConcatProperties DEF Part
<1>2. Len(s) \in Nat /\ Len(t) \in Nat
  BY DEF Part
<1> QED BY <1>1, <1>2 DEF Part

LEMMA Nothing == ASSUME NEW lang PROVE Part(lang, <<>>, 0)
BY DEF Part

LEMMA OneClip ==
  ASSUME NEW lang, NEW clip \in Vocabulary(lang)
  PROVE  Part(lang, <<clip>>, 1)
BY DEF Part

LEMMA Numeral ==
  ASSUME NEW lang, NEW n \in 1 .. 20 \cup {30, 40, 50, 60, 70, 80, 90}
  PROVE  Part(lang, <<Num(n)>>, 1)
<1>1. Num(n) \in Vocabulary(lang)
  BY DEF Vocabulary
<1> QED BY <1>1, OneClip

LEMMA Worded ==
  ASSUME NEW lang, NEW name \in Word
  PROVE  Part(lang, <<Say(name)>>, 1)
<1>1. Say(name) \in Vocabulary(lang)
  BY DEF Vocabulary
<1> QED BY <1>1, OneClip

LEMMA Suffixed == ASSUME NEW lang PROVE Part(lang, Suffix(lang), 1)
<1>1. CASE lang \in {"en", "kn", "ml", "ta", "te"}
  <2>1. Suffix(lang) = <<>>
    BY <1>1 DEF Suffix
  <2> QED BY <2>1 DEF Part
<1>2. CASE lang \notin {"en", "kn", "ml", "ta", "te"}
  <2>1. Suffix(lang) = <<Say("suffix")>>
    BY <1>2 DEF Suffix
  <2>2. 1 \in DOMAIN Suffix(lang) /\ Suffix(lang)[1] = Say("suffix")
    BY <2>1
  <2>3. Say("suffix") \in Vocabulary(lang)
    BY <2>2 DEF Vocabulary
  <2> QED BY <2>1, <2>3, OneClip
<1> QED BY <1>1, <1>2

(* sb_logic_append_under_100() says nothing, one clip or two.              *)
LEMMA Under100Part ==
  ASSUME NEW lang, NEW n \in 0 .. 99
  PROVE  Part(lang, Under100(n), 2)
<1>1. CASE n = 0
  BY <1>1 DEF Under100, Part
<1>2. CASE n \in 1 .. 20
  <2>1. Under100(n) = <<Num(n)>>
    BY <1>2 DEF Under100
  <2> QED BY <1>2, <2>1, Numeral DEF Part
<1>3. CASE n \in 21 .. 99
  <2> DEFINE tens == <<Num((n \div 10) * 10)>>
             ones == IF n % 10 = 0 THEN <<>> ELSE <<Num(n % 10)>>
  <2>1. Under100(n) = tens \o ones
    BY <1>3 DEF Under100
  <2>2. (n \div 10) * 10 \in {20, 30, 40, 50, 60, 70, 80, 90}
    BY <1>3
  <2>3. Part(lang, tens, 1)
    <3>1. (n \div 10) * 10 \in 1 .. 20 \cup {30, 40, 50, 60, 70, 80, 90}
      BY <2>2
    <3> HIDE DEF tens
    <3> QED BY <3>1, Numeral DEF tens
  <2>4. Part(lang, ones, 1)
    <3>1. n % 10 \in 0 .. 9
      BY <1>3
    <3>2. CASE n % 10 = 0
      BY <3>2, Nothing DEF Part
    <3>3. CASE n % 10 # 0
      BY <3>1, <3>3, Numeral
    <3> QED BY <3>2, <3>3
  <2> HIDE DEF tens, ones
  <2>5. Part(lang, tens \o ones, 1 + 1)
    BY <2>3, <2>4, Join
  <2> QED BY <2>1, <2>5
<1> QED BY <1>1, <1>2, <1>3

LEMMA Under1000Part ==
  ASSUME NEW lang, NEW n \in 0 .. 999
  PROVE  Part(lang, Under1000(n), 4)
<1> DEFINE hundreds == IF n \div 100 = 0 THEN <<>> ELSE <<Num(n \div 100), Say("hundred")>>
<1>1. n \div 100 \in 0 .. 9 /\ n % 100 \in 0 .. 99
  OBVIOUS
<1>2. Part(lang, hundreds, 2)
  <2>1. CASE n \div 100 = 0
    BY <2>1 DEF Part
  <2>2. CASE n \div 100 # 0
    <3>1. Part(lang, <<Num(n \div 100)>>, 1)
      BY <1>1, <2>2, Numeral
    <3>2. Part(lang, <<Say("hundred")>>, 1)
      BY Worded DEF Word
    <3>3. Part(lang, <<Num(n \div 100)>> \o <<Say("hundred")>>, 1 + 1)
      BY <3>1, <3>2, Join
    <3>4. hundreds = <<Num(n \div 100)>> \o <<Say("hundred")>>
      BY <2>2
    <3> HIDE DEF hundreds
    <3> QED BY <3>3, <3>4
  <2> QED BY <2>1, <2>2
<1>3. Part(lang, Under100(n % 100), 2)
  BY <1>1, Under100Part
<1>4. Under1000(n) = hundreds \o Under100(n % 100)
  BY DEF Under1000
<1> HIDE DEF hundreds
<1>5. Part(lang, hundreds \o Under100(n % 100), 2 + 2)
  BY <1>2, <1>3, Join
<1> QED BY <1>4, <1>5

LEMMA GroupPart ==
  ASSUME NEW lang, NEW n \in 0 .. 99, NEW name \in Word
  PROVE  Part(lang, Group(n, name), 3)
<1>1. CASE n = 0
  BY <1>1 DEF Group, Part
<1>2. CASE n # 0
  <2>1. Part(lang, Under100(n) \o <<Say(name)>>, 2 + 1)
    BY Under100Part, Worded, Join
  <2> QED BY <1>2, <2>1 DEF Group
<1> QED BY <1>1, <1>2

(* sb_logic_append_number(): up to thirteen clips, and none of them zero.  *)
LEMMA NumberPart ==
  ASSUME NEW lang, NEW n \in Nat \ {0}, Sayable(n)
  PROVE  Part(lang, Number(n), 13)
<1> DEFINE c == n \div 10000000
           l == (n % 10000000) \div 100000
           t == (n % 100000) \div 1000
           r == n % 1000
           crores    == Group(c, "crore")
           lakhs     == Group(l, "lac")
           thousands == Group(t, "thousand")
<1>1. n \in Nat /\ 1 <= n /\ n <= 999999999
  BY SMT DEF Sayable, MaxRupees
<1>2. c \in 0 .. 99 /\ l \in 0 .. 99 /\ t \in 0 .. 99 /\ r \in 0 .. 999
  BY <1>1, SMT
<1>3. Number(n) = crores \o lakhs \o thousands \o Under1000(r)
  BY <1>1, SMT DEF Number
<1> HIDE DEF c, l, t, r
<1>4. "crore" \in Word /\ "lac" \in Word /\ "thousand" \in Word
  BY DEF Word
<1>5. Part(lang, crores, 3) /\ Part(lang, lakhs, 3) /\ Part(lang, thousands, 3)
  BY <1>2, <1>4, GroupPart
<1>6. Part(lang, Under1000(r), 4)
  BY <1>2, Under1000Part
<1> HIDE DEF crores, lakhs, thousands
<1>7. Part(lang, crores \o lakhs, 3 + 3)
  BY <1>5, Join
<1>8. Part(lang, crores \o lakhs \o thousands, 6 + 3)
  BY <1>5, <1>7, Join
<1>9. Part(lang, crores \o lakhs \o thousands \o Under1000(r), 9 + 4)
  BY <1>6, <1>8, Join
<1> QED BY <1>3, <1>9

(* An amount that can be said, of a rupee or more.                         *)
Spoken(a) == a \in Nat /\ Sayable(Rupees(a)) /\ Rupees(a) > 0

LEMMA SpokenParts ==
  ASSUME NEW a, Spoken(a)
  PROVE  Rupees(a) \in Nat \ {0} /\ Sayable(Rupees(a)) /\ Paise(a) \in 0 .. 99
<1>1. a \in Nat
  BY DEF Spoken
<1>2. Rupees(a) \in Nat /\ Paise(a) \in 0 .. 99
  BY <1>1 DEF Rupees, Paise
<1> QED BY <1>2 DEF Spoken

LEMMA AmountPart ==
  ASSUME NEW lang, NEW a, Spoken(a)
  PROVE  Part(lang, RupeesAndPaise(a), 29)
<1> DEFINE whole == Number(Rupees(a))
           said  == Number(Paise(a))
           more  == IF Paise(a) = 0 THEN <<>> ELSE <<Say("and")>> \o said \o <<Say("paise")>>
<1>1. Part(lang, whole, 13)
  BY SpokenParts, NumberPart
<1>2. Part(lang, whole \o <<Say("rupees")>>, 13 + 1)
  <2>1. Part(lang, <<Say("rupees")>>, 1)
    BY Worded DEF Word
  <2> HIDE DEF whole
  <2> QED BY <1>1, <2>1, Join
<1>3. Part(lang, more, 15)
  <2>1. CASE Paise(a) = 0
    BY <2>1 DEF Part
  <2>2. CASE Paise(a) # 0
    <3>1. Paise(a) \in Nat \ {0} /\ Sayable(Paise(a))
      BY <2>2, SpokenParts, SMT DEF Sayable, MaxRupees
    <3>2. Part(lang, said, 13)
      BY <3>1, NumberPart
    <3>3. Part(lang, <<Say("and")>>, 1) /\ Part(lang, <<Say("paise")>>, 1)
      BY Worded DEF Word
    <3>4. more = <<Say("and")>> \o said \o <<Say("paise")>>
      BY <2>2
    <3> HIDE DEF said, more
    <3>5. Part(lang, <<Say("and")>> \o said, 1 + 13)
      BY <3>2, <3>3, Join
    <3>6. Part(lang, <<Say("and")>> \o said \o <<Say("paise")>>, 14 + 1)
      BY <3>3, <3>5, Join
    <3> QED BY <3>4, <3>6
  <2> QED BY <2>1, <2>2
<1>4. RupeesAndPaise(a) = whole \o <<Say("rupees")>> \o more
  BY DEF RupeesAndPaise
<1> HIDE DEF whole, more
<1>5. Part(lang, whole \o <<Say("rupees")>> \o more, 14 + 15)
  BY <1>2, <1>3, Join
<1> QED BY <1>4, <1>5

(* What sb_audio_prompt_logic.c builds, and for how long it can grow.      *)
LEMMA ProviderPart ==
  ASSUME NEW lang, NEW p \in Provider
  PROVE  Part(lang, <<ProviderClip(p)>>, 1)
<1>1. {"googlepay", "paytm", "phonepe", "provider"} \subseteq Word
  BY DEF Word
<1>2. ProviderClip(p) \in {Say(name) : name \in Word}
  <2>1. CASE p = "gpay"
    BY <1>1, <2>1 DEF ProviderClip
  <2>2. CASE p \in {"paytm", "phonepe"}
    BY <1>1, <2>2 DEF ProviderClip
  <2>3. CASE p \notin {"gpay", "paytm", "phonepe"}
    BY <1>1, <2>3 DEF ProviderClip
  <2> QED BY <2>1, <2>2, <2>3
<1> QED BY <1>2, Worded

LEMMA TransactionPart ==
  ASSUME NEW lang, NEW p \in Provider, NEW a, Spoken(a)
  PROVE  Part(lang, Transaction(lang, p, a), 33)
<1> DEFINE amount == RupeesAndPaise(a)
           who    == <<ProviderClip(p)>>
           middle == IF lang = "en" THEN amount \o who ELSE who \o amount \o Suffix(lang)
<1>1. Part(lang, amount, 29) /\ Part(lang, who, 1) /\ Part(lang, Suffix(lang), 1)
  BY AmountPart, ProviderPart, Suffixed
<1>2. Part(lang, <<Say("prefix")>>, 1) /\ Part(lang, <<Say("thankyou")>>, 1)
  BY Worded DEF Word
<1>3. Transaction(lang, p, a) = <<Say("prefix")>> \o middle \o <<Say("thankyou")>>
  BY DEF Transaction
<1>4. Part(lang, middle, 31)
  <2> HIDE DEF amount, who
  <2>1. CASE lang = "en"
    <3>1. Part(lang, amount \o who, 29 + 1)
      BY <1>1, Join
    <3> QED BY <2>1, <3>1 DEF Part
  <2>2. CASE lang # "en"
    <3>1. Part(lang, who \o amount, 1 + 29)
      BY <1>1, Join
    <3>2. Part(lang, who \o amount \o Suffix(lang), 30 + 1)
      BY <1>1, <3>1, Join
    <3> QED BY <2>2, <3>2
  <2> QED BY <2>1, <2>2
<1> HIDE DEF middle
<1>5. Part(lang, <<Say("prefix")>> \o middle, 1 + 31)
  BY <1>2, <1>4, Join
<1>6. Part(lang, <<Say("prefix")>> \o middle \o <<Say("thankyou")>>, 32 + 1)
  BY <1>2, <1>5, Join
<1> QED BY <1>3, <1>6

LEMMA LastPart ==
  ASSUME NEW lang, NEW a, Spoken(a)
  PROVE  Part(lang, LastTransaction(a), 30)
<1>1. Part(lang, <<Say("last_transaction_prefix")>>, 1)
  BY Worded DEF Word
<1>2. Part(lang, <<Say("last_transaction_prefix")>> \o RupeesAndPaise(a), 1 + 29)
  BY <1>1, AmountPart, Join
<1> QED BY <1>2 DEF LastTransaction

LEMMA SummaryPart ==
  ASSUME NEW lang, NEW count \in Nat \ {0}, Sayable(count), NEW a, Spoken(a)
  PROVE  Part(lang, DailySummary(lang, count, a), 46)
<1> DEFINE amount == RupeesAndPaise(a)
           number == Number(count)
           what   == <<Transactions(count)>>
           begin  == <<Say("summary_prefix"), Say("is")>>
<1>1. Part(lang, amount, 29) /\ Part(lang, number, 13) /\ Part(lang, Suffix(lang), 1)
  BY AmountPart, NumberPart, Suffixed
<1>2. Part(lang, what, 1)
  <2>1. Part(lang, <<Say("transaction")>>, 1) /\ Part(lang, <<Say("transaction_s")>>, 1)
    BY Worded DEF Word
  <2> QED BY <2>1 DEF Transactions
<1>3. Part(lang, <<Say("summary_prefix")>>, 1) /\ Part(lang, <<Say("is")>>, 1)
  BY Worded DEF Word
<1>4. Part(lang, begin, 2)
  <2>1. Part(lang, <<Say("summary_prefix")>> \o <<Say("is")>>, 1 + 1)
    BY <1>3, Join
  <2>2. begin = <<Say("summary_prefix")>> \o <<Say("is")>>
    OBVIOUS
  <2> HIDE DEF begin
  <2> QED BY <2>1, <2>2
<1>5. CASE lang = "en"
  <2>1. DailySummary(lang, count, a) = begin \o amount \o number \o what
    BY <1>5 DEF DailySummary
  <2> HIDE DEF amount, number, what, begin
  <2>2. Part(lang, begin \o amount, 2 + 29)
    BY <1>1, <1>4, Join
  <2>3. Part(lang, begin \o amount \o number, 31 + 13)
    BY <1>1, <2>2, Join
  <2>4. Part(lang, begin \o amount \o number \o what, 44 + 1)
    BY <1>2, <2>3, Join
  <2> QED BY <2>1, <2>4 DEF Part
<1>6. CASE lang # "en"
  <2>1. DailySummary(lang, count, a) =
          <<Say("summary_prefix")>> \o number \o what \o amount \o Suffix(lang)
    BY <1>6 DEF DailySummary
  <2> HIDE DEF amount, number, what
  <2>2. Part(lang, <<Say("summary_prefix")>> \o number, 1 + 13)
    BY <1>1, <1>3, Join
  <2>3. Part(lang, <<Say("summary_prefix")>> \o number \o what, 14 + 1)
    BY <1>2, <2>2, Join
  <2>4. Part(lang, <<Say("summary_prefix")>> \o number \o what \o amount, 15 + 29)
    BY <1>1, <2>3, Join
  <2>5. Part(lang, <<Say("summary_prefix")>> \o number \o what \o amount \o Suffix(lang), 44 + 1)
    BY <1>1, <2>4, Join
  <2> QED BY <2>1, <2>5 DEF Part
<1> QED BY <1>5, <1>6

LEMMA HealthPart ==
  ASSUME NEW lang, NEW battery \in BOOLEAN, NEW percent \in 1 .. 100
  PROVE  Part(lang, Health(lang, battery, percent), 15)
<1> DEFINE of == <<Say(IF ~battery THEN "network_signal"
                       ELSE IF lang = "en" THEN "battery" ELSE "battery_charging")>>
<1>1. Part(lang, of, 1)
  BY Worded DEF Word
<1>2. Part(lang, Number(percent), 13)
  <2>1. percent \in Nat \ {0} /\ Sayable(percent)
    BY SMT DEF Sayable, MaxRupees
  <2> QED BY <2>1, NumberPart
<1>3. Part(lang, <<Say("percent")>>, 1)
  BY Worded DEF Word
<1>4. Health(lang, battery, percent) = of \o Number(percent) \o <<Say("percent")>>
  BY DEF Health
<1> HIDE DEF of
<1>5. Part(lang, of \o Number(percent), 1 + 13)
  BY <1>1, <1>2, Join
<1>6. Part(lang, of \o Number(percent) \o <<Say("percent")>>, 14 + 1)
  BY <1>3, <1>5, Join
<1> QED BY <1>4, <1>6

LEMMA FixedPart ==
  ASSUME NEW lang, NEW s \in FixedScripts(lang)
  PROVE  Part(lang, s, 3)
<1>1. ASSUME NEW p \in Provider, s = TransactionFallback(lang, p) PROVE Part(lang, s, 3)
  <2>1. Part(lang, <<Say("prefix")>>, 1) /\ Part(lang, <<Say("thankyou")>>, 1)
    BY Worded DEF Word
  <2>2. Part(lang, <<Say("prefix")>> \o <<ProviderClip(p)>>, 1 + 1)
    BY <2>1, ProviderPart, Join
  <2>3. Part(lang, <<Say("prefix")>> \o <<ProviderClip(p)>> \o <<Say("thankyou")>>, 2 + 1)
    BY <2>1, <2>2, Join
  <2>4. s = <<Say("prefix")>> \o <<ProviderClip(p)>> \o <<Say("thankyou")>>
    BY <1>1 DEF TransactionFallback
  <2> QED BY <2>3, <2>4
<1>2. ASSUME NEW prompt \in DOMAIN StatusPrompt, s = <<StatusPrompt[prompt]>>
      PROVE  Part(lang, s, 3)
  <2>1. {"internet", "device_unregistered", "no_SIM", "no_internet", "no_mqtt", "battery_low",
         "no_transactions"} \subseteq Word
    BY DEF Word
  <2>2. StatusPrompt[prompt] \in {Say(name) : name \in Word}
    BY <2>1 DEF StatusPrompt
  <2>3. Part(lang, s, 1)
    BY <1>2, <2>2, Worded
  <2> QED BY <2>3 DEF Part
<1>3. CASE s = DailySummary(lang, 0, 0)
  <2>1. Part(lang, <<Say("no_transactions")>>, 1)
    BY Worded DEF Word
  <2>2. s = <<Say("no_transactions")>>
    BY <1>3 DEF DailySummary
  <2> QED BY <2>1, <2>2 DEF Part
<1> QED BY <1>1, <1>2, <1>3 DEF FixedScripts

LEMMA ShortSequences ==
  ASSUME NEW S, NEW x \in S, NEW y \in S
  PROVE  <<x, y>> \in Seq(S) /\ <<x>> \in Seq(S) /\ <<>> \in Seq(S)
OBVIOUS

(* The other spellings of a clip.                                          *)
Spelling == {"transaction", "transaction_s", "trasnsactions", "ruppes"}

LEMMA SpellingsType == ASSUME NEW name PROVE Spellings(name) \in Seq(Spelling)
<1>1. \A x, y \in Spelling : <<x, y>> \in Seq(Spelling)
  BY ShortSequences
<1>2. <<"ruppes">> \in Seq(Spelling) /\ <<>> \in Seq(Spelling)
  BY ShortSequences DEF Spelling
<1> QED BY <1>1, <1>2 DEF Spellings, Spelling

(* sb_audio_manifest_find_with_fallback() tries the language's own folder  *)
(* first and the English one last.                                         *)
LEMMA VocabularyIsFound ==
  ASSUME NEW lang \in Language, NEW clip \in Vocabulary(lang)
  PROVE  Found(lang, clip)
<1> DEFINE others == Spellings(clip.kind)
           own    == [lang |-> lang, clip |-> clip]
           middle == [i \in DOMAIN others |-> [lang |-> lang, clip |-> Say(others[i])]]
           last   == [lang |-> "en", clip |-> clip]
           cs     == <<own>> \o middle \o <<last>>
<1>1. others \in Seq(Spelling)
  BY SpellingsType
<1> HIDE DEF others
<1>2. DOMAIN others = 1 .. Len(others) /\ Len(others) \in Nat
  BY <1>1
<1> DEFINE S == {own, last} \cup {middle[i] : i \in DOMAIN others}
<1>3. middle \in Seq(S) /\ Len(middle) = Len(others)
  BY <1>2
<1>4. <<own>> \in Seq(S) /\ <<last>> \in Seq(S) /\ Len(<<own>>) = 1 /\ Len(<<last>>) = 1
  OBVIOUS
<1>5. Candidates(lang, clip) = cs
  BY DEF Candidates, others
<1> HIDE DEF own, middle, last, S
<1>6. /\ <<own>> \o middle \in Seq(S)
      /\ Len(<<own>> \o middle) = 1 + Len(others)
      /\ (<<own>> \o middle)[1] = own
  BY <1>2, <1>3, <1>4, ConcatProperties
<1>7. /\ cs \in Seq(S)
      /\ Len(cs) = Len(others) + 2
      /\ cs[1] = own
      /\ cs[Len(others) + 2] = last
  BY <1>2, <1>4, <1>6, ConcatProperties
<1> HIDE DEF cs
<1>8. 1 \in DOMAIN cs /\ Len(others) + 2 \in DOMAIN cs
  BY <1>2, <1>7
<1>9. InPack(own) \/ InPack(last)
  BY PackAssumption DEF InPack, own, last
<1>10. \E i \in DOMAIN cs : InPack(cs[i])
  BY <1>7, <1>8, <1>9
<1> QED BY <1>5, <1>10 DEF Found

LEMMA PartIsPlayable ==
  ASSUME NEW lang \in Language, NEW s, NEW n \in Nat, n <= 72, Part(lang, s, n)
  PROVE  Playable(lang, s)
<1>1. Len(s) <= MaxItems
  BY DEF Part, MaxItems
<1>2. ASSUME NEW i \in DOMAIN s PROVE s[i] \in Vocabulary(lang)
  BY DEF Part
<1> QED BY <1>1, <1>2, VocabularyIsFound DEF Playable

(* The readers keep natural numbers, whatever wraps.                       *)
CompatTypes == [place : {"rupees", "paise", "bad"}, rupees : Nat, paise : Nat, decimals : Nat]

DecimalTypes == [place : {"rupees", "paise", "over"}, rupees : Nat, paise : Nat,
                 decimals : Nat, found : BOOLEAN]

IntegerTypes == [place : {"digits", "over"}, value : Nat, found : BOOLEAN]

ReaderTypes == compat \in CompatTypes /\ decimal \in DecimalTypes /\ integer \in IntegerTypes

LEMMA Wraps == ASSUME NEW n \in Nat PROVE n % U64 \in Nat
BY TextAssumption

LEMMA GrowType == ASSUME NEW n \in Nat, NEW c \in Digit PROVE Grow(n, c) \in Nat
<1>1. n * 10 + c \in Nat
  BY TextAssumption
<1> QED BY <1>1, Wraps DEF Grow

LEMMA CompatReadType ==
  ASSUME NEW c, compat \in CompatTypes
  PROVE  CompatRead(c) \in CompatTypes
<1> DEFINE grown == [compat EXCEPT !.rupees = Grow(compat.rupees, c)]
           more  == [compat EXCEPT !.paise = compat.paise * 10 + c]
           cents == [more EXCEPT !.decimals = compat.decimals + 1]
<1>1. \A place \in {"paise", "bad"} : [compat EXCEPT !.place = place] \in CompatTypes
  BY DEF CompatTypes
<1>2. ASSUME c \in Digit PROVE grown \in CompatTypes /\ cents \in CompatTypes
  <2>1. c \in Nat /\ compat.rupees \in Nat /\ compat.paise \in Nat /\ compat.decimals \in Nat
    BY <1>2, TextAssumption DEF CompatTypes
  <2>2. Grow(compat.rupees, c) \in Nat
    BY <1>2, <2>1, GrowType
  <2>3. grown \in CompatTypes
    BY <2>2 DEF CompatTypes
  <2>4. more \in CompatTypes
    BY <2>1 DEF CompatTypes
  <2> HIDE DEF more
  <2>5. cents \in CompatTypes
    BY <2>1, <2>4 DEF CompatTypes
  <2> QED BY <2>3, <2>5
<1>3. \/ CompatRead(c) \in {[compat EXCEPT !.place = "bad"], [compat EXCEPT !.place = "paise"]}
      \/ c \in Digit /\ CompatRead(c) \in {grown, cents}
  BY Zenon DEF CompatRead
<1> HIDE DEF grown, cents
<1> QED BY <1>1, <1>2, <1>3

LEMMA DecimalReadType ==
  ASSUME NEW c, decimal \in DecimalTypes
  PROVE  DecimalRead(c) \in DecimalTypes
<1> DEFINE grown == [decimal EXCEPT !.rupees = Grow(decimal.rupees, c)]
           begun == [grown EXCEPT !.found = TRUE]
           more  == [decimal EXCEPT !.paise = decimal.paise * 10 + c]
           cents == [more EXCEPT !.decimals = decimal.decimals + 1]
<1>1. \A place \in {"paise", "over"} : [decimal EXCEPT !.place = place] \in DecimalTypes
  BY DEF DecimalTypes
<1>2. ASSUME c \in Digit PROVE begun \in DecimalTypes /\ cents \in DecimalTypes
  <2>1. /\ c \in Nat /\ decimal.rupees \in Nat
        /\ decimal.paise \in Nat /\ decimal.decimals \in Nat
    BY <1>2, TextAssumption DEF DecimalTypes
  <2>2. Grow(decimal.rupees, c) \in Nat
    BY <1>2, <2>1, GrowType
  <2>3. grown \in DecimalTypes
    BY <2>2 DEF DecimalTypes
  <2>4. more \in DecimalTypes
    BY <2>1 DEF DecimalTypes
  <2> HIDE DEF grown, more
  <2>5. begun \in DecimalTypes
    BY <2>3 DEF DecimalTypes
  <2>6. cents \in DecimalTypes
    BY <2>1, <2>4 DEF DecimalTypes
  <2> QED BY <2>5, <2>6
<1>3. \/ DecimalRead(c) \in {decimal, [decimal EXCEPT !.place = "over"],
                             [decimal EXCEPT !.place = "paise"]}
      \/ c \in Digit /\ DecimalRead(c) \in {begun, cents}
  BY Zenon DEF DecimalRead
<1> HIDE DEF begun, cents
<1> QED BY <1>1, <1>2, <1>3

LEMMA IntegerReadType ==
  ASSUME NEW c, integer \in IntegerTypes
  PROVE  IntegerRead(c) \in IntegerTypes
<1> DEFINE grown == [integer EXCEPT !.value = Grow(integer.value, c)]
           begun == [grown EXCEPT !.found = TRUE]
<1>1. [integer EXCEPT !.place = "over"] \in IntegerTypes
  BY DEF IntegerTypes
<1>2. ASSUME c \in Digit PROVE begun \in IntegerTypes
  <2>1. Grow(integer.value, c) \in Nat
    BY <1>2, GrowType DEF IntegerTypes
  <2>2. grown \in IntegerTypes
    BY <2>1 DEF IntegerTypes
  <2> HIDE DEF grown
  <2> QED BY <2>2 DEF IntegerTypes
<1>3. \/ IntegerRead(c) = [integer EXCEPT !.place = "over"]
      \/ c \in Digit /\ IntegerRead(c) = begun
  BY Zenon DEF IntegerRead
<1> HIDE DEF begun
<1> QED BY <1>1, <1>2, <1>3

LEMMA ReaderTypesInvariant == TextSpec => []ReaderTypes
<1>1. TextInit => ReaderTypes
  BY DEF TextInit, ReaderTypes, CompatTypes, DecimalTypes, IntegerTypes
<1>2. ReaderTypes /\ [TextNext]_textVars => ReaderTypes'
  <2> SUFFICES ASSUME ReaderTypes, [TextNext]_textVars PROVE ReaderTypes'
    OBVIOUS
  <2>1. ASSUME NEW c, Read(c) PROVE ReaderTypes'
    BY <2>1, CompatReadType, DecimalReadType, IntegerReadType
    DEF Read, ReaderTypes, CompatTypes, DecimalTypes, IntegerTypes
  <2>2. CASE UNCHANGED textVars
    BY <2>2 DEF textVars, ReaderTypes, CompatTypes, DecimalTypes, IntegerTypes
  <2> QED BY <2>1, <2>2 DEF TextNext
<1> QED BY <1>1, <1>2, PTL DEF TextSpec

LEMMA ReadingType == ASSUME ReaderTypes, NEW a \in Readings PROVE a \in Nat
<1>1. ASSUME NEW r, r.rupees \in Nat, r.paise \in Nat PROVE InPaise(r) \in Nat
  <2>1. r.rupees * 100 + (IF r.decimals = 1 THEN r.paise * 10 ELSE r.paise) \in Nat
    BY <1>1
  <2> QED BY <2>1, Wraps DEF InPaise
<1>2. InPaise(compat) \in Nat
  BY <1>1 DEF ReaderTypes, CompatTypes
<1>3. InPaise(decimal) \in Nat
  BY <1>1 DEF ReaderTypes, DecimalTypes
<1>4. integer.value \in Nat
  BY DEF ReaderTypes, IntegerTypes
<1> QED BY <1>2, <1>3, <1>4 DEF Readings

(* Whatever text is read, every announcement of a rupee or more, in every  *)
(* language and for every provider and count, has its clips in a pack with *)
(* the vocabulary and fits a script, and so have percentages, the          *)
(* replacement of a payment's script and the status prompts                *)
(* (sb_audio_prompt_logic.c, sb_audio_manifest_find_with_fallback).        *)
THEOREM AnnouncementsArePlayable == TextSpec => []ScriptsArePlayable
<1>1. ReaderTypes => ScriptsArePlayable
  <2> SUFFICES ASSUME ReaderTypes, NEW lang \in Language
               PROVE  /\ \A a \in Readings : Sayable(Rupees(a)) /\ Rupees(a) > 0 =>
                           \A s \in AmountScripts(lang, a) : Playable(lang, s)
                      /\ \A battery \in BOOLEAN, percent \in 1 .. 100 :
                           Playable(lang, Health(lang, battery, percent))
                      /\ \A s \in FixedScripts(lang) : Playable(lang, s)
    BY DEF ScriptsArePlayable
  <2>1. ASSUME NEW a \in Readings, Sayable(Rupees(a)), Rupees(a) > 0,
               NEW s \in AmountScripts(lang, a)
        PROVE  Playable(lang, s)
    <3>1. Spoken(a)
      BY <2>1, ReadingType DEF Spoken
    <3>2. ASSUME NEW p \in Provider, s = Transaction(lang, p, a) PROVE Playable(lang, s)
      BY <3>1, <3>2, TransactionPart, PartIsPlayable
    <3>3. ASSUME NEW count \in {1, 2, Rupees(a)}, s = DailySummary(lang, count, a)
          PROVE  Playable(lang, s)
      <4>1. Rupees(a) \in Nat \ {0} /\ Sayable(Rupees(a))
        BY <3>1, SpokenParts
      <4>2. Sayable(1) /\ Sayable(2)
        BY SMT DEF Sayable, MaxRupees
      <4>3. count \in Nat \ {0} /\ Sayable(count)
        BY <4>1, <4>2
      <4> QED BY <3>1, <3>3, <4>3, SummaryPart, PartIsPlayable
    <3>4. CASE s = LastTransaction(a)
      BY <3>1, <3>4, LastPart, PartIsPlayable
    <3> QED BY <3>2, <3>3, <3>4 DEF AmountScripts
  <2>2. ASSUME NEW battery \in BOOLEAN, NEW percent \in 1 .. 100
        PROVE  Playable(lang, Health(lang, battery, percent))
    BY HealthPart, PartIsPlayable
  <2>3. ASSUME NEW s \in FixedScripts(lang) PROVE Playable(lang, s)
    BY FixedPart, PartIsPlayable
  <2> QED BY <2>1, <2>2, <2>3
<1> QED BY <1>1, ReaderTypesInvariant, PTL

----------------------------------------------------------------------------
(* Arithmetic modulo the width of the counters                             *)

LEMMA Quotient ==
  ASSUME NEW x \in Nat
  PROVE  /\ x \div U64 \in Nat /\ x % U64 \in 0 .. U64 - 1
         /\ x = U64 * (x \div U64) + (x % U64)
BY TextAssumption

LEMMA RemainderIsUnique ==
  ASSUME NEW u \in Nat, NEW q \in Nat, NEW p \in Nat,
         NEW r \in 0 .. u - 1, NEW s \in 0 .. u - 1, u * q + r = u * p + s
  PROVE  r = s
<1>1. ASSUME NEW a \in Nat, NEW b \in Nat, NEW c \in Nat, NEW d \in Nat,
             c < u, u * a + c = u * b + d
      PROVE  ~(a < b)
  <2> SUFFICES ASSUME a < b PROVE FALSE
    OBVIOUS
  <2>1. u * b >= u * (a + 1)
    <3>1. PICK k \in Nat : b = a + 1 + k
      <4> WITNESS b - a - 1 \in Nat
      <4> QED OBVIOUS
    <3>2. u * b = u * (a + 1) + u * k /\ u * k \in Nat
      BY <3>1
    <3> QED BY <3>2
  <2>2. u * (a + 1) = u * a + u
    OBVIOUS
  <2>3. u * a \in Nat /\ u * b \in Nat
    OBVIOUS
  <2> QED BY <1>1, <2>1, <2>2, <2>3
<1>2. ~(q < p) /\ ~(p < q)
  BY <1>1
<1>3. q = p
  BY <1>2
<1> QED BY <1>3

LEMMA GrowthWraps ==
  ASSUME NEW v \in Nat, NEW c \in Nat
  PROVE  Grow(v % U64, c) = (10 * v + c) % U64
<1> DEFINE w == v % U64
           q == v \div U64
           x == w * 10 + c
           y == 10 * v + c
<1>1. U64 \in Nat /\ U64 > 0
  BY TextAssumption
<1>2. q \in Nat /\ w \in Nat /\ v = U64 * q + w
  BY Quotient
<1>3. x \in Nat /\ y \in Nat
  BY <1>2
<1> HIDE DEF w, q
<1>4. y = U64 * (10 * q) + x
  BY <1>1, <1>2
<1> HIDE DEF x, y
<1>5. /\ x \div U64 \in Nat /\ x % U64 \in 0 .. U64 - 1 /\ x = U64 * (x \div U64) + (x % U64)
      /\ y \div U64 \in Nat /\ y % U64 \in 0 .. U64 - 1 /\ y = U64 * (y \div U64) + (y % U64)
  BY <1>3, Quotient
<1>6. U64 * (10 * q + x \div U64) = U64 * (10 * q) + U64 * (x \div U64)
  BY <1>1, <1>2, <1>5
<1>7. y = U64 * (10 * q + x \div U64) + (x % U64)
  BY <1>1, <1>2, <1>4, <1>5, <1>6
<1>8. 10 * q + x \div U64 \in Nat
  BY <1>2, <1>5
<1>9. y % U64 = x % U64
  <2>1. U64 * (y \div U64) + (y % U64) = U64 * (10 * q + x \div U64) + (x % U64)
    BY <1>5, <1>7
  <2> QED BY ONLY <1>1, <1>5, <1>8, <2>1, RemainderIsUnique
<1> QED BY <1>9 DEF Grow, x, y, w

----------------------------------------------------------------------------
(* Induction over the natural numbers                                      *)

(* A set of natural numbers that is not empty has a least element: the     *)
(* induction principle of this module.  The intervals below its members    *)
(* are finite sets, which strict inclusion orders well-foundedly.          *)
LEMMA LeastMember ==
  ASSUME NEW S \in SUBSET Nat, S # {}
  PROVE  \E x \in S : \A y \in S : x =< y
<1> DEFINE T == {0 .. x : x \in S}
<1>1. IsWellFoundedOn(StrictSubsetOrdering(Nat), FiniteSubsetsOf(Nat))
  BY FS_StrictSubsetOrderingWellFounded
<1>2. \A x \in S : x \in Nat /\ 0 .. x \in SUBSET Nat /\ IsFiniteSet(0 .. x)
  BY FS_Interval
<1>3. T \subseteq FiniteSubsetsOf(Nat) /\ T # {}
  BY <1>2 DEF FiniteSubsetsOf
<1> HIDE DEF T
<1>4. PICK t \in T : \A u \in T : <<u, t>> \notin StrictSubsetOrdering(Nat)
  BY <1>1, <1>3, WFMin
<1>5. PICK x \in S : t = 0 .. x
  BY DEF T
<1>6. ASSUME NEW y \in S, ~(x =< y)
      PROVE  FALSE
  <2>1. x \in Nat /\ y \in Nat /\ y < x
    BY <1>6
  <2>2. 0 .. y \subseteq 0 .. x /\ 0 .. y # 0 .. x
    <3>1. x \in 0 .. x /\ x \notin 0 .. y
      BY <2>1
    <3> QED BY <2>1, <3>1
  <2>3. <<0 .. y, 0 .. x>> \in (SUBSET Nat) \X (SUBSET Nat)
    BY <1>2
  <2>4. <<0 .. y, 0 .. x>> \in StrictSubsetOrdering(Nat)
    BY <2>2, <2>3 DEF StrictSubsetOrdering
  <2>5. 0 .. y \in T
    BY DEF T
  <2> QED BY <1>4, <1>5, <2>4, <2>5
<1> QED BY <1>6

(* What holds at 0 and is passed on by every step holds up to n: S is the  *)
(* set where it holds.                                                     *)
LEMMA UpTo ==
  ASSUME NEW n \in Nat, NEW S,
         0 \in S, \A i \in 1 .. n : i - 1 \in S => i \in S
  PROVE  0 .. n \subseteq S
<1> SUFFICES ASSUME ~(0 .. n \subseteq S) PROVE FALSE
  OBVIOUS
<1> DEFINE Out == {i \in 0 .. n : i \notin S}
<1>1. Out \in SUBSET Nat /\ Out # {}
  OBVIOUS
<1> HIDE DEF Out
<1>2. PICK x \in Out : \A y \in Out : x =< y
  BY <1>1, LeastMember
<1>3. x \in 0 .. n /\ x \notin S
  BY DEF Out
<1>4. x \in 1 .. n /\ x - 1 \in 0 .. n
  BY <1>3
<1>5. x - 1 \in S
  <2>1. x - 1 \notin Out
    BY <1>2, <1>4
  <2> QED BY <1>4, <2>1 DEF Out
<1> QED BY <1>3, <1>4, <1>5

----------------------------------------------------------------------------
(* The value of a row of digits                                            *)

(* What power and sum in Value are.                                        *)
IsPower(p, n) == p = [k \in 0 .. n |-> IF k = 0 THEN 1 ELSE p[k - 1] * 10]

IsSum(g, t, p, n) ==
  g = [i \in 0 .. n |-> IF i = 0 THEN 0 ELSE g[i - 1] + t[i] * p[n - i]]

(* There are such functions.                                               *)
LEMMA PowerExists ==
  ASSUME NEW n \in Nat
  PROVE  \E p : IsPower(p, n)
<1> DEFINE S == {k \in Nat : \E p : IsPower(p, k)}
<1>1. 0 \in S
  <2> DEFINE z == [k \in 0 .. 0 |-> 1]
  <2>1. IsPower(z, 0)
    BY DEF IsPower
  <2> QED BY <2>1
<1>2. ASSUME NEW m \in 1 .. n, m - 1 \in S
      PROVE  m \in S
  <2>1. PICK p : IsPower(p, m - 1)
    BY <1>2
  <2> DEFINE h == [k \in 0 .. m |-> IF k = m THEN p[m - 1] * 10 ELSE p[k]]
  <2>2. ASSUME NEW k \in 0 .. m
        PROVE  h[k] = IF k = 0 THEN 1 ELSE h[k - 1] * 10
    <3>1. CASE k = m
      BY <3>1
    <3>2. CASE k # m
      <4>1. k \in 0 .. m - 1 /\ h[k] = p[k]
        BY <3>2
      <4>2. p[k] = IF k = 0 THEN 1 ELSE p[k - 1] * 10
        BY <2>1, <4>1 DEF IsPower
      <4>3. k # 0 => k - 1 \in 0 .. m /\ k - 1 # m /\ h[k - 1] = p[k - 1]
        BY <3>2
      <4> QED BY <4>1, <4>2, <4>3
    <3> QED BY <3>1, <3>2
  <2>3. h = [k \in 0 .. m |-> h[k]]
    OBVIOUS
  <2> HIDE DEF h
  <2>4. IsPower(h, m)
    BY <2>2, <2>3 DEF IsPower
  <2>5. m \in Nat
    OBVIOUS
  <2> QED BY <2>4, <2>5
<1> HIDE DEF S
<1>3. 0 .. n \subseteq S
  BY <1>1, <1>2, UpTo
<1>4. n \in S
  BY <1>3
<1> QED BY <1>4 DEF S

LEMMA SumExists ==
  ASSUME NEW n \in Nat, NEW t, NEW p
  PROVE  \E g : IsSum(g, t, p, n)
<1> DEFINE Eq(g, m) == g = [i \in 0 .. m |-> IF i = 0 THEN 0 ELSE g[i - 1] + t[i] * p[n - i]]
           S == {k \in Nat : \E g : Eq(g, k)}
<1>1. 0 \in S
  <2> DEFINE z == [i \in 0 .. 0 |-> 0]
  <2>1. Eq(z, 0)
    OBVIOUS
  <2> QED BY <2>1
<1>2. ASSUME NEW m \in 1 .. n, m - 1 \in S
      PROVE  m \in S
  <2>1. PICK g : Eq(g, m - 1)
    BY <1>2
  <2> DEFINE h == [i \in 0 .. m |-> IF i = m THEN g[m - 1] + t[m] * p[n - m] ELSE g[i]]
  <2>2. ASSUME NEW i \in 0 .. m
        PROVE  h[i] = IF i = 0 THEN 0 ELSE h[i - 1] + t[i] * p[n - i]
    <3>1. CASE i = m
      BY <3>1
    <3>2. CASE i # m
      <4>1. i \in 0 .. m - 1 /\ h[i] = g[i]
        BY <3>2
      <4>2. g[i] = IF i = 0 THEN 0 ELSE g[i - 1] + t[i] * p[n - i]
        BY <2>1, <4>1
      <4>3. i # 0 => i - 1 \in 0 .. m /\ i - 1 # m /\ h[i - 1] = g[i - 1]
        BY <3>2
      <4> QED BY <4>1, <4>2, <4>3
    <3> QED BY <3>1, <3>2
  <2>3. h = [i \in 0 .. m |-> h[i]]
    OBVIOUS
  <2> HIDE DEF h
  <2>4. Eq(h, m)
    BY <2>2, <2>3
  <2>5. m \in Nat
    OBVIOUS
  <2> QED BY <2>4, <2>5
<1> HIDE DEF S
<1>3. 0 .. n \subseteq S
  BY <1>1, <1>2, UpTo
<1>4. n \in S
  BY <1>3
<1> QED BY <1>4 DEF S, IsSum

(* Value is the last sum.                                                  *)
AddsUp(t, n, p, g) ==
  /\ Value(t, n) = g[n]
  /\ p[0] = 1 /\ \A k \in 1 .. n : p[k] = p[k - 1] * 10
  /\ g[0] = 0 /\ \A i \in 1 .. n : g[i] = g[i - 1] + t[i] * p[n - i]

LEMMA ValueIsSum ==
  ASSUME NEW n \in Nat, NEW t
  PROVE  \E p, g : AddsUp(t, n, p, g)
<1> DEFINE p == CHOOSE f : f = [k \in 0 .. n |-> IF k = 0 THEN 1 ELSE f[k - 1] * 10]
           g == CHOOSE f : f = [i \in 0 .. n |-> IF i = 0 THEN 0 ELSE f[i - 1] + t[i] * p[n - i]]
<1>1. Value(t, n) = g[n]
  BY DEF Value
<1>2. p = [k \in 0 .. n |-> IF k = 0 THEN 1 ELSE p[k - 1] * 10]
  BY PowerExists DEF IsPower
<1> HIDE DEF p
<1>3. g = [i \in 0 .. n |-> IF i = 0 THEN 0 ELSE g[i - 1] + t[i] * p[n - i]]
  <2>1. \E f : IsSum(f, t, p, n)
    BY SumExists
  <2>2. \E f : f = [i \in 0 .. n |-> IF i = 0 THEN 0 ELSE f[i - 1] + t[i] * p[n - i]]
    BY <2>1 DEF IsSum
  <2> QED BY <2>2
<1> HIDE DEF g
<1>4. \A k \in 0 .. n : p[k] = IF k = 0 THEN 1 ELSE p[k - 1] * 10
  BY <1>2
<1>5. \A i \in 0 .. n : g[i] = IF i = 0 THEN 0 ELSE g[i - 1] + t[i] * p[n - i]
  BY <1>3
<1>6. p[0] = 1 /\ \A k \in 1 .. n : p[k] = p[k - 1] * 10
  BY <1>4
<1>7. g[0] = 0 /\ \A i \in 1 .. n : g[i] = g[i - 1] + t[i] * p[n - i]
  BY <1>5
<1> QED BY <1>1, <1>6, <1>7 DEF AddsUp

(* One more digit.                                                         *)
LEMMA ValueGrows ==
  ASSUME NEW n \in Nat, NEW t, NEW u, NEW c \in Nat, u[n + 1] = c,
         \A i \in 1 .. n : t[i] \in Nat /\ u[i] = t[i]
  PROVE  /\ Value(t, n) \in Nat
         /\ Value(u, n + 1) = 10 * Value(t, n) + c
<1>1. PICK p, g : AddsUp(t, n, p, g)
  BY ValueIsSum
<1>2. PICK q, h : AddsUp(u, n + 1, q, h)
  BY n + 1 \in Nat, ValueIsSum
<1>3. /\ Value(t, n) = g[n]
      /\ p[0] = 1 /\ \A k \in 1 .. n : p[k] = p[k - 1] * 10
      /\ g[0] = 0 /\ \A i \in 1 .. n : g[i] = g[i - 1] + t[i] * p[n - i]
  BY <1>1 DEF AddsUp
<1>4. /\ Value(u, n + 1) = h[n + 1]
      /\ q[0] = 1 /\ \A k \in 1 .. n + 1 : q[k] = q[k - 1] * 10
      /\ h[0] = 0 /\ \A i \in 1 .. n + 1 : h[i] = h[i - 1] + u[i] * q[n + 1 - i]
  BY <1>2 DEF AddsUp
<1> DEFINE P == {k \in 0 .. n : p[k] \in Nat /\ q[k] = p[k] /\ q[k + 1] = p[k] * 10}
<1>5. 0 .. n \subseteq P
  <2>1. 0 \in P
    <3>1. q[1] = q[1 - 1] * 10
      BY <1>4
    <3> QED BY <1>3, <1>4, <3>1
  <2>2. ASSUME NEW k \in 1 .. n, k - 1 \in P
        PROVE  k \in P
    <3>1. p[k - 1] \in Nat /\ q[k - 1] = p[k - 1]
      BY <2>2
    <3>2. k \in 1 .. n + 1 /\ k + 1 \in 1 .. n + 1 /\ k + 1 - 1 = k
      OBVIOUS
    <3>3. p[k] = p[k - 1] * 10 /\ q[k] = q[k - 1] * 10
      BY <1>3, <1>4, <3>2
    <3>4. q[k + 1] = q[k] * 10
      <4>1. q[k + 1] = q[k + 1 - 1] * 10
        BY <1>4, <3>2
      <4> QED BY <3>2, <4>1
    <3> QED BY <3>1, <3>3, <3>4
  <2> HIDE DEF P
  <2> QED BY <2>1, <2>2, UpTo
<1>6. \A k \in 0 .. n : p[k] \in Nat /\ q[k + 1] = p[k] * 10
  BY <1>5
<1> DEFINE S == {i \in 0 .. n : g[i] \in Nat /\ h[i] = 10 * g[i]}
<1>7. 0 .. n \subseteq S
  <2>1. 0 \in S
    BY <1>3, <1>4
  <2>2. ASSUME NEW i \in 1 .. n, i - 1 \in S
        PROVE  i \in S
    <3>1. g[i - 1] \in Nat /\ h[i - 1] = 10 * g[i - 1]
      BY <2>2
    <3>2. t[i] \in Nat /\ u[i] = t[i]
      OBVIOUS
    <3>3. n - i \in 0 .. n /\ n + 1 - i = (n - i) + 1 /\ i \in 1 .. n + 1
      OBVIOUS
    <3>4. p[n - i] \in Nat /\ q[n + 1 - i] = p[n - i] * 10
      BY <1>6, <3>3
    <3>5. g[i] = g[i - 1] + t[i] * p[n - i]
      BY <1>3
    <3>6. h[i] = h[i - 1] + u[i] * q[n + 1 - i]
      BY <1>4, <3>3
    <3>7. ASSUME NEW a \in Nat, NEW b \in Nat
          PROVE  a * b \in Nat /\ a * (b * 10) = 10 * (a * b)
      OBVIOUS
    <3>8. t[i] * p[n - i] \in Nat /\ u[i] * q[n + 1 - i] = 10 * (t[i] * p[n - i])
      BY <3>2, <3>4, <3>7
    <3> DEFINE x == t[i] * p[n - i]
    <3>9. x \in Nat /\ g[i] = g[i - 1] + x /\ h[i] = h[i - 1] + 10 * x
      BY <3>5, <3>6, <3>8
    <3> HIDE DEF x
    <3>10. g[i] \in Nat /\ h[i] = 10 * g[i]
      BY <3>1, <3>9
    <3> QED BY <3>10
  <2> HIDE DEF S
  <2> QED BY <2>1, <2>2, UpTo
<1>8. g[n] \in Nat /\ h[n] = 10 * g[n]
  BY <1>7
<1>9. h[n + 1] = h[n] + c
  <2>1. n + 1 \in 1 .. n + 1 /\ n + 1 - 1 = n /\ n + 1 - (n + 1) = 0
    OBVIOUS
  <2>2. h[n + 1] = h[n + 1 - 1] + u[n + 1] * q[n + 1 - (n + 1)]
    BY <1>4, <2>1
  <2>3. h[n + 1] = h[n] + c * 1
    BY <1>4, <2>1, <2>2
  <2> QED BY <2>3
<1> QED BY <1>3, <1>4, <1>8, <1>9

(* The value is that of the first n digits only.                           *)
LEMMA ValueOfPrefix ==
  ASSUME NEW n \in Nat, NEW t, NEW u, \A i \in 1 .. n : u[i] = t[i]
  PROVE  Value(u, n) = Value(t, n)
<1> DEFINE p == CHOOSE f : f = [k \in 0 .. n |-> IF k = 0 THEN 1 ELSE f[k - 1] * 10]
<1>1. ASSUME NEW f
      PROVE  [i \in 0 .. n |-> IF i = 0 THEN 0 ELSE f[i - 1] + u[i] * p[n - i]]
               = [i \in 0 .. n |-> IF i = 0 THEN 0 ELSE f[i - 1] + t[i] * p[n - i]]
  <2> HIDE DEF p
  <2>1. \A i \in 0 .. n : i # 0 => u[i] = t[i]
    OBVIOUS
  <2> QED BY <2>1
<1>2. (CHOOSE f : f = [i \in 0 .. n |-> IF i = 0 THEN 0 ELSE f[i - 1] + u[i] * p[n - i]])
        = (CHOOSE f : f = [i \in 0 .. n |-> IF i = 0 THEN 0 ELSE f[i - 1] + t[i] * p[n - i]])
  <2> HIDE DEF p
  <2> QED BY <1>1
<1> QED BY <1>2 DEF Value

LEMMA ValueOfNothing == ASSUME NEW t PROVE Value(t, 0) = 0
BY 0 \in Nat, ValueIsSum DEF AddsUp

----------------------------------------------------------------------------
(* Texts, one character longer at a time                                   *)

Char == Digit \cup {Dot, Other}

(* u is t with one more character.                                         *)
Longer(t, c, u) ==
  /\ t \in Seq(Char) /\ c \in Char /\ u \in Seq(Char)
  /\ Len(t) \in Nat /\ Len(u) = Len(t) + 1
  /\ u[Len(t) + 1] = c /\ \A i \in 1 .. Len(t) : u[i] = t[i]

LEMMA AppendIsLonger ==
  ASSUME NEW t \in Seq(Char), NEW c \in Char
  PROVE  Longer(t, c, Append(t, c))
BY DEF Longer

LEMMA DigitIsNat == ASSUME NEW d \in Digit PROVE d \in Nat
BY TextAssumption

(* A text begins with n digits and no more.                                *)
Begins(t, n) == /\ n \in 0 .. Len(t)
                /\ \A i \in 1 .. n : t[i] \in Digit
                /\ n < Len(t) => t[n + 1] \notin Digit

LEMMA BeginsWithLeading ==
  ASSUME NEW t \in Seq(Char), NEW n, Begins(t, n)
  PROVE  Leading(t) = n
<1> DEFINE S == {k \in 0 .. Len(t) : \A i \in 1 .. k : t[i] \in Digit}
<1>1. Len(t) \in Nat /\ n \in 0 .. Len(t) /\ S \subseteq Nat
  BY DEF Begins
<1>2. n \in S
  BY DEF Begins
<1>3. ASSUME NEW k \in S PROVE n >= k
  <2> SUFFICES ASSUME n < k PROVE FALSE
    BY <1>1
  <2>1. n + 1 \in 1 .. k /\ n < Len(t)
    BY <1>1
  <2> QED BY <2>1 DEF Begins
<1> HIDE DEF S
<1>4. \A x \in S : (\A k \in S : x >= k) => x = n
  <2> SUFFICES ASSUME NEW x \in S, \A k \in S : x >= k PROVE x = n
    OBVIOUS
  <2>1. x >= n /\ n >= x /\ x \in Nat /\ n \in Nat
    BY <1>1, <1>2, <1>3
  <2> QED BY <2>1
<1>5. Max(S) = n
  BY <1>2, <1>3, <1>4 DEF Max
<1> QED BY <1>5 DEF Leading, S

LEMMA BeginsLonger ==
  ASSUME NEW t, NEW c, NEW u, Longer(t, c, u), NEW n, Begins(t, n)
  PROVE  Begins(u, IF n = Len(t) /\ c \in Digit THEN n + 1 ELSE n)
<1>1. CASE n = Len(t) /\ c \in Digit
  <2>1. n + 1 = Len(u) /\ \A i \in 1 .. n + 1 : u[i] \in Digit
    BY <1>1 DEF Longer, Begins
  <2> QED BY <1>1, <2>1 DEF Longer, Begins
<1>2. CASE ~(n = Len(t) /\ c \in Digit)
  <2>1. n \in 0 .. Len(u) /\ \A i \in 1 .. n : u[i] \in Digit
    BY DEF Longer, Begins
  <2>2. u[n + 1] \notin Digit
    BY <1>2 DEF Longer, Begins
  <2> QED BY <1>2, <2>1, <2>2
    DEF Begins
<1> QED BY <1>1, <1>2

LEMMA ValueType ==
  ASSUME NEW n \in Nat, NEW t, \A i \in 1 .. n : t[i] \in Nat
  PROVE  Value(t, n) \in Nat
<1> DEFINE u == [i \in 1 .. n + 1 |-> IF i = n + 1 THEN 0 ELSE t[i]]
<1>1. u[n + 1] = 0 /\ \A i \in 1 .. n : u[i] = t[i]
  OBVIOUS
<1> HIDE DEF u
<1> QED BY 0 \in Nat, <1>1, ValueGrows

(* The value of the digits a text begins with.                             *)
LEMMA ValueLonger ==
  ASSUME NEW t, NEW c, NEW u, Longer(t, c, u), NEW n, Begins(t, n)
  PROVE  /\ Value(t, n) \in Nat /\ Value(u, n) = Value(t, n)
         /\ n = Len(t) /\ c \in Digit => Value(u, n + 1) = 10 * Value(t, n) + c
<1>1. n \in Nat /\ \A i \in 1 .. n : t[i] \in Nat /\ u[i] = t[i]
  BY DigitIsNat DEF Begins, Longer
<1>2. Value(u, n) = Value(t, n)
  BY <1>1, ValueOfPrefix
<1>3. Value(t, n) \in Nat
  BY <1>1, ValueType
<1>4. ASSUME n = Len(t), c \in Digit PROVE Value(u, n + 1) = 10 * Value(t, n) + c
  <2>1. u[n + 1] = c /\ c \in Nat
    BY <1>4, DigitIsNat DEF Longer
  <2> QED BY <1>1, <2>1, ValueGrows
<1> QED BY <1>2, <1>3, <1>4

----------------------------------------------------------------------------
(* The two readers of decimals                                             *)

(* What InPaise makes of the digits after the point.                       *)
Hundredths(paise, decimals) == IF decimals = 1 THEN paise * 10 ELSE paise

(* A reader that has seen a text which begins with n digits: it is among   *)
(* them, at most two digits past a point after them, or where nothing that *)
(* follows counts.                                                         *)
InRupees(t, n, paise, decimals) == n = Len(t) /\ paise = 0 /\ decimals = 0

InDecimals(t, n, paise, decimals) ==
  /\ n < Len(t) /\ t[n + 1] = Dot
  /\ decimals \in 0 .. 2 /\ Len(t) = n + 1 + decimals
  /\ decimals >= 1 => t[n + 2] \in Digit
  /\ decimals = 2  => t[n + 3] \in Digit
  /\ paise = CASE decimals = 0 -> 0
               [] decimals = 1 -> t[n + 2]
               [] decimals = 2 -> 10 * t[n + 2] + t[n + 3]

Past(t, n, paise, decimals) ==
  /\ n < Len(t)
  /\ (t[n + 1] # Dot) \/ (n + 2 <= Len(t) /\ t[n + 2] \notin Digit) \/ (n + 3 <= Len(t))
  /\ Hundredths(paise, decimals) = Cents(t, n)

Reads(t, n, place, rupees, paise, decimals) ==
  /\ Begins(t, n)
  /\ rupees = Value(t, n) % U64
  /\ place \in {"rupees", "paise", "over"}
  /\ place = "rupees" => InRupees(t, n, paise, decimals)
  /\ place = "paise"  => InDecimals(t, n, paise, decimals)
  /\ place = "over"   => Past(t, n, paise, decimals)

(* Its amount is what is written.                                          *)
LEMMA ReadsWhatIsWritten ==
  ASSUME NEW t \in Seq(Char), NEW n, NEW place, NEW rupees, NEW paise, NEW decimals,
         Reads(t, n, place, rupees, paise, decimals)
  PROVE  /\ Leading(t) = n
         /\ (rupees * 100 + Hundredths(paise, decimals)) % U64 = WrittenPaise(t)
<1>1. Leading(t) = n /\ n \in Nat /\ Len(t) \in Nat
  BY BeginsWithLeading DEF Reads, Begins
<1>2. Hundredths(paise, decimals) = Cents(t, n)
  <2>1. CASE place = "rupees"
    <3>1. Cents(t, n) = 0 /\ Hundredths(paise, decimals) = 0
      BY <1>1, <2>1 DEF Reads, InRupees, Cents, Hundredths
    <3> QED BY <3>1
  <2>2. CASE place = "paise"
    <3>1. InDecimals(t, n, paise, decimals)
      BY <2>2 DEF Reads
    <3>2. CASE decimals = 0
      BY <1>1, <3>1, <3>2 DEF InDecimals, Cents, Hundredths
    <3>3. CASE decimals = 1
      <4>1. t[n + 2] \in Nat /\ t[n + 2] \in Digit
        BY <3>1, <3>3, DigitIsNat DEF InDecimals
      <4>2. DigitAt(t, n + 3) = 0
        BY <1>1, <3>1, <3>3 DEF InDecimals, DigitAt
      <4> QED BY <1>1, <3>1, <3>3, <4>1, <4>2 DEF InDecimals, Cents, Hundredths
    <3>4. CASE decimals = 2
      <4>1. t[n + 2] \in Digit /\ t[n + 3] \in Digit
        BY <3>1, <3>4 DEF InDecimals
      <4>2. DigitAt(t, n + 3) = t[n + 3]
        BY <1>1, <3>1, <3>4, <4>1 DEF InDecimals, DigitAt
      <4> QED BY <1>1, <3>1, <3>4, <4>1, <4>2 DEF InDecimals, Cents, Hundredths
    <3> QED BY <3>1, <3>2, <3>3, <3>4 DEF InDecimals
  <2>3. CASE place = "over"
    BY <2>3 DEF Reads, Past
  <2> QED BY <2>1, <2>2, <2>3 DEF Reads
<1> QED BY <1>1, <1>2 DEF Reads, WrittenPaise

LEMMA ReadNothing == Reads(<<>>, 0, "rupees", 0, 0, 0)
<1>1. Value(<<>>, 0) % U64 = 0
  BY ValueOfNothing, TextAssumption
<1> QED BY <1>1 DEF Reads, InRupees, Begins

(* One more digit of the rupees.                                           *)
LEMMA ReadRupee ==
  ASSUME NEW t, NEW c, NEW u, Longer(t, c, u), c \in Digit,
         NEW n, NEW rupees, NEW paise, NEW decimals,
         Reads(t, n, "rupees", rupees, paise, decimals)
  PROVE  Reads(u, n + 1, "rupees", Grow(rupees, c), paise, decimals)
<1>1. Begins(t, n) /\ rupees = Value(t, n) % U64 /\ InRupees(t, n, paise, decimals)
  BY DEF Reads
<1>2. Begins(u, n + 1)
  BY <1>1, BeginsLonger DEF InRupees
<1>3. Value(t, n) \in Nat /\ Value(u, n + 1) = 10 * Value(t, n) + c
  BY <1>1, ValueLonger DEF InRupees
<1>4. Grow(rupees, c) = Value(u, n + 1) % U64
  BY <1>1, <1>3, DigitIsNat, GrowthWraps
<1>5. InRupees(u, n + 1, paise, decimals)
  BY <1>1 DEF InRupees, Longer
<1> QED BY <1>2, <1>4, <1>5 DEF Reads

(* What is not a digit of the rupees leaves them alone.                    *)
LEMMA RupeesStay ==
  ASSUME NEW t, NEW c, NEW u, Longer(t, c, u), NEW n, Begins(t, n),
         n < Len(t) \/ c \notin Digit
  PROVE  Begins(u, n) /\ Value(u, n) = Value(t, n)
<1>1. ~(n = Len(t) /\ c \in Digit)
  BY DEF Longer, Begins
<1> QED BY <1>1, BeginsLonger, ValueLonger

LEMMA ReadPoint ==
  ASSUME NEW t, NEW u, Longer(t, Dot, u),
         NEW n, NEW rupees, NEW paise, NEW decimals,
         Reads(t, n, "rupees", rupees, paise, decimals)
  PROVE  Reads(u, n, "paise", rupees, paise, decimals)
<1>1. Begins(t, n) /\ rupees = Value(t, n) % U64 /\ InRupees(t, n, paise, decimals)
  BY DEF Reads
<1>2. Begins(u, n) /\ Value(u, n) = Value(t, n)
  BY <1>1, TextAssumption, RupeesStay
<1>3. InDecimals(u, n, paise, decimals)
  BY <1>1 DEF InRupees, InDecimals, Longer
<1> QED BY <1>1, <1>2, <1>3 DEF Reads

LEMMA ReadDecimal ==
  ASSUME NEW t, NEW c, NEW u, Longer(t, c, u), c \in Digit,
         NEW n, NEW rupees, NEW paise, NEW decimals, decimals < 2,
         Reads(t, n, "paise", rupees, paise, decimals)
  PROVE  Reads(u, n, "paise", rupees, paise * 10 + c, decimals + 1)
<1>1. Begins(t, n) /\ rupees = Value(t, n) % U64 /\ InDecimals(t, n, paise, decimals)
  BY DEF Reads
<1>2. n \in Nat /\ Len(t) \in Nat /\ n < Len(t) /\ c \in Nat
  BY <1>1, DigitIsNat DEF InDecimals, Begins, Longer
<1>3. Begins(u, n) /\ Value(u, n) = Value(t, n)
  BY <1>1, <1>2, RupeesStay
<1>4. InDecimals(u, n, paise * 10 + c, decimals + 1)
  <2>1. u[n + 1] = Dot /\ n < Len(u) /\ Len(u) = Len(t) + 1 /\ u[Len(t) + 1] = c
    BY <1>1, <1>2 DEF InDecimals, Longer
  <2>2. CASE decimals = 0
    <3>1. Len(t) = n + 1 /\ u[n + 2] = c /\ paise = 0
      BY <1>1, <1>2, <2>1, <2>2 DEF InDecimals
    <3> QED BY <1>2, <2>1, <2>2, <3>1 DEF InDecimals
  <2>3. CASE decimals = 1
    <3>1. Len(t) = n + 2 /\ u[n + 3] = c /\ paise = t[n + 2] /\ t[n + 2] \in Digit
      BY <1>1, <1>2, <2>1, <2>3 DEF InDecimals
    <3>2. n + 2 \in 1 .. Len(t)
      BY <1>2, <3>1
    <3>3. \A i \in 1 .. Len(t) : u[i] = t[i]
      BY DEF Longer
    <3>4. u[n + 2] = t[n + 2] /\ t[n + 2] \in Nat
      BY <3>1, <3>2, <3>3, DigitIsNat
    <3>5. paise * 10 + c = 10 * u[n + 2] + u[n + 3]
      BY <1>2, <3>1, <3>4
    <3>6. decimals + 1 = 2 /\ Len(u) = n + 1 + 2 /\ u[n + 2] \in Digit /\ u[n + 3] \in Digit
      BY <1>2, <2>1, <2>3, <3>1, <3>4
    <3> QED BY <2>1, <3>5, <3>6 DEF InDecimals
  <2> QED BY <1>1, <2>2, <2>3 DEF InDecimals
<1> QED BY <1>1, <1>3, <1>4 DEF Reads

(* The character where the reading ends.                                   *)
LEMMA ReadEnd ==
  ASSUME NEW t, NEW c, NEW u, Longer(t, c, u),
         NEW n, NEW place, NEW rupees, NEW paise, NEW decimals,
         Reads(t, n, place, rupees, paise, decimals),
         \/ place = "rupees" /\ c \notin Digit /\ c # Dot
         \/ place = "paise" /\ (c \notin Digit \/ ~(decimals < 2))
  PROVE  Reads(u, n, "over", rupees, paise, decimals)
<1>1. Begins(t, n) /\ rupees = Value(t, n) % U64 /\ n \in Nat /\ Len(t) \in Nat
  BY DEF Reads, Begins, Longer
<1>2. Len(u) = Len(t) + 1 /\ u[Len(t) + 1] = c
  BY DEF Longer
<1>3. CASE place = "rupees" /\ c \notin Digit /\ c # Dot
  <2>1. InRupees(t, n, paise, decimals)
    BY <1>3 DEF Reads
  <2>2. n = Len(t) /\ u[n + 1] = c /\ paise = 0 /\ decimals = 0
    BY <1>2, <2>1 DEF InRupees
  <2>3. Past(u, n, paise, decimals)
    BY <1>1, <1>2, <1>3, <2>2 DEF Past, Hundredths, Cents
  <2>4. Begins(u, n) /\ Value(u, n) = Value(t, n)
    BY <1>1, <1>3, RupeesStay
  <2> QED BY <1>1, <2>3, <2>4 DEF Reads
<1>4. CASE place = "paise" /\ (c \notin Digit \/ ~(decimals < 2))
  <2>1. InDecimals(t, n, paise, decimals)
    BY <1>4 DEF Reads
  <2>2. n < Len(t) /\ t[n + 1] = Dot /\ u[n + 1] = Dot /\ n < Len(u)
    BY <1>1, <1>2, <2>1 DEF InDecimals, Longer
  <2>3. Begins(u, n) /\ Value(u, n) = Value(t, n)
    BY <1>1, <2>2, RupeesStay
  <2>4. CASE decimals = 0
    <3>1. u[n + 2] = c /\ c \notin Digit /\ Len(u) = n + 2 /\ paise = 0
      BY <1>1, <1>2, <1>4, <2>1, <2>4 DEF InDecimals
    <3>2. Past(u, n, paise, decimals)
      BY <1>1, <2>2, <2>4, <3>1 DEF Past, Hundredths, Cents
    <3> QED BY <1>1, <2>3, <3>2 DEF Reads
  <2>5. CASE decimals = 1
    <3>1. /\ u[n + 3] = c /\ c \notin Digit /\ Len(u) = n + 3 /\ Len(t) = n + 2
          /\ paise = t[n + 2] /\ t[n + 2] \in Digit
      BY <1>1, <1>2, <1>4, <2>1, <2>5 DEF InDecimals
    <3>2. u[n + 2] = paise /\ paise \in Digit /\ paise \in Nat
      BY <1>1, <3>1, DigitIsNat DEF Longer
    <3>3. DigitAt(u, n + 3) = 0
      BY <3>1 DEF DigitAt
    <3>4. Past(u, n, paise, decimals)
      BY <1>1, <2>2, <2>5, <3>1, <3>2, <3>3 DEF Past, Hundredths, Cents
    <3> QED BY <1>1, <2>3, <3>4 DEF Reads
  <2>6. CASE decimals = 2
    <3>1. /\ Len(t) = n + 3 /\ Len(u) = n + 4
          /\ t[n + 2] \in Digit /\ t[n + 3] \in Digit
          /\ paise = 10 * t[n + 2] + t[n + 3]
      BY <1>1, <1>2, <2>1, <2>6 DEF InDecimals
    <3>2. u[n + 2] = t[n + 2] /\ u[n + 3] = t[n + 3]
      BY <1>1, <3>1 DEF Longer
    <3>3. DigitAt(u, n + 3) = t[n + 3]
      BY <1>1, <3>1, <3>2 DEF DigitAt
    <3>4. Past(u, n, paise, decimals)
      BY <1>1, <2>2, <2>6, <3>1, <3>2, <3>3 DEF Past, Hundredths, Cents
    <3> QED BY <1>1, <2>3, <3>4 DEF Reads
  <2> QED BY <2>1, <2>4, <2>5, <2>6 DEF InDecimals
<1> QED BY <1>3, <1>4

(* And those after it.                                                     *)
LEMMA ReadPast ==
  ASSUME NEW t, NEW c, NEW u, Longer(t, c, u),
         NEW n, NEW rupees, NEW paise, NEW decimals,
         Reads(t, n, "over", rupees, paise, decimals)
  PROVE  Reads(u, n, "over", rupees, paise, decimals)
<1>1. Begins(t, n) /\ rupees = Value(t, n) % U64 /\ Past(t, n, paise, decimals)
  BY DEF Reads
<1>2. n \in Nat /\ Len(t) \in Nat /\ n < Len(t) /\ Len(u) = Len(t) + 1
  BY <1>1 DEF Past, Begins, Longer
<1>3. Begins(u, n) /\ Value(u, n) = Value(t, n)
  BY <1>1, <1>2, RupeesStay
<1>4. u[n + 1] = t[n + 1]
  BY <1>2 DEF Longer
<1>5. n + 2 <= Len(t) => u[n + 2] = t[n + 2]
  BY <1>2 DEF Longer
<1>6. n + 3 <= Len(t) => u[n + 3] = t[n + 3]
  BY <1>2 DEF Longer
<1>7. Cents(u, n) = Cents(t, n)
  <2>1. CASE t[n + 1] # Dot
    BY <1>4, <2>1 DEF Cents
  <2>2. CASE n + 2 <= Len(t) /\ t[n + 2] \notin Digit
    BY <1>5, <2>2 DEF Cents
  <2>3. CASE n + 3 <= Len(t)
    <3>1. DigitAt(u, n + 3) = DigitAt(t, n + 3)
      BY <1>2, <1>6, <2>3 DEF DigitAt
    <3> QED BY <1>2, <1>4, <1>5, <2>3, <3>1 DEF Cents
  <2> QED BY <1>1, <2>1, <2>2, <2>3 DEF Past
<1>8. Past(u, n, paise, decimals)
  BY <1>1, <1>2, <1>4, <1>5, <1>7 DEF Past
<1> QED BY <1>1, <1>3, <1>8 DEF Reads

----------------------------------------------------------------------------
(* The reader of the compatible format                                     *)

LEMMA RupeesArePrice ==
  ASSUME NEW t \in Seq(Char), t # <<>>, NEW n, NEW paise, NEW decimals,
         Begins(t, n), InRupees(t, n, paise, decimals)
  PROVE  IsPrice(t)
<1>1. \A i \in DOMAIN t : t[i] \in Digit
  BY DEF Begins, InRupees
<1>2. \A i \in DOMAIN t : t[i] # Dot
  BY <1>1, TextAssumption
<1> QED BY <1>1, <1>2 DEF IsPrice

LEMMA DecimalsArePrice ==
  ASSUME NEW t \in Seq(Char), NEW n, NEW paise, NEW decimals,
         Begins(t, n), InDecimals(t, n, paise, decimals)
  PROVE  IsPrice(t)
<1>1. DOMAIN t = 1 .. Len(t) /\ Len(t) \in Nat /\ n \in Nat
  BY DEF Begins
<1>2. n < Len(t) /\ t[n + 1] = Dot /\ decimals \in 0 .. 2 /\ Len(t) = n + 1 + decimals
  BY DEF InDecimals
<1>3. ASSUME NEW i \in DOMAIN t, i # n + 1 PROVE t[i] \in Digit
  <2>1. CASE i <= n
    BY <1>1, <2>1 DEF Begins
  <2>2. CASE i = n + 2
    BY <1>1, <1>2, <2>2 DEF InDecimals
  <2>3. CASE i = n + 3
    BY <1>1, <1>2, <2>3 DEF InDecimals
  <2>4. i <= n \/ i = n + 2 \/ i = n + 3
    BY <1>1, <1>2, <1>3
  <2> QED BY <2>1, <2>2, <2>3, <2>4
<1>4. \A i \in DOMAIN t : t[i] = Dot => i = n + 1
  BY <1>3, TextAssumption
<1>5. t # <<>>
  BY <1>1, <1>2
<1>6. Len(t) - (n + 1) <= 2
  BY <1>1, <1>2
<1> QED BY <1>2, <1>3, <1>4, <1>5, <1>6 DEF IsPrice

LEMMA PriceBefore ==
  ASSUME NEW t, NEW c, NEW u, Longer(t, c, u), t # <<>>, IsPrice(u)
  PROVE  IsPrice(t)
<1>1. DOMAIN t = 1 .. Len(t) /\ DOMAIN u = 1 .. Len(u) /\ Len(t) \in Nat /\ Len(u) = Len(t) + 1
  BY DEF Longer
<1>2. \A i \in DOMAIN t : i \in DOMAIN u /\ t[i] = u[i]
  BY <1>1 DEF Longer
<1>3. \A i \in DOMAIN t : t[i] \in Digit \cup {Dot}
  BY <1>2 DEF IsPrice
<1>4. \A i, j \in DOMAIN t : t[i] = Dot /\ t[j] = Dot => i = j
  BY <1>2 DEF IsPrice
<1>5. ASSUME NEW i \in DOMAIN t, t[i] = Dot PROVE Len(t) - i <= 2
  <2>1. Len(u) - i <= 2
    BY <1>2, <1>5 DEF IsPrice
  <2> QED BY <1>1, <2>1
<1> QED BY <1>3, <1>4, <1>5 DEF IsPrice

(* What its locals say of the text: a token it has refused is no price, or *)
(* does not fit; one it has not refused does, so far.                      *)
CompatSees(t, r) ==
  \/ r.place = "bad" /\ t # <<>> /\ ~(IsPrice(t) /\ Len(t) <= TextLen)
  \/ /\ r.place \in {"rupees", "paise"} /\ Len(t) <= TextLen
     /\ \E n : Reads(t, n, r.place, r.rupees, r.paise, r.decimals)

LEMMA CompatSeesMore ==
  ASSUME text \in Seq(Char), compat \in CompatTypes, CompatSees(text, compat),
         NEW c \in Char, NEW u, u = Append(text, c)
  PROVE  CompatSees(u, CompatRead(c))
<1> DEFINE r == CompatRead(c)
<1>1. Longer(text, c, u)
  BY AppendIsLonger
<1>2. Len(text) \in Nat /\ Len(u) = Len(text) + 1 /\ u # <<>> /\ TextLen \in Nat
      /\ u[Len(u)] = c /\ DOMAIN u = 1 .. Len(u)
  BY <1>1, TextAssumption DEF Longer
<1>3. ASSUME r = [compat EXCEPT !.place = "bad"], ~(IsPrice(u) /\ Len(u) <= TextLen)
      PROVE  CompatSees(u, r)
  <2>1. r.place = "bad"
    BY <1>3 DEF CompatTypes
  <2> HIDE DEF r
  <2> QED BY <1>2, <1>3, <2>1 DEF CompatSees
<1>4. CASE compat.place = "bad" \/ Len(text) >= TextLen
  <2>1. r = [compat EXCEPT !.place = "bad"]
    BY <1>4 DEF CompatRead
  <2>2. ~(IsPrice(u) /\ Len(u) <= TextLen)
    <3>1. CASE Len(text) >= TextLen
      BY <1>2, <3>1
    <3>2. CASE compat.place = "bad"
      <4>1. text # <<>> /\ ~(IsPrice(text) /\ Len(text) <= TextLen)
        BY <3>2 DEF CompatSees
      <4>2. IsPrice(u) => IsPrice(text)
        BY <1>1, <4>1, PriceBefore
      <4> QED BY <1>2, <4>1, <4>2
    <3> QED BY <1>4, <3>1, <3>2
  <2> QED BY <1>3, <2>1, <2>2
<1>5. ASSUME compat.place # "bad", ~(Len(text) >= TextLen)
      PROVE  CompatSees(u, r)
  <2>1. /\ compat.place \in {"rupees", "paise"} /\ Len(u) <= TextLen
        /\ \E n : Reads(text, n, compat.place, compat.rupees, compat.paise, compat.decimals)
    BY <1>2, <1>5 DEF CompatSees
  <2>2. PICK n : Reads(text, n, compat.place, compat.rupees, compat.paise, compat.decimals)
    BY <2>1
  <2>3. Begins(text, n)
    BY <2>2 DEF Reads
  <2>4. CASE compat.place = "rupees" /\ c = Dot
    <3>1. r = [compat EXCEPT !.place = "paise"]
      BY <1>5, <2>4 DEF CompatRead
    <3>2. /\ r.place = "paise" /\ r.rupees = compat.rupees
          /\ r.paise = compat.paise /\ r.decimals = compat.decimals
      BY <3>1 DEF CompatTypes
    <3>3. Reads(u, n, "paise", compat.rupees, compat.paise, compat.decimals)
      BY <1>1, <2>2, <2>4, ReadPoint
    <3> HIDE DEF r
    <3> QED BY <2>1, <3>2, <3>3 DEF CompatSees
  <2>5. CASE compat.place = "rupees" /\ c # Dot /\ c \notin Digit
    <3>1. r = [compat EXCEPT !.place = "bad"]
      BY <1>5, <2>5 DEF CompatRead
    <3>2. ~IsPrice(u)
      BY <1>2, <2>5 DEF IsPrice
    <3> QED BY <1>3, <3>1, <3>2
  <2>6. CASE compat.place = "rupees" /\ c \in Digit
    <3>1. c # Dot
      BY <2>6, TextAssumption
    <3>2. r = [compat EXCEPT !.rupees = Grow(compat.rupees, c)]
      BY <1>5, <2>6, <3>1 DEF CompatRead
    <3>3. /\ r.place = "rupees" /\ r.rupees = Grow(compat.rupees, c)
          /\ r.paise = compat.paise /\ r.decimals = compat.decimals
      BY <2>6, <3>2 DEF CompatTypes
    <3>4. Reads(u, n + 1, "rupees", Grow(compat.rupees, c), compat.paise, compat.decimals)
      BY <1>1, <2>2, <2>6, ReadRupee
    <3> HIDE DEF r
    <3> QED BY <2>1, <3>3, <3>4 DEF CompatSees
  <2>7. ASSUME compat.place = "paise" PROVE CompatSees(u, r)
    <3>1. InDecimals(text, n, compat.paise, compat.decimals)
      BY <2>2, <2>7 DEF Reads
    <3>2. /\ n \in Nat /\ n + 1 \in DOMAIN u /\ u[n + 1] = Dot /\ n + 1 # Len(u)
          /\ compat.decimals \in 0 .. 2 /\ Len(text) = n + 1 + compat.decimals
      BY <1>1, <1>2, <2>3, <3>1 DEF InDecimals, Begins, Longer
    <3>3. CASE c \notin Digit
      <4>1. r = [compat EXCEPT !.place = "bad"]
        BY <1>5, <2>7, <3>3 DEF CompatRead
      <4>2. ~IsPrice(u)
        <5>1. Len(u) \in DOMAIN u
          BY <1>2
        <5> QED BY <1>2, <3>2, <3>3, <5>1 DEF IsPrice
      <4> QED BY <1>3, <4>1, <4>2
    <3>4. CASE c \in Digit /\ compat.decimals < 2
      <4> DEFINE more == [compat EXCEPT !.paise = compat.paise * 10 + c]
      <4>1. r = [more EXCEPT !.decimals = compat.decimals + 1]
        BY <1>5, <2>7, <3>4 DEF CompatRead
      <4>2. /\ more.place = "paise" /\ more.rupees = compat.rupees
            /\ more.paise = compat.paise * 10 + c
            /\ more = [place |-> more.place, rupees |-> more.rupees, paise |-> more.paise,
                       decimals |-> more.decimals]
        BY <2>7 DEF CompatTypes
      <4> HIDE DEF more
      <4>3. /\ r.place = "paise" /\ r.rupees = compat.rupees
            /\ r.paise = compat.paise * 10 + c /\ r.decimals = compat.decimals + 1
        BY <4>1, <4>2
      <4>4. Reads(u, n, "paise", compat.rupees, compat.paise * 10 + c, compat.decimals + 1)
        BY <1>1, <2>2, <2>7, <3>4, ReadDecimal
      <4> HIDE DEF r
      <4> QED BY <2>1, <4>3, <4>4 DEF CompatSees
    <3>5. CASE c \in Digit /\ ~(compat.decimals < 2)
      <4>1. r = [compat EXCEPT !.place = "bad"]
        BY <1>5, <2>7, <3>5 DEF CompatRead
      <4>2. Len(u) - (n + 1) = 3
        BY <1>2, <3>2, <3>5
      <4>3. ~IsPrice(u)
        BY <3>2, <4>2 DEF IsPrice
      <4> QED BY <1>3, <4>1, <4>3
    <3> QED BY <3>3, <3>4, <3>5
  <2> QED BY <2>1, <2>4, <2>5, <2>6, <2>7
<1> QED BY <1>4, <1>5

----------------------------------------------------------------------------
(* The reader of "amount", which sees what fits its buffer                 *)

LEMMA CutOfShort ==
  ASSUME NEW t \in Seq(Char), Len(t) <= TextLen
  PROVE  Cut(t) = t
<1>1. Len(t) \in Nat /\ TextLen \in Nat
  BY TextAssumption
<1>2. Cut(t) = SubSeq(t, 1, Len(t))
  <2>1. CASE Len(t) < TextLen
    BY <2>1 DEF Cut
  <2>2. CASE Len(t) = TextLen
    BY <2>2 DEF Cut
  <2> QED BY <1>1, <2>1, <2>2
<1> QED BY <1>2, SubSeqFull

LEMMA CutOfLong ==
  ASSUME NEW t, NEW c, NEW u, Longer(t, c, u), Len(t) >= TextLen
  PROVE  Cut(u) = Cut(t)
<1>1. /\ TextLen \in Nat \ {0} /\ Len(t) \in Nat /\ Len(u) = Len(t) + 1
      /\ \A i \in 1 .. Len(t) : u[i] = t[i]
      /\ t \in Seq(Char) /\ u \in Seq(Char)
  BY TextAssumption DEF Longer
<1>2. Cut(t) = SubSeq(t, 1, TextLen) /\ Cut(u) = SubSeq(u, 1, TextLen)
  <2>1. CASE Len(t) = TextLen
    BY <1>1, <2>1 DEF Cut
  <2>2. CASE Len(t) > TextLen
    BY <1>1, <2>2 DEF Cut
  <2> QED BY <1>1, <2>1, <2>2
<1>3. \A i \in 1 .. TextLen : u[i] = t[i] /\ t[i] \in Char /\ u[i] \in Char
  BY <1>1
<1>4. /\ SubSeq(t, 1, TextLen) \in Seq(Char) /\ Len(SubSeq(t, 1, TextLen)) = TextLen
      /\ \A i \in 1 .. TextLen : SubSeq(t, 1, TextLen)[i] = t[i]
  BY <1>1, <1>3, SubSeqProperties
<1>5. /\ SubSeq(u, 1, TextLen) \in Seq(Char) /\ Len(SubSeq(u, 1, TextLen)) = TextLen
      /\ \A i \in 1 .. TextLen : SubSeq(u, 1, TextLen)[i] = u[i]
  BY <1>1, <1>3, SubSeqProperties
<1> QED BY <1>2, <1>3, <1>4, <1>5, SeqEqual

(* What its locals say of the text that is cut.                            *)
DecimalSees(t, r) ==
  \E n : /\ Reads(t, n, r.place, r.rupees, r.paise, r.decimals)
         /\ r.found <=> n > 0

LEMMA DecimalSeesMore ==
  ASSUME text \in Seq(Char), decimal \in DecimalTypes, DecimalSees(Cut(text), decimal),
         NEW c \in Char, NEW u, u = Append(text, c)
  PROVE  DecimalSees(Cut(u), DecimalRead(c))
<1> DEFINE r == DecimalRead(c)
<1>1. Longer(text, c, u)
  BY AppendIsLonger
<1>2. Len(text) \in Nat /\ Len(u) = Len(text) + 1 /\ TextLen \in Nat /\ u \in Seq(Char)
  BY <1>1, TextAssumption DEF Longer
<1>3. CASE Len(text) >= TextLen
  <2>1. r = decimal
    BY <1>3 DEF DecimalRead
  <2>2. Cut(u) = Cut(text)
    BY <1>1, <1>3, CutOfLong
  <2> QED BY <2>1, <2>2
<1>4. ASSUME ~(Len(text) >= TextLen)
      PROVE  DecimalSees(Cut(u), r)
  <2>1. Cut(text) = text /\ Cut(u) = u
    <3>1. Len(text) <= TextLen /\ Len(u) <= TextLen
      BY <1>2, <1>4
    <3> QED BY <1>2, <3>1, CutOfShort
  <2>2. PICK n : /\ Reads(text, n, decimal.place, decimal.rupees, decimal.paise, decimal.decimals)
                 /\ decimal.found <=> n > 0
    BY <2>1 DEF DecimalSees
  <2>3. n \in Nat /\ decimal.place \in {"rupees", "paise", "over"}
    BY <1>2, <2>2 DEF Reads, Begins
  <2>4. ASSUME NEW m, Reads(u, m, r.place, r.rupees, r.paise, r.decimals), r.found <=> m > 0
        PROVE  DecimalSees(Cut(u), r)
    <3> HIDE DEF r
    <3> QED BY <2>1, <2>4 DEF DecimalSees
  <2>5. CASE decimal.place = "over"
    <3>1. r = decimal
      BY <2>5 DEF DecimalRead
    <3>2. Reads(u, n, "over", decimal.rupees, decimal.paise, decimal.decimals)
      BY <1>1, <2>2, <2>5, ReadPast
    <3> HIDE DEF r
    <3> QED BY <2>2, <2>4, <2>5, <3>1, <3>2
  <2>6. CASE decimal.place = "rupees" /\ c = Dot
    <3>1. r = [decimal EXCEPT !.place = "paise"]
      BY <1>4, <2>6 DEF DecimalRead
    <3>2. /\ r.place = "paise" /\ r.rupees = decimal.rupees /\ r.found = decimal.found
          /\ r.paise = decimal.paise /\ r.decimals = decimal.decimals
      BY <3>1 DEF DecimalTypes
    <3>3. Reads(u, n, "paise", decimal.rupees, decimal.paise, decimal.decimals)
      BY <1>1, <2>2, <2>6, ReadPoint
    <3> HIDE DEF r
    <3> QED BY <2>2, <2>4, <3>2, <3>3
  <2>7. CASE decimal.place = "rupees" /\ c \in Digit
    <3> DEFINE grown == [decimal EXCEPT !.rupees = Grow(decimal.rupees, c)]
    <3>1. c # Dot
      BY <2>7, TextAssumption
    <3>2. r = [grown EXCEPT !.found = TRUE]
      BY <1>4, <2>7, <3>1 DEF DecimalRead
    <3>3. /\ grown.place = "rupees" /\ grown.rupees = Grow(decimal.rupees, c)
          /\ grown.paise = decimal.paise /\ grown.decimals = decimal.decimals
          /\ grown = [place |-> grown.place, rupees |-> grown.rupees, paise |-> grown.paise,
                      decimals |-> grown.decimals, found |-> grown.found]
      BY <2>7 DEF DecimalTypes
    <3> HIDE DEF grown
    <3>4. /\ r.place = "rupees" /\ r.rupees = Grow(decimal.rupees, c) /\ r.found = TRUE
          /\ r.paise = decimal.paise /\ r.decimals = decimal.decimals
      BY <3>2, <3>3
    <3>5. Reads(u, n + 1, "rupees", Grow(decimal.rupees, c), decimal.paise, decimal.decimals)
      BY <1>1, <2>2, <2>7, ReadRupee
    <3>6. n + 1 > 0
      BY <2>3
    <3> HIDE DEF r
    <3> QED BY <2>4, <3>4, <3>5, <3>6
  <2>8. CASE decimal.place = "paise" /\ c \in Digit /\ decimal.decimals < 2
    <3> DEFINE more == [decimal EXCEPT !.paise = decimal.paise * 10 + c]
    <3>1. r = [more EXCEPT !.decimals = decimal.decimals + 1]
      BY <1>4, <2>8 DEF DecimalRead
    <3>2. /\ more.place = "paise" /\ more.rupees = decimal.rupees
          /\ more.paise = decimal.paise * 10 + c /\ more.found = decimal.found
          /\ more = [place |-> more.place, rupees |-> more.rupees, paise |-> more.paise,
                     decimals |-> more.decimals, found |-> more.found]
      BY <2>8 DEF DecimalTypes
    <3> HIDE DEF more
    <3>3. /\ r.place = "paise" /\ r.rupees = decimal.rupees /\ r.found = decimal.found
          /\ r.paise = decimal.paise * 10 + c /\ r.decimals = decimal.decimals + 1
      BY <3>1, <3>2
    <3>4. Reads(u, n, "paise", decimal.rupees, decimal.paise * 10 + c, decimal.decimals + 1)
      BY <1>1, <2>2, <2>8, ReadDecimal
    <3> HIDE DEF r
    <3> QED BY <2>2, <2>4, <3>3, <3>4
  <2>9. ASSUME \/ decimal.place = "rupees" /\ c \notin Digit /\ c # Dot
               \/ decimal.place = "paise" /\ (c \notin Digit \/ ~(decimal.decimals < 2))
        PROVE  DecimalSees(Cut(u), r)
    <3>1. r = [decimal EXCEPT !.place = "over"]
      BY <1>4, <2>9 DEF DecimalRead
    <3>2. /\ r.place = "over" /\ r.rupees = decimal.rupees /\ r.found = decimal.found
          /\ r.paise = decimal.paise /\ r.decimals = decimal.decimals
      BY <3>1 DEF DecimalTypes
    <3>3. Reads(u, n, "over", decimal.rupees, decimal.paise, decimal.decimals)
      BY <1>1, <2>2, <2>9, ReadEnd
    <3> HIDE DEF r
    <3> QED BY <2>2, <2>4, <3>2, <3>3
  <2> QED BY <2>3, <2>5, <2>6, <2>7, <2>8, <2>9
<1> QED BY <1>3, <1>4

----------------------------------------------------------------------------
(* The reader of "amount_paise"                                            *)

IntegerSees(t, r) ==
  \E n : /\ Begins(t, n) /\ r.value = Value(t, n) % U64
         /\ r.place = "digits" <=> n = Len(t)

LEMMA IntegerSeesMore ==
  ASSUME text \in Seq(Char), integer \in IntegerTypes, IntegerSees(text, integer),
         NEW c \in Char, NEW u, u = Append(text, c)
  PROVE  IntegerSees(u, IntegerRead(c))
<1> DEFINE r == IntegerRead(c)
<1>1. Longer(text, c, u)
  BY AppendIsLonger
<1>2. PICK n : /\ Begins(text, n) /\ integer.value = Value(text, n) % U64
               /\ integer.place = "digits" <=> n = Len(text)
  BY DEF IntegerSees
<1>3. n \in Nat /\ Len(text) \in Nat /\ Len(u) = Len(text) + 1 /\ n <= Len(text)
  BY <1>1, <1>2 DEF Begins, Longer
<1>4. CASE c \in Digit /\ integer.place = "digits"
  <2> DEFINE grown == [integer EXCEPT !.value = Grow(integer.value, c)]
  <2>1. r = [grown EXCEPT !.found = TRUE]
    BY <1>4 DEF IntegerRead
  <2>2. /\ grown.place = "digits" /\ grown.value = Grow(integer.value, c)
        /\ grown = [place |-> grown.place, value |-> grown.value, found |-> grown.found]
    BY <1>4 DEF IntegerTypes
  <2> HIDE DEF grown
  <2>3. r.place = "digits" /\ r.value = Grow(integer.value, c)
    BY <2>1, <2>2
  <2>4. n = Len(text) /\ Begins(u, n + 1)
    BY <1>1, <1>2, <1>4, BeginsLonger
  <2>5. Value(text, n) \in Nat /\ Value(u, n + 1) = 10 * Value(text, n) + c
    BY <1>1, <1>2, <1>4, <2>4, ValueLonger
  <2>6. Grow(integer.value, c) = Value(u, n + 1) % U64
    BY <1>2, <1>4, <2>5, DigitIsNat, GrowthWraps
  <2> HIDE DEF r
  <2>7. IntegerSees(u, r)
    BY <1>3, <2>3, <2>4, <2>6 DEF IntegerSees
  <2> QED BY <2>7 DEF r
<1>5. CASE ~(c \in Digit /\ integer.place = "digits")
  <2>1. r = [integer EXCEPT !.place = "over"]
    BY <1>5 DEF IntegerRead
  <2>2. r.place = "over" /\ r.value = integer.value
    BY <2>1 DEF IntegerTypes
  <2>3. n < Len(text) \/ c \notin Digit
    BY <1>2, <1>3, <1>5
  <2>4. Begins(u, n) /\ Value(u, n) = Value(text, n)
    BY <1>1, <1>2, <2>3, RupeesStay
  <2>5. n # Len(u)
    BY <1>3
  <2> HIDE DEF r
  <2>6. IntegerSees(u, r)
    BY <1>2, <2>2, <2>4, <2>5 DEF IntegerSees
  <2> QED BY <2>6 DEF r
<1> QED BY <1>4, <1>5

----------------------------------------------------------------------------
(* All three                                                               *)

SeesInv == /\ ReaderTypes
           /\ text \in Seq(Char)
           /\ CompatSees(text, compat)
           /\ DecimalSees(Cut(text), decimal)
           /\ IntegerSees(text, integer)

LEMMA SeesInvariant == TextSpec => []SeesInv
<1>1. TextInit => SeesInv
  <2> SUFFICES ASSUME TextInit PROVE SeesInv
    OBVIOUS
  <2>1. text = <<>> /\ text \in Seq(Char) /\ Len(text) = 0 /\ 0 <= TextLen
    BY TextAssumption DEF TextInit
  <2>2. ReaderTypes
    BY DEF TextInit, ReaderTypes, CompatTypes, DecimalTypes, IntegerTypes
  <2>3. Reads(text, 0, "rupees", 0, 0, 0)
    BY <2>1, ReadNothing
  <2>4. CompatSees(text, compat)
    BY <2>1, <2>3 DEF TextInit, CompatSees
  <2>5. Cut(text) = text
    BY <2>1, CutOfShort
  <2>6. DecimalSees(Cut(text), decimal)
    <3>1. ~(0 > 0)
      OBVIOUS
    <3> QED BY <2>3, <2>5, <3>1 DEF TextInit, DecimalSees
  <2>7. IntegerSees(text, integer)
    <3>1. Begins(text, 0) /\ 0 = Value(text, 0) % U64
      BY <2>3 DEF Reads
    <3> QED BY <2>1, <3>1 DEF TextInit, IntegerSees
  <2> QED BY <2>1, <2>2, <2>4, <2>6, <2>7 DEF SeesInv
<1>2. SeesInv /\ [TextNext]_textVars => SeesInv'
  <2> SUFFICES ASSUME SeesInv, [TextNext]_textVars PROVE SeesInv'
    OBVIOUS
  <2>1. ASSUME NEW c \in Char, Read(c) PROVE SeesInv'
    <3>1. /\ text' = Append(text, c) /\ compat' = CompatRead(c)
          /\ decimal' = DecimalRead(c) /\ integer' = IntegerRead(c)
      BY <2>1 DEF Read
    <3>2. ReaderTypes'
      BY <3>1, CompatReadType, DecimalReadType, IntegerReadType
      DEF SeesInv, ReaderTypes, CompatTypes, DecimalTypes, IntegerTypes
    <3>3. text' \in Seq(Char)
      BY <3>1 DEF SeesInv
    <3>4. CompatSees(text', compat')
      BY <3>1, CompatSeesMore DEF SeesInv, ReaderTypes
    <3>5. DecimalSees(Cut(text'), decimal')
      BY <3>1, DecimalSeesMore DEF SeesInv, ReaderTypes
    <3>6. IntegerSees(text', integer')
      BY <3>1, IntegerSeesMore DEF SeesInv, ReaderTypes
    <3>7. /\ CompatSees(text, compat)' /\ DecimalSees(Cut(text), decimal)'
          /\ IntegerSees(text, integer)'
      BY ONLY <3>4, <3>5, <3>6 DEF CompatSees, DecimalSees, IntegerSees, Cut
    <3> QED BY <3>2, <3>3, <3>7 DEF SeesInv
  <2>2. CASE UNCHANGED textVars
    BY <2>2 DEF textVars, SeesInv, ReaderTypes, CompatTypes, DecimalTypes, IntegerTypes,
       CompatSees, DecimalSees, IntegerSees, Cut
  <2> QED BY <2>1, <2>2 DEF TextNext, Char
<1> QED BY <1>1, <1>2, PTL DEF TextSpec

(* Whatever text is given to the three, each reads the amount that is      *)
(* written, modulo the width of its counters, and none of them accepts     *)
(* what it should not (sb_payment_parse_compat_amount_paise,               *)
(* sb_json_parse_amount_decimal, sb_json_get_u64).                         *)
THEOREM AmountsAreRead == TextSpec => []ReadAsWritten
<1>1. SeesInv => ReadAsWritten
  <2> SUFFICES ASSUME SeesInv PROVE ReadAsWritten
    OBVIOUS
  <2>1. text \in Seq(Char) /\ Len(text) \in Nat /\ TextLen \in Nat
    BY TextAssumption DEF SeesInv
  <2>2. ASSUME NEW r, NEW t \in Seq(Char), NEW n,
               Reads(t, n, r.place, r.rupees, r.paise, r.decimals)
        PROVE  Leading(t) = n /\ InPaise(r) = WrittenPaise(t)
    BY <2>2, ReadsWhatIsWritten DEF Hundredths, InPaise
  <2>3. /\ CompatAccepts <=> IsPrice(text) /\ Len(text) <= TextLen /\ WrittenPaise(text) > 0
        /\ CompatAccepts => InPaise(compat) = WrittenPaise(text)
    <3>1. CompatSees(text, compat)
      BY DEF SeesInv
    <3>2. CASE compat.place = "bad"
      BY <3>1, <3>2 DEF CompatSees, CompatAccepts
    <3>3. ASSUME compat.place # "bad"
          PROVE  /\ Len(text) <= TextLen /\ InPaise(compat) = WrittenPaise(text)
                 /\ text # <<>> => IsPrice(text)
      <4>1. PICK n : Reads(text, n, compat.place, compat.rupees, compat.paise, compat.decimals)
        BY <3>1, <3>3 DEF CompatSees
      <4>2. Len(text) <= TextLen /\ compat.place \in {"rupees", "paise"}
        BY <3>1, <3>3 DEF CompatSees
      <4>3. InPaise(compat) = WrittenPaise(text)
        BY <2>1, <2>2, <4>1
      <4>4. ASSUME text # <<>> PROVE IsPrice(text)
        <5>1. CASE compat.place = "rupees"
          BY <2>1, <4>1, <4>4, <5>1, RupeesArePrice DEF Reads
        <5>2. CASE compat.place = "paise"
          BY <2>1, <4>1, <5>2, DecimalsArePrice DEF Reads
        <5> QED BY <4>2, <5>1, <5>2
      <4> QED BY <4>2, <4>3, <4>4
    <3>4. IsPrice(text) => text # <<>>
      BY DEF IsPrice
    <3> QED BY <3>2, <3>3, <3>4 DEF CompatAccepts
  <2>4. /\ DecimalAccepts <=> Leading(Cut(text)) > 0 /\ WrittenPaise(Cut(text)) > 0
        /\ DecimalAccepts => InPaise(decimal) = WrittenPaise(Cut(text))
    <3>1. PICK n : /\ Reads(Cut(text), n, decimal.place, decimal.rupees, decimal.paise,
                            decimal.decimals)
                   /\ decimal.found <=> n > 0
      BY DEF SeesInv, DecimalSees
    <3>2. Cut(text) \in Seq(Char)
      BY <2>1, SubSeqProperties DEF Cut
    <3>3. Leading(Cut(text)) = n /\ InPaise(decimal) = WrittenPaise(Cut(text))
      BY <2>2, <3>1, <3>2
    <3> QED BY <3>1, <3>3 DEF DecimalAccepts
  <2>5. integer.value = Value(text, Leading(text)) % U64
    <3>1. PICK n : Begins(text, n) /\ integer.value = Value(text, n) % U64
      BY DEF SeesInv, IntegerSees
    <3> QED BY <2>1, <3>1, BeginsWithLeading
  <2> QED BY <2>3, <2>4, <2>5 DEF ReadAsWritten
<1> QED BY <1>1, SeesInvariant, PTL

----------------------------------------------------------------------------
(* A listener                                                              *)

(* What has been understood: the group of digits and the number so far,    *)
(* and what was said to be rupees, paise and a count.                      *)
State(group, total, rupees, paise, count) ==
  [group |-> group, total |-> total, rupees |-> rupees, paise |-> paise, count |-> count]

LEMMA ScaleDomain == DOMAIN Scale = {"crore", "lac", "thousand"}
BY DEF Scale

LEMMA HearNumber ==
  ASSUME NEW g, NEW t, NEW r, NEW p, NEW c, NEW n
  PROVE  HearClip(State(g, t, r, p, c), Num(n)) = State(g + n, t, r, p, c)
BY ScaleDomain DEF HearClip, State, Num

LEMMA HearHundred ==
  ASSUME NEW g, NEW t, NEW r, NEW p, NEW c
  PROVE  HearClip(State(g, t, r, p, c), Say("hundred")) = State(g * 100, t, r, p, c)
BY ScaleDomain DEF HearClip, State, Say

LEMMA HearScale ==
  ASSUME NEW g \in Nat, NEW t \in Nat, NEW r, NEW p, NEW c,
         NEW name \in {"crore", "lac", "thousand"}
  PROVE  HearClip(State(g, t, r, p, c), Say(name)) = State(0, t + g * Scale[name], r, p, c)
<1>1. name \in DOMAIN Scale
  BY DEF Scale
<1>2. name # "number" /\ name # "hundred"
  OBVIOUS
<1> QED BY <1>1, <1>2 DEF HearClip, State, Say

LEMMA HearRupees ==
  ASSUME NEW g, NEW t, NEW r, NEW p, NEW c
  PROVE  HearClip(State(g, t, r, p, c), Say("rupees")) = State(0, 0, t + g, p, c)
BY ScaleDomain DEF HearClip, State, Say, Counted

LEMMA HearPaise ==
  ASSUME NEW g, NEW t, NEW r, NEW p, NEW c
  PROVE  HearClip(State(g, t, r, p, c), Say("paise")) = State(0, 0, r, t + g, c)
BY ScaleDomain DEF HearClip, State, Say, Counted

LEMMA HearCount ==
  ASSUME NEW g, NEW t, NEW r, NEW p, NEW c,
         NEW name \in {"transaction", "transaction_s", "percent"}
  PROVE  HearClip(State(g, t, r, p, c), Say(name)) = State(0, 0, r, p, t + g)
BY ScaleDomain DEF HearClip, State, Say, Counted

(* The words around the numbers.                                           *)
Around == {"prefix", "provider", "thankyou", "and", "summary_prefix", "is", "suffix", "only",
           "battery", "battery_charging", "network_signal"}

LEMMA HearAround ==
  ASSUME NEW h, NEW name \in Around
  PROVE  HearClip(h, Say(name)) = h
BY ScaleDomain DEF HearClip, Say, Around

(* Every spelling of a clip is understood as the same.                     *)
LEMMA HearSpelling ==
  ASSUME NEW h, NEW clip, NEW i \in DOMAIN Spellings(clip.kind)
  PROVE  HearClip(h, Say(Spellings(clip.kind)[i])) = HearClip(h, clip)
<1>1. CASE clip.kind \in {"transaction", "transaction_s"}
  <2>1. Spellings(clip.kind)[i] \in {"transaction", "transaction_s", "trasnsactions"}
    BY <1>1 DEF Spellings
  <2> HIDE DEF Spellings
  <2> QED BY <1>1, <2>1, ScaleDomain DEF HearClip, Say
<1>2. CASE clip.kind = "rupees"
  <2>1. Spellings(clip.kind)[i] = "ruppes"
    BY <1>2 DEF Spellings
  <2> QED BY <1>2, <2>1, ScaleDomain DEF HearClip, Say
<1>3. CASE clip.kind \notin {"transaction", "transaction_s", "rupees"}
  BY <1>3 DEF Spellings
<1> QED BY <1>1, <1>2, <1>3

----------------------------------------------------------------------------
(* What a listener makes of a sequence of clips                            *)

Sound == {Num(n) : n \in Nat} \cup {Say(name) : name \in Word \cup {"suffix", "only"}}

Runs(g, h, s) == g[0] = h /\ \A i \in 1 .. Len(s) : g[i] = HearClip(g[i - 1], s[i])

(* At most m clips lead a listener from h to k.                            *)
Leads(h, s, k, m) == /\ s \in Seq(Sound) /\ Len(s) <= m
                     /\ \E g : Runs(g, h, s) /\ g[Len(s)] = k

LEMMA NoClip == ASSUME NEW h, NEW m \in Nat PROVE Leads(h, <<>>, h, m)
<1> DEFINE g == [i \in {0} |-> h]
<1>1. Runs(g, h, <<>>) /\ g[0] = h
  BY DEF Runs
<1> HIDE DEF g
<1> QED BY <1>1 DEF Leads

LEMMA AClip ==
  ASSUME NEW h, NEW clip \in Sound
  PROVE  Leads(h, <<clip>>, HearClip(h, clip), 1)
<1> DEFINE g == [i \in 0 .. 1 |-> IF i = 0 THEN h ELSE HearClip(h, clip)]
<1>1. Runs(g, h, <<clip>>) /\ g[1] = HearClip(h, clip)
  BY DEF Runs
<1> HIDE DEF g
<1> QED BY <1>1 DEF Leads

LEMMA AWord ==
  ASSUME NEW h, NEW name \in Word \cup {"suffix", "only"}
  PROVE  Leads(h, <<Say(name)>>, HearClip(h, Say(name)), 1)
BY AClip DEF Sound

LEMMA ANumeral ==
  ASSUME NEW g, NEW t, NEW r, NEW p, NEW c, NEW n \in Nat
  PROVE  Leads(State(g, t, r, p, c), <<Num(n)>>, State(g + n, t, r, p, c), 1)
<1>1. Num(n) \in Sound
  BY DEF Sound
<1> QED BY <1>1, AClip, HearNumber

LEMMA Then ==
  ASSUME NEW h, NEW s, NEW k, NEW m \in Nat, Leads(h, s, k, m),
         NEW t, NEW l, NEW n \in Nat, Leads(k, t, l, n)
  PROVE  Leads(h, s \o t, l, m + n)
<1>1. /\ s \in Seq(Sound) /\ t \in Seq(Sound) /\ Len(s) \in Nat /\ Len(t) \in Nat
      /\ Len(s) <= m /\ Len(t) <= n
  BY DEF Leads
<1>2. /\ s \o t \in Seq(Sound) /\ Len(s \o t) = Len(s) + Len(t)
      /\ \A i \in 1 .. Len(s) : (s \o t)[i] = s[i]
      /\ \A i \in 1 .. Len(t) : (s \o t)[Len(s) + i] = t[i]
  BY <1>1, ConcatProperties
<1>3. PICK f : Runs(f, h, s) /\ f[Len(s)] = k
  BY DEF Leads
<1>4. PICK g : Runs(g, k, t) /\ g[Len(t)] = l
  BY DEF Leads
<1> DEFINE e == [i \in 0 .. Len(s) + Len(t) |-> IF i <= Len(s) THEN f[i] ELSE g[i - Len(s)]]
           u == s \o t
<1>5. e[0] = h /\ e[Len(u)] = l
  <2>1. e[0] = h
    BY <1>1, <1>3 DEF Runs
  <2>2. e[Len(s) + Len(t)] = l
    <3>1. CASE Len(t) = 0
      BY <1>1, <1>3, <1>4, <3>1 DEF Runs
    <3>2. CASE Len(t) # 0
      BY <1>1, <1>4, <3>2
    <3> QED BY <3>1, <3>2
  <2> HIDE DEF e
  <2> QED BY <1>2, <2>1, <2>2
<1>6. ASSUME NEW i \in 1 .. Len(u) PROVE e[i] = HearClip(e[i - 1], u[i])
  <2>1. i \in 1 .. Len(s) + Len(t) /\ i - 1 \in 0 .. Len(s) + Len(t)
    BY <1>1, <1>2
  <2>2. CASE i <= Len(s)
    <3>1. e[i] = f[i] /\ e[i - 1] = f[i - 1] /\ i \in 1 .. Len(s)
      BY <1>1, <2>1, <2>2
    <3>2. f[i] = HearClip(f[i - 1], s[i]) /\ u[i] = s[i]
      BY <1>2, <1>3, <3>1 DEF Runs
    <3> HIDE DEF e, u
    <3> QED BY <3>1, <3>2
  <2>3. CASE i > Len(s)
    <3> DEFINE j == i - Len(s)
    <3>1. j \in 1 .. Len(t) /\ i = Len(s) + j /\ e[i] = g[j]
      BY <1>1, <2>1, <2>3
    <3>2. e[i - 1] = g[j - 1]
      <4>1. CASE j = 1
        <5>1. i - 1 = Len(s)
          BY <1>1, <3>1, <4>1
        <5>2. e[i - 1] = f[Len(s)]
          BY <1>1, <2>1, <5>1
        <5> HIDE DEF e, j
        <5> QED BY <1>3, <1>4, <4>1, <5>2 DEF Runs
      <4>2. CASE j # 1
        <5>1. i - 1 > Len(s) /\ i - 1 - Len(s) = j - 1
          BY <1>1, <2>1, <2>3, <3>1, <4>2
        <5>2. e[i - 1] = g[i - 1 - Len(s)]
          BY <1>1, <2>1, <5>1
        <5> HIDE DEF e, j
        <5> QED BY <5>1, <5>2
      <4> HIDE DEF e, j
      <4> QED BY <4>1, <4>2
    <3> HIDE DEF j
    <3>3. g[j] = HearClip(g[j - 1], t[j]) /\ u[i] = t[j]
      BY <1>2, <1>4, <3>1 DEF Runs
    <3> HIDE DEF e, u
    <3> QED BY <3>1, <3>2, <3>3
  <2> QED BY <1>1, <2>1, <2>2, <2>3
<1> HIDE DEF e, u
<1>7. Runs(e, h, u)
  BY <1>5, <1>6 DEF Runs
<1>8. u \in Seq(Sound) /\ Len(u) <= m + n
  BY <1>1, <1>2 DEF u
<1>9. Leads(h, u, l, m + n)
  BY <1>5, <1>7, <1>8 DEF Leads
<1> QED BY <1>9 DEF u

(* There is one thing to be understood.                                    *)
LEMMA HeardIsRun ==
  ASSUME NEW s, Len(s) \in Nat, NEW g, Runs(g, Silence, s)
  PROVE  Heard(s) = g[Len(s)]
<1> DEFINE f == [i \in 0 .. Len(s) |-> g[i]]
           h == CHOOSE e : e = [i \in 0 .. Len(s) |-> IF i = 0 THEN Silence ELSE HearClip(e[i - 1], s[i])]
<1>1. Heard(s) = h[Len(s)]
  BY DEF Heard
<1>2. f = [i \in 0 .. Len(s) |-> IF i = 0 THEN Silence ELSE HearClip(f[i - 1], s[i])]
  <2>1. ASSUME NEW i \in 0 .. Len(s)
        PROVE  f[i] = IF i = 0 THEN Silence ELSE HearClip(f[i - 1], s[i])
    <3>1. CASE i = 0
      BY <3>1 DEF Runs
    <3>2. CASE i # 0
      <4>1. i \in 1 .. Len(s) /\ f[i] = g[i] /\ f[i - 1] = g[i - 1]
        BY <3>2
      <4>2. g[i] = HearClip(g[i - 1], s[i])
        BY <4>1 DEF Runs
      <4> HIDE DEF f
      <4> QED BY <3>2, <4>1, <4>2
    <3> QED BY <3>1, <3>2
  <2>2. f = [i \in 0 .. Len(s) |-> f[i]]
    OBVIOUS
  <2> HIDE DEF f
  <2> QED BY <2>1, <2>2
<1> HIDE DEF f
<1>3. h = [i \in 0 .. Len(s) |-> IF i = 0 THEN Silence ELSE HearClip(h[i - 1], s[i])]
  BY <1>2
<1> HIDE DEF h
<1>4. \A i \in 0 .. Len(s) : h[i] = IF i = 0 THEN Silence ELSE HearClip(h[i - 1], s[i])
  BY <1>3
<1> DEFINE S == {i \in 0 .. Len(s) : h[i] = g[i]}
<1>5. 0 \in S
  BY <1>4 DEF Runs
<1>6. ASSUME NEW i \in 1 .. Len(s), i - 1 \in S
      PROVE  i \in S
  <2>1. g[i] = HearClip(g[i - 1], s[i])
    BY DEF Runs
  <2>2. h[i] = HearClip(h[i - 1], s[i])
    BY <1>4
  <2>3. h[i - 1] = g[i - 1]
    BY <1>6
  <2> QED BY <2>1, <2>2, <2>3
<1> HIDE DEF S
<1>7. 0 .. Len(s) \subseteq S
  BY <1>5, <1>6, UpTo
<1>8. Len(s) \in S
  BY <1>7
<1> QED BY <1>1, <1>8 DEF S

(* The same clips spelled as the pack has them.                            *)
LEMMA ResolvesTo ==
  ASSUME NEW lang \in Language, NEW clip \in Vocabulary(lang), NEW h
  PROVE  HearClip(h, Resolve(lang, clip).clip) = HearClip(h, clip)
<1> DEFINE others == Spellings(clip.kind)
           own    == [lang |-> lang, clip |-> clip]
           middle == [i \in DOMAIN others |-> [lang |-> lang, clip |-> Say(others[i])]]
           last   == [lang |-> "en", clip |-> clip]
           cs     == <<own>> \o middle \o <<last>>
           first  == CHOOSE i \in DOMAIN cs : InPack(cs[i]) /\ \A j \in 1 .. i - 1 : ~InPack(cs[j])
<1>1. Resolve(lang, clip) = cs[first] /\ Candidates(lang, clip) = cs
  BY DEF Resolve, Candidates
<1>2. DOMAIN others = 1 .. Len(others) /\ Len(others) \in Nat
  <2>1. others \in Seq(Spelling)
    BY SpellingsType
  <2> HIDE DEF others
  <2> QED BY <2>1
<1>3. \A i \in DOMAIN others : HearClip(h, Say(others[i])) = HearClip(h, clip)
  BY HearSpelling
<1> HIDE DEF others
<1> DEFINE S == {own, last} \cup {middle[i] : i \in DOMAIN others}
<1>4. middle \in Seq(S) /\ Len(middle) = Len(others)
  BY <1>2
<1>5. <<own>> \in Seq(S) /\ <<last>> \in Seq(S)
  OBVIOUS
<1>6. \A x \in S : HearClip(h, x.clip) = HearClip(h, clip)
  BY <1>3
<1> HIDE DEF own, middle, last, S
<1>7. <<own>> \o middle \in Seq(S)
  BY <1>4, <1>5, ConcatProperties
<1>8. cs \in Seq(S)
  BY <1>5, <1>7, ConcatProperties
<1> HIDE DEF cs
<1>9. \E i \in DOMAIN cs : InPack(cs[i])
  BY <1>1, VocabularyIsFound DEF Found
<1>10. first \in DOMAIN cs
  <2> DEFINE I == {i \in DOMAIN cs : InPack(cs[i])}
  <2>1. I \in SUBSET Nat /\ I # {}
    BY <1>8, <1>9
  <2>2. PICK i \in I : \A j \in I : i =< j
    <3> HIDE DEF I
    <3> QED BY <2>1, LeastMember
  <2>3. ASSUME NEW j \in 1 .. i - 1 PROVE ~InPack(cs[j])
    <3>1. i \in 1 .. Len(cs) /\ Len(cs) \in Nat
      BY <1>8, <2>2
    <3>2. j \in DOMAIN cs /\ ~(i =< j)
      BY <1>8, <3>1
    <3> QED BY <2>2, <3>2
  <2> QED BY <2>2, <2>3
<1> HIDE DEF first
<1>11. cs[first] \in S
  BY <1>8, <1>10
<1> QED BY <1>1, <1>6, <1>11

LEMMA HeardWhenPlayed ==
  ASSUME NEW lang \in Language, NEW s \in Seq(Vocabulary(lang)),
         NEW k, NEW m, Leads(Silence, s, k, m)
  PROVE  Heard(Played(lang, s)) = k
<1> DEFINE u == Played(lang, s)
<1>1. PICK g : Runs(g, Silence, s) /\ g[Len(s)] = k
  BY DEF Leads
<1>2. DOMAIN s = 1 .. Len(s) /\ Len(s) \in Nat /\ Len(u) = Len(s)
  BY DEF Played
<1>3. ASSUME NEW i \in 1 .. Len(s) PROVE g[i] = HearClip(g[i - 1], u[i])
  <2>1. s[i] \in Vocabulary(lang)
    BY <1>2
  <2>2. u[i] = Resolve(lang, s[i]).clip
    BY <1>2, <2>1, VocabularyIsFound DEF Played
  <2>3. g[i] = HearClip(g[i - 1], s[i])
    BY <1>1 DEF Runs
  <2> HIDE DEF u
  <2> QED BY <2>1, <2>2, <2>3, ResolvesTo
<1> HIDE DEF u
<1>4. Runs(g, Silence, u)
  BY <1>1, <1>2, <1>3 DEF Runs
<1>5. Heard(u) = g[Len(u)]
  BY <1>2, <1>4, HeardIsRun
<1> QED BY <1>1, <1>2, <1>5 DEF u

----------------------------------------------------------------------------
(* Numbers                                                                 *)

LEMMA HearUnder100 ==
  ASSUME NEW g \in Nat, NEW t, NEW r, NEW p, NEW c, NEW n \in 0 .. 99
  PROVE  Leads(State(g, t, r, p, c), Under100(n), State(g + n, t, r, p, c), 2)
<1> DEFINE h == State(g, t, r, p, c)
<1>1. CASE n = 0
  <2>1. Under100(n) = <<>> /\ g + n = g
    BY <1>1 DEF Under100
  <2> QED BY <2>1, NoClip
<1>2. CASE n \in 1 .. 20
  <2>1. Under100(n) = <<Num(n)>>
    BY <1>2 DEF Under100
  <2>2. Leads(h, <<Num(n)>>, State(g + n, t, r, p, c), 1)
    BY ANumeral
  <2> QED BY <2>1, <2>2 DEF Leads
<1>3. CASE n \in 21 .. 99
  <2> DEFINE tens == (n \div 10) * 10
             k    == State(g + tens, t, r, p, c)
             ones == IF n % 10 = 0 THEN <<>> ELSE <<Num(n % 10)>>
  <2>1. Under100(n) = <<Num(tens)>> \o ones
    BY <1>3 DEF Under100
  <2>2. tens \in Nat /\ n % 10 \in Nat /\ tens + (n % 10) = n
    BY <1>3
  <2>3. Leads(h, <<Num(tens)>>, k, 1)
    <3> HIDE DEF tens
    <3> QED BY <2>2, ANumeral
  <2>4. Leads(k, ones, State(g + n, t, r, p, c), 1)
    <3>1. CASE n % 10 = 0
      <4>1. ones = <<>> /\ g + tens = g + n
        BY <2>2, <3>1
      <4>2. k = State(g + n, t, r, p, c)
        BY <4>1
      <4> HIDE DEF tens, k, ones
      <4> QED BY <4>1, <4>2, NoClip
    <3>2. CASE n % 10 # 0
      <4>1. ones = <<Num(n % 10)>> /\ g + tens \in Nat /\ g + tens + (n % 10) = g + n
        BY <2>2, <3>2
      <4>2. Leads(k, <<Num(n % 10)>>, State(g + tens + (n % 10), t, r, p, c), 1)
        BY <2>2, ANumeral
      <4> HIDE DEF tens, k, ones
      <4> QED BY <4>1, <4>2
    <3> QED BY <3>1, <3>2
  <2> HIDE DEF tens, k, ones
  <2>5. Leads(h, <<Num(tens)>> \o ones, State(g + n, t, r, p, c), 1 + 1)
    BY <2>3, <2>4, Then
  <2> QED BY <2>1, <2>5
<1> QED BY <1>1, <1>2, <1>3

LEMMA HearUnder1000 ==
  ASSUME NEW t, NEW r, NEW p, NEW c, NEW n \in 0 .. 999
  PROVE  Leads(State(0, t, r, p, c), Under1000(n), State(n, t, r, p, c), 4)
<1> DEFINE h == State(0, t, r, p, c)
           q == n \div 100
           hundreds == IF q = 0 THEN <<>> ELSE <<Num(q), Say("hundred")>>
           k == State(q * 100, t, r, p, c)
<1>1. q \in 0 .. 9 /\ n % 100 \in 0 .. 99 /\ q * 100 + (n % 100) = n /\ q * 100 \in Nat
  OBVIOUS
<1>2. Leads(h, hundreds, k, 2)
  <2>1. CASE q = 0
    <3>1. hundreds = <<>> /\ k = h
      BY <2>1
    <3> HIDE DEF hundreds, k, h, q
    <3> QED BY <3>1, NoClip
  <2>2. CASE q # 0
    <3>1. Leads(h, <<Num(q)>>, State(0 + q, t, r, p, c), 1)
      BY <1>1, ANumeral
    <3>2. Leads(State(0 + q, t, r, p, c), <<Say("hundred")>>, State((0 + q) * 100, t, r, p, c), 1)
      BY AWord, HearHundred DEF Word
    <3>3. Leads(h, <<Num(q)>> \o <<Say("hundred")>>, State((0 + q) * 100, t, r, p, c), 1 + 1)
      BY <3>1, <3>2, Then
    <3>4. hundreds = <<Num(q)>> \o <<Say("hundred")>> /\ (0 + q) * 100 = q * 100
      BY <1>1, <2>2
    <3> HIDE DEF hundreds, h, q
    <3> QED BY <3>3, <3>4
  <2> QED BY <2>1, <2>2
<1>3. Leads(k, Under100(n % 100), State(q * 100 + (n % 100), t, r, p, c), 2)
  BY <1>1, HearUnder100
<1>4. Under1000(n) = hundreds \o Under100(n % 100)
  BY DEF Under1000
<1> HIDE DEF hundreds, k, q
<1>5. Leads(h, hundreds \o Under100(n % 100), State(q * 100 + (n % 100), t, r, p, c), 2 + 2)
  BY <1>2, <1>3, Then
<1> QED BY <1>1, <1>4, <1>5

LEMMA HearGroup ==
  ASSUME NEW t \in Nat, NEW r, NEW p, NEW c, NEW n \in 0 .. 99,
         NEW name \in {"crore", "lac", "thousand"}
  PROVE  Leads(State(0, t, r, p, c), Group(n, name), State(0, t + n * Scale[name], r, p, c), 3)
<1>1. Scale[name] \in Nat
  BY DEF Scale
<1>2. CASE n = 0
  <2>1. n * Scale[name] = 0 /\ t + 0 = t
    BY <1>1, <1>2
  <2>2. Group(n, name) = <<>>
    BY <1>2 DEF Group
  <2> QED BY <2>1, <2>2, NoClip
<1>3. CASE n # 0
  <2>1. Leads(State(0, t, r, p, c), Under100(n), State(0 + n, t, r, p, c), 2)
    BY HearUnder100
  <2>2. Leads(State(n, t, r, p, c), <<Say(name)>>, State(0, t + n * Scale[name], r, p, c), 1)
    <3>1. name \in Word
      BY DEF Word
    <3>2. HearClip(State(n, t, r, p, c), Say(name)) = State(0, t + n * Scale[name], r, p, c)
      BY n \in Nat, HearScale
    <3>3. Leads(State(n, t, r, p, c), <<Say(name)>>, HearClip(State(n, t, r, p, c), Say(name)), 1)
      BY <3>1, AWord
    <3> QED BY <3>2, <3>3
  <2>3. 0 + n = n
    OBVIOUS
  <2>4. Leads(State(0, t, r, p, c), Under100(n) \o <<Say(name)>>,
              State(0, t + n * Scale[name], r, p, c), 2 + 1)
    BY <2>1, <2>2, <2>3, Then
  <2> QED BY <1>3, <2>4 DEF Group
<1> QED BY <1>2, <1>3

(* The digits of a number of rupees, taken crore by crore.                 *)
LEMMA CroresAndLess ==
  ASSUME NEW n \in Nat, n <= 999999999
  PROVE  /\ n \div 10000000 \in 0 .. 99 /\ n % 10000000 \in Nat /\ n % 10000000 < 10000000
         /\ n = (n \div 10000000) * 10000000 + (n % 10000000)
         /\ n % 100000 = (n % 10000000) % 100000
         /\ n % 1000 = (n % 100000) % 1000
<1>1. n \div 10000000 \in 0 .. 99 /\ n % 10000000 \in Nat /\ n % 10000000 < 10000000
  BY SMT
<1>2. n = (n \div 10000000) * 10000000 + (n % 10000000)
  BY SMT
<1>3. n % 100000 = (n % 10000000) % 100000
  BY SMT
<1>4. n % 1000 = (n % 100000) % 1000
  BY SMT
<1> QED BY ONLY <1>1, <1>2, <1>3, <1>4

LEMMA LakhsAndLess ==
  ASSUME NEW x \in Nat, x < 10000000
  PROVE  /\ x \div 100000 \in 0 .. 99 /\ x % 100000 \in Nat /\ x % 100000 < 100000
         /\ x = (x \div 100000) * 100000 + (x % 100000)
<1>1. x \div 100000 \in 0 .. 99 /\ x % 100000 \in Nat /\ x % 100000 < 100000
  BY SMT
<1>2. x = (x \div 100000) * 100000 + (x % 100000)
  BY SMT
<1> QED BY ONLY <1>1, <1>2

LEMMA ThousandsAndLess ==
  ASSUME NEW y \in Nat, y < 100000
  PROVE  /\ y \div 1000 \in 0 .. 99 /\ y % 1000 \in 0 .. 999
         /\ y = (y \div 1000) * 1000 + (y % 1000)
<1>1. y \div 1000 \in 0 .. 99 /\ y % 1000 \in 0 .. 999
  BY SMT
<1>2. y = (y \div 1000) * 1000 + (y % 1000)
  BY SMT
<1> QED BY ONLY <1>1, <1>2

LEMMA HearWhole ==
  ASSUME NEW r, NEW p, NEW c, NEW n \in Nat \ {0}, Sayable(n)
  PROVE  \E t, u \in Nat : /\ t + u = n
                           /\ Leads(State(0, 0, r, p, c), Number(n), State(u, t, r, p, c), 13)
<1> DEFINE cr == n \div 10000000
           la == (n % 10000000) \div 100000
           th == (n % 100000) \div 1000
           un == n % 1000
           crores    == Group(cr, "crore")
           lakhs     == Group(la, "lac")
           thousands == Group(th, "thousand")
<1>1. n \in Nat /\ 1 <= n /\ n <= 999999999
  BY SMT DEF Sayable, MaxRupees
<1>2. /\ cr \in 0 .. 99 /\ la \in 0 .. 99 /\ th \in 0 .. 99 /\ un \in 0 .. 999
      /\ cr * 10000000 + la * 100000 + th * 1000 + un = n
  <2> DEFINE x == n % 10000000
             y == n % 100000
  <2>1. /\ cr \in 0 .. 99 /\ x \in Nat /\ x < 10000000
        /\ n = cr * 10000000 + x /\ y = x % 100000 /\ un = y % 1000
    BY <1>1, CroresAndLess, SMT
  <2> HIDE DEF cr, x, un
  <2>2. /\ la \in 0 .. 99 /\ y \in Nat /\ y < 100000 /\ x = la * 100000 + y
    BY <2>1, LakhsAndLess, SMT
  <2> HIDE DEF y, la
  <2>3. /\ th \in 0 .. 99 /\ un \in 0 .. 999 /\ y = th * 1000 + un
    BY <2>1, <2>2, ThousandsAndLess, SMT
  <2> HIDE DEF th
  <2> QED BY ONLY <2>1, <2>2, <2>3, SMT
<1>3. Number(n) = crores \o lakhs \o thousands \o Under1000(un)
  BY <1>1, SMT DEF Number
<1>4. Scale["crore"] = 10000000 /\ Scale["lac"] = 100000 /\ Scale["thousand"] = 1000
  BY DEF Scale
<1> HIDE DEF cr, la, th, un
<1> DEFINE a == cr * 10000000
           b == a + la * 100000
           d == b + th * 1000
<1>5. a \in Nat /\ b \in Nat /\ d \in Nat /\ 0 + a = a /\ d + un = n
  BY <1>2
<1>6. Leads(State(0, 0, r, p, c), crores, State(0, a, r, p, c), 3)
  <2>1. Leads(State(0, 0, r, p, c), crores, State(0, 0 + cr * Scale["crore"], r, p, c), 3)
    BY <1>2, HearGroup
  <2>2. 0 + cr * Scale["crore"] = a
    BY <1>2, <1>4
  <2> QED BY <2>1, <2>2
<1>7. Leads(State(0, a, r, p, c), lakhs, State(0, b, r, p, c), 3)
  <2>1. Leads(State(0, a, r, p, c), lakhs, State(0, a + la * Scale["lac"], r, p, c), 3)
    <3> HIDE DEF a
    <3> QED BY <1>2, <1>5, HearGroup
  <2>2. a + la * Scale["lac"] = b
    BY <1>2, <1>4
  <2> QED BY <2>1, <2>2
<1>8. Leads(State(0, b, r, p, c), thousands, State(0, d, r, p, c), 3)
  <2>1. Leads(State(0, b, r, p, c), thousands, State(0, b + th * Scale["thousand"], r, p, c), 3)
    <3> HIDE DEF b
    <3> QED BY <1>2, <1>5, HearGroup
  <2>2. b + th * Scale["thousand"] = d
    BY <1>2, <1>4
  <2> QED BY <2>1, <2>2
<1>9. Leads(State(0, d, r, p, c), Under1000(un), State(un, d, r, p, c), 4)
  BY <1>2, HearUnder1000
<1> HIDE DEF crores, lakhs, thousands, a, b, d
<1>10. Leads(State(0, 0, r, p, c), crores \o lakhs, State(0, b, r, p, c), 3 + 3)
  BY <1>6, <1>7, Then
<1>11. Leads(State(0, 0, r, p, c), crores \o lakhs \o thousands, State(0, d, r, p, c), 6 + 3)
  BY <1>8, <1>10, Then
<1>12. Leads(State(0, 0, r, p, c), crores \o lakhs \o thousands \o Under1000(un),
             State(un, d, r, p, c), 9 + 4)
  BY <1>9, <1>11, Then
<1>13. un \in Nat
  BY <1>2
<1> QED BY <1>3, <1>5, <1>12, <1>13

(* A number and what it is of.                                             *)
LEMMA HearNumberOf ==
  ASSUME NEW r, NEW p, NEW c, NEW n \in Nat \ {0}, Sayable(n)
  PROVE  /\ Leads(State(0, 0, r, p, c), Number(n) \o <<Say("rupees")>>, State(0, 0, n, p, c), 14)
         /\ Leads(State(0, 0, r, p, c), Number(n) \o <<Say("paise")>>, State(0, 0, r, n, c), 14)
         /\ \A name \in {"transaction", "transaction_s", "percent"} :
              Leads(State(0, 0, r, p, c), Number(n) \o <<Say(name)>>, State(0, 0, r, p, n), 14)
<1>1. PICK t, u \in Nat : /\ t + u = n
                          /\ Leads(State(0, 0, r, p, c), Number(n), State(u, t, r, p, c), 13)
  BY HearWhole
<1>2. Leads(State(u, t, r, p, c), <<Say("rupees")>>, State(0, 0, n, p, c), 1)
  BY <1>1, AWord, HearRupees DEF Word
<1>3. Leads(State(u, t, r, p, c), <<Say("paise")>>, State(0, 0, r, n, c), 1)
  BY <1>1, AWord, HearPaise DEF Word
<1>4. ASSUME NEW name \in {"transaction", "transaction_s", "percent"}
      PROVE  Leads(State(u, t, r, p, c), <<Say(name)>>, State(0, 0, r, p, n), 1)
  <2>1. name \in Word
    BY DEF Word
  <2> QED BY <1>1, <2>1, AWord, HearCount
<1>5. ASSUME NEW s, NEW k, Leads(State(u, t, r, p, c), s, k, 1)
      PROVE  Leads(State(0, 0, r, p, c), Number(n) \o s, k, 14)
  <2>1. Leads(State(0, 0, r, p, c), Number(n) \o s, k, 13 + 1)
    BY <1>1, <1>5, Then
  <2> QED BY <2>1
<1> QED BY <1>2, <1>3, <1>4, <1>5

----------------------------------------------------------------------------
(* Scripts                                                                 *)

LEMMA UnderstoodIs ==
  ASSUME NEW count, NEW amount
  PROVE  /\ Understood(count, amount) = State(0, 0, Rupees(amount), Paise(amount), count)
         /\ Silence = State(0, 0, 0, 0, 0)
<1> DEFINE x == [Silence EXCEPT !.rupees = Rupees(amount)]
           y == [x EXCEPT !.paise = Paise(amount)]
<1>1. x = State(0, 0, Rupees(amount), 0, 0) /\ Silence = State(0, 0, 0, 0, 0)
  BY DEF Silence, State
<1>2. Understood(count, amount) = [y EXCEPT !.count = count]
  BY DEF Understood
<1> HIDE DEF x
<1>3. y = State(0, 0, Rupees(amount), Paise(amount), 0)
  BY <1>1 DEF State
<1> HIDE DEF y
<1> QED BY <1>1, <1>2, <1>3 DEF State

LEMMA AWordAround ==
  ASSUME NEW h, NEW name \in Around
  PROVE  Leads(h, <<Say(name)>>, h, 1)
<1>1. name \in Word \cup {"suffix", "only"}
  BY DEF Around, Word
<1> QED BY <1>1, AWord, HearAround

LEMMA HearSuffix == ASSUME NEW h, NEW lang PROVE Leads(h, Suffix(lang), h, 1)
<1>1. Suffix(lang) \in {<<>>, <<Say("suffix")>>}
  BY DEF Suffix
<1>2. Leads(h, <<Say("suffix")>>, h, 1)
  BY AWordAround DEF Around
<1> QED BY <1>1, <1>2, NoClip

LEMMA HearAmount ==
  ASSUME NEW a, Spoken(a), NEW c
  PROVE  Leads(State(0, 0, 0, 0, c), RupeesAndPaise(a), State(0, 0, Rupees(a), Paise(a), c), 29)
<1> DEFINE whole == Number(Rupees(a)) \o <<Say("rupees")>>
           said  == Number(Paise(a)) \o <<Say("paise")>>
           more  == IF Paise(a) = 0 THEN <<>> ELSE <<Say("and")>> \o Number(Paise(a)) \o <<Say("paise")>>
           h == State(0, 0, Rupees(a), 0, c)
           k == State(0, 0, Rupees(a), Paise(a), c)
<1>1. Leads(State(0, 0, 0, 0, c), whole, h, 14)
  BY SpokenParts, HearNumberOf
<1>2. Leads(h, more, k, 15)
  <2>1. CASE Paise(a) = 0
    <3>1. more = <<>> /\ h = k
      BY <2>1
    <3> HIDE DEF more, h, k
    <3> QED BY <3>1, NoClip
  <2>2. CASE Paise(a) # 0
    <3>1. Paise(a) \in Nat \ {0} /\ Sayable(Paise(a))
      BY <2>2, SpokenParts, SMT DEF Sayable, MaxRupees
    <3>2. Leads(h, said, k, 14)
      BY <3>1, HearNumberOf
    <3>3. Leads(h, <<Say("and")>>, h, 1)
      BY AWordAround DEF Around
    <3>4. more = <<Say("and")>> \o said
      <4>1. Part("en", Number(Paise(a)), 13)
        BY <3>1, NumberPart
      <4>2. Part("en", <<Say("and")>>, 1) /\ Part("en", <<Say("paise")>>, 1)
        BY Worded DEF Word
      <4>3. ASSUME NEW S, NEW x \in Seq(S), NEW y \in Seq(S), NEW z \in Seq(S)
            PROVE  x \o y \o z = x \o (y \o z)
        BY ConcatAssociative
      <4>4. <<Say("and")>> \o Number(Paise(a)) \o <<Say("paise")>> = <<Say("and")>> \o said
        BY <4>1, <4>2, <4>3 DEF Part
      <4> QED BY <2>2, <4>4
    <3> HIDE DEF more, h, k, said
    <3>5. Leads(h, <<Say("and")>> \o said, k, 1 + 14)
      BY <3>2, <3>3, Then
    <3> QED BY <3>4, <3>5
  <2> QED BY <2>1, <2>2
<1>3. RupeesAndPaise(a) = whole \o more
  BY DEF RupeesAndPaise
<1> HIDE DEF whole, more, h, k
<1>4. Leads(State(0, 0, 0, 0, c), whole \o more, k, 14 + 15)
  BY <1>1, <1>2, Then
<1> QED BY <1>3, <1>4 DEF k

LEMMA HearTransaction ==
  ASSUME NEW lang, NEW a, Spoken(a)
  PROVE  Leads(Silence, Transaction(lang, "other", a), Understood(0, a), 33)
<1> DEFINE amount == RupeesAndPaise(a)
           who    == <<ProviderClip("other")>>
           middle == IF lang = "en" THEN amount \o who ELSE who \o amount \o Suffix(lang)
           k      == Understood(0, a)
<1>1. Leads(Silence, amount, k, 29)
  BY HearAmount, UnderstoodIs
<1>2. \A h : Leads(h, <<Say("prefix")>>, h, 1) /\ Leads(h, <<Say("thankyou")>>, h, 1)
  BY AWordAround DEF Around
<1>3. \A h : Leads(h, who, h, 1)
  <2>1. who = <<Say("provider")>>
    BY DEF ProviderClip
  <2> QED BY <2>1, AWordAround DEF Around
<1>4. Transaction(lang, "other", a) = <<Say("prefix")>> \o middle \o <<Say("thankyou")>>
  BY DEF Transaction
<1>5. Leads(Silence, middle, k, 31)
  <2> HIDE DEF amount, who, k
  <2>1. CASE lang = "en"
    <3>1. Leads(Silence, amount \o who, k, 29 + 1)
      BY <1>1, <1>3, Then
    <3> QED BY <2>1, <3>1 DEF Leads
  <2>2. CASE lang # "en"
    <3>1. Leads(Silence, who \o amount, k, 1 + 29)
      BY <1>1, <1>3, Then
    <3>2. Leads(k, Suffix(lang), k, 1) /\ 1 + 29 = 30 /\ 30 + 1 = 31
      BY HearSuffix
    <3>3. Leads(Silence, who \o amount \o Suffix(lang), k, 30 + 1)
      BY <3>1, <3>2, Then
    <3> QED BY <2>2, <3>2, <3>3
  <2> QED BY <2>1, <2>2
<1> HIDE DEF middle, k
<1>6. Leads(Silence, <<Say("prefix")>> \o middle, k, 1 + 31)
  BY <1>2, <1>5, Then
<1>7. Leads(k, <<Say("thankyou")>>, k, 1) /\ 1 + 31 = 32 /\ 32 + 1 = 33
  BY <1>2
<1>8. Leads(Silence, <<Say("prefix")>> \o middle \o <<Say("thankyou")>>, k, 32 + 1)
  BY <1>6, <1>7, Then
<1> QED BY <1>4, <1>7, <1>8 DEF k

LEMMA HearSummary ==
  ASSUME NEW lang, NEW n \in Nat \ {0}, Sayable(n), NEW a, Spoken(a)
  PROVE  Leads(Silence, DailySummary(lang, n, a), Understood(n, a), 46)
<1> DEFINE amount == RupeesAndPaise(a)
           number == Number(n)
           what   == <<Transactions(n)>>
           begin  == <<Say("summary_prefix"), Say("is")>>
           k      == Understood(n, a)
<1>1. \A h : Leads(h, <<Say("summary_prefix")>>, h, 1) /\ Leads(h, <<Say("is")>>, h, 1)
  BY AWordAround DEF Around
<1>2. \A r, p : Leads(State(0, 0, r, p, 0), number \o what, State(0, 0, r, p, n), 14)
  <2>1. \E name \in {"transaction", "transaction_s", "percent"} : what = <<Say(name)>>
    BY DEF Transactions
  <2> HIDE DEF what
  <2> QED BY <2>1, HearNumberOf
<1>3. Part(lang, number, 13) /\ Part(lang, what, 1) /\ Part(lang, amount, 29)
  <2>1. Part(lang, <<Say("transaction")>>, 1) /\ Part(lang, <<Say("transaction_s")>>, 1)
    BY Worded DEF Word
  <2> QED BY <2>1, AmountPart, NumberPart DEF Transactions
<1>4. ASSUME NEW S, NEW x \in Seq(S), NEW y \in Seq(S), NEW z \in Seq(S)
      PROVE  x \o y \o z = x \o (y \o z)
  BY ConcatAssociative
<1>5. CASE lang = "en"
  <2>1. begin = <<Say("summary_prefix")>> \o <<Say("is")>>
    OBVIOUS
  <2>2. DailySummary(lang, n, a) = begin \o amount \o number \o what
    BY <1>5 DEF DailySummary
  <2>3. Leads(Silence, amount, State(0, 0, Rupees(a), Paise(a), 0), 29)
    BY HearAmount, UnderstoodIs
  <2>4. k = State(0, 0, Rupees(a), Paise(a), n)
    BY UnderstoodIs
  <2>5. Part(lang, begin \o amount, 2 + 29)
    <3>1. Part(lang, begin, 1 + 1)
      <4>1. Part(lang, <<Say("summary_prefix")>>, 1) /\ Part(lang, <<Say("is")>>, 1)
        BY Worded DEF Word
      <4> HIDE DEF begin
      <4> QED BY <2>1, <4>1, Join
    <3> HIDE DEF begin, amount
    <3> QED BY <1>3, <3>1, Join
  <2> HIDE DEF amount, number, what, begin, k
  <2>6. Leads(Silence, begin, Silence, 1 + 1)
    BY <1>1, <2>1, Then
  <2>7. Leads(Silence, begin \o amount, State(0, 0, Rupees(a), Paise(a), 0), 2 + 29)
    BY <2>3, <2>6, Then
  <2>8. Leads(State(0, 0, Rupees(a), Paise(a), 0), number \o what, k, 14) /\ 2 + 29 = 31
    BY <1>2, <2>4
  <2>9. Leads(Silence, (begin \o amount) \o (number \o what), k, 31 + 14)
    BY <2>7, <2>8, Then
  <2>10. begin \o amount \o number \o what = (begin \o amount) \o (number \o what)
    <3> DEFINE x == begin \o amount
    <3>1. x \in Seq(Vocabulary(lang)) /\ number \in Seq(Vocabulary(lang)) /\ what \in Seq(Vocabulary(lang))
      BY <1>3, <2>5 DEF Part
    <3> HIDE DEF x
    <3>2. x \o number \o what = x \o (number \o what)
      BY <1>4, <3>1
    <3> QED BY <3>2 DEF x
  <2>11. 31 + 14 <= 46
    OBVIOUS
  <2> QED BY <2>2, <2>9, <2>10, <2>11 DEF Leads, k
<1>6. CASE lang # "en"
  <2>1. DailySummary(lang, n, a) =
          <<Say("summary_prefix")>> \o number \o what \o amount \o Suffix(lang)
    BY <1>6 DEF DailySummary
  <2>2. Leads(State(0, 0, 0, 0, n), amount, k, 29)
    BY HearAmount, UnderstoodIs
  <2>3. Part(lang, <<Say("summary_prefix")>>, 1)
    BY Worded DEF Word
  <2> HIDE DEF amount, number, what, k
  <2>4. Leads(Silence, number \o what, State(0, 0, 0, 0, n), 14)
    BY <1>2, UnderstoodIs
  <2>5. Leads(Silence, <<Say("summary_prefix")>> \o (number \o what), State(0, 0, 0, 0, n), 1 + 14)
    BY <1>1, <2>4, Then
  <2>6. <<Say("summary_prefix")>> \o number \o what = <<Say("summary_prefix")>> \o (number \o what)
    BY <1>3, <1>4, <2>3 DEF Part
  <2>7. 1 + 14 = 15 /\ 15 + 29 = 44 /\ Leads(k, Suffix(lang), k, 1)
    BY HearSuffix
  <2>8. Leads(Silence, <<Say("summary_prefix")>> \o number \o what \o amount, k, 15 + 29)
    BY <2>2, <2>5, <2>6, <2>7, Then
  <2>9. Leads(Silence, <<Say("summary_prefix")>> \o number \o what \o amount \o Suffix(lang), k, 44 + 1)
    BY <2>8, <2>7, Then
  <2>10. 44 + 1 <= 46
    OBVIOUS
  <2> QED BY <2>1, <2>9, <2>10 DEF Leads, k
<1> QED BY <1>5, <1>6

LEMMA HearHealth ==
  ASSUME NEW lang, NEW battery \in BOOLEAN, NEW n \in 1 .. 100
  PROVE  Leads(Silence, Health(lang, battery, n), Understood(n, 0), 15)
<1> DEFINE of == <<Say(IF ~battery THEN "network_signal"
                       ELSE IF lang = "en" THEN "battery" ELSE "battery_charging")>>
<1>1. Leads(Silence, of, Silence, 1)
  BY AWordAround DEF Around
<1>2. n \in Nat \ {0} /\ Sayable(n)
  BY SMT DEF Sayable, MaxRupees
<1>3. Understood(n, 0) = State(0, 0, 0, 0, n)
  <2>1. Rupees(0) = 0 /\ Paise(0) = 0
    BY DEF Rupees, Paise
  <2> QED BY <2>1, UnderstoodIs
<1>4. Leads(Silence, Number(n) \o <<Say("percent")>>, Understood(n, 0), 14)
  BY <1>2, <1>3, HearNumberOf, UnderstoodIs
<1>5. Health(lang, battery, n) = of \o Number(n) \o <<Say("percent")>>
  BY DEF Health
<1>6. of \o Number(n) \o <<Say("percent")>> = of \o (Number(n) \o <<Say("percent")>>)
  <2>1. Part(lang, of, 1) /\ Part(lang, <<Say("percent")>>, 1)
    BY Worded DEF Word
  <2>2. Part(lang, Number(n), 13)
    BY <1>2, NumberPart
  <2> HIDE DEF of
  <2> QED BY <2>1, <2>2, ConcatAssociative DEF Part
<1> HIDE DEF of
<1>7. Leads(Silence, of \o (Number(n) \o <<Say("percent")>>), Understood(n, 0), 1 + 14)
  BY <1>1, <1>4, Then
<1>8. 1 + 14 = 15
  OBVIOUS
<1> QED BY <1>5, <1>6, <1>7, <1>8

(* The tokenizer's numbers are those of the prompts.                       *)
LEMMA TokensOf100 ==
  ASSUME NEW n \in 1 .. 99
  PROVE  TokensUnder100(n) = Under100(n)
BY DEF TokensUnder100, Under100

LEMMA TokensOfNumber ==
  ASSUME NEW n \in Nat \ {0}, Sayable(n)
  PROVE  TokensOfRupees(n) = Number(n)
<1> DEFINE cr == n \div 10000000
           la == (n % 10000000) \div 100000
           th == (n % 100000) \div 1000
           un == n % 1000
           head == Group(cr, "crore") \o Group(la, "lac") \o Group(th, "thousand")
           last == IF un = 0 THEN <<>> ELSE TokensUnder1000(un)
<1>1. n \in Nat /\ 1 <= n /\ n <= 999999999
  BY SMT DEF Sayable, MaxRupees
<1>2. cr \in 0 .. 99 /\ la \in 0 .. 99 /\ th \in 0 .. 99 /\ un \in 0 .. 999
  BY <1>1, SMT
<1>3. Number(n) = head \o Under1000(un)
  BY <1>1, SMT DEF Number
<1>4. ASSUME NEW m \in 0 .. 99, NEW name
      PROVE  TokenGroup(m, name) = Group(m, name)
  <2>1. CASE m = 0
    BY <2>1 DEF TokenGroup, Group
  <2>2. CASE m # 0
    <3>1. m \in 1 .. 99
      BY <2>2
    <3> QED BY <2>2, <3>1, TokensOf100 DEF TokenGroup, Group
  <2> QED BY <2>1, <2>2
<1>5. TokensOfRupees(n) =
        TokenGroup(cr, "crore") \o TokenGroup(la, "lac") \o TokenGroup(th, "thousand") \o last
  <2>1. n # 0
    BY <1>1
  <2>2. CASE n % 1000 = 0
    BY <2>1, <2>2, SMT DEF TokensOfRupees
  <2>3. CASE n % 1000 # 0
    BY <2>1, <2>3, SMT DEF TokensOfRupees
  <2> HIDE DEF cr, la, th, last
  <2> QED BY <2>2, <2>3
<1>6. TokensOfRupees(n) = head \o last
  <2> HIDE DEF cr, la, th, un
  <2> QED BY <1>2, <1>4, <1>5
<1>7. last = Under1000(un)
  <2> DEFINE hundreds == IF un \div 100 = 0 THEN <<>> ELSE <<Num(un \div 100), Say("hundred")>>
             rest     == un % 100
  <2> HIDE DEF un
  <2>1. un \div 100 \in 0 .. 9 /\ rest \in 0 .. 99 /\ (un = 0 => un \div 100 = 0 /\ rest = 0)
    BY <1>2
  <2>2. Under1000(un) = hundreds \o Under100(rest)
    BY DEF Under1000
  <2>3. TokensUnder1000(un) = hundreds \o (IF rest = 0 THEN <<>> ELSE TokensUnder100(rest))
    BY DEF TokensUnder1000
  <2>4. (IF rest = 0 THEN <<>> ELSE TokensUnder100(rest)) = Under100(rest)
    <3> HIDE DEF rest
    <3>1. CASE rest = 0
      BY <3>1 DEF Under100
    <3>2. CASE rest # 0
      <4>1. rest \in 1 .. 99
        BY <2>1, <3>2
      <4> QED BY <3>2, <4>1, TokensOf100
    <3> QED BY <3>1, <3>2
  <2>5. CASE un = 0
    <3>1. hundreds = <<>> /\ Under100(rest) = <<>>
      BY <2>1, <2>5 DEF Under100
    <3>2. <<>> \o <<>> = <<>>
      OBVIOUS
    <3> QED BY <2>2, <2>5, <3>1, <3>2
  <2>6. CASE un # 0
    BY <2>2, <2>3, <2>4, <2>6
  <2> QED BY <2>5, <2>6
<1> HIDE DEF head, last, un
<1> QED BY <1>3, <1>6, <1>7

LEMMA HearTokens ==
  ASSUME NEW a, Spoken(a)
  PROVE  Leads(Silence, Tokens(a), Understood(0, a), 18)
<1> DEFINE whole == Number(Rupees(a)) \o <<Say("rupees")>>
           more  == IF Paise(a) = 0 THEN <<>> ELSE TokensUnder100(Paise(a)) \o <<Say("paise")>>
           h == State(0, 0, Rupees(a), 0, 0)
           k == Understood(0, a)
<1>1. Leads(Silence, whole, h, 14)
  BY SpokenParts, HearNumberOf, UnderstoodIs
<1>2. k = State(0, 0, Rupees(a), Paise(a), 0)
  BY UnderstoodIs
<1>3. Tokens(a) = whole \o more \o <<Say("only")>>
  BY SpokenParts, TokensOfNumber DEF Tokens
<1>4. Leads(h, more, k, 3)
  <2>1. CASE Paise(a) = 0
    <3>1. more = <<>> /\ h = k
      BY <1>2, <2>1
    <3> HIDE DEF more, h, k
    <3> QED BY <3>1, NoClip
  <2>2. CASE Paise(a) # 0
    <3>1. Paise(a) \in 1 .. 99 /\ Paise(a) \in 0 .. 99 /\ 0 + Paise(a) = Paise(a)
      BY <2>2, SpokenParts
    <3>2. Leads(h, Under100(Paise(a)), State(0 + Paise(a), 0, Rupees(a), 0, 0), 2)
      BY <3>1, HearUnder100
    <3>3. Leads(State(Paise(a), 0, Rupees(a), 0, 0), <<Say("paise")>>, k, 1)
      <4>1. HearClip(State(Paise(a), 0, Rupees(a), 0, 0), Say("paise"))
              = State(0, 0, Rupees(a), 0 + Paise(a), 0)
        BY HearPaise
      <4> QED BY <1>2, <3>1, <4>1, AWord DEF Word
    <3>4. more = Under100(Paise(a)) \o <<Say("paise")>>
      BY <2>2, <3>1, TokensOf100
    <3> HIDE DEF more, h, k
    <3>5. Leads(h, Under100(Paise(a)) \o <<Say("paise")>>, k, 2 + 1)
      BY <3>1, <3>2, <3>3, Then
    <3> QED BY <3>4, <3>5
  <2> QED BY <2>1, <2>2
<1> HIDE DEF whole, more, h, k
<1>5. Leads(k, <<Say("only")>>, k, 1) /\ 14 + 3 = 17 /\ 17 + 1 = 18
  BY AWordAround DEF Around
<1>6. Leads(Silence, whole \o more, k, 14 + 3)
  BY <1>1, <1>4, Then
<1>7. Leads(Silence, whole \o more \o <<Say("only")>>, k, 17 + 1)
  BY <1>5, <1>6, Then
<1> QED BY <1>3, <1>5, <1>7 DEF k

(* What is played for a script is understood as a count and an amount.     *)
HeardAs(lang, s, count, amount) == Heard(Played(lang, s)) = Understood(count, amount)

(* Whatever amount is read from a text, a listener of every language       *)
(* understands it from the clips that are played, with any pack that has   *)
(* the vocabulary; likewise the number of payments and percentages, and    *)
(* the amount as the tokenizer spells it, within its limit                 *)
(* (sb_audio_prompt_logic.c, sb_audio_manifest_find_with_fallback,         *)
(* sb_amount_tokenize_paise).                                              *)
THEOREM AmountsAreHeard == TextSpec => []HeardAsRead
<1>1. SeesInv => HeardAsRead
  <2> SUFFICES ASSUME SeesInv, NEW lang \in Language, NEW n, n = Value(text, Leading(text))
               PROVE  /\ \A a \in Readings : Sayable(Rupees(a)) /\ Rupees(a) > 0 =>
                           /\ HeardAs(lang, Transaction(lang, "other", a), 0, a)
                           /\ n # 0 /\ Leading(text) = Len(text) /\ Sayable(n) =>
                                HeardAs(lang, DailySummary(lang, n, a), n, a)
                           /\ lang = "en" => /\ Heard(Tokens(a)) = Understood(0, a)
                                             /\ Len(Tokens(a)) <= MaxTokens
                      /\ n \in 1 .. 100 =>
                           \A battery \in BOOLEAN : HeardAs(lang, Health(lang, battery, n), n, 0)
    BY DEF HeardAsRead, HeardAs
  <2>1. ASSUME NEW s, NEW m, Part(lang, s, m), NEW count, NEW amount, NEW l,
               Leads(Silence, s, Understood(count, amount), l)
        PROVE  HeardAs(lang, s, count, amount)
    BY <2>1, HeardWhenPlayed DEF Part, HeardAs
  <2>2. n \in Nat
    <3>1. PICK m : Begins(text, m)
      BY DEF SeesInv, IntegerSees
    <3>2. Leading(text) = m /\ m \in Nat /\ \A i \in 1 .. m : text[i] \in Nat
      BY <3>1, BeginsWithLeading, DigitIsNat DEF SeesInv, Begins
    <3> QED BY <3>2, ValueType
  <2>3. ASSUME NEW a \in Readings, Sayable(Rupees(a)), Rupees(a) > 0
        PROVE  /\ HeardAs(lang, Transaction(lang, "other", a), 0, a)
               /\ n # 0 /\ Sayable(n) => HeardAs(lang, DailySummary(lang, n, a), n, a)
               /\ Heard(Tokens(a)) = Understood(0, a)
               /\ Len(Tokens(a)) <= MaxTokens
    <3>1. Spoken(a)
      BY <2>3, ReadingType DEF Spoken, SeesInv
    <3>2. HeardAs(lang, Transaction(lang, "other", a), 0, a)
      <4>1. Part(lang, Transaction(lang, "other", a), 33)
        BY <3>1, TransactionPart DEF Provider
      <4> QED BY <2>1, <3>1, <4>1, HearTransaction
    <3>3. ASSUME n # 0, Sayable(n)
          PROVE  HeardAs(lang, DailySummary(lang, n, a), n, a)
      <4>1. n \in Nat \ {0}
        BY <2>2, <3>3
      <4>2. Part(lang, DailySummary(lang, n, a), 46)
        BY <3>1, <3>3, <4>1, SummaryPart
      <4>3. Leads(Silence, DailySummary(lang, n, a), Understood(n, a), 46)
        BY <3>1, <3>3, <4>1, HearSummary
      <4> QED BY <2>1, <4>2, <4>3
    <3>4. Heard(Tokens(a)) = Understood(0, a) /\ Len(Tokens(a)) <= MaxTokens
      <4>1. Leads(Silence, Tokens(a), Understood(0, a), 18)
        BY <3>1, HearTokens
      <4>2. Len(Tokens(a)) \in Nat /\ Len(Tokens(a)) <= 18
        BY <4>1 DEF Leads
      <4>3. PICK g : Runs(g, Silence, Tokens(a)) /\ g[Len(Tokens(a))] = Understood(0, a)
        BY <4>1 DEF Leads
      <4> QED BY <4>2, <4>3, HeardIsRun DEF MaxTokens
    <3> QED BY <3>2, <3>3, <3>4
  <2>4. ASSUME n \in 1 .. 100, NEW battery \in BOOLEAN
        PROVE  HeardAs(lang, Health(lang, battery, n), n, 0)
    <3>1. Part(lang, Health(lang, battery, n), 15)
      BY <2>4, HealthPart
    <3>2. Leads(Silence, Health(lang, battery, n), Understood(n, 0), 15)
      BY <2>4, HearHealth
    <3> QED BY <2>1, <3>1, <3>2
  <2> QED BY <2>3, <2>4
<1> QED BY <1>1, SeesInvariant, PTL

=============================================================================
