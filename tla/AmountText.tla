----------------------------- MODULE AmountText -----------------------------
(***************************************************************************)
(* How the amount of a payment is read, character by character, by the     *)
(* three readers of the firmware - the integer "amount_paise" and the      *)
(* decimal "amount" of a JSON payload (sb_json.c), and the first token of  *)
(* <amount>#<language>#<provider> (sb_payment_processor.c) - and what is   *)
(* announced for it.  One text is given to all three.                      *)
(***************************************************************************)
EXTENDS Prompts, FiniteSetsExt

CONSTANTS
  Digit,       (* the digits texts are made of                             *)
  Dot,         (* the decimal point                                        *)
  Other,       (* any other character                                      *)
  TextLen,     (* the characters amount_text[] has room for                *)
  U64,         (* one more than the greatest u64, scaled down              *)
  MaxChars     (* bound: length of a text                                  *)

ASSUME TextAssumption ==
  /\ Digit \subseteq 0 .. 9
  /\ Dot \notin Digit /\ Other \notin Digit /\ Dot # Other
  /\ TextLen \in Nat \ {0}
  /\ U64 \in Nat \ {0}
  /\ MaxChars \in Nat
  /\ Pack \in [Language -> SUBSET [kind : STRING, value : Nat]]

(* Each of these clips is in the language's folder or in the English one.  *)
ASSUME PackAssumption ==
  \A lang \in Language : Vocabulary(lang) \subseteq Pack[lang] \cup Pack["en"]

VARIABLES
  text,        (* the characters so far                                    *)
  compat,      (* locals of sb_payment_parse_compat_amount_paise()         *)
  decimal,     (* locals of sb_json_parse_amount_decimal()                 *)
  integer      (* locals of sb_json_get_u64()                              *)

textVars == <<text, compat, decimal, integer>>

Grow(n, digit) == (n * 10 + digit) % U64

(* The last digit of "12.5" is tens of paise.                              *)
InPaise(r) == (r.rupees * 100 + (IF r.decimals = 1 THEN r.paise * 10 ELSE r.paise)) % U64

----------------------------------------------------------------------------
(* The readers, one character at a time *)

(* Variant: a third decimal is ignored, as the other reader does.          *)
CompatReadLenient(c) ==
  IF compat.place = "bad" \/ Len(text) >= TextLen THEN [compat EXCEPT !.place = "bad"]
  ELSE IF c = Dot /\ compat.place = "rupees" THEN [compat EXCEPT !.place = "paise"]
  ELSE IF c \notin Digit THEN [compat EXCEPT !.place = "bad"]
  ELSE IF compat.place = "rupees" THEN [compat EXCEPT !.rupees = Grow(@, c)]
  ELSE IF compat.decimals < 2 THEN [compat EXCEPT !.paise = @ * 10 + c, !.decimals = @ + 1]
  ELSE compat

(* Anything but digits with at most one point and two decimals is refused, *)
(* and so is a token with no room in the buffer.                           *)
CompatRead(c) ==
  IF compat.place = "bad" \/ Len(text) >= TextLen THEN [compat EXCEPT !.place = "bad"]
  ELSE IF c = Dot /\ compat.place = "rupees" THEN [compat EXCEPT !.place = "paise"]
  ELSE IF c \notin Digit THEN [compat EXCEPT !.place = "bad"]
  ELSE IF compat.place = "rupees" THEN [compat EXCEPT !.rupees = Grow(@, c)]
  ELSE IF compat.decimals < 2 THEN [compat EXCEPT !.paise = @ * 10 + c, !.decimals = @ + 1]
  ELSE [compat EXCEPT !.place = "bad"]

(* A text that does not fit is cut, and reading stops where the number     *)
(* does.                                                                   *)
DecimalRead(c) ==
  IF decimal.place = "over" \/ Len(text) >= TextLen THEN decimal
  ELSE IF c = Dot /\ decimal.place = "rupees" THEN [decimal EXCEPT !.place = "paise"]
  ELSE IF c \notin Digit THEN [decimal EXCEPT !.place = "over"]
  ELSE IF decimal.place = "rupees" THEN [decimal EXCEPT !.rupees = Grow(@, c), !.found = TRUE]
  ELSE IF decimal.decimals < 2 THEN [decimal EXCEPT !.paise = @ * 10 + c, !.decimals = @ + 1]
  ELSE [decimal EXCEPT !.place = "over"]

IntegerRead(c) ==
  IF c \in Digit /\ integer.place = "digits"
  THEN [integer EXCEPT !.value = Grow(@, c), !.found = TRUE]
  ELSE [integer EXCEPT !.place = "over"]

TextInit == /\ text = <<>>
            /\ compat = [place |-> "rupees", rupees |-> 0, paise |-> 0, decimals |-> 0]
            /\ decimal = [place |-> "rupees", rupees |-> 0, paise |-> 0, decimals |-> 0,
                          found |-> FALSE]
            /\ integer = [place |-> "digits", value |-> 0, found |-> FALSE]

(* One more character; when all three are through there is nothing to see. *)
Read(c) == /\ Len(text) < MaxChars
           /\ compat.place # "bad" \/ decimal.place # "over" \/ integer.place # "over"
           /\ text' = Append(text, c)
           /\ compat' = CompatRead(c)
           /\ decimal' = DecimalRead(c)
           /\ integer' = IntegerRead(c)

TextNext == \E c \in Digit \cup {Dot, Other} : Read(c)

TextSpec == TextInit /\ [][TextNext]_textVars

----------------------------------------------------------------------------
(* What each makes of the text as it is now; no amount of zero is accepted *)

CompatAccepts == text # <<>> /\ compat.place # "bad" /\ InPaise(compat) > 0

DecimalAccepts == decimal.found /\ InPaise(decimal) > 0

IntegerAccepts == integer.found /\ integer.value > 0

Readings == {a \in {InPaise(compat), InPaise(decimal), integer.value} :
               \/ CompatAccepts /\ a = InPaise(compat)
               \/ DecimalAccepts /\ a = InPaise(decimal)
               \/ IntegerAccepts /\ a = integer.value}

----------------------------------------------------------------------------
(* What is written *)

(* The digits a text begins with, and their value.                         *)
Leading(t) == Max({n \in 0 .. Len(t) : \A i \in 1 .. n : t[i] \in Digit})

Value(t, n) ==
  LET power[k \in 0 .. n] == IF k = 0 THEN 1 ELSE power[k - 1] * 10
      sum[i \in 0 .. n] == IF i = 0 THEN 0 ELSE sum[i - 1] + t[i] * power[n - i]
  IN  sum[n]

DigitAt(t, i) == IF i <= Len(t) /\ t[i] \in Digit THEN t[i] ELSE 0

Cents(t, n) ==
  IF n < Len(t) /\ t[n + 1] = Dot /\ n + 2 <= Len(t) /\ t[n + 2] \in Digit
  THEN 10 * t[n + 2] + DigitAt(t, n + 3)
  ELSE 0

WrittenPaise(t) == ((Value(t, Leading(t)) % U64) * 100 + Cents(t, Leading(t))) % U64

IsPrice(t) == /\ t # <<>>
              /\ \A i \in DOMAIN t : t[i] \in Digit \cup {Dot}
              /\ \A i, j \in DOMAIN t : t[i] = Dot /\ t[j] = Dot => i = j
              /\ \A i \in DOMAIN t : t[i] = Dot => Len(t) - i <= 2

Cut(t) == SubSeq(t, 1, IF Len(t) < TextLen THEN Len(t) ELSE TextLen)

----------------------------------------------------------------------------
(* What is heard *)

Silence == [group |-> 0, total |-> 0, rupees |-> 0, paise |-> 0, count |-> 0]

Counted(h) == h.total + h.group

Scale == [thousand |-> 1000, lac |-> 100000, crore |-> 10000000]

(* A listener after one more clip.                                         *)
HearClip(h, clip) ==
  CASE clip.kind = "number"  -> [h EXCEPT !.group = @ + clip.value]
    [] clip.kind = "hundred" -> [h EXCEPT !.group = @ * 100]
    [] clip.kind \in DOMAIN Scale ->
         [h EXCEPT !.total = @ + h.group * Scale[clip.kind], !.group = 0]
    [] clip.kind \in {"rupees", "ruppes"} ->
         [h EXCEPT !.rupees = Counted(h), !.group = 0, !.total = 0]
    [] clip.kind = "paise" -> [h EXCEPT !.paise = Counted(h), !.group = 0, !.total = 0]
    [] clip.kind \in {"transaction", "transaction_s", "trasnsactions", "percent"} ->
         [h EXCEPT !.count = Counted(h), !.group = 0, !.total = 0]
    [] OTHER -> h

(* What a listener has understood after a script.                          *)
Heard(s) == LET h[n \in 0 .. Len(s)] == IF n = 0 THEN Silence ELSE HearClip(h[n - 1], s[n])
            IN  h[Len(s)]

(* The clips that are played for a script: none in the place of one that   *)
(* is not found.                                                           *)
Played(lang, s) ==
  [i \in DOMAIN s |-> IF Found(lang, s[i]) THEN Resolve(lang, s[i]).clip ELSE Say("silence")]

Understood(count, amount) ==
  [Silence EXCEPT !.rupees = Rupees(amount), !.paise = Paise(amount), !.count = count]

----------------------------------------------------------------------------
(* Properties *)

(* Each reader accepts what it should and gets its amount right: the       *)
(* compatible format a price with at most two decimals that fits its       *)
(* buffer, "amount" the number its text begins with, cut at the buffer's   *)
(* size, "amount_paise" the digits its text begins with; all of it modulo  *)
(* 2^64 (sb_payment_parse_compat_amount_paise, sb_json_get_amount_paise).  *)
ReadAsWritten ==
  /\ CompatAccepts <=> IsPrice(text) /\ Len(text) <= TextLen /\ WrittenPaise(text) > 0
  /\ CompatAccepts => InPaise(compat) = WrittenPaise(text)
  /\ DecimalAccepts <=> Leading(Cut(text)) > 0 /\ WrittenPaise(Cut(text)) > 0
  /\ DecimalAccepts => InPaise(decimal) = WrittenPaise(Cut(text))
  /\ integer.value = Value(text, Leading(text)) % U64

Playable(lang, s) == Len(s) <= MaxItems /\ \A i \in DOMAIN s : Found(lang, s[i])

(* Whatever is read, the listener of every language understands it from    *)
(* the clips the pack really has: rupees, paise, the number of payments    *)
(* and percentages are heard as they are, across every group of digits;    *)
(* but for zero, for which there is no clip (sb_audio_prompt_logic.c,      *)
(* sb_audio_manifest_find_with_fallback, sb_amount_tokenize_paise).        *)
HeardAsRead ==
  \A lang \in Language :
    LET n == Value(text, Leading(text))
        Hears(s, count, amount) == Heard(Played(lang, s)) = Understood(count, amount)
    IN  /\ \A a \in Readings :
             Sayable(Rupees(a)) /\ Rupees(a) > 0 =>
               /\ Hears(Transaction(lang, "other", a), 0, a)
               /\ n # 0 /\ Leading(text) = Len(text) /\ Sayable(n) =>
                    Hears(DailySummary(lang, n, a), n, a)
               /\ lang = "en" => /\ Heard(Tokens(a)) = Understood(0, a)
                                 /\ Len(Tokens(a)) <= MaxTokens
        /\ n \in 1 .. 100 =>
             \A battery \in BOOLEAN : Hears(Health(lang, battery, n), n, 0)

(* What is announced whatever the amount.                                  *)
FixedScripts(lang) == {TransactionFallback(lang, p) : p \in Provider}
                      \cup {<<StatusPrompt[prompt]>> : prompt \in DOMAIN StatusPrompt}
                      \cup {DailySummary(lang, 0, 0)}

(* What may be announced for an amount of a rupee or more.                 *)
AmountScripts(lang, a) == {Transaction(lang, p, a) : p \in Provider}
                          \cup {DailySummary(lang, count, a) : count \in {1, 2, Rupees(a)}}
                          \cup {LastTransaction(a)}

(* Every announcement of at least a rupee or a percent has all its clips   *)
(* in the pack and fits a script, in every language, for every provider    *)
(* and count, and so do the replacement of a payment's and the status      *)
(* prompts (sb_audio_asset_validate_script, sb_audio_script_append_path).  *)
ScriptsArePlayable ==
  \A lang \in Language :
    /\ \A a \in Readings : Sayable(Rupees(a)) /\ Rupees(a) > 0 =>
         \A s \in AmountScripts(lang, a) : Playable(lang, s)
    /\ LET percent == Value(text, Leading(text)) IN
       percent \in 1 .. 100 =>
         \A battery \in BOOLEAN : Playable(lang, Health(lang, battery, percent))
    /\ text = <<>> => \A s \in FixedScripts(lang) : Playable(lang, s)

=============================================================================
