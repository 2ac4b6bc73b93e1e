------------------------------ MODULE Prompts ------------------------------
(***************************************************************************)
(* What the soundbox says: an amount in words and the scripts around it    *)
(* (sb_audio_prompt_logic.c), the tokenizer beside it that nothing calls   *)
(* (sb_amount_tokenizer.c), and the search for a clip in the pack on the   *)
(* external NOR (sb_audio_asset_manifest.c).                               *)
(***************************************************************************)
EXTENDS Naturals, Sequences

CONSTANT Pack  (* the clips the manifest names, for each language's folder *)

Language == {"en", "hi", "mr", "gu", "bn", "kn", "ml", "ta", "te", "pa"}

Provider == {"other", "paytm", "phonepe", "gpay", "bhim"}

MaxRupees == 999999999     (* SB_AMOUNT_MAX_RUPEES *)
MaxItems  == 72            (* SB_AUDIO_SCRIPT_MAX_ITEMS *)
MaxTokens == 48            (* SB_AMOUNT_MAX_TOKENS *)

(* An MP3 file of a language: a number, or one that says what it is named. *)
Num(n)    == [kind |-> "number", value |-> n]
Say(name) == [kind |-> name, value |-> 0]

Rupees(amount) == amount \div 100
Paise(amount)  == amount % 100

----------------------------------------------------------------------------
(* Numbers: sb_logic_append_number() and what it calls *)

Under100(n) ==
  IF n = 0 THEN <<>>
  ELSE IF n <= 20 THEN <<Num(n)>>
  ELSE <<Num((n \div 10) * 10)>> \o (IF n % 10 = 0 THEN <<>> ELSE <<Num(n % 10)>>)

Under1000(n) ==
  (IF n \div 100 = 0 THEN <<>> ELSE <<Num(n \div 100), Say("hundred")>>) \o Under100(n % 100)

(* So many crore, lakh or thousand; none of them is not mentioned.         *)
Group(n, name) == IF n = 0 THEN <<>> ELSE Under100(n) \o <<Say(name)>>

(* SB_STATUS_UNSUPPORTED otherwise.                                        *)
Sayable(n) == n <= MaxRupees

(* Variant: the lakhs are not taken off the thousands.                     *)
NumberOverlaps(n) ==
  IF n = 0 THEN <<Num(0)>>
  ELSE Group(n \div 10000000, "crore") \o Group((n % 10000000) \div 100000, "lac")
       \o Group((n % 1000000) \div 1000, "thousand") \o Under1000(n % 1000)

Number(n) ==
  IF n = 0 THEN <<Num(0)>>
  ELSE Group(n \div 10000000, "crore") \o Group((n % 10000000) \div 100000, "lac")
       \o Group((n % 100000) \div 1000, "thousand") \o Under1000(n % 1000)

----------------------------------------------------------------------------
(* Scripts: sb_audio_prompt_logic_build_...() *)

RupeesAndPaise(amount) ==
  Number(Rupees(amount)) \o <<Say("rupees")>>
  \o (IF Paise(amount) = 0 THEN <<>>
      ELSE <<Say("and")>> \o Number(Paise(amount)) \o <<Say("paise")>>)

(* sb_audio_asset_build_provider_path().                                   *)
ProviderClip(p) == CASE p = "gpay" -> Say("googlepay")
                     [] p \in {"paytm", "phonepe"} -> Say(p)
                     [] OTHER -> Say("provider")

(* sb_lang_suffix_used().                                                  *)
Suffix(lang) == IF lang \in {"en", "kn", "ml", "ta", "te"} THEN <<>> ELSE <<Say("suffix")>>

Transaction(lang, p, amount) ==
  <<Say("prefix")>>
  \o (IF lang = "en"
      THEN RupeesAndPaise(amount) \o <<ProviderClip(p)>>
      ELSE <<ProviderClip(p)>> \o RupeesAndPaise(amount) \o Suffix(lang))
  \o <<Say("thankyou")>>

TransactionFallback(lang, p) == <<Say("prefix"), ProviderClip(p), Say("thankyou")>>

LastTransaction(amount) == <<Say("last_transaction_prefix")>> \o RupeesAndPaise(amount)

Transactions(count) == Say(IF count = 1 THEN "transaction" ELSE "transaction_s")

DailySummary(lang, count, total) ==
  IF count = 0 THEN <<Say("no_transactions")>>
  ELSE IF lang = "en"
  THEN <<Say("summary_prefix"), Say("is")>> \o RupeesAndPaise(total)
       \o Number(count) \o <<Transactions(count)>>
  ELSE <<Say("summary_prefix")>> \o Number(count) \o <<Transactions(count)>>
       \o RupeesAndPaise(total) \o Suffix(lang)

(* A battery or a signal in percent.                                       *)
Health(lang, battery, percent) ==
  <<Say(IF ~battery THEN "network_signal"
        ELSE IF lang = "en" THEN "battery" ELSE "battery_charging")>>
  \o Number(percent) \o <<Say("percent")>>

(* sb_audio_script_build_status(), for the prompts in the pack.            *)
StatusPrompt == [ready       |-> Say("internet"),    setup       |-> Say("device_unregistered"),
                 no_sim      |-> Say("no_SIM"),      no_network  |-> Say("no_internet"),
                 no_internet |-> Say("no_internet"), no_mqtt     |-> Say("no_mqtt"),
                 battery_low |-> Say("battery_low"), payment_received |-> Say("no_transactions")]

----------------------------------------------------------------------------
(* sb_amount_tokenize_paise() *)

TokensUnder100(n) ==
  IF n <= 20 THEN <<Num(n)>>
  ELSE <<Num((n \div 10) * 10)>> \o (IF n % 10 = 0 THEN <<>> ELSE <<Num(n % 10)>>)

TokensUnder1000(n) ==
  (IF n \div 100 = 0 THEN <<>> ELSE <<Num(n \div 100), Say("hundred")>>)
  \o (IF n % 100 = 0 THEN <<>> ELSE TokensUnder100(n % 100))

TokenGroup(n, name) == IF n = 0 THEN <<>> ELSE TokensUnder100(n) \o <<Say(name)>>

TokensOfRupees(n) ==
  IF n = 0 THEN <<Num(0)>>
  ELSE TokenGroup(n \div 10000000, "crore") \o TokenGroup((n % 10000000) \div 100000, "lac")
       \o TokenGroup((n % 100000) \div 1000, "thousand")
       \o (IF n % 1000 = 0 THEN <<>> ELSE TokensUnder1000(n % 1000))

Tokens(amount) ==
  TokensOfRupees(Rupees(amount)) \o <<Say("rupees")>>
  \o (IF Paise(amount) = 0 THEN <<>> ELSE TokensUnder100(Paise(amount)) \o <<Say("paise")>>)
  \o <<Say("only")>>

----------------------------------------------------------------------------
(* The pack: sb_audio_manifest_find_with_fallback() *)

(* The other spellings that are tried, in this order.                      *)
Spellings(name) == IF name = "transaction" THEN <<"transaction_s", "trasnsactions">>
                   ELSE IF name = "transaction_s" THEN <<"transaction", "trasnsactions">>
                   ELSE IF name = "rupees" THEN <<"ruppes">>
                   ELSE <<>>

(* Variant: the English folder is not tried.                               *)
CandidatesOfFolder(lang, clip) ==
  LET others == Spellings(clip.kind) IN
  <<[lang |-> lang, clip |-> clip]>>
  \o [i \in DOMAIN others |-> [lang |-> lang, clip |-> Say(others[i])]]

(* As it is named, as it may be spelled, and as it is named in English.    *)
Candidates(lang, clip) ==
  LET others == Spellings(clip.kind) IN
  <<[lang |-> lang, clip |-> clip]>>
  \o [i \in DOMAIN others |-> [lang |-> lang, clip |-> Say(others[i])]]
  \o <<[lang |-> "en", clip |-> clip]>>

InPack(c) == c.clip \in Pack[c.lang]

Found(lang, clip) ==
  LET cs == Candidates(lang, clip) IN \E i \in DOMAIN cs : InPack(cs[i])

(* What announcements are made of, but for zero.                           *)
Word == {"prefix", "provider", "paytm", "phonepe", "googlepay", "thankyou", "rupees", "and",
         "paise", "hundred", "thousand", "lac", "crore", "last_transaction_prefix",
         "summary_prefix", "is", "transaction", "transaction_s", "no_transactions", "percent",
         "battery", "battery_charging", "battery_low", "network_signal", "internet",
         "device_unregistered", "no_SIM", "no_internet", "no_mqtt"}

Vocabulary(lang) == {Num(n) : n \in 1 .. 20 \cup {30, 40, 50, 60, 70, 80, 90}}
                    \cup {Say(name) : name \in Word}
                    \cup {Suffix(lang)[i] : i \in DOMAIN Suffix(lang)}

(* The first candidate the manifest names.                                 *)
Resolve(lang, clip) ==
  LET cs == Candidates(lang, clip) IN
  cs[CHOOSE i \in DOMAIN cs : InPack(cs[i]) /\ \A j \in 1 .. i - 1 : ~InPack(cs[j])]

=============================================================================
