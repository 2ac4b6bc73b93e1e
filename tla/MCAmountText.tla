---------------------------- MODULE MCAmountText ----------------------------
(* The readers on short texts of few digits, with the pack the repository  *)
(* ships (Vi_mp3.zip): what each language's folder lacks of what all have. *)
EXTENDS AmountText, TLC

MCNumbers == {Num(n) : n \in 1 .. 99}

MCNames == {"and", "battery_charging", "battery_low", "crore", "device_unregistered",
            "googlepay", "hundred", "internet", "lac", "last_transaction_prefix",
            "network_signal", "no_SIM", "no_internet", "no_mqtt", "no_transactions", "paise",
            "paytm", "percent", "phonepe", "prefix", "provider", "summary_prefix", "thankyou",
            "thousand"}

MCOwn == [lang \in Language |->
            CASE lang = "en" -> {"rupees", "is", "battery", "transaction", "transaction_s"}
              [] lang = "mr" -> {"rupees", "is", "suffix", "transaction", "transaction_s"}
              [] lang \in {"hi", "gu"} -> {"rupees", "is", "suffix", "transaction_s"}
              [] lang = "bn" -> {"ruppes", "is", "suffix"}
              [] lang = "kn" -> {"rupees", "is", "suffix", "trasnsactions"}
              [] lang \in {"ml", "pa"} -> {"rupees", "is", "suffix"}
              [] lang \in {"ta", "te"} -> {"rupees", "suffix"}]

MCPack == [lang \in Language |-> MCNumbers \cup {Say(name) : name \in MCNames \cup MCOwn[lang]}]

=============================================================================
