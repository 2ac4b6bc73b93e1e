--------------------------- MODULE MCAudioPlayer ---------------------------
(* The audio player on a small instance: a payment announced by two        *)
(* prompts, its fallback by one of them, a prompt, and the error tune.     *)
EXTENDS AudioPlayer, TLC

CONSTANTS Prefix, Number

MCScript == [amount |-> <<Prefix, Number>>, prompt |-> <<Number>>, common |-> <<Sorry>>]
MCFallback == <<Prefix>>

=============================================================================
