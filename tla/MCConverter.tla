---------------------------- MODULE MCConverter ----------------------------
(* Every class that is converted, and pairs of some of them. *)
EXTENDS Converter

MCClasses == Converted
\* Entries of these lists are dictionaries (Items).
MCItems == {"ServiceRedirectPolicy", "VmmInjectedService"}
MCTwins == Converted \ (MCItems \cup SystemClasses)
=============================================================================
