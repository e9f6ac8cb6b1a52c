--------------------------- MODULE MCChannelWire ---------------------------
(***************************************************************************)
(* Instances of ChannelWire for TLC.                                       *)
(***************************************************************************)
EXTENDS ChannelWire

CONSTANTS a, d

\* A bot's updates do not begin at one, as they do not at Telegram.
MCBase == [x \in TelegramBots |-> 10]
=============================================================================
