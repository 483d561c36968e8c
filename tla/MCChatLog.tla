----------------------------- MODULE MCChatLog ------------------------------
(***************************************************************************)
(* Small instances of ChatLog: the chats of one trial, or of a trial and   *)
(* the humor that has its number.                                          *)
(***************************************************************************)
EXTENDS ChatLog

CONSTANTS a1, a2, s1, s2, r1

One      == {"trials"}
OneOrder == <<"trials">>
Two      == {"trials", "humors"}
TwoOrder == <<"trials", "humors">>
=============================================================================
