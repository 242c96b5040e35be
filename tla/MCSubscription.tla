---------------------------- MODULE MCSubscription ----------------------------
(***************************************************************************)
(* An instance of ProtoSubscription: three publications, of which the last *)
(* carries two items.                                                      *)
(***************************************************************************)
EXTENDS ProtoSubscription

ContentSeq == << <<1>>, <<2>>, <<3, 4>> >>
=============================================================================
